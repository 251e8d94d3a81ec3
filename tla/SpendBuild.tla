----------------------------- MODULE SpendBuild -----------------------------
(***************************************************************************)
(* What the engine's builders make of a request: coin selection            *)
(* (engine::selection), sends (engine::build), multi-sends, combine and    *)
(* split (engine::build_extended) and tips (engine::build_tips).           *)
(*                                                                         *)
(* A wallet w is [xch : coins, cats : a sequence of [asset, coin],         *)
(* change : puzzle hash].  A builder yields the set of its possible        *)
(* results: {} is an error, an UnsignedSpend is the one element otherwise. *)
(* Sums the code takes with a plain u64 sum() are taken modulo 2^64, as in *)
(* a release build.                                                        *)
(***************************************************************************)
EXTENDS Spends

CONSTANTS
    CoinCap,         \* SdkSpendBuilder::coin_cap
    EngineKeys,      \* the keys SpendInputs::synthetic_key knows
    EngineNetwork    \* the network agg_sig_constants names

ASSUME CapAssumption == CoinCap \in Nat

Smaller(a, b) == IF a < b THEN a ELSE b
KeyKnown(ph)  == \E k \in EngineKeys : ph = P2(k)
KeysKnown(coins) == \A i \in DOMAIN coins : KeyKnown(PuzzleHashOf(coins[i]))

-----------------------------------------------------------------------------
(* Coin selection.                                                         *)

(* ordered_high_value_first: the ascending coin ids that break ties are    *)
(* one fixed order, here the one CHOOSE fixes.                             *)
HighValueFirst(coins) ==
    CHOOSE s \in SetToSeqs(coins) :
        \A i, j \in DOMAIN s : i < j => AmountOf(s[i]) >= AmountOf(s[j])

U64Sum(s) == U64(SumOver(AmountOf, s))
Largest(coins, n) == LET s == HighValueFirst(coins) IN SubSeq(s, 1, Smaller(n, Len(s)))

(* Mutant: stops only when the target is passed.                           *)
Reaching_Past(s, target) ==
    LET enough == {n \in 0..Len(s) : U64Sum(SubSeq(s, 1, n)) > target}
    IN  SubSeq(s, 1, IF enough = {} THEN Len(s) ELSE Min(enough))

(* The shortest prefix that reaches the target, all of it if none does.    *)
Reaching(s, target) ==
    LET enough == {n \in 0..Len(s) : U64Sum(SubSeq(s, 1, n)) >= target}
    IN  SubSeq(s, 1, IF enough = {} THEN Len(s) ELSE Min(enough))

SelectForSpend(coins, target, cap) ==
    IF U64(TotalOf(coins)) < target THEN [kind |-> "insufficient_funds"]
    ELSE IF U64Sum(Largest(coins, cap)) < target THEN [kind |-> "needs_consolidation"]
    ELSE [kind |-> "selected", coins |-> Reaching(HighValueFirst(coins), target)]

SelectForConsolidation(coins, cap) ==
    IF Cardinality(coins) < 2 THEN {} ELSE {Largest(coins, IF cap < 2 THEN 2 ELSE cap)}

(* Mutant: coins of equal amount come in any order.                        *)
SelectOrFail_AnyTie(coins, target, cap) ==
    IF SelectForSpend(coins, target, cap).kind # "selected" THEN {}
    ELSE {Reaching(s, target) : s \in {o \in SetToSeqs(coins) :
            \A i, j \in DOMAIN o : i < j => AmountOf(o[i]) >= AmountOf(o[j])}}

SelectOrFail(coins, target, cap) ==
    LET s == SelectForSpend(coins, target, cap)
    IN  IF s.kind = "selected" THEN {s.coins} ELSE {}

-----------------------------------------------------------------------------
(* The pieces of a spend.                                                  *)

RequiredSignatures(spends) ==
    FlattenSeq([i \in DOMAIN spends |->
        LET sigs == Where(Run(spends[i]), LAMBDA c : c.op = "agg_sig_me")
        IN  [j \in DOMAIN sigs |-> [key |-> sigs[j].key, message |-> sigs[j].message,
                                    coin |-> spends[i].coin, network |-> EngineNetwork]]])

UnsignedSpend(spends, outputs, fee) ==
    [spends |-> spends, outputs |-> outputs, fee |-> fee, melted |-> <<>>,
     nfts |-> <<>>, required |-> RequiredSignatures(spends)]

SpendOutput(ph, amount, asset) == [ph |-> ph, amount |-> amount, asset |-> asset]

(* The change output and the reserved fee are there only when not zero.    *)
Change(ph, amount) == IF amount > 0 THEN <<CreateCoin(ph, amount)>> ELSE <<>>
Fee(fee)           == IF fee > 0 THEN <<ReserveFee(fee)>> ELSE <<>>
PayLegs(legs)      == [i \in DOMAIN legs |-> CreateCoin(legs[i].to, legs[i].amount)]
LegOutputs(legs, asset) ==
    [i \in DOMAIN legs |-> SpendOutput(legs[i].to, legs[i].amount, asset)]

(* spend_standard for the lead coin, link_supporting_coins for the others: *)
(* they carry nothing but the tie to the lead.                             *)
Linked(coins, conds) ==
    [i \in DOMAIN coins |->
        StandardSpend(coins[i], IF i = 1 THEN conds ELSE <<ConcurrentSpend(coins[1])>>)]

(* add_xch_fee                                                             *)
FeeSpends(w, fee, lead) ==
    IF fee = 0 THEN {<<>>}
    ELSE {Linked(s, <<ReserveFee(fee), ConcurrentSpend(lead)>>
                    \o Change(w.change, U64Sum(s) - fee))
            : s \in {t \in SelectOrFail(w.xch, fee, CoinCap) : KeysKnown(t)}}

CatsOf(w, asset) == LET cs == Where(w.cats, LAMBDA c : c.asset = asset)
                    IN  [i \in DOMAIN cs |-> cs[i].coin]

(* The lead of a CAT ring pays, the rest only melt into it.                *)
CatRing(asset, coins, conds) ==
    [i \in DOMAIN coins |-> CatSpend(asset, coins[i], IF i = 1 THEN conds ELSE <<>>)]

(* total_of, and what is left of coins.                                    *)
Payout(legs) == SumOver(LAMBDA leg : leg.amount, legs)
PaidFrom(w, coins, legs) == PayLegs(legs) \o Change(w.change, U64Sum(coins) - Payout(legs))

(* build_cat_inner_spends is cat_ring_paying with one leg.                 *)
CatInnerSpends(w, asset, coins, leg)  == CatRing(asset, coins, PaidFrom(w, coins, <<leg>>))
CatRingPaying(w, asset, coins, legs) == CatRing(asset, coins, PaidFrom(w, coins, legs))

(* Mutant: the created coins are not compared.                             *)
Distinct_Unchecked(conds) == TRUE

(* ensure_distinct_created_coins                                           *)
Distinct(conds) ==
    LET cs == Creates(conds) IN \A i, j \in DOMAIN cs : cs[i] = cs[j] => i = j

-----------------------------------------------------------------------------
(* Sends.  A leg is [to, amount].                                          *)

(* checked_target                                                          *)
Payable(target) == 0 < target /\ target <= Max64

BuildSendXch(w, leg, fee) ==
    LET target == leg.amount + fee
    IN  {UnsignedSpend(Linked(s, PayLegs(<<leg>>)
                                 \o Change(w.change, U64(U64Sum(s) - target)) \o Fee(fee)),
                       LegOutputs(<<leg>>, XCH), fee)
           : s \in {t \in SelectOrFail(w.xch, target, CoinCap) : Payable(target) /\ KeysKnown(t)}}

BuildSendCat(w, asset, leg, fee) ==
    LET cats  == CatsOf(w, asset)
        total == U64Sum(cats)
    IN  IF cats = <<>> THEN {} ELSE
        {UnsignedSpend(CatInnerSpends(w, asset, cats, leg) \o fees, LegOutputs(<<leg>>, asset), fee)
           : fees \in {f \in FeeSpends(w, fee, cats[1]) :
                          leg.amount > 0 /\ total >= leg.amount /\ KeysKnown(cats)}}

(* resolve_legs                                                            *)
LegsResolve(legs) == legs # <<>> /\ \A i \in DOMAIN legs : legs[i].amount > 0

BuildMultiSendXch(w, legs, fee) ==
    LET target == Payout(legs) + fee
        created(s) == PayLegs(legs) \o Change(w.change, U64(U64Sum(s) - target))
    IN  {UnsignedSpend(Linked(s, created(s) \o Fee(fee)), LegOutputs(legs, XCH), fee)
           : s \in {t \in SelectOrFail(w.xch, target, CoinCap) :
                       /\ LegsResolve(legs) /\ target <= Max64
                       /\ Distinct(created(t)) /\ KeysKnown(t)}}

BuildMultiSendCat(w, asset, legs, fee) ==
    LET cats    == CatsOf(w, asset)
        total   == U64Sum(cats)
    IN  IF cats = <<>> THEN {} ELSE
        {UnsignedSpend(CatRingPaying(w, asset, cats, legs) \o fees, LegOutputs(legs, asset), fee)
           : fees \in {f \in FeeSpends(w, fee, cats[1]) :
                          /\ LegsResolve(legs) /\ Payout(legs) <= Max64
                          /\ total >= Payout(legs)
                          /\ Distinct(PaidFrom(w, cats, legs)) /\ KeysKnown(cats)}}

-----------------------------------------------------------------------------
(* Combine and split pay the wallet itself: no output to review            *)
(* (finish_self_directed).                                                 *)
SelfDirected(spends, fee) == UnsignedSpend(spends, <<>>, fee)

BuildCombineXch(w, fee) ==
    {SelfDirected(Linked(s, Change(w.change, U64Sum(s) - fee) \o Fee(fee)), fee)
       : s \in {t \in SelectForConsolidation(w.xch, CoinCap) : U64Sum(t) > fee /\ KeysKnown(t)}}

(* staggered_amounts: base, base + 1, ..., the remainder on the last.      *)
StaggeredAmounts(divisible, parts) ==
    LET stagger == (parts * (parts - 1)) \div 2
        base    == (divisible - stagger) \div parts
        rest    == (divisible - stagger) % parts
    IN  IF divisible < parts + stagger THEN {}
        ELSE {[i \in 1..parts |-> base + (i - 1) + (IF i = parts THEN rest ELSE 0)]}

LargestSpendable(coins) == Largest(coins, 1)

BuildSplitXch(w, parts, fee) ==
    LET coins == LargestSpendable(w.xch)
        pays(amounts) == [i \in DOMAIN amounts |-> CreateCoin(w.change, amounts[i])]
    IN  IF parts < 2 \/ coins = <<>> \/ ~KeysKnown(coins) \/ AmountOf(coins[1]) < fee THEN {}
        ELSE {SelfDirected(<<StandardSpend(coins[1], pays(amounts) \o Fee(fee))>>, fee)
                : amounts \in {a \in StaggeredAmounts(AmountOf(coins[1]) - fee, parts) :
                                  Distinct(pays(a))}}

-----------------------------------------------------------------------------
(* Tips.  dig-tips pays from the coins of one key, largest first and at    *)
(* most CoinCap of them (external).                                        *)

TotalAt(cats, ph) == U64Sum(Where(cats, LAMBDA c : PuzzleHashOf(c) = ph))

(* largest_single_key_group: the first of the groups with the largest sum  *)
LargestSingleKeyGroup(cats) ==
    LET known == {i \in DOMAIN cats : KeyKnown(PuzzleHashOf(cats[i]))}
        best  == {i \in known : \A j \in known : TotalAt(cats, PuzzleHashOf(cats[i]))
                                                   >= TotalAt(cats, PuzzleHashOf(cats[j]))}
    IN  IF known = {} THEN {}
        ELSE {ToSet(Where(cats, LAMBDA c : PuzzleHashOf(c) = PuzzleHashOf(cats[Min(best)])))}

(* resolve_tip_inputs, finish_tip: no fee of its own.                      *)
TipInputs(w, asset) == LargestSingleKeyGroup(CatsOf(w, asset))
FinishTip(asset, spends, leg) == UnsignedSpend(spends, LegOutputs(<<leg>>, asset), 0)

BuildTip(w, asset, leg) ==
    {FinishTip(asset, CatRing(asset, s, PaidFrom(w, s, <<leg>>)), leg)
       : s \in UNION {SelectOrFail(g, leg.amount, CoinCap)
                        : g \in {h \in TipInputs(w, asset) : leg.amount > 0}}}

(* decide_auto_tip of dig-tips (external)                                  *)
DecideAutoTip(policy, sent, today) ==
    IF ~policy.enabled THEN "disabled"
    ELSE IF policy.manual THEN "manual_not_approved"
    ELSE IF sent < policy.threshold THEN "below_threshold"
    ELSE IF today.tips >= policy.maxTips THEN "frequency_cap"
    ELSE IF today.amount + policy.leg.amount > policy.maxAmount THEN "amount_cap"
    ELSE "tip"

(* build_auto_tip decides before it looks at the funds.                    *)
BuildAutoTip(w, policy, sent, today) ==
    IF DecideAutoTip(policy, sent, today) # "tip" THEN {}
    ELSE BuildTip(w, policy.asset, policy.leg)
=============================================================================
