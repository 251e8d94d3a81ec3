---------------------------- MODULE SpendPipeline ----------------------------
(***************************************************************************)
(* A spend from the request to the block: the engine builds it over the    *)
(* coins it was last told of, the gate reviews and signs it, the           *)
(* broadcaster hands it to a mempool (engine::broadcast), a block takes it *)
(* in or not.  The caller may submit a signed bundle again, or have the    *)
(* request built again, when an answer is lost on the way.                 *)
(***************************************************************************)
EXTENDS SpendGate, AssetBuild

CONSTANTS
    MaxSubmits,   \* bound on the submissions of one request
    MaxRounds     \* bound on the requests

ASSUME BoundsAssumption == MaxSubmits \in Nat /\ MaxRounds \in Nat

VARIABLES
    request,    \* what the client asked for, NoRequest when nothing is open
    wallet,     \* what SpendInputs answers: [xch, cats, change]
    chain,      \* the unspent coins, each [asset, coin]
    mempool,    \* the bundles the network holds
    submits,    \* submissions of the open request
    confirmed,  \* blocks that took in a bundle of the open request
    round       \* requests so far

flowVars     == <<request, wallet, chain, mempool, submits, confirmed, round>>
pipelineVars == <<gateVars, flowVars>>

NoRequest == [kind |-> "none"]

-----------------------------------------------------------------------------
(* The builders, by the request's method.                                  *)

Built(r, w) ==
    CASE r.kind = "send_xch"        -> BuildSendXch(w, r.leg, r.fee)
      [] r.kind = "send_cat"        -> BuildSendCat(w, r.asset, r.leg, r.fee)
      [] r.kind = "multi_send_xch"  -> BuildMultiSendXch(w, r.legs, r.fee)
      [] r.kind = "multi_send_cat"  -> BuildMultiSendCat(w, r.asset, r.legs, r.fee)
      [] r.kind = "combine"         -> BuildCombineXch(w, r.fee)
      [] r.kind = "split"           -> BuildSplitXch(w, r.parts, r.fee)
      [] r.kind = "tip"             -> BuildTip(w, r.asset, r.leg)
      [] r.kind = "auto_tip"        -> BuildAutoTip(w, r.policy, r.sent, r.today)
      [] r.kind = "make"            -> BuildMake(w, r.offered, r.requested, r.fee)
      [] r.kind = "take"            -> BuildTake(w, r.offer, r.fee)
      [] r.kind = "cancel"          -> BuildCancel(w, r.offer, r.fee)
      [] r.kind = "mint_option"     -> BuildMintOption(w, r.underlying, r.owner, r.fee)
      [] r.kind = "transfer_option" -> BuildTransferOption(w, r.handle, r.on, r.to, r.fee)
      [] r.kind = "exercise_option" -> BuildExerciseOption(w, r.handle, r.on, r.fee)

(* What the fields of a request may hold: amounts and fees are numbers, and *)
(* an asset is a CAT's.                                                    *)
Kinds == {"send_xch", "send_cat", "multi_send_xch", "multi_send_cat", "combine", "split",
          "tip", "auto_tip", "make", "take", "cancel",
          "mint_option", "transfer_option", "exercise_option"}
LegsOK(legs) == IsSeq(legs) /\ \A i \in DOMAIN legs : legs[i].amount \in Nat
SideOK(side) ==
    /\ side.xch \in Nat /\ IsSeq(side.cats)
    /\ \A i \in DOMAIN side.cats : side.cats[i].asset \in Assets /\ side.cats[i].amount \in Nat
OfferOK(o) ==
    /\ IsSeq(o.spends) /\ \A i \in DOMAIN o.spends : IsCoin(o.spends[i].coin)
    /\ \A i, j \in DOMAIN o.spends : o.spends[i].coin = o.spends[j].coin => i = j
    /\ IsSeq(o.coins)
    /\ \A i \in DOMAIN o.coins : o.coins[i].asset \in Assets \cup {XCH} /\ IsCoin(o.coins[i].coin)
    /\ SideOK(o.requested) /\ NonZero(o.requested)
SendOK(r) ==
    /\ r.kind \in {"send_xch", "send_cat"} => r.leg.amount \in Nat
    /\ r.kind \in {"multi_send_xch", "multi_send_cat"} => LegsOK(r.legs)
    /\ r.kind \in {"send_cat", "multi_send_cat"} => r.asset \in Assets
    /\ r.kind = "split" => r.parts \in Nat
TipOK(r) ==
    /\ r.kind = "tip" => r.asset \in Assets /\ r.leg.amount \in Nat
    /\ r.kind = "auto_tip" => r.policy.asset \in Assets /\ r.policy.leg.amount \in Nat
OptionOK(r) ==
    /\ r.kind = "mint_option" => r.underlying \in Nat
    /\ r.kind \in {"transfer_option", "exercise_option"} =>
          /\ IsCoin(r.on.coin) /\ PuzzleHashOf(r.on.coin) = SingletonOf(r.on.owner)
          /\ IsSeq(r.on.launcher)
    /\ r.kind = "exercise_option" => r.handle.strike \in Nat
RequestOK(r) ==
    /\ r.kind \in Kinds
    /\ r.kind \notin {"tip", "auto_tip"} => r.fee \in Nat
    /\ SendOK(r) /\ TipOK(r) /\ OptionOK(r)
    /\ r.kind = "make" => SideOK(r.offered)
    /\ r.kind \in {"take", "cancel"} => OfferOK(r.offer)

(* Half of an exchange: it needs the other side's bundle before it can be  *)
(* submitted.                                                              *)
Halves == {"make", "take"}

-----------------------------------------------------------------------------
(* What the network asks of a bundle (external).                           *)

Unspent(asset, coin) == [asset |-> asset, coin |-> coin]
Spent(spends)   == {Unspent(spends[i].asset, spends[i].coin) : i \in DOMAIN spends}
CreatedBy(s)    == [i \in DOMAIN Creates(Run(s)) |->
                      Unspent(s.asset, Coin(s.coin, Creates(Run(s))[i].ph,
                                            Creates(Run(s))[i].amount))]
Created(spends) == FlattenSeq([i \in DOMAIN spends |-> CreatedBy(spends[i])])

(* Everything but the presence of its inputs: each coin is created once,   *)
(* what is asserted happens, and the fees are there.                       *)
Consistent(spends) ==
    LET coins == {spends[i].coin : i \in DOMAIN spends}
        made  == Created(spends)
        conds == UNION {ToSet(Run(spends[i])) : i \in DOMAIN spends}
        announced == UNION {{<<spends[i].coin, c.what>> :
                               c \in {d \in ToSet(Run(spends[i])) : d.op = "create_coin_ann"}}
                            : i \in DOMAIN spends}
        total(asset, s) == SumOver(LAMBDA x : IF x.asset = asset THEN AmountOf(x.coin) ELSE 0, s)
        fees == SumOver(LAMBDA s : Reserved(Run(s)), spends)
        paid == [i \in DOMAIN spends |-> Unspent(spends[i].asset, spends[i].coin)]
    IN  /\ Cardinality(coins) = Len(spends)
        /\ \A i, j \in DOMAIN made : made[i] = made[j] => i = j
        /\ \A c \in conds :
              /\ c.op = "concurrent_spend"  => c.coin \in coins
              /\ c.op = "concurrent_puzzle" => \E d \in coins : PuzzleHashOf(d) = c.ph
              /\ c.op = "assert_coin_ann"   => <<c.coin, c.what>> \in announced
              /\ c.op # "assert_puzzle_ann"
        /\ total(XCH, paid) >= total(XCH, made) + fees
        /\ \A a \in Assets : total(a, paid) = total(a, made)

Present(spends, coins) == Spent(spends) \ ToSet(Created(spends)) \subseteq coins
Conflicts(a, b)        == Spent(a) \cap Spent(b) # {}

(* The coins a chain may start with: no unspent coin descends from another *)
(* one, for an ancestor is a coin that was spent.                          *)
ChainOK(coins) ==
    /\ IsFiniteSet(coins)
    /\ \A u \in coins : /\ u = Unspent(u.asset, u.coin)
                        /\ u.asset \in Assets \cup {XCH} /\ IsCoin(u.coin)
    /\ \A u, v \in coins : IsPrefix(u.coin, v.coin) => u = v

-----------------------------------------------------------------------------
(* The caller and the engine.                                              *)

(* The request is over: what the network still holds is an earlier one's.  *)
Over == request' = NoRequest /\ mempool' = {[b EXCEPT !.open = FALSE] : b \in mempool}

(* What SpendInputs answers after a synchronisation: the coins whose       *)
(* puzzle hash it has a key for.                                           *)
Holdings(coins, change) ==
    LET mine == {u \in coins : KeyKnown(PuzzleHashOf(u.coin))}
    IN  [xch    |-> {u.coin : u \in {v \in mine : v.asset = XCH}},
         cats   |-> SetToSeq({v \in mine : v.asset # XCH}),
         change |-> change]

Ask(r) ==
    /\ phase = "idle" /\ request = NoRequest
    /\ round < MaxRounds
    /\ request' = r /\ submits' = 0 /\ confirmed' = 0 /\ round' = round + 1
    /\ UNCHANGED <<gateVars, wallet, chain, mempool>>

Build ==
    /\ phase = "idle" /\ request # NoRequest /\ submits < MaxSubmits
    /\ \E u \in Built(request, wallet) : Receive(u)
    /\ UNCHANGED flowVars

BuildFails ==
    /\ phase = "idle" /\ request # NoRequest /\ submits < MaxSubmits
    /\ Built(request, wallet) = {}
    /\ Over
    /\ UNCHANGED <<gateVars, wallet, chain, submits, confirmed, round>>

(* The wallet learns what became of the request, which is then over.       *)
Sync ==
    /\ phase = "idle" /\ request # NoRequest /\ submits > 0
    /\ wallet'  = Holdings(chain, wallet.change)
    /\ Over
    /\ UNCHANGED <<gateVars, chain, submits, confirmed, round>>

(* A refused spend, one declined, or half of an exchange: handed back.     *)
Settle ==
    /\ request # NoRequest
    /\ phase \in {"shown", "refused"} \/ (phase = "signed" /\ request.kind \in Halves)
    /\ Over
    /\ Done
    /\ UNCHANGED <<wallet, chain, submits, confirmed, round>>

-----------------------------------------------------------------------------
(* The broadcaster and the network.  A bundle of the mempool is            *)
(* [spends, open : does it belong to the open request].                    *)

Bundle      == [spends |-> unsigned.spends, open |-> TRUE]
Pending     == \E b \in mempool : b.spends = unsigned.spends
Acceptable  ==
    /\ Present(unsigned.spends, chain) /\ Consistent(unsigned.spends)
    /\ \A b \in mempool : ~Conflicts(b.spends, unsigned.spends)
Submittable ==
    /\ phase = "signed" /\ request # NoRequest /\ request.kind \notin Halves
    /\ submits < MaxSubmits

(* Accepted, or AlreadyInMempool: Ok either way.                           *)
SubmitAccepted ==
    /\ Submittable /\ (Pending \/ Acceptable)
    /\ mempool' = IF Pending THEN mempool ELSE mempool \cup {Bundle}
    /\ submits' = submits + 1
    /\ Done
    /\ UNCHANGED <<request, wallet, chain, confirmed, round>>

(* Rejected: SpendValidationFailed.                                        *)
SubmitRejected ==
    /\ Submittable /\ ~Pending /\ ~Acceptable
    /\ submits' = MaxSubmits
    /\ Done
    /\ UNCHANGED <<request, wallet, chain, mempool, confirmed, round>>

(* A transport error: the network may have the bundle or not.              *)
SubmitLost ==
    /\ Submittable
    /\ mempool' \in {mempool} \cup (IF Acceptable /\ ~Pending THEN {mempool \cup {Bundle}} ELSE {})
    /\ submits' = submits + 1
    /\ UNCHANGED <<gateVars, request, wallet, chain, confirmed, round>>

(* The caller gives the bundle up: it has the request built again, or lets *)
(* the next synchronisation tell.                                          *)
GiveUp ==
    /\ phase = "signed" /\ request # NoRequest /\ submits > 0
    /\ Done
    /\ UNCHANGED flowVars

(* A block.                                                                *)
Confirm ==
    /\ phase \in {"idle", "signed"} /\ request # NoRequest
    /\ \E b \in mempool :
          /\ Present(b.spends, chain)
          /\ chain'     = (chain \cup ToSet(Created(b.spends))) \ Spent(b.spends)
          /\ mempool'   = {c \in mempool : ~Conflicts(b.spends, c.spends)}
          /\ confirmed' = IF b.open THEN confirmed + 1 ELSE confirmed
    /\ UNCHANGED <<gateVars, request, wallet, submits, round>>

FlowStep ==
    \/ Build \/ BuildFails \/ Sync \/ Settle
    \/ SubmitAccepted \/ SubmitRejected \/ SubmitLost \/ GiveUp \/ Confirm

(* The flow alone: the client may ask for any of asked.                    *)
FlowNext(asked) ==
    \/ \E r \in asked : Ask(r)
    \/ FlowStep
    \/ (GateStep /\ UNCHANGED flowVars)

FlowInit(coins, change) ==
    /\ GateInit
    /\ chain = coins /\ wallet = Holdings(coins, change)
    /\ request = NoRequest /\ mempool = {} /\ submits = 0 /\ confirmed = 0 /\ round = 0

FlowSpec(asked, coins, change) ==
    FlowInit(coins, change) /\ [][FlowNext(asked)]_pipelineVars

FlowTypeOK ==
    /\ submits \in 0..MaxSubmits /\ round \in 0..MaxRounds /\ confirmed \in Nat
    /\ request = NoRequest => \A b \in mempool : ~b.open
    /\ \A c \in wallet.xch : KeyKnown(PuzzleHashOf(c))

-----------------------------------------------------------------------------
(* What building, reviewing and submitting promise together.               *)

(* The engine's ways to ask for a signature the gate does not give: a      *)
(* class account_coin has no handler for, a payment to the wallet itself   *)
(* (the builder lists it, the gate takes it for change), change or a coin  *)
(* of a key the signer's address gap does not reach, and inputs whose sum  *)
(* is no u64 (the builder's wraps, the gate's is checked).                 *)
Unsupported(r) == r.kind \in {"mint_option", "exercise_option"}
ToItself(u)    == \E i \in DOMAIN u.outputs : Owned(u.outputs[i].ph)
Strange(u)     ==
    \/ \E i \in DOMAIN u.required : u.required[i].key \notin SignerKeys
    \/ \E i \in DOMAIN u.spends : \E c \in ToSet(Creates(Run(u.spends[i]))) :
          KeyKnown(c.ph) /\ ~Owned(c.ph)
    \/ \E a \in Assets \cup {XCH} : TotalIn(a, u.spends) > Max64

(* Every other spend the builders hand out is signed: what they build and  *)
(* the summary they claim pass the gate's own analysis to the letter, so a *)
(* user is never refused what he may do.  And none of these is signed.     *)
EngineBuiltSigns ==
    request # NoRequest =>
      /\ phase = "refused" =>
            Unsupported(request) \/ ToItself(unsigned) \/ Strange(unsigned)
      /\ phase = "signed" =>
            ~(Unsupported(request) \/ ToItself(unsigned) \/ Strange(unsigned))

(* A signed bundle is one the network can take: over coins that are still  *)
(* there it creates no coin twice, meets what it asserts, and pays what it *)
(* reserves (ensure_distinct_created_coins, assert_conserved).  A settled  *)
(* offer's half waits for the other half.                                  *)
SignedIsValid ==
    request # NoRequest /\ request.kind \notin Halves /\ phase = "signed"
      => Consistent(unsigned.spends)

(* However often a request is submitted again after a lost answer, or      *)
(* built again over the coins of the last synchronisation, blocks take it  *)
(* in at most once: the selection is the same each time, so the bundles    *)
(* exclude each other (select_for_spend, MempoolBroadcaster::submit).      *)
PaidAtMostOnce == confirmed <= 1

-----------------------------------------------------------------------------
(* Selection.                                                              *)

Covers(coins, target, cap) ==
    LET answer == SelectForSpend(coins, target, cap)
        fits == {part \in SUBSET coins : Cardinality(part) <= cap /\ TotalOf(part) >= target}
    IN  /\ answer.kind = "insufficient_funds" <=> TotalOf(coins) < target
        /\ answer.kind = "selected" <=> fits # {}
        /\ answer.kind = "selected" =>
              /\ ToSet(answer.coins) \in fits
              /\ \A part \in fits : Len(answer.coins) <= Cardinality(part)

Merges(coins, cap) ==
    \A s \in SelectForConsolidation(coins, cap) :
        /\ 2 <= Cardinality(ToSet(s)) /\ Cardinality(ToSet(s)) = Len(s)
        /\ \A c \in ToSet(s), d \in coins \ ToSet(s) : AmountOf(c) >= AmountOf(d)

Shares(n, parts) ==
    LET shares == StaggeredAmounts(n, parts)
    IN  /\ shares # {} <=> \E a \in SUBSET (1..n) : Cardinality(a) = parts /\ MapThenSumSet(LAMBDA x : x, a) = n
        /\ \A a \in shares : /\ SumOver(LAMBDA x : x, a) = n
                             /\ Cardinality(ToSet(a)) = parts /\ 0 \notin ToSet(a)

(* For what the wallet holds, any target and any cap, selection answers    *)
(* insufficient exactly when the coins do not reach the target, asks to    *)
(* consolidate exactly when no choice of at most cap coins does, and       *)
(* otherwise takes a choice that no shorter one could replace; a           *)
(* consolidation takes the largest coins; and a split succeeds exactly     *)
(* when the coin can be cut into that many different amounts, and then     *)
(* keeps every mojo.  Totals beyond u64 are left out: they wrap.           *)
SelectionSound ==
    (request = NoRequest /\ TotalOf(wallet.xch) <= Max64) =>
      /\ \A target \in 0..Max64, cap \in 0..3 : Covers(wallet.xch, target, cap)
      /\ \A cap \in 0..3 : Merges(wallet.xch, cap)
      /\ \A c \in wallet.xch, parts \in 2..4 : Shares(AmountOf(c), parts)
=============================================================================
