------------------------------- MODULE Spends -------------------------------
(***************************************************************************)
(* Coins, conditions and coin spends, as far as the code that builds and   *)
(* the code that verifies a spend tell them apart.                         *)
(*                                                                         *)
(* A hash is modelled by what it commits to: a coin id commits to the      *)
(* parent's id, a puzzle hash and an amount, so it is the lineage of the   *)
(* coin, the parent's with one entry more; the tree hash of a delegated    *)
(* puzzle is that puzzle, and a puzzle hash is the layer and what it       *)
(* wraps.  Two hashes are then equal exactly when their preimages are.     *)
(***************************************************************************)
EXTENDS Integers, Sequences, FiniteSets, SequencesExt, FiniteSetsExt

CONSTANT Max64   \* the largest u64

ASSUME Max64Assumption == Max64 \in Nat

-----------------------------------------------------------------------------
(* Puzzle hashes: an address is P2(k) for a key k.                         *)

P2(k)             == <<"p2", k>>
SettlementPayment == <<"settlement", 0>>
SingletonLauncher == <<"launcher", 0>>
OptionLock        == <<"one_of_many", 0>>
(* What the singleton layer makes of the puzzle hash its inner puzzle pays *)
SingletonOf(ph)   == <<"singleton", ph>>

(* is_protocol_sink_hash: the two structures value may be committed to.    *)
IsProtocolSink(ph) == ph \in {SettlementPayment, SingletonLauncher}

Coin(parent, ph, amount) == Append(parent, [ph |-> ph, amount |-> amount])
ParentOf(c)     == Front(c)
PuzzleHashOf(c) == Last(c).ph
AmountOf(c)     == Last(c).amount

XCH == "xch"

(* A sequence, whatever is in it, and a coin id with the amount it names.  *)
IsSeq(s)  == s \in Seq(ToSet(s))
IsCoin(c) == IsSeq(c) /\ Len(c) >= 1 /\ AmountOf(c) \in Nat

-----------------------------------------------------------------------------
(* Conditions.                                                             *)

CreateCoin(ph, amount)    == [op |-> "create_coin", ph |-> ph, amount |-> amount]
ReserveFee(amount)        == [op |-> "reserve_fee", amount |-> amount]
AggSigMe(key, message)    == [op |-> "agg_sig_me", key |-> key, message |-> message]
AggSigOther               == [op |-> "agg_sig_other"]
AssertCoinAnn(coin, what) == [op |-> "assert_coin_ann", coin |-> coin, what |-> what]
AssertPuzzleAnn           == [op |-> "assert_puzzle_ann"]
ConcurrentSpend(coin)     == [op |-> "concurrent_spend", coin |-> coin]
ConcurrentPuzzle(ph)      == [op |-> "concurrent_puzzle", ph |-> ph]
CreateCoinAnn(what)       == [op |-> "create_coin_ann", what |-> what]
MeltSingleton             == [op |-> "melt_singleton"]
UpdateMetadata            == [op |-> "update_metadata"]
BenignAssertion           == [op |-> "assert_self"]
OtherCondition            == [op |-> "other"]

(* The elements of a sequence at some positions, and those that pass a     *)
(* test; the sum of a sequence of numbers, and of what f says of each      *)
(* element, with no width.  Recursive functions, so that what they come to *)
(* can be proved.                                                          *)
Picked(s, at) ==
    LET upto[n \in 0..Len(s)] == IF n = 0 THEN <<>>
                                 ELSE IF n \in at THEN Append(upto[n - 1], s[n])
                                 ELSE upto[n - 1]
    IN  upto[Len(s)]
Where(s, Test(_)) == Picked(s, {i \in DOMAIN s : Test(s[i])})

Total(ns) ==
    LET upto[n \in 0..Len(ns)] == IF n = 0 THEN 0 ELSE upto[n - 1] + ns[n]
    IN  upto[Len(ns)]
SumOver(f(_), s) == Total([i \in DOMAIN s |-> f(s[i])])
TotalOf(coins)   == MapThenSumSet(AmountOf, coins)

Creates(conds) == Where(conds, LAMBDA c : c.op = "create_coin")
(* What the coins created get, and what is reserved for the block's farmer.*)
Paid(conds)     == SumOver(LAMBDA c : IF c.op = "create_coin" THEN c.amount ELSE 0, conds)
Reserved(conds) == SumOver(LAMBDA c : IF c.op = "reserve_fee" THEN c.amount ELSE 0, conds)

(* What a u64 addition of release build leaves of a sum.                   *)
U64(n) == n % (Max64 + 1)

(* Two sequences with the same elements, each as often in one as in the    *)
(* other: what comparing two sorted vectors decides.                       *)
Occurrences(x, s) == Cardinality({i \in DOMAIN s : s[i] = x})
SameBag(s, t) ==
    /\ Len(s) = Len(t)
    /\ \A x \in ToSet(s) : Occurrences(x, s) = Occurrences(x, t)

-----------------------------------------------------------------------------
(***************************************************************************)
(* A coin spend.  quote says whether the conditions of the delegated       *)
(* (inner) puzzle are quoted in it; otherwise they come from the solution. *)
(***************************************************************************)

CoinSpend(kind, coin, key, conds) ==
    [kind |-> kind, coin |-> coin, genuine |-> TRUE, inner |-> "standard",
     asset |-> XCH, eve |-> FALSE, launcher |-> <<>>,
     key |-> key, quote |-> TRUE, conds |-> conds]

StandardSpend(coin, conds) == CoinSpend("standard", coin, PuzzleHashOf(coin)[2], conds)
CatSpend(asset, coin, conds) ==
    [CoinSpend("cat", coin, PuzzleHashOf(coin)[2], conds) EXCEPT !.asset = asset]

(* The tree hash the standard layer signs: it names the delegated puzzle   *)
(* and, only if that is a quote, the conditions.                           *)
Message(s) == [quote |-> s.quote, conds |-> IF s.quote THEN s.conds ELSE <<>>]
Elsewhere  == [quote |-> FALSE, conds |-> <<[op |-> "elsewhere"]>>]

(* Does the puzzle of this coin ask for a signature?                       *)
AsksSignature(s) ==
    \/ s.kind \in {"standard", "singleton"}
    \/ s.kind \in {"cat", "option"} /\ s.inner = "standard"
    \/ s.kind = "nft" /\ ~s.eve /\ s.inner = "standard"

(* The conditions of the inner puzzle: the layer adds its own AGG_SIG_ME.  *)
InnerRun(s) ==
    IF AsksSignature(s)
    THEN <<AggSigMe(s.key, IF s.kind = "singleton" /\ s.inner # "standard"
                           THEN Elsewhere ELSE Message(s))>> \o s.conds
    ELSE s.conds

(* The conditions consensus sees: the singleton layers rewrite the odd     *)
(* output and consume the melt marker and the metadata update.             *)
Run(s) ==
    IF s.kind \in {"nft", "singleton", "option"}
    THEN LET kept == Where(InnerRun(s),
                           LAMBDA c : c.op \notin {"melt_singleton", "update_metadata"})
         IN  [i \in DOMAIN kept |->
                IF kept[i].op = "create_coin" /\ kept[i].amount % 2 = 1
                THEN CreateCoin(SingletonOf(kept[i].ph), kept[i].amount)
                ELSE kept[i]]
    ELSE InnerRun(s)
=============================================================================
