------------------------- MODULE SpendPipeline_proofs -------------------------
(***************************************************************************)
(* The spend from request to block, for any requests, any coins on chain   *)
(* and any number of submissions: what the gate promises it promises of    *)
(* every bundle the builders hand it, blocks take a request in at most     *)
(* once, and what was signed is valid once its coins are there.            *)
(***************************************************************************)
EXTENDS SpendBuild_proofs

-----------------------------------------------------------------------------
(***************************************************************************)
(* The coins of the network.                                               *)
(***************************************************************************)

(* An unspent coin, and a set of them.                                     *)
UnitOK(u) == u = Unspent(u.asset, u.coin) /\ u.asset \in Assets \cup {XCH} /\ IsCoin(u.coin)
Units(coins) == IsFiniteSet(coins) /\ \A u \in coins : UnitOK(u)

(* u is one of the coins s creates.                                        *)
Makes(s, u) == \E ph : \E n \in Nat : u = Unspent(s.asset, Coin(s.coin, ph, n))

LEMMA MakesUnit == ASSUME NEW s, Proper(s), NEW u, Makes(s, u) PROVE UnitOK(u)
<1>1. PICK ph : \E n \in Nat : u = Unspent(s.asset, Coin(s.coin, ph, n))
  BY DEF Makes
<1>2. PICK n \in Nat : u = Unspent(s.asset, Coin(s.coin, ph, n))
  BY <1>1
<1>3. PICK c : c = Coin(s.coin, ph, n) /\ IsCoin(c)
  BY CoinIs DEF Proper, IsCoin
<1>4. u = Unspent(s.asset, c) /\ s.asset \in Assets \cup {XCH}
  BY <1>2, <1>3 DEF Proper, WellFormed
<1> QED BY <1>3, <1>4 DEF UnitOK, Unspent

LEMMA CreatedByIs ==
    ASSUME NEW s, Proper(s)
    PROVE  IsSeq(CreatedBy(s)) /\ \A i \in DOMAIN CreatedBy(s) : Makes(s, CreatedBy(s)[i])
<1>1. PICK made : made = Creates(Run(s))
  OBVIOUS
<1>2. Priced(Run(s))
  BY RunPriced DEF Proper, WellFormed
<1>3. IsSeq(made) /\ made \in Seq({c \in ToSet(Run(s)) : c.op = "create_coin"})
  BY <1>1, <1>2, CreatesAre DEF Priced
<1>4. Len(made) \in Nat /\ DOMAIN made = 1..Len(made)
  BY <1>3, SeqIs
<1>5. \A i \in DOMAIN made : made[i].amount \in Nat
  <2>1. \A i \in DOMAIN made : made[i] \in {c \in ToSet(Run(s)) : c.op = "create_coin"}
    BY <1>3, <1>4
  <2> QED BY <1>2, <2>1 DEF Priced
<1>6. PICK v : v = CreatedBy(s)
  OBVIOUS
<1>7. v = [i \in 1..Len(made) |-> Unspent(s.asset, Coin(s.coin, made[i].ph, made[i].amount))]
  BY <1>1, <1>4, <1>6 DEF CreatedBy
<1>8. v = [i \in 1..Len(made) |-> v[i]]
  BY <1>7
<1>9. IsSeq(v) /\ DOMAIN v = 1..Len(made)
  BY <1>4, <1>8, MadeSeq
<1>10. ASSUME NEW i \in DOMAIN v PROVE Makes(s, v[i])
  <2>1. PICK n \in Nat : n = made[i].amount
    BY <1>4, <1>5, <1>9
  <2>2. v[i] = Unspent(s.asset, Coin(s.coin, made[i].ph, n))
    BY <1>7, <1>9, <2>1
  <2> QED BY <2>2 DEF Makes
<1> QED BY <1>6, <1>9, <1>10

(* Every coin a bundle creates comes out of one it spends.                 *)
LEMMA CreatedIs ==
    ASSUME NEW spends, Proposed(spends)
    PROVE  /\ IsSeq(Created(spends))
           /\ \A u \in ToSet(Created(spends)) : \E i \in DOMAIN spends : Makes(spends[i], u)
<1>1. Len(spends) \in Nat /\ DOMAIN spends = 1..Len(spends)
  BY SeqIs DEF Proposed
<1>2. PICK ss : ss = [i \in DOMAIN spends |-> CreatedBy(spends[i])]
  OBVIOUS
<1>3. PICK X : X = UNION {ToSet(ss[i]) : i \in 1..Len(spends)}
  OBVIOUS
<1>4. ASSUME NEW i \in 1..Len(spends)
      PROVE  ss[i] \in Seq(X) /\ \A u \in ToSet(ss[i]) : Makes(spends[i], u)
  <2>1. Proper(spends[i]) /\ ss[i] = CreatedBy(spends[i])
    BY <1>1, <1>2 DEF Proposed
  <2>2. IsSeq(ss[i]) /\ \A j \in DOMAIN ss[i] : Makes(spends[i], ss[i][j])
    BY <2>1, CreatedByIs
  <2>3. ss[i] \in Seq(ToSet(ss[i])) /\ ToSet(ss[i]) \subseteq X
    BY <1>3, <2>2 DEF IsSeq
  <2>4. ss[i] \in Seq(X)
    BY <2>3
  <2>5. \A u \in ToSet(ss[i]) : Makes(spends[i], u)
    BY <2>2 DEF ToSet
  <2> QED BY <2>4, <2>5
<1>5. ss \in Seq(Seq(X))
  <2>1. ss = [i \in 1..Len(spends) |-> ss[i]]
    BY <1>1, <1>2
  <2>2. \A i \in 1..Len(spends) : ss[i] \in Seq(X)
    BY <1>4
  <2> QED BY <1>1, <2>1, <2>2
<1>6. PICK v : v = Created(spends) /\ v \in Seq(X)
  BY <1>2, <1>5, FlattenType DEF Created
<1>7. ASSUME NEW u \in ToSet(v)
      PROVE  \E i \in DOMAIN spends : Makes(spends[i], u)
  <2>1. u \in X
    BY <1>6, <1>7 DEF ToSet
  <2>2. PICK i \in 1..Len(spends) : u \in ToSet(ss[i])
    BY <1>3, <2>1
  <2> QED BY <1>1, <1>4, <2>2
<1> QED BY <1>6, <1>7, SeqIsSeq

LEMMA SpentIs ==
    ASSUME NEW spends, Proposed(spends), NEW u
    PROVE  u \in Spent(spends) <=> \E i \in DOMAIN spends : u = Unspent(spends[i].asset, spends[i].coin)
BY DEF Spent

LEMMA SpentUnits ==
    ASSUME NEW spends, Proposed(spends), NEW u \in Spent(spends)
    PROVE  UnitOK(u)
<1>1. PICK i \in DOMAIN spends : u = Unspent(spends[i].asset, spends[i].coin)
  BY SpentIs
<1>2. Proper(spends[i])
  BY DEF Proposed
<1> QED BY <1>1, <1>2 DEF Proper, WellFormed, UnitOK, Unspent

(* A block leaves a chain of coins.                                        *)
Mined(chn, spends) == (chn \cup ToSet(Created(spends))) \ Spent(spends)

LEMMA MinedUnits ==
    ASSUME NEW chn, Units(chn), NEW spends, Proposed(spends)
    PROVE  Units(Mined(chn, spends))
<1>1. IsFiniteSet(ToSet(Created(spends)))
  BY CreatedIs, RangeFinite
<1>2. IsFiniteSet(chn \cup ToSet(Created(spends)))
  BY <1>1, FS_Union DEF Units
<1>3. IsFiniteSet(Mined(chn, spends))
  BY <1>2, FS_Difference DEF Mined
<1>4. \A u \in ToSet(Created(spends)) : UnitOK(u)
  BY CreatedIs, MakesUnit DEF Proposed
<1> QED BY <1>3, <1>4 DEF Units, Mined

(* What the engine knows of the chain is a wallet.                         *)
LEMMA HoldingsOK == ASSUME NEW chn, Units(chn), NEW change PROVE WalletOK(Holdings(chn, change))
<1>1. PICK mine : mine = {u \in chn : KeyKnown(PuzzleHashOf(u.coin))}
  OBVIOUS
<1>2. PICK xs : xs = {v \in mine : v.asset = XCH}
  OBVIOUS
<1>3. PICK cs : cs = {v \in mine : v.asset # XCH}
  OBVIOUS
<1>4. IsFiniteSet(xs) /\ IsFiniteSet(cs)
  <2>1. xs \subseteq chn /\ cs \subseteq chn
    BY <1>1, <1>2, <1>3
  <2> QED BY <2>1, FS_Subset DEF Units
<1>5. PICK coins : coins = {u.coin : u \in xs}
  OBVIOUS
<1>6. Purse(coins)
  <2>1. PICK f : f = [u \in xs |-> u.coin]
    OBVIOUS
  <2>2. f \in Surjection(xs, coins)
    BY <1>5, <2>1 DEF Surjection
  <2>3. IsFiniteSet(coins)
    BY <1>4, <2>2, FS_Surjection
  <2>4. \A c \in coins : IsCoin(c)
    BY <1>1, <1>2, <1>5 DEF Units, UnitOK
  <2> QED BY <2>3, <2>4 DEF Purse
<1>7. PICK n \in Nat : n = Cardinality(cs)
  BY <1>4, FS_CardinalityType
<1>8. PICK cats : cats = SetToSeq(cs)
  OBVIOUS
<1>9. cats \in [1..n -> cs]
  <2>1. ExistsBijection(1..n, cs)
    BY <1>4, <1>7, FS_CardinalityType
  <2>2. \E f \in [1..n -> cs] : IsInjective(f)
    BY <2>1 DEF ExistsBijection, Bijection, Injection, IsInjective
  <2> QED BY <1>7, <1>8, <2>2 DEF SetToSeq
<1>10. cats \in Seq(cs) /\ DOMAIN cats = 1..n
  BY <1>9
<1>11. IsSeq(cats)
  BY <1>10, SeqIsSeq
<1>12. \A i \in DOMAIN cats : cats[i].asset \in Assets /\ IsCoin(cats[i].coin)
  <2>1. \A u \in cs : u.asset \in Assets /\ IsCoin(u.coin)
    BY <1>1, <1>3 DEF Units, UnitOK
  <2> QED BY <1>10, <2>1
<1>13. Holdings(chn, change).xch = coins /\ Holdings(chn, change).cats = cats
  BY <1>1, <1>2, <1>3, <1>5, <1>8 DEF Holdings
<1> QED BY <1>6, <1>11, <1>12, <1>13 DEF WalletOK

-----------------------------------------------------------------------------
(***************************************************************************)
(* Every step hands the gate what a builder made, or leaves it alone.      *)
(***************************************************************************)

AskedOK(asked) == \A r \in asked : RequestOK(r)
SomeRequest    == request # NoRequest

(* The gate's part of a step: it works on what it has, is done with it, or *)
(* gets what a builder made of the open request.                           *)
Hands ==
    \/ [GateStep]_gateVars \/ Done
    \/ phase = "idle" /\ SomeRequest /\ \E u \in Built(request, wallet) : Receive(u)

LEMMA StepHands ==
    ASSUME NEW asked, [FlowNext(asked)]_pipelineVars
    PROVE  Hands
<1>1. CASE UNCHANGED gateVars
  BY <1>1 DEF Hands
<1>2. CASE Done
  BY <1>2 DEF Hands
<1>3. CASE Build
  BY <1>3 DEF Build, Hands, SomeRequest
<1>4. CASE GateStep
  BY <1>4 DEF Hands
<1>5. CASE FlowStep
  BY <1>1, <1>2, <1>3, <1>5 DEF FlowStep, BuildFails, Sync, Settle, SubmitAccepted, SubmitRejected,
                               SubmitLost, GiveUp, Confirm
<1>6. CASE \E r \in asked : Ask(r)
  BY <1>1, <1>6 DEF Ask
<1>7. CASE UNCHANGED pipelineVars
  BY <1>1, <1>7 DEF pipelineVars
<1> QED BY <1>4, <1>5, <1>6, <1>7 DEF FlowNext

(* The requests, the coins and the bundles in flight are of their types.   *)
FlowSound(asked) ==
    /\ SomeRequest => request \in asked
    /\ Units(chain) /\ WalletOK(wallet)
    /\ Proposed(unsigned.spends)
    /\ \A b \in mempool : Proposed(b.spends)

LEMMA FlowSoundInit ==
    ASSUME NEW asked, NEW coins, ChainOK(coins), NEW change, FlowInit(coins, change)
    PROVE  FlowSound(asked)
<1>1. Units(chain)
  BY DEF FlowInit, ChainOK, Units, UnitOK
<1>2. WalletOK(wallet)
  BY <1>1, HoldingsOK DEF FlowInit
<1>3. Proposed(unsigned.spends)
  BY NothingProposed DEF FlowInit, GateInit, Nothing
<1> QED BY <1>1, <1>2, <1>3 DEF FlowSound, FlowInit, SomeRequest

LEMMA GateStepLeaves == ASSUME GateStep PROVE UNCHANGED unsigned
BY DEF GateStep, Review, Display, Sign, AccountCatClaim, AccountCatSend, AccountOptionTransfer,
       AccountSingletonLaunch, AccountNft, AccountNftTransfer, AccountNftEveMint,
       AccountSingletonMelt, AccountStandardSend, AccountSettlementClaim, Accounts, RefuseSpend,
       Show, ShowKeyFree, SignBundle, RefuseBundle, Refused

LEMMA HandsProposed ==
    ASSUME NEW asked, AskedOK(asked), FlowSound(asked), Hands
    PROVE  Proposed(unsigned.spends)'
<1>1. CASE [GateStep]_gateVars
  BY <1>1, GateStepLeaves DEF gateVars, FlowSound
<1>2. CASE Done
  BY <1>2, NothingProposed DEF Done, Nothing
<1>3. CASE SomeRequest /\ \E u \in Built(request, wallet) : Receive(u)
  <2>1. RequestOK(request) /\ WalletOK(wallet)
    BY <1>3 DEF AskedOK, FlowSound
  <2>2. PICK r : r = request
    OBVIOUS
  <2>3. PICK w : w = wallet
    OBVIOUS
  <2>4. PICK u \in Built(r, w) : Receive(u)
    BY <1>3, <2>2, <2>3
  <2>5. Proposed(u.spends)
    BY <2>1, <2>2, <2>3, <2>4, BuiltProposed
  <2> QED BY <2>4, <2>5 DEF Receive
<1> QED BY <1>1, <1>2, <1>3 DEF Hands

LEMMA FlowSoundStep ==
    ASSUME NEW asked, AskedOK(asked), FlowSound(asked), [FlowNext(asked)]_pipelineVars
    PROVE  FlowSound(asked)'
<1>1. Proposed(unsigned.spends)'
  BY StepHands, HandsProposed
<1>2. CASE \E r \in asked : Ask(r)
  BY <1>1, <1>2 DEF Ask, FlowSound, SomeRequest
<1>3. CASE Build \/ GiveUp \/ (GateStep /\ UNCHANGED flowVars) \/ UNCHANGED pipelineVars
  <2>1. UNCHANGED flowVars
    BY <1>3 DEF Build, GiveUp, pipelineVars
  <2> QED BY <1>1, <2>1 DEF flowVars, FlowSound, SomeRequest
<1>4. ASSUME Over PROVE request' = NoRequest /\ \A b \in mempool' : Proposed(b.spends)
  <2>1. \A b \in mempool : [b EXCEPT !.open = FALSE].spends = b.spends
    OBVIOUS
  <2> QED BY <1>4, <2>1 DEF Over, FlowSound
<1>5. CASE BuildFails \/ Settle
  BY <1>1, <1>4, <1>5 DEF BuildFails, Settle, FlowSound, SomeRequest
<1>6. CASE Sync
  <2>1. PICK c : c = chain
    OBVIOUS
  <2>2. PICK ch : ch = wallet.change
    OBVIOUS
  <2>3. WalletOK(Holdings(c, ch))
    BY <2>1, HoldingsOK DEF FlowSound
  <2>4. WalletOK(wallet')
    BY <1>6, <2>1, <2>2, <2>3 DEF Sync
  <2> QED BY <1>1, <1>4, <1>6, <2>4 DEF Sync, FlowSound, SomeRequest
<1>7. Proposed(Bundle.spends)
  BY DEF Bundle, FlowSound
<1>8. CASE SubmitAccepted \/ SubmitRejected \/ SubmitLost
  <2>1. \A b \in mempool' : b \in mempool \/ b = Bundle
    BY <1>8 DEF SubmitAccepted, SubmitRejected, SubmitLost
  <2>2. \A b \in mempool' : Proposed(b.spends)
    BY <1>7, <2>1 DEF FlowSound
  <2>3. UNCHANGED <<request, wallet, chain>>
    BY <1>8 DEF SubmitAccepted, SubmitRejected, SubmitLost
  <2> QED BY <1>1, <2>2, <2>3 DEF FlowSound, SomeRequest
<1>9. CASE Confirm
  <2>1. PICK b \in mempool : /\ chain' = Mined(chain, b.spends)
                             /\ mempool' \subseteq mempool
    BY <1>9 DEF Confirm, Mined
  <2>2. PICK c, ss : c = chain /\ ss = b.spends
    OBVIOUS
  <2>3. Units(Mined(c, ss))
    BY <2>2, MinedUnits DEF FlowSound
  <2>4. UNCHANGED <<request, wallet>>
    BY <1>9 DEF Confirm
  <2> QED BY <1>1, <2>1, <2>2, <2>3, <2>4 DEF FlowSound, SomeRequest
<1> QED BY <1>2, <1>3, <1>5, <1>6, <1>8, <1>9 DEF FlowNext, FlowStep

-----------------------------------------------------------------------------
(***************************************************************************)
(* The gate's promises, of whatever is asked of the engine.                *)
(***************************************************************************)

(* What the gate's proofs say of it, but for the set its spends are from.  *)
GateCore == GateTypeOK /\ SoFar /\ SignedWhole /\ BooksInv

LEMMA GateCoreStep ==
    ASSUME GateCore, Proposed(unsigned.spends), Proposed(unsigned.spends)', Hands
    PROVE  GateCore'
<1>1. PICK S : S = ToSet(unsigned.spends) \cup ToSet(unsigned'.spends)
  OBVIOUS
<1>2. unsigned.spends \in Seq(S) /\ unsigned'.spends \in Seq(S)
  <2>1. \A ss : Proposed(ss) /\ ToSet(ss) \subseteq S => ss \in Seq(S)
    <3> SUFFICES ASSUME NEW ss, Proposed(ss), ToSet(ss) \subseteq S
                 PROVE  ss \in Seq(S)
      OBVIOUS
    <3>1. ss \in Seq(ToSet(ss))
      BY DEF Proposed, IsSeq
    <3> QED BY <3>1
  <2>2. ToSet(unsigned.spends) \subseteq S /\ ToSet(unsigned'.spends) \subseteq S
    BY <1>1
  <2> QED BY <2>1, <2>2
<1>3. Sound(S)
  BY <1>1 DEF Sound, Proposed, Proper, ToSet
<1>4. GateInv(S) /\ BooksInv
  BY <1>2 DEF GateCore, GateInv
<1>5. PICK Inputs : Inputs = {unsigned'}
  OBVIOUS
<1>6. Bundles(Inputs, S)
  BY <1>2, <1>5 DEF Bundles
<1>7. [GateNext(Inputs)]_gateVars
  BY <1>5 DEF Hands, GateNext, Receive
<1>8. GateInv(S)' /\ BooksInv'
  BY <1>3, <1>4, <1>6, <1>7, GateInvStep, BooksInvStep
<1> QED BY <1>8 DEF GateCore, GateInv

LEMMA GateCoreSuffices ==
    ASSUME GateCore, Proposed(unsigned.spends)
    PROVE  ConservesValue /\ NothingUnseen /\ SettlementTied /\ SignsOnlyCommitted
<1>1. PICK S : S = ToSet(unsigned.spends)
  OBVIOUS
<1>2. unsigned.spends \in Seq(S) /\ Sound(S)
  BY <1>1 DEF Sound, Proposed, Proper, IsSeq, ToSet
<1>3. GateInv(S) /\ BooksInv
  BY <1>2 DEF GateCore, GateInv
<1> QED BY <1>2, <1>3, BooksSuffice, GateInvSuffices DEF BooksInv

(* The gate with the engine in front of it.                                *)
FlowGate(asked) == FlowSound(asked) /\ GateCore

LEMMA FlowGateInit ==
    ASSUME NEW asked, NEW coins, ChainOK(coins), NEW change, FlowInit(coins, change)
    PROVE  FlowGate(asked)
<1>1. GateCore
  BY GateInvInit, BooksInvInit DEF FlowInit, GateCore, GateInv
<1> QED BY <1>1, FlowSoundInit DEF FlowGate

LEMMA FlowGateStep ==
    ASSUME NEW asked, AskedOK(asked), FlowGate(asked), [FlowNext(asked)]_pipelineVars
    PROVE  FlowGate(asked)'
<1>1. FlowSound(asked)'
  BY FlowSoundStep DEF FlowGate
<1>2. Hands
  BY StepHands
<1>3. Proposed(unsigned.spends) /\ Proposed(unsigned.spends)'
  BY <1>1 DEF FlowGate, FlowSound
<1>4. GateCore'
  BY <1>2, <1>3, GateCoreStep DEF FlowGate
<1> QED BY <1>1, <1>4 DEF FlowGate

(* Whatever is asked of the engine, over whatever coins the chain starts   *)
(* with, what is signed conserves value, was shown and claimed in full,    *)
(* and ties what it commits to a settlement: the builders' coin spends are *)
(* ones the gate's theorems are about (build_*, sign_unsigned).            *)
THEOREM FlowConservesValue ==
    ASSUME NEW CONSTANT asked, AskedOK(asked), NEW CONSTANT coins, ChainOK(coins),
           NEW CONSTANT change
    PROVE  FlowSpec(asked, coins, change) => []ConservesValue
<1>1. FlowInit(coins, change) => FlowGate(asked)
  BY FlowGateInit
<1>2. FlowGate(asked) /\ [FlowNext(asked)]_pipelineVars => FlowGate(asked)'
  BY FlowGateStep
<1>3. FlowGate(asked) => ConservesValue
  BY GateCoreSuffices DEF FlowGate, FlowSound
<1> QED BY <1>1, <1>2, <1>3, PTL DEF FlowSpec

(* As FlowConservesValue, of what the user was shown.                      *)
THEOREM FlowNothingUnseen ==
    ASSUME NEW CONSTANT asked, AskedOK(asked), NEW CONSTANT coins, ChainOK(coins),
           NEW CONSTANT change
    PROVE  FlowSpec(asked, coins, change) => []NothingUnseen
<1>1. FlowInit(coins, change) => FlowGate(asked)
  BY FlowGateInit
<1>2. FlowGate(asked) /\ [FlowNext(asked)]_pipelineVars => FlowGate(asked)'
  BY FlowGateStep
<1>3. FlowGate(asked) => NothingUnseen
  BY GateCoreSuffices DEF FlowGate, FlowSound
<1> QED BY <1>1, <1>2, <1>3, PTL DEF FlowSpec

(* As FlowConservesValue, of what is committed to a settlement, and of     *)
(* what a signature covers.                                                *)
THEOREM FlowSettlementTied ==
    ASSUME NEW CONSTANT asked, AskedOK(asked), NEW CONSTANT coins, ChainOK(coins),
           NEW CONSTANT change
    PROVE  FlowSpec(asked, coins, change) => [](SettlementTied /\ SignsOnlyCommitted)
<1>1. FlowInit(coins, change) => FlowGate(asked)
  BY FlowGateInit
<1>2. FlowGate(asked) /\ [FlowNext(asked)]_pipelineVars => FlowGate(asked)'
  BY FlowGateStep
<1>3. FlowGate(asked) => SettlementTied /\ SignsOnlyCommitted
  BY GateCoreSuffices DEF FlowGate, FlowSound
<1> QED BY <1>1, <1>2, <1>3, PTL DEF FlowSpec

-----------------------------------------------------------------------------
(***************************************************************************)
(* Lineages.  A coin id is the lineage of the coin, so that a coin         *)
(* descends from another when the other's id is the beginning of its own.  *)
(***************************************************************************)

Under(p, c) == Len(p) <= Len(c) /\ \A i \in 1..Len(p) : p[i] = c[i]

LEMMA UnderIsPrefix == ASSUME NEW p, IsSeq(p), NEW c, IsSeq(c) PROVE Under(p, c) <=> IsPrefix(p, c)
<1>1. PICK X : X = ToSet(p) \cup ToSet(c)
  OBVIOUS
<1>2. p \in Seq(X) /\ c \in Seq(X)
  <2>1. p \in Seq(ToSet(p)) /\ c \in Seq(ToSet(c))
    BY DEF IsSeq
  <2> QED BY <1>1, <2>1
<1>3. PICK m, n \in Nat : m = Len(p) /\ n = Len(c)
  BY <1>2
<1>4. CASE ~(m <= n)
  BY <1>3, <1>4 DEF Under, IsPrefix
<1>5. CASE m <= n
  <2>1. PICK a : a = SubSeq(p, 1, m)
    OBVIOUS
  <2>2. PICK b : b = SubSeq(c, 1, m)
    OBVIOUS
  <2>3. a = [i \in 1..m |-> p[i]] /\ b = [i \in 1..m |-> c[i]]
    BY <1>2, <1>3, <1>5, <2>1, <2>2
  <2>4. a = b <=> \A i \in 1..m : p[i] = c[i]
    BY <2>3
  <2> QED BY <1>3, <1>5, <2>1, <2>2, <2>4 DEF Under, IsPrefix
<1> QED BY <1>4, <1>5

LEMMA UnderIs ==
    ASSUME NEW a, IsSeq(a), NEW b, IsSeq(b), NEW c, IsSeq(c)
    PROVE  /\ Under(a, a)
           /\ Under(a, b) /\ Under(b, c) => Under(a, c)
           /\ Under(a, c) /\ Under(b, c) => Under(a, b) \/ Under(b, a)
           /\ Under(a, c) /\ Under(b, c) /\ Len(a) <= Len(b) => Under(a, b)
           /\ Under(a, b) /\ Len(a) = Len(b) => a = b
<1>1. Len(a) \in Nat /\ Len(b) \in Nat /\ Len(c) \in Nat
  BY SeqIs
<1>2. a = [i \in 1..Len(a) |-> a[i]] /\ b = [i \in 1..Len(b) |-> b[i]]
  BY SeqIs
<1>3. Under(a, b) /\ Len(a) = Len(b) => a = b
  <2> SUFFICES ASSUME Under(a, b), Len(a) = Len(b)
               PROVE  a = b
    OBVIOUS
  <2>1. \A i \in 1..Len(a) : a[i] = b[i]
    BY DEF Under
  <2> QED BY <1>2, <2>1
<1>4. Under(a, a)
  BY <1>1 DEF Under
<1>5. Under(a, b) /\ Under(b, c) => Under(a, c)
  BY <1>1 DEF Under
<1>6. Under(a, c) /\ Under(b, c) /\ Len(a) <= Len(b) => Under(a, b)
  BY <1>1 DEF Under
<1>7. Under(b, c) /\ Under(a, c) /\ Len(b) <= Len(a) => Under(b, a)
  BY <1>1 DEF Under
<1> QED BY <1>1, <1>3, <1>4, <1>5, <1>6, <1>7

LEMMA ChildIs ==
    ASSUME NEW p, IsSeq(p), NEW ph, NEW n, NEW c, c = Coin(p, ph, n)
    PROVE  Len(p) \in Nat /\ Len(c) = Len(p) + 1 /\ Under(p, c)
<1>1. PICK e : e = [ph |-> ph, amount |-> n]
  OBVIOUS
<1>2. PICK X : X = ToSet(p) \cup {e}
  OBVIOUS
<1>3. p \in Seq(X)
  <2>1. p \in Seq(ToSet(p))
    BY DEF IsSeq
  <2> QED BY <1>2, <2>1
<1>4. e \in X /\ c = Append(p, e)
  BY <1>1, <1>2 DEF Coin
<1>5. \A s \in Seq(X), x \in X : /\ Len(s) \in Nat /\ Len(Append(s, x)) = Len(s) + 1
                                 /\ \A i \in 1..Len(s) : Append(s, x)[i] = s[i]
  OBVIOUS
<1> QED BY <1>3, <1>4, <1>5 DEF Under

-----------------------------------------------------------------------------
(* What a block does to the lineages on chain.                             *)

Antichain(chn) == \A u, v \in chn : Under(u.coin, v.coin) => u = v
(* No coin is spent twice in the bundle.                                   *)
Separate(spends) == \A i, j \in DOMAIN spends : spends[i].coin = spends[j].coin => i = j

LEMMA ConsistentSeparate ==
    ASSUME NEW spends, Proposed(spends), Consistent(spends)
    PROVE  Separate(spends)
<1>1. PICK n \in Nat : n = Len(spends) /\ DOMAIN spends = 1..n
  BY SeqIs DEF Proposed
<1>2. PICK coins : coins = {spends[i].coin : i \in DOMAIN spends}
  OBVIOUS
<1>3. Cardinality(coins) = n
  BY <1>1, <1>2 DEF Consistent
<1>4. PICK f : f = [i \in 1..n |-> spends[i].coin]
  OBVIOUS
<1>5. f \in Surjection(1..n, coins)
  BY <1>1, <1>2, <1>4 DEF Surjection
<1>6. IsFiniteSet(1..n) /\ Cardinality(1..n) = n
  BY FS_Interval
<1>7. f \in Injection(1..n, coins)
  BY <1>3, <1>5, <1>6, FS_Surjection
<1>8. \A i, j \in 1..n : f[i] = f[j] => i = j
  BY <1>7 DEF Injection, IsInjective
<1> QED BY <1>1, <1>4, <1>8 DEF Separate

(* The coin a created coin comes out of.                                   *)
Parent(z, p) == /\ IsSeq(p.coin) /\ Len(p.coin) \in Nat
                /\ Len(z.coin) = Len(p.coin) + 1 /\ Under(p.coin, z.coin)
                /\ z.asset = p.asset

LEMMA CreatedParent ==
    ASSUME NEW spends, Proposed(spends), NEW z \in ToSet(Created(spends))
    PROVE  UnitOK(z) /\ \E p \in Spent(spends) : Parent(z, p)
<1>1. PICK i \in DOMAIN spends : Makes(spends[i], z)
  BY CreatedIs
<1>2. PICK s : s = spends[i] /\ Proper(s)
  BY DEF Proposed
<1>3. UnitOK(z)
  BY <1>1, <1>2, MakesUnit
<1>4. PICK ph : \E n \in Nat : z = Unspent(s.asset, Coin(s.coin, ph, n))
  BY <1>1, <1>2 DEF Makes
<1>5. PICK n \in Nat : z = Unspent(s.asset, Coin(s.coin, ph, n))
  BY <1>4
<1>6. PICK c : c = Coin(s.coin, ph, n) /\ Len(s.coin) \in Nat /\ Len(c) = Len(s.coin) + 1
                /\ Under(s.coin, c)
  BY <1>2, ChildIs DEF Proper, IsCoin
<1>7. PICK p : p = Unspent(s.asset, s.coin)
  OBVIOUS
<1>8. p \in Spent(spends)
  BY <1>2, <1>7 DEF Spent
<1>9. p.coin = s.coin /\ p.asset = s.asset /\ z.coin = c /\ z.asset = s.asset
  BY <1>5, <1>6, <1>7 DEF Unspent
<1>10. Parent(z, p)
  BY <1>2, <1>6, <1>9 DEF Parent, Proper, IsCoin
<1> QED BY <1>3, <1>8, <1>10

(* A coin of the chain that z descends from, every coin between them being *)
(* one the bundle spends.                                                  *)
Root(r, z, chn, spends) ==
    /\ r \in chn /\ r \in Spent(spends) /\ UnitOK(r)
    /\ Len(r.coin) < Len(z.coin) /\ Under(r.coin, z.coin)
    /\ \A n \in Nat : Len(r.coin) <= n /\ n < Len(z.coin) =>
          \E s \in Spent(spends) : Len(s.coin) = n /\ Under(s.coin, z.coin)
Rooted(z, chn, spends) == \E r \in chn : Root(r, z, chn, spends)

LEMMA ParentRooted ==
    ASSUME NEW spends, Proposed(spends), NEW chn, Present(spends, chn),
           NEW z \in ToSet(Created(spends)), NEW p \in Spent(spends), Parent(z, p),
           p \in ToSet(Created(spends)) => Rooted(p, chn, spends)
    PROVE  Rooted(z, chn, spends)
<1>1. UnitOK(p) /\ UnitOK(z)
  BY SpentUnits, CreatedParent
<1>2. IsSeq(p.coin) /\ IsSeq(z.coin) /\ Len(p.coin) \in Nat /\ Len(z.coin) = Len(p.coin) + 1
      /\ Under(p.coin, z.coin)
  BY <1>1 DEF UnitOK, IsCoin, Parent
<1>3. CASE p \notin ToSet(Created(spends))
  <2>1. p \in chn
    BY <1>3 DEF Present
  <2>2. \A n \in Nat : Len(p.coin) <= n /\ n < Len(z.coin) => n = Len(p.coin)
    BY <1>2
  <2>3. Root(p, z, chn, spends)
    BY <1>1, <1>2, <2>1, <2>2 DEF Root
  <2> QED BY <2>1, <2>3 DEF Rooted
<1>4. CASE p \in ToSet(Created(spends))
  <2>1. PICK r \in chn : Root(r, p, chn, spends)
    BY <1>4 DEF Rooted
  <2>2. IsSeq(r.coin) /\ Len(r.coin) \in Nat
    BY <2>1, SeqIs DEF Root, UnitOK, IsCoin
  <2>3. Under(r.coin, z.coin) /\ Len(r.coin) < Len(z.coin)
    <3>1. Under(r.coin, p.coin) /\ Len(r.coin) < Len(p.coin)
      BY <2>1 DEF Root
    <3>2. Under(r.coin, z.coin)
      BY <1>2, <2>2, <3>1, UnderIs
    <3> QED BY <1>2, <2>2, <3>1, <3>2
  <2>4. ASSUME NEW n \in Nat, Len(r.coin) <= n, n < Len(z.coin)
        PROVE  \E s \in Spent(spends) : Len(s.coin) = n /\ Under(s.coin, z.coin)
    <3>1. CASE n = Len(p.coin)
      BY <1>2, <3>1
    <3>2. CASE n # Len(p.coin)
      <4>1. n < Len(p.coin)
        BY <1>2, <2>4, <3>2
      <4>2. PICK s \in Spent(spends) : Len(s.coin) = n /\ Under(s.coin, p.coin)
        BY <2>1, <2>4, <4>1 DEF Root
      <4>3. IsSeq(s.coin)
        BY SpentUnits DEF UnitOK, IsCoin
      <4>4. Under(s.coin, z.coin)
        BY <1>2, <4>2, <4>3, UnderIs
      <4> QED BY <4>2, <4>4
    <3> QED BY <3>1, <3>2
  <2>5. Root(r, z, chn, spends)
    BY <2>1, <2>3, <2>4 DEF Root
  <2> QED BY <2>5 DEF Rooted
<1> QED BY <1>3, <1>4

LEMMA CreatedRooted ==
    ASSUME NEW spends, Proposed(spends), NEW chn, Present(spends, chn)
    PROVE  \A z \in ToSet(Created(spends)) : Rooted(z, chn, spends)
<1> DEFINE bad == {z \in ToSet(Created(spends)) : ~Rooted(z, chn, spends)}
           T   == {Len(z.coin) : z \in bad}
<1> SUFFICES ASSUME bad # {}
             PROVE  FALSE
  OBVIOUS
<1>1. T \subseteq Nat /\ T # {}
  <2>1. \A z \in bad : Len(z.coin) \in Nat
    BY CreatedParent, SeqIs DEF UnitOK, IsCoin
  <2> HIDE DEF bad
  <2> QED BY <2>1
<1>2. PICK n \in T : \A m \in T : n <= m
  <2> HIDE DEF T
  <2> QED BY <1>1, LeastNatural
<1>3. PICK z \in bad : n = Len(z.coin)
  OBVIOUS
<1>4. PICK p \in Spent(spends) : Parent(z, p)
  BY <1>3, CreatedParent
<1>5. p \notin bad
  <2> SUFFICES ASSUME p \in bad
               PROVE  FALSE
    OBVIOUS
  <2>1. n <= Len(p.coin)
    BY <1>2
  <2> QED BY <1>3, <1>4, <2>1 DEF Parent
<1>6. Rooted(z, chn, spends)
  BY <1>3, <1>4, <1>5, ParentRooted
<1> QED BY <1>3, <1>6

(* What a bundle creates under one coin id is one coin.                    *)
LEMMA CreatedOnce ==
    ASSUME NEW spends, Proposed(spends), Separate(spends),
           NEW u \in ToSet(Created(spends)), NEW v \in ToSet(Created(spends)), u.coin = v.coin
    PROVE  u = v
<1>1. PICK p \in Spent(spends) : Parent(u, p)
  BY CreatedParent
<1>2. PICK q \in Spent(spends) : Parent(v, q)
  BY CreatedParent
<1>3. IsSeq(p.coin) /\ IsSeq(q.coin) /\ IsSeq(u.coin) /\ UnitOK(u) /\ UnitOK(v)
  BY <1>1, <1>2, CreatedParent DEF Parent, UnitOK, IsCoin
<1>4. Len(p.coin) = Len(q.coin) /\ Len(p.coin) <= Len(q.coin)
  BY <1>1, <1>2 DEF Parent
<1>5. Under(p.coin, u.coin) /\ Under(q.coin, u.coin)
  BY <1>1, <1>2 DEF Parent
<1>6. p.coin = q.coin
  BY <1>3, <1>4, <1>5, UnderIs
<1>7. p = q
  <2>1. PICK i \in DOMAIN spends : p = Unspent(spends[i].asset, spends[i].coin)
    BY SpentIs
  <2>2. PICK j \in DOMAIN spends : q = Unspent(spends[j].asset, spends[j].coin)
    BY SpentIs
  <2>3. i = j
    BY <1>6, <2>1, <2>2 DEF Separate, Unspent
  <2> QED BY <2>1, <2>2, <2>3
<1>8. u.asset = v.asset
  BY <1>1, <1>2, <1>7 DEF Parent
<1> QED BY <1>3, <1>8 DEF UnitOK, Unspent

(* Coins of one chain, none of which descends from another.                *)
LEMMA Apart ==
    ASSUME NEW chn, Antichain(chn), NEW r \in chn, NEW s \in chn, UnitOK(r), UnitOK(s),
           NEW c, IsSeq(c), Under(r.coin, c), Under(s.coin, c)
    PROVE  r = s
<1>1. IsSeq(r.coin) /\ IsSeq(s.coin)
  BY DEF UnitOK, IsCoin
<1>2. Under(r.coin, s.coin) \/ Under(s.coin, r.coin)
  BY <1>1, UnderIs
<1> QED BY <1>2 DEF Antichain

LEMMA MinedAntichain ==
    ASSUME NEW chn, Units(chn), Antichain(chn), NEW spends, Proposed(spends), Separate(spends),
           Present(spends, chn)
    PROVE  Antichain(Mined(chn, spends))
<1> DEFINE new == ToSet(Created(spends))
<1> SUFFICES ASSUME NEW u \in Mined(chn, spends), NEW v \in Mined(chn, spends),
                    Under(u.coin, v.coin)
             PROVE  u = v
  BY DEF Antichain
<1>1. /\ u \in chn \cup new /\ v \in chn \cup new
      /\ u \notin Spent(spends) /\ v \notin Spent(spends)
  BY DEF Mined
<1>2. UnitOK(u) /\ UnitOK(v) /\ IsSeq(u.coin) /\ IsSeq(v.coin)
  BY <1>1, CreatedParent DEF Units, UnitOK, IsCoin
<1>3. Len(u.coin) \in Nat /\ Len(v.coin) \in Nat /\ Len(u.coin) <= Len(v.coin)
  BY <1>2, SeqIs DEF Under
<1>4. CASE u \in chn /\ v \in chn
  BY <1>4 DEF Antichain
<1>5. CASE v \in new /\ u \in chn
  <2>1. PICK r \in chn : Root(r, v, chn, spends)
    BY <1>5, CreatedRooted DEF Rooted
  <2>2. r = u
    BY <1>2, <1>5, <2>1, Apart DEF Root
  <2> QED BY <1>1, <2>1, <2>2 DEF Root
<1>6. CASE u \in new
  <2>1. PICK r \in chn : Root(r, u, chn, spends)
    BY <1>6, CreatedRooted DEF Rooted
  <2>2. /\ IsSeq(r.coin) /\ Len(r.coin) \in Nat /\ UnitOK(r)
        /\ Under(r.coin, u.coin) /\ Len(r.coin) < Len(u.coin)
    BY <2>1, SeqIs DEF Root, UnitOK, IsCoin
  <2>3. Under(r.coin, v.coin)
    BY <1>2, <2>2, UnderIs
  <2>4. CASE v \in chn
    <3>1. r = v
      BY <2>2, <2>3, <2>4 DEF Antichain
    <3> QED BY <1>3, <2>2, <3>1
  <2>5. CASE v \in new
    <3>1. PICK q \in chn : Root(q, v, chn, spends)
      BY <2>5, CreatedRooted DEF Rooted
    <3>2. UnitOK(q) /\ Under(q.coin, v.coin)
      BY <3>1 DEF Root
    <3>3. r = q
      BY <1>2, <2>2, <2>3, <3>2, Apart
    <3>4. CASE Len(u.coin) = Len(v.coin)
      <4>1. u.coin = v.coin
        BY <1>2, <3>4, UnderIs
      <4> QED BY <1>6, <2>5, <4>1, CreatedOnce
    <3>5. CASE Len(u.coin) < Len(v.coin)
      <4>1. PICK s \in Spent(spends) : Len(s.coin) = Len(u.coin) /\ Under(s.coin, v.coin)
        BY <1>3, <2>2, <3>1, <3>3, <3>5 DEF Root
      <4>2. UnitOK(s) /\ IsSeq(s.coin)
        BY SpentUnits DEF UnitOK, IsCoin
      <4>3. s.coin = u.coin
        BY <1>2, <1>3, <4>1, <4>2, UnderIs
      <4>4. CASE s \in new
        <5>1. s = u
          BY <1>6, <4>3, <4>4, CreatedOnce
        <5> QED BY <1>1, <4>1, <5>1
      <4>5. CASE s \notin new
        <5>1. s \in chn
          BY <4>5 DEF Present
        <5>2. r = s
          BY <2>1, <2>2, <4>3, <5>1 DEF Antichain
        <5> QED BY <1>3, <2>2, <4>3, <5>2
      <4> QED BY <4>4, <4>5
    <3> QED BY <1>3, <3>4, <3>5
  <2> QED BY <1>1, <2>4, <2>5
<1> QED BY <1>1, <1>4, <1>5, <1>6

-----------------------------------------------------------------------------
(* A bundle that no later block can take: a coin it needs from the chain   *)
(* is spent, and nothing on chain is an ancestor of that coin any more.    *)

Dead(spends, chn) ==
    \E x \in Spent(spends) : /\ x \notin ToSet(Created(spends))
                             /\ \A w \in chn : ~Under(w.coin, x.coin)

(* Not every coin a bundle spends is one it creates.                       *)
LEMMA Survivor ==
    ASSUME NEW spends, Proposed(spends), spends # <<>>
    PROVE  \E x \in Spent(spends) : x \notin ToSet(Created(spends))
<1> DEFINE T == {Len(x.coin) : x \in Spent(spends)}
<1>1. \A x \in Spent(spends) : Len(x.coin) \in Nat
  BY SpentUnits, SeqIs DEF UnitOK, IsCoin
<1>2. 1 \in DOMAIN spends
  BY SeqIs DEF Proposed
<1>3. Spent(spends) # {}
  BY <1>2 DEF Spent
<1>4. PICK n \in T : \A m \in T : n <= m
  <2>1. T \subseteq Nat /\ T # {}
    BY <1>1, <1>3
  <2> HIDE DEF T
  <2> QED BY <2>1, LeastNatural
<1>5. PICK x \in Spent(spends) : n = Len(x.coin)
  OBVIOUS
<1>6. ASSUME x \in ToSet(Created(spends)) PROVE FALSE
  <2>1. PICK p \in Spent(spends) : Parent(x, p)
    BY <1>6, CreatedParent
  <2>2. n <= Len(p.coin)
    BY <1>4
  <2> QED BY <1>5, <2>1, <2>2 DEF Parent
<1> QED BY <1>6

LEMMA DeadAbsent ==
    ASSUME NEW spends, Proposed(spends), NEW chn, Dead(spends, chn)
    PROVE  ~Present(spends, chn)
<1>1. PICK x \in Spent(spends) : x \notin ToSet(Created(spends)) /\ \A w \in chn : ~Under(w.coin, x.coin)
  BY DEF Dead
<1>2. IsSeq(x.coin)
  BY SpentUnits DEF UnitOK, IsCoin
<1>3. Under(x.coin, x.coin)
  BY <1>2, UnderIs
<1> QED BY <1>1, <1>3 DEF Present

(* What is on chain after a block comes from the chain before it.          *)
LEMMA MinedFrom ==
    ASSUME NEW chn, Units(chn), NEW spends, Proposed(spends), Present(spends, chn),
           NEW w \in Mined(chn, spends)
    PROVE  /\ UnitOK(w) /\ w \notin Spent(spends)
           /\ w \in chn \/ \E r \in chn : Root(r, w, chn, spends)
BY CreatedRooted, CreatedParent DEF Mined, Rooted, Units

LEMMA MinedDead ==
    ASSUME NEW chn, Units(chn), Antichain(chn), NEW spends, Proposed(spends), spends # <<>>,
           Present(spends, chn)
    PROVE  Dead(spends, Mined(chn, spends))
<1>1. PICK x \in Spent(spends) : x \notin ToSet(Created(spends))
  BY Survivor
<1>2. x \in chn /\ UnitOK(x) /\ IsSeq(x.coin)
  BY <1>1, SpentUnits DEF Present, UnitOK, IsCoin
<1>3. ASSUME NEW w \in Mined(chn, spends), Under(w.coin, x.coin) PROVE FALSE
  <2>1. CASE w \in chn
    BY <1>2, <1>3, <2>1, MinedFrom DEF Antichain
  <2>2. CASE \E r \in chn : Root(r, w, chn, spends)
    <3>1. PICK r \in chn : Root(r, w, chn, spends)
      BY <2>2
    <3>2. UnitOK(w) /\ IsSeq(w.coin) /\ UnitOK(r) /\ IsSeq(r.coin)
      BY <3>1, MinedFrom DEF Root, UnitOK, IsCoin
    <3>3. Under(r.coin, x.coin)
      BY <1>2, <1>3, <3>1, <3>2, UnderIs DEF Root
    <3>4. r = x
      BY <1>2, <3>3 DEF Antichain
    <3>5. Len(w.coin) \in Nat /\ Len(x.coin) \in Nat /\ Len(w.coin) <= Len(x.coin)
      BY <1>2, <1>3, <3>2, SeqIs DEF Under
    <3> QED BY <3>1, <3>4, <3>5 DEF Root
  <2> QED BY <2>1, <2>2, MinedFrom
<1> QED BY <1>1, <1>3 DEF Dead

LEMMA DeadStays ==
    ASSUME NEW chn, Units(chn), NEW spends, Proposed(spends), Present(spends, chn),
           NEW gone, Proposed(gone), Dead(gone, chn)
    PROVE  Dead(gone, Mined(chn, spends))
<1>1. PICK x \in Spent(gone) : x \notin ToSet(Created(gone)) /\ \A w \in chn : ~Under(w.coin, x.coin)
  BY DEF Dead
<1>2. IsSeq(x.coin)
  BY SpentUnits DEF UnitOK, IsCoin
<1>3. ASSUME NEW w \in Mined(chn, spends), Under(w.coin, x.coin) PROVE FALSE
  <2>1. w \notin chn
    BY <1>1, <1>3
  <2>2. PICK r \in chn : Root(r, w, chn, spends)
    BY <2>1, MinedFrom
  <2>3. IsSeq(w.coin) /\ IsSeq(r.coin)
    BY <2>2, MinedFrom DEF Root, UnitOK, IsCoin
  <2>4. Under(r.coin, x.coin)
    BY <1>2, <1>3, <2>2, <2>3, UnderIs DEF Root
  <2> QED BY <1>1, <2>4
<1> QED BY <1>1, <1>3 DEF Dead

-----------------------------------------------------------------------------
(***************************************************************************)
(* A request is paid at most once.  The builders make one bundle of a      *)
(* request and a wallet, so that every bundle of the open request needs    *)
(* the same coins; once a block has taken one of them in, they are gone.   *)
(***************************************************************************)

OpenBuilt == IF SomeRequest THEN Built(request, wallet) ELSE {}

BundleOK(b) ==
    /\ b = [spends |-> b.spends, open |-> b.open] /\ b.open \in BOOLEAN
    /\ b.spends # <<>> /\ Separate(b.spends)
PoolOK(pool, built) ==
    \A b \in pool : BundleOK(b) /\ (b.open => \E u \in built : b.spends = u.spends)

OnceInv ==
    /\ Antichain(chain)
    /\ phase # "idle" => unsigned \in OpenBuilt
    /\ phase = "signed" => unsigned.spends # <<>>
    /\ PoolOK(mempool, OpenBuilt)
    /\ confirmed \in {0, 1}
    /\ confirmed = 1 => \A u \in OpenBuilt : Dead(u.spends, chain)

LEMMA OpenBuiltIs ==
    ASSUME NEW asked, AskedOK(asked), FlowSound(asked)
    PROVE  OnlyOne(OpenBuilt) /\ \A u \in OpenBuilt : Proposed(u.spends)
<1>1. CASE ~SomeRequest
  BY <1>1 DEF OpenBuilt, OnlyOne
<1>2. CASE SomeRequest
  <2>1. PICK r : r = request /\ RequestOK(r)
    BY <1>2 DEF FlowSound, AskedOK
  <2>2. PICK w : w = wallet /\ WalletOK(w)
    BY DEF FlowSound
  <2>3. OpenBuilt = Built(r, w)
    BY <1>2, <2>1, <2>2 DEF OpenBuilt
  <2>4. OnlyOne(Built(r, w))
    BY <2>1, BuiltOnlyOne
  <2>5. \A u \in Built(r, w) : Proposed(u.spends)
    BY <2>1, <2>2, BuiltProposed
  <2> QED BY <2>3, <2>4, <2>5
<1> QED BY <1>1, <1>2

(* The gate works on a bundle it has, and signs none that is empty.        *)
LEMMA GateStepBusy ==
    ASSUME GateStep
    PROVE  phase # "idle" /\ phase' # "idle" /\ (phase' = "signed" => unsigned.spends # <<>>)
<1>1. ASSUME NEW l, Accounts(l), Looking
      PROVE  phase # "idle" /\ phase' # "idle" /\ phase' # "signed"
  BY <1>1 DEF Accounts, Refused, Start, Looking, Working
<1>2. CASE \/ AccountCatClaim \/ AccountCatSend \/ AccountOptionTransfer
           \/ AccountSingletonLaunch \/ AccountNft
           \/ AccountSingletonMelt \/ AccountStandardSend \/ AccountSettlementClaim
  BY <1>1, <1>2 DEF AccountCatClaim, AccountCatSend, AccountSingletonLaunch, AccountNft,
       AccountNftTransfer, AccountNftEveMint, AccountSingletonMelt, AccountStandardSend,
       AccountSettlementClaim, AccountOptionTransfer
<1>3. CASE Review \/ Display \/ Sign \/ RefuseSpend \/ Show \/ ShowKeyFree \/ RefuseBundle
  BY <1>3 DEF Review, Display, Sign, RefuseSpend, Show, ShowKeyFree, RefuseBundle, Refused, Start,
       Looking, Analyzed, Working
<1>4. CASE SignBundle
  BY <1>4 DEF SignBundle, Passes, Start
<1> QED BY <1>2, <1>3, <1>4 DEF GateStep

LEMMA OnceInit ==
    ASSUME NEW coins, ChainOK(coins), NEW change, FlowInit(coins, change)
    PROVE  OnceInv
<1>1. Antichain(coins)
  <2> SUFFICES ASSUME NEW u \in coins, NEW v \in coins, Under(u.coin, v.coin)
               PROVE  u = v
    BY DEF Antichain
  <2>1. IsSeq(u.coin) /\ IsSeq(v.coin)
    BY DEF ChainOK, IsCoin
  <2>2. IsPrefix(u.coin, v.coin)
    BY <2>1, UnderIsPrefix
  <2> QED BY <2>2 DEF ChainOK
<1> QED BY <1>1 DEF FlowInit, GateInit, OnceInv, PoolOK

(* What an over request leaves behind is no longer open.                   *)
LEMMA OverPool ==
    ASSUME OnceInv, Over
    PROVE  OpenBuilt' = {} /\ PoolOK(mempool', {})
<1>1. ASSUME NEW b \in mempool PROVE BundleOK([b EXCEPT !.open = FALSE]) /\ ~[b EXCEPT !.open = FALSE].open
  <2>1. BundleOK(b)
    BY DEF OnceInv, PoolOK
  <2>2. PICK ss, o : b = [spends |-> ss, open |-> o]
    BY <2>1 DEF BundleOK
  <2>3. PICK c : c = [b EXCEPT !.open = FALSE]
    OBVIOUS
  <2>4. c = [spends |-> ss, open |-> FALSE]
    BY <2>2, <2>3
  <2>5. c.spends = ss /\ c.open = FALSE /\ b.spends = ss
    BY <2>2, <2>4
  <2> QED BY <2>1, <2>3, <2>4, <2>5 DEF BundleOK
<1> QED BY <1>1 DEF Over, OpenBuilt, SomeRequest, PoolOK

(* A submission: the bundle is the open request's, and is one the network  *)
(* would take by itself.                                                   *)
LEMMA SubmitPool ==
    ASSUME NEW asked, FlowSound(asked), OnceInv, Submittable,
           mempool' = mempool \/ (Acceptable /\ mempool' = mempool \cup {Bundle}),
           UNCHANGED <<request, wallet>>
    PROVE  PoolOK(mempool', OpenBuilt')
<1>1. OpenBuilt' = OpenBuilt
  BY DEF OpenBuilt, SomeRequest
<1>2. CASE mempool' = mempool
  BY <1>1, <1>2 DEF OnceInv
<1>3. CASE Acceptable /\ mempool' = mempool \cup {Bundle}
  <2>1. PICK b : b = Bundle
    OBVIOUS
  <2>2. b = [spends |-> b.spends, open |-> b.open] /\ b.open = TRUE /\ b.spends = unsigned.spends
    BY <2>1 DEF Bundle
  <2>3. PICK ss : ss = unsigned.spends
    OBVIOUS
  <2>4. Separate(ss)
    BY <1>3, <2>3, ConsistentSeparate DEF Acceptable, FlowSound
  <2>5. BundleOK(b)
    BY <2>2, <2>3, <2>4 DEF BundleOK, OnceInv, Submittable
  <2>6. \E u \in OpenBuilt : b.spends = u.spends
    BY <2>2 DEF OnceInv, Submittable
  <2>7. \A c \in mempool' : c \in mempool \/ c = b
    BY <1>3, <2>1
  <2>8. PoolOK(mempool, OpenBuilt)
    BY DEF OnceInv
  <2> QED BY <1>1, <2>5, <2>6, <2>7, <2>8 DEF PoolOK
<1> QED BY <1>2, <1>3

(* A block with a bundle of the open request is the first one, and no      *)
(* later block takes another.                                              *)
LEMMA ConfirmOnce ==
    ASSUME NEW asked, AskedOK(asked), FlowSound(asked), OnceInv, Confirm
    PROVE  OnceInv'
<1>1. PICK b \in mempool :
          /\ Present(b.spends, chain) /\ chain' = Mined(chain, b.spends)
          /\ mempool' \subseteq mempool
          /\ confirmed' = IF b.open THEN confirmed + 1 ELSE confirmed
  BY DEF Confirm, Mined
<1>2. UNCHANGED gateVars /\ UNCHANGED <<request, wallet>>
  BY DEF Confirm
<1>3. PICK built : built = OpenBuilt /\ built = OpenBuilt'
  BY <1>2 DEF OpenBuilt, SomeRequest
<1>4. OnlyOne(built) /\ \A u \in built : Proposed(u.spends)
  BY <1>3, OpenBuiltIs
<1>5. PICK chn : chn = chain /\ Units(chn) /\ Antichain(chn)
  BY DEF FlowSound, OnceInv
<1>6. PICK ss : ss = b.spends /\ Proposed(ss) /\ Present(ss, chn)
  BY <1>1, <1>5 DEF FlowSound
<1>7. BundleOK(b) /\ ss # <<>> /\ Separate(ss)
  BY <1>6 DEF OnceInv, PoolOK, BundleOK
<1>8. chain' = Mined(chn, ss) /\ Antichain(Mined(chn, ss))
  BY <1>1, <1>5, <1>6, <1>7, MinedAntichain
<1>9. confirmed = 1 => \A u \in built : Dead(u.spends, chn)
  BY <1>3, <1>5 DEF OnceInv
<1>10. confirmed = 1 => \A u \in built : Dead(u.spends, Mined(chn, ss))
  BY <1>4, <1>5, <1>6, <1>9, DeadStays
<1>11. CASE ~b.open
  BY <1>1, <1>2, <1>3, <1>8, <1>10, <1>11 DEF OnceInv, PoolOK, gateVars
<1>12. CASE b.open
  <2>1. PICK u \in built : ss = u.spends
    BY <1>3, <1>6, <1>12 DEF OnceInv, PoolOK
  <2>2. confirmed = 0 /\ confirmed' = 1
    <3>1. confirmed # 1
      BY <1>6, <1>9, <2>1, DeadAbsent
    <3> QED BY <1>1, <1>12, <3>1 DEF OnceInv
  <2>3. Dead(ss, Mined(chn, ss))
    BY <1>5, <1>6, <1>7, MinedDead
  <2>4. \A v \in built : Dead(v.spends, Mined(chn, ss))
    BY <1>4, <2>1, <2>3 DEF OnlyOne
  <2> QED BY <1>1, <1>2, <1>3, <1>8, <2>2, <2>4 DEF OnceInv, PoolOK, gateVars
<1> QED BY <1>11, <1>12

LEMMA OnceStep ==
    ASSUME NEW asked, AskedOK(asked), FlowSound(asked), OnceInv, [FlowNext(asked)]_pipelineVars
    PROVE  OnceInv'
<1>1. ASSUME UNCHANGED flowVars, phase' # "idle" => unsigned' \in OpenBuilt,
             phase' = "signed" => unsigned'.spends # <<>>
      PROVE  OnceInv'
  <2>1. OpenBuilt' = OpenBuilt
    BY <1>1 DEF flowVars, OpenBuilt, SomeRequest
  <2> QED BY <1>1, <2>1 DEF OnceInv, flowVars
<1>2. ASSUME Over, phase' = "idle", UNCHANGED <<chain, confirmed>>
      PROVE  OnceInv'
  BY <1>2, OverPool DEF OnceInv
<1>3. CASE \E r \in asked : Ask(r)
  <2>1. PoolOK(mempool, {})
    BY <1>3 DEF Ask, OnceInv, OpenBuilt, SomeRequest
  <2>2. \A b \in mempool : BundleOK(b) /\ ~b.open
    BY <2>1 DEF PoolOK
  <2> QED BY <1>3, <2>2 DEF Ask, OnceInv, gateVars, PoolOK
<1>4. CASE Build
  <2>1. UNCHANGED flowVars /\ phase' = "received" /\ unsigned' \in OpenBuilt
    BY <1>4 DEF Build, Receive, OpenBuilt, SomeRequest
  <2> QED BY <1>1, <2>1
<1>5. CASE GiveUp \/ UNCHANGED pipelineVars
  BY <1>1, <1>5 DEF GiveUp, Done, Start, pipelineVars, gateVars, OnceInv
<1>6. CASE GateStep /\ UNCHANGED flowVars
  BY <1>1, <1>6, GateStepBusy, GateStepLeaves DEF OnceInv
<1>7. CASE BuildFails \/ Sync \/ Settle
  BY <1>2, <1>7 DEF BuildFails, Sync, Settle, Done, Start, gateVars
<1>8. CASE SubmitAccepted \/ SubmitRejected \/ SubmitLost
  <2>1. PoolOK(mempool', OpenBuilt')
    BY <1>8, SubmitPool DEF SubmitAccepted, SubmitRejected, SubmitLost
  <2>2. OpenBuilt' = OpenBuilt /\ UNCHANGED <<chain, confirmed>>
    BY <1>8 DEF SubmitAccepted, SubmitRejected, SubmitLost, OpenBuilt, SomeRequest
  <2>3. UNCHANGED gateVars \/ phase' = "idle"
    BY <1>8 DEF SubmitAccepted, SubmitRejected, SubmitLost, Done, Start
  <2> QED BY <2>1, <2>2, <2>3 DEF OnceInv, gateVars
<1>9. CASE Confirm
  BY <1>9, ConfirmOnce
<1> QED BY <1>3, <1>4, <1>5, <1>6, <1>7, <1>8, <1>9 DEF FlowNext, FlowStep

(* However often a request is submitted again, or built again over the     *)
(* coins of the last synchronisation, and whatever answers are lost,       *)
(* blocks take it in at most once (select_for_spend,                       *)
(* MempoolBroadcaster::submit).                                            *)
THEOREM FlowPaidAtMostOnce ==
    ASSUME NEW CONSTANT asked, AskedOK(asked), NEW CONSTANT coins, ChainOK(coins),
           NEW CONSTANT change
    PROVE  FlowSpec(asked, coins, change) => []PaidAtMostOnce
<1>1. FlowInit(coins, change) => FlowSound(asked) /\ OnceInv
  BY FlowSoundInit, OnceInit
<1>2. FlowSound(asked) /\ OnceInv /\ [FlowNext(asked)]_pipelineVars => (FlowSound(asked) /\ OnceInv)'
  BY FlowSoundStep, OnceStep
<1>3. OnceInv => PaidAtMostOnce
  BY DEF OnceInv, PaidAtMostOnce
<1> QED BY <1>1, <1>2, <1>3, PTL DEF FlowSpec

-----------------------------------------------------------------------------
(* Types.                                                                  *)

Bounded ==
    /\ submits \in 0..MaxSubmits /\ round \in 0..MaxRounds
    /\ \A c \in wallet.xch : KeyKnown(PuzzleHashOf(c))

LEMMA HoldingsKnown ==
    ASSUME NEW chn, NEW change, NEW c \in Holdings(chn, change).xch
    PROVE  KeyKnown(PuzzleHashOf(c))
BY DEF Holdings

LEMMA BoundedInit ==
    ASSUME NEW coins, NEW change, FlowInit(coins, change)
    PROVE  Bounded
<1>1. \A c \in wallet.xch : KeyKnown(PuzzleHashOf(c))
  BY HoldingsKnown DEF FlowInit
<1>2. submits \in 0..MaxSubmits /\ round \in 0..MaxRounds
  BY BoundsAssumption DEF FlowInit
<1> QED BY <1>1, <1>2 DEF Bounded

LEMMA BoundedStep ==
    ASSUME NEW asked, Bounded, [FlowNext(asked)]_pipelineVars
    PROVE  Bounded'
<1>1. submits' \in 0..MaxSubmits /\ round' \in 0..MaxRounds
  BY BoundsAssumption DEF Bounded, FlowNext, FlowStep, Ask, Build, BuildFails, Sync, Settle,
     SubmitAccepted, SubmitRejected, SubmitLost, Submittable, GiveUp, Confirm, pipelineVars, flowVars
<1>2. wallet' = wallet \/ \E change : wallet' = Holdings(chain, change)
  BY DEF FlowNext, FlowStep, Ask, Build, BuildFails, Sync, Settle,
     SubmitAccepted, SubmitRejected, SubmitLost, GiveUp, Confirm, pipelineVars, flowVars
<1>3. \A c \in wallet'.xch : KeyKnown(PuzzleHashOf(c))
  <2>1. PICK chn : chn = chain
    OBVIOUS
  <2> QED BY <1>2, <2>1, HoldingsKnown DEF Bounded
<1> QED BY <1>1, <1>3 DEF Bounded

(* The counters stay in their bounds, no bundle of the mempool belongs to  *)
(* a request that is over, and the wallet spends no coin it has no key of: *)
(* with the ledger's totals, which are u64s (UnsignedSpend, SpendLedger).  *)
THEOREM FlowTypeCorrect ==
    ASSUME NEW CONSTANT asked, AskedOK(asked), NEW CONSTANT coins, ChainOK(coins),
           NEW CONSTANT change
    PROVE  FlowSpec(asked, coins, change) => [](GateTypeOK /\ FlowTypeOK)
<1>1. FlowInit(coins, change) => FlowGate(asked) /\ OnceInv /\ Bounded
  BY FlowGateInit, OnceInit, BoundedInit
<1>2. FlowGate(asked) /\ OnceInv /\ Bounded /\ [FlowNext(asked)]_pipelineVars
        => (FlowGate(asked) /\ OnceInv /\ Bounded)'
  BY FlowGateStep, OnceStep, BoundedStep DEF FlowGate
<1>3. OnceInv /\ Bounded => FlowTypeOK
  BY DEF OnceInv, Bounded, FlowTypeOK, PoolOK, OpenBuilt, SomeRequest
<1>4. FlowGate(asked) => GateTypeOK
  BY DEF FlowGate, GateCore
<1> QED BY <1>1, <1>2, <1>3, <1>4, PTL DEF FlowSpec

-----------------------------------------------------------------------------
(* Selection.                                                              *)

LEMMA WalletSelects ==
    ASSUME NEW S, Purse(S), TotalOf(S) <= Max64
    PROVE  /\ \A target \in 0..Max64, cap \in 0..3 : Covers(S, target, cap)
           /\ \A cap \in 0..3 : Merges(S, cap)
           /\ \A c \in S, parts \in 2..4 : Shares(AmountOf(c), parts)
<1>1. ASSUME NEW target \in 0..Max64, NEW cap \in 0..3
      PROVE  Covers(S, target, cap)
  <2>1. target \in Nat /\ cap \in Nat
    OBVIOUS
  <2> QED BY <2>1, SelectionCovers
<1>2. ASSUME NEW cap \in 0..3
      PROVE  Merges(S, cap)
  <2>1. cap \in Nat
    OBVIOUS
  <2> QED BY <2>1, ConsolidationMerges
<1>3. ASSUME NEW c \in S, NEW parts \in 2..4
      PROVE  Shares(AmountOf(c), parts)
  <2>1. parts \in Nat /\ parts >= 2
    OBVIOUS
  <2>2. AmountOf(c) \in Nat
    BY DEF Purse, IsCoin
  <2> QED BY <2>1, <2>2, SplitShares
<1> QED BY <1>1, <1>2, <1>3

(* For any holdings of the wallet at any point of the flow, with a total   *)
(* that is a u64: select_for_spend answers insufficient funds exactly when *)
(* the coins do not reach the target and a consolidation exactly when no   *)
(* choice within the cap does, and otherwise takes as few coins as any     *)
(* choice could; select_for_consolidation takes the largest coins; and     *)
(* staggered_amounts cuts a coin whenever it can be cut into that many     *)
(* different amounts, and loses nothing.                                   *)
THEOREM FlowSelectionSound ==
    ASSUME NEW CONSTANT asked, AskedOK(asked), NEW CONSTANT coins, ChainOK(coins),
           NEW CONSTANT change
    PROVE  FlowSpec(asked, coins, change) => []SelectionSound
<1>1. FlowInit(coins, change) => FlowSound(asked)
  BY FlowSoundInit
<1>2. FlowSound(asked) /\ [FlowNext(asked)]_pipelineVars => FlowSound(asked)'
  BY FlowSoundStep
<1>3. FlowSound(asked) => SelectionSound
  <2> SUFFICES ASSUME FlowSound(asked), TotalOf(wallet.xch) <= Max64
               PROVE  /\ \A target \in 0..Max64, cap \in 0..3 : Covers(wallet.xch, target, cap)
                      /\ \A cap \in 0..3 : Merges(wallet.xch, cap)
                      /\ \A c \in wallet.xch, parts \in 2..4 : Shares(AmountOf(c), parts)
    BY DEF SelectionSound
  <2>1. PICK S : S = wallet.xch
    OBVIOUS
  <2>2. Purse(S) /\ TotalOf(S) <= Max64
    BY <2>1 DEF FlowSound, WalletOK
  <2>3. /\ \A target \in 0..Max64, cap \in 0..3 : Covers(S, target, cap)
        /\ \A cap \in 0..3 : Merges(S, cap)
        /\ \A c \in S, parts \in 2..4 : Shares(AmountOf(c), parts)
    BY <2>2, WalletSelects
  <2> QED BY <2>1, <2>3
<1> QED BY <1>1, <1>2, <1>3, PTL DEF FlowSpec

-----------------------------------------------------------------------------
(***************************************************************************)
(* A signed bundle is one the network can take.                            *)
(***************************************************************************)

(* At most one element of s is in Y; no two elements of s are the same.    *)
Lone(Y, s) == \A i, j \in DOMAIN s : s[i] \in Y /\ s[j] \in Y => i = j
Unlike(s)  == \A i, j \in DOMAIN s : s[i] = s[j] => i = j

LEMMA LoneCounted ==
    ASSUME NEW s, IsSeq(s), NEW Y
    PROVE  Lone(Y, s) <=> Count(Y, s) <= 1
<1>1. PICK I : I = {i \in DOMAIN s : s[i] \in Y}
  OBVIOUS
<1>2. IsFiniteSet(I) /\ Cardinality(I) \in Nat /\ Count(Y, s) = Cardinality(I)
  BY <1>1, CountNat DEF Count, IsSeq
<1>3. CASE Lone(Y, s)
  <2>1. I = {} \/ \E i \in I : I = {i}
    BY <1>1, <1>3 DEF Lone
  <2>2. Cardinality(I) = 0 \/ Cardinality(I) = 1
    BY <2>1, FS_EmptySet, FS_Singleton
  <2> QED BY <1>2, <1>3, <2>2
<1>4. CASE ~Lone(Y, s)
  <2>1. PICK i \in DOMAIN s, j \in DOMAIN s : s[i] \in Y /\ s[j] \in Y /\ i # j
    BY <1>4 DEF Lone
  <2>2. IsFiniteSet({i}) /\ Cardinality({i}) = 1
    BY FS_Singleton
  <2>3. PICK J : J = {i} \cup {j}
    OBVIOUS
  <2>4. IsFiniteSet(J) /\ Cardinality(J) = 2
    <3>1. j \notin {i}
      BY <2>1
    <3>2. IsFiniteSet({i} \cup {j}) /\ Cardinality({i} \cup {j}) = Cardinality({i}) + 1
      BY <2>2, <3>1, FS_AddElement
    <3> QED BY <2>2, <2>3, <3>2
  <2>5. J \in SUBSET I
    BY <1>1, <2>1, <2>3
  <2>6. Cardinality(J) <= Cardinality(I)
    BY <1>2, <2>5, FS_Subset
  <2> QED BY <1>2, <1>4, <2>4, <2>6
<1> QED BY <1>3, <1>4

(* Picking the create_coin conditions loses none of them.                  *)
LEMMA CreatesLone ==
    ASSUME NEW conds, IsSeq(conds), NEW Y,
           \A i \in DOMAIN conds : conds[i] \in Y => conds[i].op = "create_coin"
    PROVE  Lone(Y, Creates(conds)) <=> Lone(Y, conds)
<1>1. PICK at : at = {i \in DOMAIN conds : conds[i].op = "create_coin"}
  OBVIOUS
<1>2. PICK p : p = Creates(conds) /\ p = Picked(conds, at)
  BY <1>1 DEF Creates, Where
<1>3. conds \in Seq(ToSet(conds)) /\ DOMAIN conds = 1..Len(conds)
  BY DEF IsSeq
<1>4. \A i \in 1..Len(conds) : conds[i] \in Y <=> i \in at /\ conds[i] \in Y
  BY <1>1, <1>3
<1>5. Count(Y, p) = Count(Y, conds)
  BY <1>2, <1>3, <1>4, CountPicked
<1>6. IsSeq(p)
  BY <1>2, CreatesAre
<1> QED BY <1>2, <1>5, <1>6, LoneCounted

(* No coin is created twice by some conditions.                            *)
Twins(c, d) == /\ c.op = "create_coin" /\ d.op = "create_coin"
               /\ c.ph = d.ph /\ c.amount = d.amount
OneEach(conds) == \A i, j \in DOMAIN conds : Twins(conds[i], conds[j]) => i = j

LEMMA OneEachCreates ==
    ASSUME NEW conds, IsSeq(conds), OneEach(conds), NEW i \in DOMAIN Creates(conds),
           NEW j \in DOMAIN Creates(conds), Twins(Creates(conds)[i], Creates(conds)[j])
    PROVE  i = j
<1>1. PICK p : p = Creates(conds) /\ p \in Seq({c \in ToSet(conds) : c.op = "create_coin"})
  BY CreatesAre
<1>2. p[i] \in ToSet(conds) /\ p[j] \in ToSet(conds)
  BY <1>1
<1>3. PICK Y : Y = {c \in ToSet(conds) : Twins(c, p[i])}
  OBVIOUS
<1>4. Lone(Y, conds)
  BY <1>3 DEF Lone, OneEach, Twins
<1>5. \A k \in DOMAIN conds : conds[k] \in Y => conds[k].op = "create_coin"
  BY <1>3 DEF Twins
<1>6. Lone(Y, p)
  BY <1>1, <1>4, <1>5, CreatesLone
<1>7. p[i] \in Y /\ p[j] \in Y
  BY <1>1, <1>2, <1>3 DEF Twins
<1> QED BY <1>1, <1>6, <1>7 DEF Lone

(* What ensure_distinct_created_coins decides.                             *)
LEMMA DistinctOneEach ==
    ASSUME NEW conds, IsSeq(conds), Distinct(conds),
           \A c \in ToSet(conds) : c = CreateCoin(c.ph, c.amount)
    PROVE  OneEach(conds)
<1> SUFFICES ASSUME NEW i \in DOMAIN conds, NEW j \in DOMAIN conds, Twins(conds[i], conds[j])
             PROVE  i = j
  BY DEF OneEach
<1>1. conds[i] \in ToSet(conds) /\ conds[j] \in ToSet(conds)
  BY DEF ToSet
<1>2. conds[i] = conds[j]
  BY <1>1 DEF Twins
<1>3. PICK Y : Y = {conds[i]}
  OBVIOUS
<1>4. Lone(Y, Creates(conds))
  BY <1>3 DEF Lone, Distinct
<1>5. \A k \in DOMAIN conds : conds[k] \in Y => conds[k].op = "create_coin"
  BY <1>3 DEF Twins
<1>6. Lone(Y, conds)
  BY <1>4, <1>5, CreatesLone
<1> QED BY <1>2, <1>3, <1>6 DEF Lone

-----------------------------------------------------------------------------
(* Sequences joined.                                                       *)

(* What the joined sequences hold, and that no two elements are the same   *)
(* where none are within one of them or of two of them.                    *)
Within(v, ss, n) ==
    /\ IsSeq(v)
    /\ \A i \in DOMAIN v : \E k \in 1..n : v[i] \in ToSet(ss[k])
    /\ \A k \in 1..n : Len(ss[k]) <= Len(v)
Disjoint(ss) ==
    /\ \A k \in DOMAIN ss : Unlike(ss[k])
    /\ \A k, l \in DOMAIN ss : \A x \in ToSet(ss[k]) : x \in ToSet(ss[l]) => k = l

LEMMA WithinStep ==
    ASSUME NEW ss, IsSeq(ss), \A k \in DOMAIN ss : IsSeq(ss[k]), NEW n \in 1..Len(ss),
           NEW v, Within(v, ss, n - 1), NEW z, z = v \o ss[n]
    PROVE  Within(z, ss, n) /\ (Disjoint(ss) /\ Unlike(v) => Unlike(z))
<1>1. PICK t : t = ss[n] /\ IsSeq(t)
  BY SeqIs
<1>2. Behind(z, v, t) /\ IsSeq(v)
  BY <1>1, ConcatIs DEF Within
<1>3. PICK m \in Nat : m = n - 1
  OBVIOUS
<1>4. \A i \in DOMAIN v : \E k \in 1..m : v[i] \in ToSet(ss[k])
  BY <1>3 DEF Within
<1>5. \A i \in DOMAIN t : t[i] \in ToSet(ss[n])
  BY <1>1 DEF ToSet
<1>6. \A k \in 1..m : k \in 1..n /\ k # n
  BY <1>3
<1>7. n \in 1..n
  OBVIOUS
<1>8. ASSUME NEW i \in DOMAIN z
      PROVE  \E k \in 1..n : z[i] \in ToSet(ss[k])
  <2>1. CASE i \in DOMAIN v /\ z[i] = v[i]
    BY <1>4, <1>6, <2>1
  <2>2. CASE i - Len(v) \in DOMAIN t /\ z[i] = t[i - Len(v)]
    BY <1>5, <1>7, <2>2
  <2> QED BY <1>2, <2>1, <2>2 DEF Behind
<1>9. ASSUME NEW k \in 1..n
      PROVE  Len(ss[k]) <= Len(z)
  <2>1. Len(v) \in Nat /\ Len(t) \in Nat /\ Len(z) = Len(v) + Len(t)
    BY <1>1, <1>2, SeqIs DEF Behind
  <2>2. CASE k = n
    BY <1>1, <2>1, <2>2
  <2>3. CASE k # n
    <3>1. k \in 1..m /\ k \in DOMAIN ss
      BY <1>3, <2>3, SeqIs
    <3>2. Len(ss[k]) \in Nat /\ Len(ss[k]) <= Len(v)
      BY <1>3, <3>1, SeqIs DEF Within
    <3> QED BY <2>1, <3>2
  <2> QED BY <2>2, <2>3
<1>10. ASSUME Disjoint(ss), Unlike(v), NEW i \in DOMAIN z, NEW j \in DOMAIN z, z[i] = z[j]
       PROVE  i = j
  <2>1. n \in DOMAIN ss /\ 1..n \subseteq DOMAIN ss
    BY SeqIs
  <2>2. \A a \in DOMAIN v, b \in DOMAIN t : v[a] # t[b]
    <3> SUFFICES ASSUME NEW a \in DOMAIN v, NEW b \in DOMAIN t, v[a] = t[b]
                 PROVE  FALSE
      OBVIOUS
    <3>1. PICK k \in 1..m : v[a] \in ToSet(ss[k])
      BY <1>4
    <3>2. k = n
      BY <1>5, <1>6, <1>10, <2>1, <3>1 DEF Disjoint
    <3> QED BY <1>6, <3>1, <3>2
  <2>3. Unlike(t)
    BY <1>1, <1>10, <2>1 DEF Disjoint
  <2>4. DOMAIN v = 1..Len(v) /\ DOMAIN t = 1..Len(t) /\ Len(v) \in Nat /\ Len(t) \in Nat
        /\ DOMAIN z = 1..(Len(v) + Len(t))
    BY <1>1, <1>2, SeqIs DEF Behind
  <2>5. CASE i \in DOMAIN v /\ z[i] = v[i] /\ j \in DOMAIN v /\ z[j] = v[j]
    BY <1>10, <2>5 DEF Unlike
  <2>6. CASE /\ i - Len(v) \in DOMAIN t /\ z[i] = t[i - Len(v)]
             /\ j - Len(v) \in DOMAIN t /\ z[j] = t[j - Len(v)]
    <3>1. i - Len(v) = j - Len(v)
      BY <1>10, <2>3, <2>6 DEF Unlike
    <3> QED BY <2>4, <3>1
  <2>7. \A e \in DOMAIN z : \/ e \in DOMAIN v /\ z[e] = v[e]
                            \/ e - Len(v) \in DOMAIN t /\ z[e] = t[e - Len(v)]
    BY <1>2 DEF Behind
  <2>8. CASE i \in DOMAIN v /\ z[i] = v[i] /\ j - Len(v) \in DOMAIN t /\ z[j] = t[j - Len(v)]
    BY <1>10, <2>2, <2>8
  <2>9. CASE j \in DOMAIN v /\ z[j] = v[j] /\ i - Len(v) \in DOMAIN t /\ z[i] = t[i - Len(v)]
    BY <1>10, <2>2, <2>9
  <2> QED BY <1>10, <2>5, <2>6, <2>7, <2>8, <2>9
<1>11. Within(z, ss, n)
  BY <1>2, <1>8, <1>9 DEF Within, Behind
<1>12. Disjoint(ss) /\ Unlike(v) => Unlike(z)
  BY <1>10 DEF Unlike
<1> QED BY <1>11, <1>12

LEMMA JoinedWithin ==
    ASSUME NEW ss, IsSeq(ss), \A k \in DOMAIN ss : IsSeq(ss[k])
    PROVE  Within(FlattenSeq(ss), ss, Len(ss)) /\ (Disjoint(ss) => Unlike(FlattenSeq(ss)))
<1>1. PICK L \in Nat : L = Len(ss) /\ DOMAIN ss = 1..L /\ ss = [k \in 1..L |-> ss[k]]
  BY SeqIs
<1>2. PICK X : X = UNION {ToSet(ss[k]) : k \in 1..L}
  OBVIOUS
<1>3. \A k \in 1..L : ss[k] \in Seq(X)
  <2> SUFFICES ASSUME NEW k \in 1..L
               PROVE  ss[k] \in Seq(X)
    OBVIOUS
  <2>1. ss[k] \in Seq(ToSet(ss[k])) /\ ToSet(ss[k]) \subseteq X
    BY <1>1, <1>2 DEF IsSeq
  <2> QED BY <2>1
<1>4. ss \in Seq(Seq(X))
  <2>1. ss \in [1..L -> Seq(X)]
    BY <1>1, <1>3
  <2> QED BY <2>1
<1>5. PICK f \in [0..L -> Seq(X)] : FlattenSeq(ss) = f[L] /\ Joins(f, ss)
  BY <1>1, <1>4, FlattenIs
<1> DEFINE T == {n \in 0..L : Within(f[n], ss, n) /\ (Disjoint(ss) => Unlike(f[n]))}
<1>6. 0 \in T
  <2>1. f[0] = <<>> /\ IsSeq(f[0])
    BY <1>5, SeqIsSeq DEF Joins
  <2>2. DOMAIN f[0] = {}
    BY <2>1
  <2> QED BY <2>1, <2>2 DEF Within, Unlike
<1>7. ASSUME NEW n \in 1..L, n - 1 \in T PROVE n \in T
  <2>1. PICK v : v = f[n - 1] /\ Within(v, ss, n - 1) /\ (Disjoint(ss) => Unlike(v))
    BY <1>7
  <2>2. PICK z : z = f[n] /\ z = v \o ss[n]
    BY <1>1, <1>5, <2>1 DEF Joins
  <2>3. Within(z, ss, n) /\ (Disjoint(ss) => Unlike(z))
    BY <1>1, <2>1, <2>2, WithinStep
  <2>4. n \in 0..L /\ Within(f[n], ss, n) /\ (Disjoint(ss) => Unlike(f[n]))
    BY <2>2, <2>3
  <2> QED BY <2>4
<1>8. \A n \in 0..L : n \in T
  <2> HIDE DEF T
  <2> QED BY <1>6, <1>7, InductionUpTo
<1>9. L \in T
  BY <1>8
<1> QED BY <1>1, <1>5, <1>9

-----------------------------------------------------------------------------
(* Totals of sequences joined.                                             *)

LEMMA TotalAppend ==
    ASSUME NEW ns \in Seq(Nat), NEW x \in Nat
    PROVE  Append(ns, x) \in Seq(Nat) /\ Total(Append(ns, x)) = Total(ns) + x
<1>1. PICK L \in Nat : L = Len(ns)
  OBVIOUS
<1>2. PICK ms : ms = Append(ns, x)
  OBVIOUS
<1>3. /\ ms \in Seq(Nat) /\ Len(ms) = L + 1 /\ ms[L + 1] = x /\ L + 1 \in 1..Len(ms)
      /\ \A i \in 1..L : ms[i] = ns[i]
  BY <1>1, <1>2
<1>4. [i \in 1..(L + 1) |-> ms[i]] = ms /\ [i \in 1..L |-> ms[i]] = ns
  <2>1. [i \in 1..L |-> ms[i]] = [i \in 1..L |-> ns[i]]
    BY <1>3
  <2>2. ns = [i \in 1..L |-> ns[i]]
    BY <1>1
  <2>3. ms = [i \in 1..(L + 1) |-> ms[i]]
    BY <1>1, <1>3
  <2> QED BY <2>1, <2>2, <2>3
<1>5. (L + 1) - 1 = L
  OBVIOUS
<1>6. Total([i \in 1..(L + 1) |-> ms[i]]) = Total([i \in 1..((L + 1) - 1) |-> ms[i]]) + ms[L + 1]
  BY <1>3, TotalStep
<1> QED BY <1>2, <1>3, <1>4, <1>5, <1>6

LEMMA TotalConcat ==
    ASSUME NEW s \in Seq(Nat), NEW t \in Seq(Nat)
    PROVE  s \o t \in Seq(Nat) /\ Total(s \o t) = Total(s) + Total(t)
<1>1. PICK L \in Nat : L = Len(t)
  OBVIOUS
<1>2. PICK f \in [0..L -> Seq(Nat)] : Picked(t, 1..L) = f[L] /\ Picks(f, t, 1..L)
  BY <1>1, PickedIs
<1>3. f[L] = t
  BY <1>1, <1>2, PickedAll
<1>4. PICK A \in Nat : A = Total(s)
  BY TotalNat
<1> DEFINE T == {n \in 0..L : Total(s \o f[n]) = A + Total(f[n])}
<1>5. 0 \in T
  <2>1. f[0] = <<>> /\ s \o <<>> = s
    BY <1>2 DEF Picks
  <2>2. Total(<<>>) = 0
    <3>1. <<>> \in Seq({0})
      OBVIOUS
    <3> QED BY <3>1, TotalZero
  <2>3. Total(s \o f[0]) = A + Total(f[0])
    BY <1>4, <2>1, <2>2
  <2>4. 0 \in 0..L
    OBVIOUS
  <2> QED BY <2>3, <2>4
<1>6. ASSUME NEW n \in 1..L, n - 1 \in T PROVE n \in T
  <2>1. PICK v \in Seq(Nat) : v = f[n - 1] /\ Total(s \o v) = A + Total(v)
    BY <1>2, <1>6
  <2>9. n \in 1..Len(t)
    BY <1>1
  <2>2. PICK x \in Nat : x = t[n] /\ f[n] = Append(v, x)
    <3>1. t[n] \in Nat
      BY <2>9
    <3>2. f[n] = Append(f[n - 1], t[n])
      BY <1>1, <1>2, <2>9 DEF Picks
    <3> QED BY <2>1, <3>1, <3>2
  <2>3. PICK u \in Seq(Nat) : u = s \o v
    BY ONLY s \in Seq(Nat), v \in Seq(Nat), ConcatProperties
  <2>4. s \o f[n] = Append(u, x)
    <3>1. Appends(s, v, x)
      BY AppendToConcat
    <3> QED BY <2>2, <2>3, <3>1 DEF Appends
  <2>5. Total(Append(u, x)) = Total(u) + x /\ Total(Append(v, x)) = Total(v) + x
    BY TotalAppend
  <2>6. PICK a, b \in Nat : a = Total(u) /\ b = Total(v)
    BY TotalNat
  <2>7. Total(s \o f[n]) = A + Total(f[n])
    <3>1. a = A + b
      BY <2>1, <2>3, <2>6
    <3>2. Total(s \o f[n]) = a + x /\ Total(f[n]) = b + x
      BY <2>2, <2>4, <2>5, <2>6
    <3> QED BY <3>1, <3>2
  <2>8. n \in 0..L
    OBVIOUS
  <2> QED BY <2>7, <2>8
<1>7. \A n \in 0..L : n \in T
  <2> HIDE DEF T
  <2> QED BY <1>5, <1>6, InductionUpTo
<1>8. L \in T
  BY <1>7
<1>9. s \o t \in Seq(Nat)
  BY ConcatProperties
<1> QED BY <1>3, <1>4, <1>8, <1>9

(* Sums of what the elements of a sequence come to, by a rank of them.     *)
LEMMA RankedIs ==
    ASSUME NEW X, NEW r \in [X -> Nat], NEW s \in Seq(X)
    PROVE  Image(r, s) \in Seq(Nat) /\ Len(Image(r, s)) = Len(s)
<1>1. PICK n \in Nat : n = Len(s) /\ DOMAIN s = 1..n
  OBVIOUS
<1>2. Image(r, s) \in [1..n -> Nat]
  BY <1>1 DEF Image
<1> QED BY <1>1, <1>2

LEMMA RankedConcat ==
    ASSUME NEW X, NEW r \in [X -> Nat], NEW s \in Seq(X), NEW t \in Seq(X)
    PROVE  Total(Image(r, s \o t)) = Total(Image(r, s)) + Total(Image(r, t))
<1>1. PICK v : v = s \o t
  OBVIOUS
<1>2. IsSeq(s) /\ IsSeq(t)
  BY SeqIsSeq
<1>3. Behind(v, s, t) /\ v \in Seq(X)
  BY <1>1, <1>2, ConcatIs, ConcatProperties
<1>4. PICK a \in Seq(Nat) : a = Image(r, s) /\ Len(a) = Len(s)
  BY RankedIs
<1>5. PICK b \in Seq(Nat) : b = Image(r, t) /\ Len(b) = Len(t)
  BY RankedIs
<1>6. PICK c \in Seq(Nat) : c = Image(r, v) /\ Len(c) = Len(v)
  BY <1>3, RankedIs
<1>7. PICK z : z = a \o b
  OBVIOUS
<1>8. Behind(z, a, b)
  BY <1>7, ConcatIs, SeqIsSeq
<1>9. DOMAIN a = DOMAIN s /\ DOMAIN b = DOMAIN t /\ DOMAIN c = DOMAIN v /\ DOMAIN z = DOMAIN v
      /\ IsSeq(c) /\ IsSeq(z) /\ Len(c) = Len(z)
  BY <1>2, <1>3, <1>4, <1>5, <1>6, <1>8, SeqIs, SeqIsSeq DEF Behind
<1>10. \A i \in DOMAIN v : c[i] = z[i]
  <2> SUFFICES ASSUME NEW i \in DOMAIN v
               PROVE  c[i] = z[i]
    OBVIOUS
  <2>1. c[i] = r[v[i]]
    BY <1>6 DEF Image
  <2>2. CASE i \in DOMAIN s /\ v[i] = s[i]
    <3>1. z[i] = a[i] /\ a[i] = r[s[i]]
      BY <1>4, <1>8, <1>9, <2>2 DEF Behind, Image
    <3> QED BY <2>1, <2>2, <3>1
  <2>3. CASE i - Len(s) \in DOMAIN t /\ v[i] = t[i - Len(s)]
    <3>1. PICK k : k = i - Len(s) /\ k \in DOMAIN t
      BY <2>3
    <3>2. Len(a) + k = i
      BY <1>2, <1>3, <1>4, <3>1, SeqIs DEF Behind
    <3>3. z[i] = b[k]
      BY <1>8, <1>9, <3>1, <3>2 DEF Behind
    <3>4. b[k] = r[t[k]]
      BY <1>5, <3>1 DEF Image
    <3> QED BY <2>1, <2>3, <3>1, <3>3, <3>4
  <2> QED BY <1>3, <2>2, <2>3 DEF Behind
<1>11. c = z
  <2>1. PICK n \in Nat : n = Len(c) /\ n = Len(z)
    BY <1>9, SeqIs
  <2>2. c = [i \in 1..n |-> c[i]] /\ z = [i \in 1..n |-> z[i]] /\ DOMAIN c = 1..n
    BY <1>9, <2>1, SeqIs
  <2>3. [i \in 1..n |-> c[i]] = [i \in 1..n |-> z[i]]
    BY <1>9, <1>10, <2>2
  <2> QED BY <2>2, <2>3
<1>12. Total(z) = Total(a) + Total(b)
  BY <1>7, TotalConcat
<1> QED BY <1>1, <1>4, <1>5, <1>6, <1>11, <1>12

LEMMA RankedPicked ==
    ASSUME NEW X, NEW r \in [X -> Nat], NEW s \in Seq(X), NEW at, NEW w \in Seq(Nat),
           Len(w) = Len(s), \A i \in 1..Len(s) : w[i] = IF i \in at THEN r[s[i]] ELSE 0
    PROVE  Total(Image(r, Picked(s, at))) = Total(w)
<1>1. PICK L \in Nat : L = Len(s) /\ L = Len(w)
  OBVIOUS
<1>2. PICK f \in [0..L -> Seq(X)] : Picked(s, at) = f[L] /\ Picks(f, s, at)
  BY <1>1, PickedIs
<1>3. PICK g : Totals(g, w)
  BY TotalsAre
<1>4. /\ g[0] = 0 /\ g[L] = Total(w)
      /\ \A n \in 1..L : g[n] = g[n - 1] + w[n] /\ g[n - 1] \in Nat
  <2>1. g \in [0..L -> Nat]
    BY <1>1, <1>3 DEF Totals
  <2> QED BY <1>1, <1>3, <2>1 DEF Totals
<1> DEFINE T == {n \in 0..L : Total(Image(r, f[n])) = g[n]}
<1>5. 0 \in T
  <2>1. f[0] = <<>>
    BY <1>2 DEF Picks
  <2>2. Image(r, <<>>) \in Seq({0})
    BY DEF Image
  <2>3. 0 \in 0..L /\ Total(Image(r, f[0])) = g[0]
    BY <1>4, <2>1, <2>2, TotalZero
  <2> QED BY <2>3
<1>6. ASSUME NEW n \in 1..L, n - 1 \in T PROVE n \in T
  <2>1. PICK v \in Seq(X) : v = f[n - 1] /\ Total(Image(r, v)) = g[n - 1]
    BY <1>2, <1>6
  <2>2. n \in 0..L /\ n \in 1..Len(s) /\ g[n] = g[n - 1] + w[n] /\ g[n - 1] \in Nat
    BY <1>1, <1>4
  <2>3. CASE n \in at
    <3>1. PICK x \in X : x = s[n]
      <4>1. s \in [1..Len(s) -> X]
        OBVIOUS
      <4> QED BY <2>2, <4>1
    <3>2. f[n] = Append(v, x)
      BY <1>2, <2>1, <2>2, <2>3, <3>1 DEF Picks
    <3>3. Image(r, Append(v, x)) = Append(Image(r, v), r[x])
      <4>1. Extends(r, v, x)
        BY ImageAppend
      <4> QED BY <4>1 DEF Extends
    <3>4. Image(r, v) \in Seq(Nat) /\ r[x] \in Nat
      BY RankedIs
    <3>5. Total(Append(Image(r, v), r[x])) = Total(Image(r, v)) + r[x]
      BY <3>4, TotalAppend
    <3>6. w[n] = r[x]
      BY <2>2, <2>3, <3>1
    <3>7. Total(Image(r, f[n])) = g[n]
      BY <2>1, <2>2, <3>2, <3>3, <3>5, <3>6
    <3> QED BY <2>2, <3>7
  <2>4. CASE n \notin at
    <3>1. f[n] = v /\ w[n] = 0
      BY <1>2, <2>1, <2>2, <2>4 DEF Picks
    <3>2. Total(Image(r, f[n])) = g[n]
      BY <2>1, <2>2, <3>1
    <3> QED BY <2>2, <3>2
  <2> QED BY <2>3, <2>4
<1>7. \A n \in 0..L : n \in T
  <2> HIDE DEF T
  <2> QED BY <1>5, <1>6, InductionUpTo
<1>8. L \in T
  BY <1>7
<1> QED BY <1>2, <1>4, <1>8

(* A sum over joined sequences is the sum of the sums.                     *)
(* ns sums up, by r, each of the sequences ss.                             *)
Sums(r, ss, ns) == ns \in Seq(Nat) /\ Len(ns) = Len(ss) /\ \A k \in 1..Len(ss) : ns[k] = Total(Image(r, ss[k]))

LEMMA RankedJoined ==
    ASSUME NEW X, NEW r \in [X -> Nat], NEW ss \in Seq(Seq(X)), NEW ns, Sums(r, ss, ns)
    PROVE  Total(Image(r, FlattenSeq(ss))) = Total(ns)
<1>0. ns \in Seq(Nat) /\ Len(ns) = Len(ss) /\ \A k \in 1..Len(ss) : ns[k] = Total(Image(r, ss[k]))
  BY DEF Sums
<1>1. PICK L \in Nat : L = Len(ss)
  OBVIOUS
<1>2. PICK f \in [0..L -> Seq(X)] : FlattenSeq(ss) = f[L] /\ Joins(f, ss)
  BY <1>1, FlattenIs
<1>3. PICK g : Totals(g, ns)
  BY <1>0, TotalsAre
<1>4. /\ g \in [0..L -> Nat] /\ g[0] = 0 /\ g[L] = Total(ns)
      /\ \A n \in 1..L : g[n] = g[n - 1] + ns[n]
  BY <1>0, <1>1, <1>3 DEF Totals
<1> DEFINE T == {n \in 0..L : Total(Image(r, f[n])) = g[n]}
<1>5. 0 \in T
  <2>1. f[0] = <<>>
    BY <1>2 DEF Joins
  <2>2. Image(r, <<>>) \in Seq({0})
    BY DEF Image
  <2> QED BY <1>4, <2>1, <2>2, TotalZero
<1>6. ASSUME NEW n \in 1..L, n - 1 \in T PROVE n \in T
  <2>1. PICK v \in Seq(X) : v = f[n - 1] /\ Total(Image(r, v)) = g[n - 1]
    BY <1>2, <1>6
  <2>2. PICK t \in Seq(X) : t = ss[n]
    BY <1>1
  <2>3. f[n] = v \o t
    BY <1>1, <1>2, <2>1, <2>2 DEF Joins
  <2>4. Total(Image(r, v \o t)) = Total(Image(r, v)) + Total(Image(r, t))
    BY RankedConcat
  <2>5. ns[n] = Total(Image(r, t))
    BY <1>0, <1>1, <2>2
  <2>6. n \in 0..L /\ g[n] = g[n - 1] + ns[n]
    BY <1>4
  <2>7. Total(Image(r, f[n])) = g[n]
    BY <2>1, <2>3, <2>4, <2>5, <2>6
  <2> QED BY <2>6, <2>7
<1>7. \A n \in 0..L : n \in T
  <2> HIDE DEF T
  <2> QED BY <1>5, <1>6, InductionUpTo
<1>8. L \in T
  BY <1>7
<1> QED BY <1>2, <1>4, <1>8

-----------------------------------------------------------------------------
(* What the coins some spends create come to.                              *)

LEMMA CreatesPaid ==
    ASSUME NEW conds, Priced(conds)
    PROVE  \E r \in [ToSet(conds) -> Nat] :
              /\ \A c \in ToSet(conds) : c.op = "create_coin" => r[c] = c.amount
              /\ Total(Image(r, Creates(conds))) = Paid(conds)
<1>1. PICK X : X = ToSet(conds) /\ conds \in Seq(X)
  BY DEF Priced, IsSeq
<1>2. PICK r : r = [c \in X |-> IF c.op = "create_coin" THEN c.amount ELSE 0]
  OBVIOUS
<1>3. r \in [X -> Nat]
  <2>1. \A c \in X : c.op = "create_coin" => c.amount \in Nat
    BY <1>1 DEF Priced
  <2> QED BY <1>2, <2>1
<1>4. PICK at : at = {i \in DOMAIN conds : conds[i].op = "create_coin"}
  OBVIOUS
<1>5. Creates(conds) = Picked(conds, at)
  BY <1>4 DEF Creates, Where
<1>6. PICK w : w = Image(r, conds) /\ w \in Seq(Nat) /\ Len(w) = Len(conds)
  BY <1>1, <1>3, RankedIs
<1>7. \A i \in 1..Len(conds) : /\ conds[i] \in X /\ i \in DOMAIN conds
                               /\ w[i] = r[conds[i]]
                               /\ r[conds[i]] = IF i \in at THEN conds[i].amount ELSE 0
  <2> SUFFICES ASSUME NEW i \in 1..Len(conds)
               PROVE  /\ conds[i] \in X /\ i \in DOMAIN conds
                      /\ w[i] = r[conds[i]]
                      /\ r[conds[i]] = IF i \in at THEN conds[i].amount ELSE 0
    OBVIOUS
  <2>1. conds[i] \in X /\ i \in DOMAIN conds
    BY <1>1
  <2>2. w[i] = r[conds[i]]
    BY <1>6, <2>1 DEF Image
  <2> QED BY <1>2, <1>4, <2>1, <2>2
<1>8. \A i \in 1..Len(conds) : w[i] = IF i \in at THEN r[conds[i]] ELSE 0
  BY <1>7
<1>9. Total(Image(r, Picked(conds, at))) = Total(w)
  <2>1. conds \in Seq(X) /\ r \in [X -> Nat] /\ w \in Seq(Nat) /\ Len(w) = Len(conds)
    BY <1>1, <1>3, <1>6
  <2> QED BY <1>8, <2>1, RankedPicked
<1>10. Total(w) = Paid(conds)
  <2>1. w = [i \in DOMAIN conds |-> IF conds[i].op = "create_coin" THEN conds[i].amount ELSE 0]
    <3>1. DOMAIN conds = 1..Len(conds)
      BY <1>1
    <3>2. w = [i \in 1..Len(conds) |-> w[i]]
      BY <1>6
    <3>3. \A i \in 1..Len(conds) : w[i] = IF conds[i].op = "create_coin" THEN conds[i].amount ELSE 0
      BY <1>4, <1>7
    <3>4. [i \in 1..Len(conds) |-> w[i]]
            = [i \in 1..Len(conds) |-> IF conds[i].op = "create_coin" THEN conds[i].amount ELSE 0]
      BY <3>3
    <3> QED BY <3>1, <3>2, <3>4
  <2> QED BY <2>1 DEF Paid, SumOver
<1> QED BY <1>1, <1>2, <1>3, <1>5, <1>9, <1>10

(* The amount of a unit, if it is of asset a.                              *)
UnitWorth(U, a) == [x \in U |-> IF x.asset = a THEN AmountOf(x.coin) ELSE 0]

LEMMA UnitWorthIs ==
    ASSUME NEW U, \A x \in U : UnitOK(x), NEW a
    PROVE  UnitWorth(U, a) \in [U -> Nat]
BY DEF UnitWorth, UnitOK, IsCoin

LEMMA CreatedWorth ==
    ASSUME NEW s, Proper(s), NEW U, \A x \in U : UnitOK(x), ToSet(CreatedBy(s)) \subseteq U, NEW a
    PROVE  Total(Image(UnitWorth(U, a), CreatedBy(s))) = IF s.asset = a THEN Paid(Run(s)) ELSE 0
<1>1. PICK conds : conds = Run(s) /\ Priced(conds)
  BY RunPriced DEF Proper, WellFormed
<1>2. PICK p : p = Creates(conds) /\ IsSeq(p) /\ p \in Seq({c \in ToSet(conds) : c.op = "create_coin"})
  BY <1>1, CreatesAre DEF Priced
<1>3. PICK n \in Nat : n = Len(p) /\ DOMAIN p = 1..n
  BY <1>2, SeqIs
<1>4. \A i \in 1..n : p[i] \in ToSet(conds) /\ p[i].op = "create_coin" /\ p[i].amount \in Nat
  <2>1. \A i \in 1..n : p[i] \in {c \in ToSet(conds) : c.op = "create_coin"}
    BY <1>2, <1>3
  <2> QED BY <1>1, <2>1 DEF Priced
<1>5. PICK v : v = CreatedBy(s) /\ IsSeq(v)
  BY CreatedByIs
<1>6. /\ DOMAIN v = 1..n
      /\ \A i \in 1..n : v[i] = Unspent(s.asset, Coin(s.coin, p[i].ph, p[i].amount))
  BY <1>1, <1>2, <1>3, <1>5 DEF CreatedBy
<1>7. PICK r : r = UnitWorth(U, a)
  OBVIOUS
<1>8. \A i \in 1..n : r[v[i]] = IF s.asset = a THEN p[i].amount ELSE 0
  <2> SUFFICES ASSUME NEW i \in 1..n
               PROVE  r[v[i]] = IF s.asset = a THEN p[i].amount ELSE 0
    OBVIOUS
  <2>1. v[i] \in U
    BY <1>5, <1>6 DEF ToSet
  <2>2. r[v[i]] = IF v[i].asset = a THEN AmountOf(v[i].coin) ELSE 0
    BY <1>7, <2>1 DEF UnitWorth
  <2>3. PICK m \in Nat : m = p[i].amount
    BY <1>4
  <2>4. PICK c : c = Coin(s.coin, p[i].ph, m) /\ AmountOf(c) = m
    BY CoinIs DEF Proper, IsCoin
  <2>5. v[i].asset = s.asset /\ v[i].coin = c
    BY <1>6, <2>3, <2>4 DEF Unspent
  <2> QED BY <2>2, <2>3, <2>4, <2>5
<1>9. CASE s.asset = a
  <2>1. PICK q \in [ToSet(conds) -> Nat] :
              /\ \A c \in ToSet(conds) : c.op = "create_coin" => q[c] = c.amount
              /\ Total(Image(q, p)) = Paid(conds)
    BY <1>1, <1>2, CreatesPaid
  <2>2. Image(r, v) = [i \in 1..n |-> r[v[i]]] /\ Image(q, p) = [i \in 1..n |-> q[p[i]]]
    BY <1>3, <1>6 DEF Image
  <2>3. \A i \in 1..n : r[v[i]] = q[p[i]]
    BY <1>4, <1>8, <1>9, <2>1
  <2>4. Image(r, v) = Image(q, p)
    BY <2>2, <2>3
  <2> QED BY <1>1, <1>5, <1>7, <1>9, <2>1, <2>4
<1>10. CASE s.asset # a
  <2>1. Image(r, v) = [i \in 1..n |-> r[v[i]]]
    BY <1>6 DEF Image
  <2>2. Image(r, v) = [i \in 1..n |-> 0]
    BY <1>8, <1>10, <2>1
  <2>3. [i \in 1..n |-> 0] \in Seq({0})
    OBVIOUS
  <2> QED BY <1>5, <1>7, <1>10, <2>2, <2>3, TotalZero
<1> QED BY <1>9, <1>10

LEMMA CreatedTotal ==
    ASSUME NEW spends, Proposed(spends), NEW a
    PROVE  SumOver(LAMBDA x : IF x.asset = a THEN AmountOf(x.coin) ELSE 0, Created(spends))
              = TotalOut(a, spends)
<1>1. PICK L \in Nat : L = Len(spends) /\ DOMAIN spends = 1..L
  BY SeqIs DEF Proposed
<1>2. PICK ss : ss = [i \in DOMAIN spends |-> CreatedBy(spends[i])]
  OBVIOUS
<1>3. PICK U : U = UNION {ToSet(ss[i]) : i \in 1..L}
  OBVIOUS
<1>4. ASSUME NEW i \in 1..L
      PROVE  /\ ss[i] = CreatedBy(spends[i]) /\ ss[i] \in Seq(U)
             /\ Proper(spends[i]) /\ ToSet(ss[i]) \subseteq U /\ \A u \in ToSet(ss[i]) : UnitOK(u)
  <2>1. Proper(spends[i]) /\ ss[i] = CreatedBy(spends[i])
    BY <1>1, <1>2 DEF Proposed
  <2>2. IsSeq(ss[i]) /\ \A j \in DOMAIN ss[i] : Makes(spends[i], ss[i][j])
    BY <2>1, CreatedByIs
  <2>3. ss[i] \in Seq(ToSet(ss[i])) /\ ToSet(ss[i]) \subseteq U
    BY <1>3, <2>2 DEF IsSeq
  <2>4. ss[i] \in Seq(U)
    BY <2>3
  <2>5. \A u \in ToSet(ss[i]) : Makes(spends[i], u)
    BY <2>2 DEF ToSet
  <2>6. \A u \in ToSet(ss[i]) : UnitOK(u)
    BY <2>1, <2>5, MakesUnit
  <2> QED BY <2>1, <2>3, <2>4, <2>6
<1>5. ss \in Seq(Seq(U)) /\ Len(ss) = L
  <2>1. ss = [i \in 1..L |-> ss[i]]
    BY <1>1, <1>2
  <2>2. \A i \in 1..L : ss[i] \in Seq(U)
    BY <1>4
  <2> QED BY <1>1, <2>1, <2>2
<1>6. \A x \in U : UnitOK(x)
  BY <1>3, <1>4
<1>7. PICK r \in [U -> Nat] : r = UnitWorth(U, a)
  BY <1>6, UnitWorthIs
<1>8. PICK ns : ns = [i \in DOMAIN spends |-> IF spends[i].asset = a THEN Paid(Run(spends[i])) ELSE 0]
  OBVIOUS
<1>9. ns \in Seq(Nat) /\ Len(ns) = L
  <2>1. \A i \in 1..L : Paid(Run(spends[i])) \in Nat
    BY <1>4, RunPriced, AmountsAdd DEF Proper, WellFormed
  <2>2. ns \in [1..L -> Nat]
    BY <1>1, <1>8, <2>1
  <2> QED BY <2>2
<1>10. \A k \in 1..L : ns[k] = Total(Image(r, ss[k]))
  <2> SUFFICES ASSUME NEW k \in 1..L
               PROVE  ns[k] = Total(Image(r, ss[k]))
    OBVIOUS
  <2>1. PICK s : s = spends[k] /\ Proper(s) /\ ss[k] = CreatedBy(s) /\ ToSet(CreatedBy(s)) \subseteq U
    BY <1>4
  <2>2. Total(Image(r, CreatedBy(s))) = IF s.asset = a THEN Paid(Run(s)) ELSE 0
    BY <1>6, <1>7, <2>1, CreatedWorth
  <2> QED BY <1>1, <1>8, <2>1, <2>2
<1>11. PICK made : made = FlattenSeq(ss) /\ made = Created(spends) /\ made \in Seq(U)
  BY <1>2, <1>5, FlattenType DEF Created
<1>12. Total(Image(r, made)) = Total(ns)
  <2>1. Sums(r, ss, ns)
    BY <1>5, <1>9, <1>10 DEF Sums
  <2>2. r \in [U -> Nat]
    BY <1>7
  <2>3. Total(Image(r, FlattenSeq(ss))) = Total(ns)
    BY <1>5, <2>1, <2>2, RankedJoined
  <2> QED BY <1>11, <2>3
<1>13. Image(r, made) = [i \in DOMAIN made |-> IF made[i].asset = a THEN AmountOf(made[i].coin) ELSE 0]
  <2>1. \A i \in DOMAIN made : made[i] \in U
    BY <1>11
  <2>2. \A i \in DOMAIN made : r[made[i]] = IF made[i].asset = a THEN AmountOf(made[i].coin) ELSE 0
    BY <1>7, <2>1 DEF UnitWorth
  <2> QED BY <2>2 DEF Image
<1> QED BY <1>8, <1>11, <1>12, <1>13 DEF SumOver, TotalOut

-----------------------------------------------------------------------------
(* What a bundle whose spends keep apart is to the network.                *)

(* A coin id names what it commits to.                                     *)
LEMMA CoinNames ==
    ASSUME NEW p, IsSeq(p), NEW ph, NEW n, NEW qh, NEW m, Coin(p, ph, n) = Coin(p, qh, m)
    PROVE  ph = qh /\ n = m
<1>1. PICK d, e : d = [ph |-> ph, amount |-> n] /\ e = [ph |-> qh, amount |-> m]
  OBVIOUS
<1>2. PICK X : X = ToSet(p) \cup {d} \cup {e}
  OBVIOUS
<1>3. p \in Seq(X) /\ d \in X /\ e \in X
  <2>1. p \in Seq(ToSet(p))
    BY DEF IsSeq
  <2> QED BY <1>2, <2>1
<1>4. Append(p, d) = Append(p, e)
  BY <1>1 DEF Coin
<1>5. \A s \in Seq(X), x \in X : Len(s) \in Nat /\ Append(s, x)[Len(s) + 1] = x
  OBVIOUS
<1>6. d = e
  BY <1>3, <1>4, <1>5
<1>7. d.ph = ph /\ d.amount = n /\ e.ph = qh /\ e.amount = m
  BY <1>1
<1> QED BY <1>6, <1>7

LEMMA CreatedByUnlike ==
    ASSUME NEW s, Proper(s), OneEach(Run(s))
    PROVE  Unlike(CreatedBy(s))
<1>1. PICK conds : conds = Run(s) /\ IsSeq(conds) /\ OneEach(conds)
  BY RunPriced DEF Proper, WellFormed, Priced
<1>2. PICK p : p = Creates(conds) /\ p \in Seq({c \in ToSet(conds) : c.op = "create_coin"})
  BY <1>1, CreatesAre
<1>3. PICK v : v = CreatedBy(s) /\ v = [i \in DOMAIN p |-> Unspent(s.asset, Coin(s.coin, p[i].ph, p[i].amount))]
  BY <1>1, <1>2 DEF CreatedBy
<1>4. ASSUME NEW i \in DOMAIN p, NEW j \in DOMAIN p, v[i] = v[j]
      PROVE  i = j
  <2>1. Coin(s.coin, p[i].ph, p[i].amount) = Coin(s.coin, p[j].ph, p[j].amount)
    BY <1>3, <1>4 DEF Unspent
  <2>2. IsSeq(s.coin)
    BY DEF Proper, IsCoin
  <2>3. p[i].ph = p[j].ph /\ p[i].amount = p[j].amount
    BY <2>1, <2>2, CoinNames
  <2>4. p[i].op = "create_coin" /\ p[j].op = "create_coin"
    BY <1>2
  <2>5. Twins(p[i], p[j])
    BY <2>3, <2>4 DEF Twins
  <2> QED BY <1>1, <1>2, <2>5, OneEachCreates
<1>5. DOMAIN v = DOMAIN p
  BY <1>3
<1> QED BY <1>3, <1>4, <1>5 DEF Unlike

(* A coin has one parent.                                                  *)
LEMMA OneParent ==
    ASSUME NEW s, Proper(s), NEW t, Proper(t), NEW x, Makes(s, x), Makes(t, x)
    PROVE  s.coin = t.coin
<1>1. IsSeq(s.coin) /\ IsSeq(t.coin)
  BY DEF Proper, IsCoin
<1>2. PICK c : c = x.coin
  OBVIOUS
<1>3. \A u : Proper(u) /\ Makes(u, x) => Len(u.coin) \in Nat /\ Len(c) = Len(u.coin) + 1 /\ Under(u.coin, c)
  <2> SUFFICES ASSUME NEW u, Proper(u), Makes(u, x)
               PROVE  Len(u.coin) \in Nat /\ Len(c) = Len(u.coin) + 1 /\ Under(u.coin, c)
    OBVIOUS
  <2>1. PICK ph : \E n \in Nat : x = Unspent(u.asset, Coin(u.coin, ph, n))
    BY DEF Makes
  <2>2. PICK n \in Nat : x = Unspent(u.asset, Coin(u.coin, ph, n))
    BY <2>1
  <2>3. c = Coin(u.coin, ph, n) /\ IsSeq(u.coin)
    BY <1>2, <2>2 DEF Unspent, Proper, IsCoin
  <2> QED BY <2>3, ChildIs
<1>4. Len(s.coin) = Len(t.coin) /\ Len(s.coin) <= Len(t.coin)
  BY <1>3
<1>5. IsSeq(c)
  BY <1>2, MakesUnit DEF UnitOK, IsCoin
<1>6. Under(s.coin, t.coin)
  BY <1>1, <1>3, <1>4, <1>5, UnderIs
<1> QED BY <1>1, <1>4, <1>6, UnderIs

(* No two coins created are the same.                                      *)
LEMMA CreatedUnlike ==
    ASSUME NEW ss, Proposed(ss), Separate(ss), \A i \in DOMAIN ss : OneEach(Run(ss[i]))
    PROVE  Unlike(Created(ss))
<1>1. PICK n \in Nat : n = Len(ss) /\ DOMAIN ss = 1..n
  BY SeqIs DEF Proposed
<1>2. PICK pp : pp = [i \in 1..n |-> CreatedBy(ss[i])] /\ FlattenSeq(pp) = Created(ss)
  BY <1>1 DEF Created
<1>3. IsSeq(pp) /\ DOMAIN pp = 1..n
  <2>1. pp = [i \in 1..n |-> pp[i]]
    BY <1>2
  <2> QED BY <2>1, MadeSeq
<1>4. ASSUME NEW k \in 1..n
      PROVE  IsSeq(pp[k]) /\ Unlike(pp[k]) /\ Proper(ss[k]) /\ \A x \in ToSet(pp[k]) : Makes(ss[k], x)
  <2>1. PICK s : s = ss[k] /\ Proper(s) /\ OneEach(Run(s)) /\ pp[k] = CreatedBy(s)
    BY <1>1, <1>2 DEF Proposed
  <2>2. IsSeq(CreatedBy(s)) /\ Unlike(CreatedBy(s)) /\ \A i \in DOMAIN CreatedBy(s) : Makes(s, CreatedBy(s)[i])
    BY <2>1, CreatedByIs, CreatedByUnlike
  <2>3. \A x \in ToSet(CreatedBy(s)) : Makes(s, x)
    BY <2>2 DEF ToSet
  <2> QED BY <2>1, <2>2, <2>3
<1>5. ASSUME NEW k \in 1..n, NEW l \in 1..n, NEW x \in ToSet(pp[k]), x \in ToSet(pp[l])
      PROVE  k = l
  <2>1. ss[k].coin = ss[l].coin
    BY <1>4, <1>5, OneParent
  <2> QED BY <1>1, <2>1 DEF Separate
<1>6. Disjoint(pp)
  BY <1>3, <1>4, <1>5 DEF Disjoint
<1>7. \A k \in DOMAIN pp : IsSeq(pp[k])
  BY <1>3, <1>4
<1>8. Unlike(FlattenSeq(pp))
  BY <1>3, <1>6, <1>7, JoinedWithin
<1> QED BY <1>2, <1>8

(* Conditions that ask nothing but that the coins X are spent too.         *)
Tame(conds, X) ==
    \A c \in ToSet(conds) : \/ c.op \in {"agg_sig_me", "create_coin", "reserve_fee"}
                            \/ c.op = "concurrent_spend" /\ c.coin \in X
CoinsOf(ss) == {ss[i].coin : i \in DOMAIN ss}
Fees(ss)    == SumOver(LAMBDA s : Reserved(Run(s)), ss)

(* Spends that agree with each other, and reserve fee.                     *)
Fair(ss, X, fee) ==
    /\ Proposed(ss) /\ Separate(ss) /\ Fees(ss) = fee
    /\ \A i \in DOMAIN ss : Tame(Run(ss[i]), X) /\ OneEach(Run(ss[i]))

LEMMA SeparateCount ==
    ASSUME NEW ss, Proposed(ss), Separate(ss)
    PROVE  Cardinality(CoinsOf(ss)) = Len(ss)
<1>1. PICK n \in Nat : n = Len(ss) /\ DOMAIN ss = 1..n
  BY SeqIs DEF Proposed
<1>2. PICK f : f = [i \in 1..n |-> ss[i].coin]
  OBVIOUS
<1>3. f \in Surjection(1..n, CoinsOf(ss))
  BY <1>1, <1>2 DEF Surjection, CoinsOf
<1>4. f \in Injection(1..n, CoinsOf(ss))
  BY <1>1, <1>2, <1>3 DEF Surjection, Injection, IsInjective, Separate
<1>5. IsFiniteSet(1..n) /\ Cardinality(1..n) = n
  BY FS_Interval
<1>6. IsFiniteSet(CoinsOf(ss))
  BY <1>3, <1>5, FS_Surjection
<1>7. Cardinality(CoinsOf(ss)) \in Nat /\ Cardinality(CoinsOf(ss)) <= n /\ n <= Cardinality(CoinsOf(ss))
  BY <1>3, <1>4, <1>5, <1>6, FS_Surjection, FS_Injection, FS_CardinalityType
<1> QED BY <1>1, <1>7

(* The network takes them, if the sums are right.                          *)
LEMMA FairConsistent ==
    ASSUME NEW ss, NEW fee \in Nat, Fair(ss, CoinsOf(ss), fee),
           TotalIn(XCH, ss) = TotalOut(XCH, ss) + fee, TotalOut(XCH, ss) \in Nat,
           \A a \in Assets : TotalIn(a, ss) = TotalOut(a, ss)
    PROVE  Consistent(ss)
<1>1. PICK X : X = CoinsOf(ss) /\ X = {ss[i].coin : i \in DOMAIN ss}
  BY DEF CoinsOf
<1>2. PICK made : made = Created(ss)
  OBVIOUS
<1>3. Cardinality(X) = Len(ss)
  BY <1>1, SeparateCount DEF Fair
<1>4. \A i, j \in DOMAIN made : made[i] = made[j] => i = j
  BY <1>2, CreatedUnlike DEF Fair, Unlike
<1>5. ASSUME NEW c \in UNION {ToSet(Run(ss[i])) : i \in DOMAIN ss}
      PROVE  \/ c.op \in {"agg_sig_me", "create_coin", "reserve_fee"}
             \/ c.op = "concurrent_spend" /\ c.coin \in X
  BY <1>1, <1>5 DEF Fair, Tame
<1>6. PICK paid : paid = [i \in DOMAIN ss |-> Unspent(ss[i].asset, ss[i].coin)]
  OBVIOUS
<1>7. ASSUME NEW a
      PROVE  /\ SumOver(LAMBDA x : IF x.asset = a THEN AmountOf(x.coin) ELSE 0, paid) = TotalIn(a, ss)
             /\ SumOver(LAMBDA x : IF x.asset = a THEN AmountOf(x.coin) ELSE 0, made) = TotalOut(a, ss)
  <2>1. [i \in DOMAIN paid |-> IF paid[i].asset = a THEN AmountOf(paid[i].coin) ELSE 0]
          = [i \in DOMAIN ss |-> IF ss[i].asset = a THEN AmountOf(ss[i].coin) ELSE 0]
    BY <1>6 DEF Unspent
  <2>2. SumOver(LAMBDA x : IF x.asset = a THEN AmountOf(x.coin) ELSE 0, paid) = TotalIn(a, ss)
    BY <2>1 DEF SumOver, TotalIn
  <2>3. SumOver(LAMBDA x : IF x.asset = a THEN AmountOf(x.coin) ELSE 0, made) = TotalOut(a, ss)
    BY <1>2, CreatedTotal DEF Fair
  <2> QED BY <2>2, <2>3
<1>8. SumOver(LAMBDA s : Reserved(Run(s)), ss) = fee
  BY DEF Fair, Fees
<1>9. ASSUME NEW c \in UNION {ToSet(Run(ss[i])) : i \in DOMAIN ss}
      PROVE  /\ c.op = "concurrent_spend" => c.coin \in X
             /\ c.op # "concurrent_puzzle" /\ c.op # "assert_coin_ann" /\ c.op # "assert_puzzle_ann"
  BY <1>5
<1>10. SumOver(LAMBDA x : IF x.asset = XCH THEN AmountOf(x.coin) ELSE 0, paid)
         >= SumOver(LAMBDA x : IF x.asset = XCH THEN AmountOf(x.coin) ELSE 0, made)
              + SumOver(LAMBDA s : Reserved(Run(s)), ss)
  <2>1. TotalIn(XCH, ss) >= TotalOut(XCH, ss) + fee
    OBVIOUS
  <2> QED BY <1>7, <1>8, <2>1
<1>11. \A a \in Assets : SumOver(LAMBDA x : IF x.asset = a THEN AmountOf(x.coin) ELSE 0, paid)
                         = SumOver(LAMBDA x : IF x.asset = a THEN AmountOf(x.coin) ELSE 0, made)
  BY <1>7
<1> QED BY <1>1, <1>2, <1>3, <1>4, <1>6, <1>9, <1>10, <1>11 DEF Consistent

-----------------------------------------------------------------------------
(* What conditions and spends reserve.                                     *)

LEMMA ReservedRanked ==
    ASSUME NEW X, \A c \in X : c.op = "reserve_fee" => c.amount \in Nat,
           NEW r, r = [c \in X |-> IF c.op = "reserve_fee" THEN c.amount ELSE 0]
    PROVE  r \in [X -> Nat] /\ \A v \in Seq(X) : Reserved(v) = Total(Image(r, v))
<1>1. r \in [X -> Nat]
  OBVIOUS
<1>2. ASSUME NEW v \in Seq(X) PROVE Reserved(v) = Total(Image(r, v))
  <2>1. \A i \in DOMAIN v : v[i] \in X
    OBVIOUS
  <2>2. Image(r, v) = [i \in DOMAIN v |-> IF v[i].op = "reserve_fee" THEN v[i].amount ELSE 0]
    BY <2>1 DEF Image
  <2> QED BY <2>2 DEF Reserved, SumOver
<1> QED BY <1>1, <1>2

LEMMA ReservedConcat ==
    ASSUME NEW s, NEW t, Priced(s), Priced(t)
    PROVE  Reserved(s \o t) = Reserved(s) + Reserved(t)
<1>1. PICK X : X = ToSet(s) \cup ToSet(t)
  OBVIOUS
<1>2. s \in Seq(X) /\ t \in Seq(X)
  <2>1. s \in Seq(ToSet(s)) /\ t \in Seq(ToSet(t))
    BY DEF Priced, IsSeq
  <2> QED BY <1>1, <2>1
<1>3. PICK r : r = [c \in X |-> IF c.op = "reserve_fee" THEN c.amount ELSE 0]
  OBVIOUS
<1>4. r \in [X -> Nat] /\ \A v \in Seq(X) : Reserved(v) = Total(Image(r, v))
  <2>1. \A c \in X : c.op = "reserve_fee" => c.amount \in Nat
    BY <1>1 DEF Priced
  <2> QED BY <1>3, <2>1, ReservedRanked
<1>5. s \o t \in Seq(X)
  BY <1>2, ConcatProperties
<1>6. Total(Image(r, s \o t)) = Total(Image(r, s)) + Total(Image(r, t))
  BY <1>2, <1>4, RankedConcat
<1> QED BY <1>2, <1>4, <1>5, <1>6

LEMMA ReservedNone ==
    ASSUME NEW s, IsSeq(s), \A c \in ToSet(s) : c.op # "reserve_fee"
    PROVE  Reserved(s) = 0
<1>1. PICK n \in Nat : n = Len(s) /\ DOMAIN s = 1..n
  BY SeqIs
<1>2. PICK z : z = [i \in DOMAIN s |-> IF s[i].op = "reserve_fee" THEN s[i].amount ELSE 0]
  OBVIOUS
<1>3. \A i \in 1..n : z[i] = 0
  BY <1>1, <1>2 DEF ToSet
<1>4. z \in [1..n -> {0}]
  BY <1>1, <1>2, <1>3
<1>5. z \in Seq({0})
  BY <1>4
<1> QED BY <1>2, <1>5, TotalZero DEF Reserved, SumOver

LEMMA ReservedFee == ASSUME NEW fee \in Nat PROVE Reserved(Fee(fee)) = fee
<1>1. CASE fee = 0
  <2>1. Fee(fee) = <<>> /\ IsSeq(<<>>) /\ ToSet(<<>>) = {}
    BY <1>1, NothingPriced DEF Fee, Priced, ToSet
  <2>2. Reserved(<<>>) = 0
    BY <2>1, ReservedNone
  <2> QED BY <1>1, <2>1, <2>2
<1>2. CASE fee > 0
  <2>0. PICK c : c = ReserveFee(fee)
    OBVIOUS
  <2>1. c.op = "reserve_fee" /\ c.amount = fee
    BY <2>0 DEF ReserveFee
  <2>2. Fee(fee) = <<c>>
    BY <1>2, <2>0 DEF Fee
  <2>3. [i \in DOMAIN <<c>> |-> IF <<c>>[i].op = "reserve_fee" THEN <<c>>[i].amount ELSE 0] = <<fee>>
    BY <2>1
  <2>4. Append(<<>>, fee) = <<fee>> /\ <<>> \in Seq(Nat) /\ <<>> \in Seq({0})
    OBVIOUS
  <2>5. Total(<<fee>>) = Total(<<>>) + fee /\ Total(<<>>) = 0
    <3>1. Total(<<>>) = 0
      BY <2>4, TotalZero
    <3>2. Total(Append(<<>>, fee)) = Total(<<>>) + fee
      BY <2>4, TotalAppend
    <3> QED BY <2>4, <3>1, <3>2
  <2>6. Reserved(<<c>>) = Total(<<fee>>)
    BY <2>3 DEF Reserved, SumOver
  <2> QED BY <2>2, <2>5, <2>6
<1> QED BY <1>1, <1>2

(* The fees of a bundle, spend by spend.                                   *)
FeeOfEach(ss) == [i \in DOMAIN ss |-> Reserved(Run(ss[i]))]

LEMMA FeesAre ==
    ASSUME NEW ss, Proposed(ss)
    PROVE  Fees(ss) = Total(FeeOfEach(ss)) /\ FeeOfEach(ss) \in Seq(Nat) /\ Len(FeeOfEach(ss)) = Len(ss)
<1>1. PICK n \in Nat : n = Len(ss) /\ DOMAIN ss = 1..n
  BY SeqIs DEF Proposed
<1>2. \A i \in 1..n : Reserved(Run(ss[i])) \in Nat
  <2> SUFFICES ASSUME NEW i \in 1..n
               PROVE  Reserved(Run(ss[i])) \in Nat
    OBVIOUS
  <2>1. Priced(Run(ss[i]))
    BY <1>1, RunPriced DEF Proposed, Proper, WellFormed
  <2> QED BY <2>1, AmountsAdd
<1>3. FeeOfEach(ss) \in [1..n -> Nat]
  BY <1>1, <1>2 DEF FeeOfEach
<1>4. Fees(ss) = Total(FeeOfEach(ss))
  BY DEF Fees, SumOver, FeeOfEach
<1> QED BY <1>1, <1>3, <1>4

LEMMA FeesConcat ==
    ASSUME NEW s, NEW t, Proposed(s), Proposed(t)
    PROVE  Fees(s \o t) = Fees(s) + Fees(t)
<1>1. PICK v : v = s \o t /\ Behind(v, s, t) /\ Proposed(v)
  BY ConcatIs, ProposedConcat DEF Proposed
<1>2. PICK a \in Seq(Nat) : a = FeeOfEach(s) /\ Len(a) = Len(s) /\ Fees(s) = Total(a)
  BY FeesAre
<1>3. PICK b \in Seq(Nat) : b = FeeOfEach(t) /\ Len(b) = Len(t) /\ Fees(t) = Total(b)
  BY FeesAre
<1>4. PICK c \in Seq(Nat) : c = FeeOfEach(v) /\ Len(c) = Len(v) /\ Fees(v) = Total(c)
  BY <1>1, FeesAre
<1>5. PICK K, L \in Nat : K = Len(s) /\ L = Len(t) /\ DOMAIN s = 1..K /\ DOMAIN t = 1..L
  BY SeqIs DEF Proposed
<1>6. DOMAIN v = 1..(K + L) /\ Len(v) = K + L
  BY <1>1, <1>5 DEF Behind
<1>7. \A i \in 1..K : c[i] = a[i]
  BY <1>1, <1>2, <1>4, <1>5, <1>6 DEF Behind, FeeOfEach
<1>8. \A i \in 1..L : c[K + i] = b[i]
  <2> SUFFICES ASSUME NEW i \in 1..L
               PROVE  c[K + i] = b[i]
    OBVIOUS
  <2>1. K + i \in 1..(K + L)
    OBVIOUS
  <2>2. v[K + i] = t[i]
    BY <1>1, <1>5 DEF Behind
  <2> QED BY <1>3, <1>4, <1>5, <1>6, <2>1, <2>2 DEF FeeOfEach
<1>9. c = a \o b
  <2>1. PICK d : d = a \o b /\ Behind(d, a, b)
    BY SeqIsSeq, ConcatIs
  <2>2. DOMAIN a = 1..K /\ DOMAIN b = 1..L /\ Len(a) = K /\ Len(b) = L
    BY <1>2, <1>3, <1>5
  <2>3. IsSeq(d) /\ Len(d) = K + L /\ DOMAIN d = 1..(K + L)
    BY <2>1, <2>2 DEF Behind
  <2>4. d = [i \in 1..(K + L) |-> d[i]]
    BY <2>3, SeqIs
  <2>5. c = [i \in 1..(K + L) |-> c[i]]
    BY <1>4, <1>6
  <2>6. ASSUME NEW i \in 1..(K + L) PROVE c[i] = d[i]
    <3>1. CASE i \in 1..K
      BY <1>7, <2>1, <2>2, <3>1 DEF Behind
    <3>2. CASE i \notin 1..K
      <4>1. i - K \in 1..L /\ K + (i - K) = i
        BY <3>2
      <4>2. d[K + (i - K)] = b[i - K]
        BY <2>1, <2>2, <4>1 DEF Behind
      <4>3. c[K + (i - K)] = b[i - K]
        BY <1>8, <4>1
      <4> QED BY <4>1, <4>2, <4>3
    <3> QED BY <3>1, <3>2
  <2> QED BY <2>1, <2>4, <2>5, <2>6
<1>10. Total(a \o b) = Total(a) + Total(b)
  BY TotalConcat
<1> QED BY <1>1, <1>2, <1>3, <1>4, <1>9, <1>10

-----------------------------------------------------------------------------
(* Conditions and spends put together.                                     *)

Barren(conds) == \A c \in ToSet(conds) : c.op # "create_coin"

LEMMA ConcatHolds ==
    ASSUME NEW s, NEW t, IsSeq(s), IsSeq(t)
    PROVE  IsSeq(s \o t) /\ ToSet(s \o t) = ToSet(s) \cup ToSet(t)
<1>1. PICK v : v = s \o t /\ Behind(v, s, t)
  BY ConcatIs
<1>2. PICK K, L \in Nat : K = Len(s) /\ L = Len(t) /\ DOMAIN s = 1..K /\ DOMAIN t = 1..L
  BY SeqIs
<1>3. ToSet(v) \subseteq ToSet(s) \cup ToSet(t)
  BY <1>1 DEF Behind, ToSet
<1>4. ToSet(s) \subseteq ToSet(v)
  <2>1. \A i \in 1..K : i \in DOMAIN v /\ v[i] = s[i]
    BY <1>1, <1>2 DEF Behind
  <2> QED BY <1>2, <2>1 DEF ToSet
<1>5. ToSet(t) \subseteq ToSet(v)
  <2>1. \A i \in 1..L : K + i \in DOMAIN v /\ v[K + i] = t[i]
    BY <1>1, <1>2 DEF Behind
  <2> QED BY <1>2, <2>1 DEF ToSet
<1> QED BY <1>1, <1>3, <1>4, <1>5 DEF Behind

LEMMA TameConcat ==
    ASSUME NEW s, NEW t, IsSeq(s), IsSeq(t), NEW X, Tame(s, X), Tame(t, X)
    PROVE  Tame(s \o t, X)
BY ConcatHolds DEF Tame

LEMMA BarrenConcat ==
    ASSUME NEW s, NEW t, IsSeq(s), IsSeq(t), Barren(s), Barren(t)
    PROVE  Barren(s \o t)
BY ConcatHolds DEF Barren

LEMMA BarrenOneEach == ASSUME NEW s, Barren(s) PROVE OneEach(s)
BY DEF Barren, OneEach, Twins, ToSet

LEMMA OneEachConcat ==
    ASSUME NEW s, NEW t, IsSeq(s), IsSeq(t),
           \/ OneEach(s) /\ Barren(t)
           \/ Barren(s) /\ OneEach(t)
    PROVE  OneEach(s \o t)
<1>1. PICK v : v = s \o t /\ Behind(v, s, t)
  BY ConcatIs
<1>2. PICK K, L \in Nat : K = Len(s) /\ L = Len(t) /\ DOMAIN s = 1..K /\ DOMAIN t = 1..L
  BY SeqIs
<1> SUFFICES ASSUME NEW i \in DOMAIN v, NEW j \in DOMAIN v, Twins(v[i], v[j])
             PROVE  i = j
  BY <1>1 DEF OneEach
<1>3. v[i].op = "create_coin" /\ v[j].op = "create_coin" /\ i \in Int /\ j \in Int
  <2>1. i \in 1..(K + L) /\ j \in 1..(K + L)
    BY <1>1, <1>2 DEF Behind
  <2> QED BY <2>1 DEF Twins
<1>4. ASSUME NEW k \in DOMAIN v
      PROVE  \/ k \in 1..K /\ v[k] = s[k]
             \/ k - K \in 1..L /\ v[k] = t[k - K]
  BY <1>1, <1>2, <1>4 DEF Behind
<1>5. CASE OneEach(s) /\ Barren(t)
  <2>1. \A k \in 1..L : t[k].op # "create_coin"
    BY <1>2, <1>5 DEF Barren, ToSet
  <2>2. i \in 1..K /\ v[i] = s[i] /\ j \in 1..K /\ v[j] = s[j]
    BY <1>3, <1>4, <2>1
  <2> QED BY <1>2, <1>5, <2>2 DEF OneEach
<1>6. CASE Barren(s) /\ OneEach(t)
  <2>1. \A k \in 1..K : s[k].op # "create_coin"
    BY <1>2, <1>6 DEF Barren, ToSet
  <2>2. i - K \in 1..L /\ v[i] = t[i - K] /\ j - K \in 1..L /\ v[j] = t[j - K]
    BY <1>3, <1>4, <2>1
  <2>3. i - K = j - K
    BY <1>2, <1>6, <2>2 DEF OneEach
  <2> QED BY <1>3, <2>3
<1> QED BY <1>5, <1>6

LEMMA FairConcat ==
    ASSUME NEW s, NEW t, NEW X, NEW f, NEW g, Fair(s, X, f), Fair(t, X, g),
           CoinsOf(s) \cap CoinsOf(t) = {}
    PROVE  Fair(s \o t, X, f + g)
<1>1. PICK v : v = s \o t /\ Behind(v, s, t) /\ Proposed(v)
  BY ConcatIs, ProposedConcat DEF Fair, Proposed
<1>2. Fees(v) = f + g
  BY <1>1, FeesConcat DEF Fair
<1>3. PICK K, L \in Nat : K = Len(s) /\ L = Len(t) /\ DOMAIN s = 1..K /\ DOMAIN t = 1..L
  BY SeqIs DEF Fair, Proposed
<1>4. ASSUME NEW k \in DOMAIN v
      PROVE  \/ k \in 1..K /\ v[k] = s[k]
             \/ k - K \in 1..L /\ v[k] = t[k - K]
  BY <1>1, <1>3, <1>4 DEF Behind
<1>5. \A i \in DOMAIN v : Tame(Run(v[i]), X) /\ OneEach(Run(v[i]))
  BY <1>3, <1>4 DEF Fair
<1>6. ASSUME NEW i \in DOMAIN v, NEW j \in DOMAIN v, v[i].coin = v[j].coin
      PROVE  i = j
  <2>1. i \in Int /\ j \in Int
    <3>1. i \in 1..(K + L) /\ j \in 1..(K + L)
      BY <1>1, <1>3 DEF Behind
    <3> QED BY <3>1
  <2>2. \A k \in 1..K, l \in 1..L : s[k].coin # t[l].coin
    BY <1>3 DEF CoinsOf
  <2>3. CASE i \in 1..K /\ v[i] = s[i]
    <3>1. j \in 1..K /\ v[j] = s[j]
      BY <1>4, <1>6, <2>2, <2>3
    <3> QED BY <1>3, <1>6, <2>3, <3>1 DEF Fair, Separate
  <2>4. CASE i - K \in 1..L /\ v[i] = t[i - K]
    <3>1. j - K \in 1..L /\ v[j] = t[j - K]
      BY <1>4, <1>6, <2>2, <2>4
    <3>2. i - K = j - K
      BY <1>3, <1>6, <2>4, <3>1 DEF Fair, Separate
    <3> QED BY <2>1, <3>2
  <2> QED BY <1>4, <2>3, <2>4
<1> QED BY <1>1, <1>2, <1>5, <1>6 DEF Fair, Separate

LEMMA NothingFair == ASSUME NEW X PROVE Fair(<<>>, X, 0)
<1>1. DOMAIN <<>> = {} /\ FeeOfEach(<<>>) \in Seq({0})
  BY DEF FeeOfEach
<1>2. Fees(<<>>) = 0
  BY <1>1, NothingProposed, FeesAre, TotalZero
<1> QED BY <1>1, <1>2, NothingProposed DEF Fair, Separate

(* A spend that signs for its conditions.                                  *)
SignsFor(s, conds) == \E sig : sig.op = "agg_sig_me" /\ Run(s) = <<sig>> \o conds

LEMMA SignedRun ==
    ASSUME NEW s, NEW conds, SignsFor(s, conds), Priced(conds), NEW X, Tame(conds, X), OneEach(conds)
    PROVE  Tame(Run(s), X) /\ OneEach(Run(s)) /\ Reserved(Run(s)) = Reserved(conds)
<1>1. PICK sig : sig.op = "agg_sig_me" /\ Run(s) = <<sig>> \o conds
  BY DEF SignsFor
<1>2. ToSet(<<sig>>) = {sig} /\ Priced(<<sig>>) /\ IsSeq(<<sig>>) /\ IsSeq(conds)
  <2>1. Priced(<<sig>>)
    BY <1>1, OnePriced DEF PricedOne
  <2> QED BY <2>1 DEF Priced, ToSet
<1>3. Tame(<<sig>>, X) /\ Barren(<<sig>>) /\ Reserved(<<sig>>) = 0
  BY <1>1, <1>2, ReservedNone DEF Tame, Barren
<1>4. Reserved(<<sig>> \o conds) = Reserved(<<sig>>) + Reserved(conds) /\ Reserved(conds) \in Nat
  BY <1>2, ReservedConcat, AmountsAdd
<1> QED BY <1>1, <1>2, <1>3, <1>4, TameConcat, OneEachConcat

(* A lead that carries the conditions of all, the others tied to it.       *)
LEMMA LeadFair ==
    ASSUME NEW ss, Proposed(ss), ss # <<>>, Separate(ss), NEW X, NEW conds, NEW tail,
           Priced(conds), Tame(conds, X), OneEach(conds),
           Priced(tail), Tame(tail, X), Barren(tail), Reserved(tail) = 0,
           \A i \in DOMAIN ss : SignsFor(ss[i], IF i = 1 THEN conds ELSE tail)
    PROVE  Fair(ss, X, Reserved(conds))
<1>1. PICK n \in Nat : n = Len(ss) /\ DOMAIN ss = 1..n /\ n >= 1 /\ 1 \in 1..n
  BY SeqIs DEF Proposed
<1>2. OneEach(tail)
  BY BarrenOneEach
<1>3. ASSUME NEW i \in 1..n
      PROVE  Tame(Run(ss[i]), X) /\ OneEach(Run(ss[i])) /\ Reserved(Run(ss[i])) = IF i = 1 THEN Reserved(conds) ELSE 0
  <2>1. CASE i = 1
    <3>1. SignsFor(ss[i], conds)
      BY <1>1, <2>1
    <3> QED BY <2>1, <3>1, SignedRun
  <2>2. CASE i # 1
    <3>1. SignsFor(ss[i], tail)
      BY <1>1, <2>2
    <3> QED BY <1>2, <2>2, <3>1, SignedRun
  <2> QED BY <2>1, <2>2
<1>4. PICK m \in Nat : m = Reserved(conds)
  BY AmountsAdd
<1>5. PICK ns \in Seq(Nat) : ns = FeeOfEach(ss) /\ Len(ns) = n /\ Fees(ss) = Total(ns)
  BY <1>1, FeesAre
<1>6. ns[1] = m /\ \A i \in 1..n : i # 1 => ns[i] = 0
  BY <1>1, <1>3, <1>4, <1>5 DEF FeeOfEach
<1>7. Total(ns) = m
  <2>1. PICK g : Totals(g, ns)
    BY TotalsAre
  <2>2. g[0] = 0 /\ g[n] = Total(ns) /\ \A i \in 1..n : g[i] = g[i - 1] + ns[i]
    BY <1>5, <2>1 DEF Totals
  <2> DEFINE T == {i \in 0..n : i >= 1 => g[i] = m}
  <2>3. 0 \in T
    BY <1>1
  <2>4. ASSUME NEW i \in 1..n, i - 1 \in T PROVE i \in T
    <3>1. CASE i = 1
      <4>1. g[1] = g[0] + ns[1]
        BY <1>1, <2>2
      <4> QED BY <1>1, <1>6, <2>2, <3>1, <4>1
    <3>2. CASE i # 1
      <4>1. g[i - 1] = m
        BY <2>4, <3>2
      <4>2. g[i] = g[i - 1] + ns[i] /\ ns[i] = 0
        BY <1>6, <2>2, <3>2
      <4> QED BY <4>1, <4>2
    <3> QED BY <3>1, <3>2
  <2>5. \A i \in 0..n : i \in T
    <3> HIDE DEF T
    <3> QED BY <2>3, <2>4, InductionUpTo
  <2>6. n \in T
    BY <2>5
  <2> QED BY <1>1, <2>2, <2>6
<1> QED BY <1>1, <1>3, <1>4, <1>5, <1>7 DEF Fair

LEMMA StandardSigns ==
    ASSUME NEW c, NEW conds
    PROVE  SignsFor(StandardSpend(c, conds), conds) /\ StandardSpend(c, conds).coin = c
<1>1. PICK s : s = StandardSpend(c, conds)
  OBVIOUS
<1>2. s.kind = "standard" /\ s.conds = conds /\ s.coin = c
  BY <1>1 DEF StandardSpend, CoinSpend
<1>3. PICK sig : InnerRun(s) = <<sig>> \o s.conds /\ sig.op = "agg_sig_me"
  BY <1>2 DEF InnerRun, AsksSignature, AggSigMe
<1>4. Run(s) = InnerRun(s)
  BY <1>2, RunIs DEF Wraps
<1> QED BY <1>1, <1>2, <1>3, <1>4 DEF SignsFor

LEMMA CatSigns ==
    ASSUME NEW asset, NEW c, NEW conds
    PROVE  SignsFor(CatSpend(asset, c, conds), conds) /\ CatSpend(asset, c, conds).coin = c
<1>1. PICK s : s = CatSpend(asset, c, conds)
  OBVIOUS
<1>2. s.kind = "cat" /\ s.inner = "standard" /\ s.conds = conds /\ s.coin = c
  BY <1>1 DEF CatSpend, CoinSpend
<1>3. PICK sig : InnerRun(s) = <<sig>> \o s.conds /\ sig.op = "agg_sig_me"
  BY <1>2 DEF InnerRun, AsksSignature, AggSigMe
<1>4. Run(s) = InnerRun(s)
  BY <1>2, RunIs DEF Wraps
<1> QED BY <1>1, <1>2, <1>3, <1>4 DEF SignsFor

(* Spends of coins, one each.                                              *)
LEMMA SpendsOf ==
    ASSUME NEW coins, Coins(coins), Unlike(coins), NEW ss, DOMAIN ss = DOMAIN coins,
           \A i \in DOMAIN coins : ss[i].coin = coins[i]
    PROVE  Separate(ss) /\ CoinsOf(ss) = ToSet(coins)
<1>1. Separate(ss)
  BY DEF Separate, Unlike
<1>2. CoinsOf(ss) = ToSet(coins)
  BY DEF CoinsOf, ToSet
<1> QED BY <1>1, <1>2

LEMMA LinkedFair ==
    ASSUME NEW coins, Coins(coins), Unlike(coins), coins # <<>>, NEW X, coins[1] \in X,
           NEW conds, Priced(conds), Tame(conds, X), OneEach(conds)
    PROVE  /\ Fair(Linked(coins, conds), X, Reserved(conds))
           /\ CoinsOf(Linked(coins, conds)) = ToSet(coins)
<1>1. PICK n \in Nat : n = Len(coins) /\ DOMAIN coins = 1..n /\ n >= 1
  BY SeqIs DEF Coins
<1>2. PICK d : d = ConcurrentSpend(coins[1])
  OBVIOUS
<1>3. PICK tail : tail = <<d>>
  OBVIOUS
<1>4. Priced(tail) /\ Tame(tail, X) /\ Barren(tail) /\ Reserved(tail) = 0
  <2>1. d.op = "concurrent_spend" /\ d.coin = coins[1]
    BY <1>2 DEF ConcurrentSpend
  <2>2. Priced(tail) /\ ToSet(tail) = {d}
    BY <1>3, <2>1, OnePriced DEF PricedOne, ToSet
  <2>3. Tame(tail, X) /\ Barren(tail)
    BY <2>1, <2>2 DEF Tame, Barren
  <2>4. Reserved(tail) = 0
    BY <2>1, <2>2, ReservedNone DEF Priced
  <2> QED BY <2>2, <2>3, <2>4
<1>5. PICK ss : ss = Linked(coins, conds)
  OBVIOUS
<1>6. DOMAIN ss = 1..n /\ \A i \in 1..n : ss[i] = StandardSpend(coins[i], IF i = 1 THEN conds ELSE tail)
  BY <1>1, <1>2, <1>3, <1>5 DEF Linked
<1>7. Proposed(ss)
  BY <1>5, LinkedProposed
<1>8. \A i \in 1..n : SignsFor(ss[i], IF i = 1 THEN conds ELSE tail) /\ ss[i].coin = coins[i]
  BY <1>6, StandardSigns
<1>9. Separate(ss) /\ CoinsOf(ss) = ToSet(coins)
  BY <1>1, <1>6, <1>8, SpendsOf
<1>10. ss # <<>>
  BY <1>1, <1>6
<1>11. \A i \in DOMAIN ss : SignsFor(ss[i], IF i = 1 THEN conds ELSE tail)
  BY <1>6, <1>8
<1>12. Fair(ss, X, Reserved(conds))
  BY <1>4, <1>7, <1>9, <1>10, <1>11, LeadFair
<1> QED BY <1>5, <1>9, <1>12

LEMMA RingFair ==
    ASSUME NEW asset \in Assets, NEW coins, Coins(coins), Unlike(coins), coins # <<>>, NEW X,
           NEW conds, Priced(conds), Tame(conds, X), OneEach(conds)
    PROVE  /\ Fair(CatRing(asset, coins, conds), X, Reserved(conds))
           /\ CoinsOf(CatRing(asset, coins, conds)) = ToSet(coins)
<1>1. PICK n \in Nat : n = Len(coins) /\ DOMAIN coins = 1..n /\ n >= 1
  BY SeqIs DEF Coins
<1>2. PICK tail : tail = <<>>
  OBVIOUS
<1>3. Priced(tail) /\ Tame(tail, X) /\ Barren(tail) /\ Reserved(tail) = 0
  <2>1. Priced(tail) /\ ToSet(tail) = {}
    BY <1>2, NothingPriced DEF ToSet
  <2>2. Reserved(tail) = 0
    BY <2>1, ReservedNone DEF Priced
  <2> QED BY <2>1, <2>2 DEF Tame, Barren
<1>5. PICK ss : ss = CatRing(asset, coins, conds)
  OBVIOUS
<1>6. DOMAIN ss = 1..n /\ \A i \in 1..n : ss[i] = CatSpend(asset, coins[i], IF i = 1 THEN conds ELSE tail)
  BY <1>1, <1>2, <1>5 DEF CatRing
<1>7. Proposed(ss)
  BY <1>5, CatRingProposed
<1>8. \A i \in 1..n : SignsFor(ss[i], IF i = 1 THEN conds ELSE tail) /\ ss[i].coin = coins[i]
  BY <1>6, CatSigns
<1>9. Separate(ss) /\ CoinsOf(ss) = ToSet(coins)
  BY <1>1, <1>6, <1>8, SpendsOf
<1>10. ss # <<>>
  BY <1>1, <1>6
<1>11. \A i \in DOMAIN ss : SignsFor(ss[i], IF i = 1 THEN conds ELSE tail)
  BY <1>6, <1>8
<1>12. Fair(ss, X, Reserved(conds))
  BY <1>3, <1>7, <1>9, <1>10, <1>11, LeadFair
<1> QED BY <1>5, <1>9, <1>12

-----------------------------------------------------------------------------
(* A payment that is the only one the bundle's summary lists is not a coin *)
(* the bundle creates twice.                                               *)

LEMMA FlattenCount ==
    ASSUME NEW X, NEW ss \in Seq(Seq(X)), NEW k \in 1..Len(ss), NEW Y
    PROVE  Count(Y, ss[k]) <= Count(Y, FlattenSeq(ss))
<1>1. PICK L \in Nat : L = Len(ss)
  OBVIOUS
<1>2. PICK f \in [0..L -> Seq(X)] : FlattenSeq(ss) = f[L] /\ Joins(f, ss)
  BY <1>1, FlattenIs
<1>3. PICK m \in Nat : m = Count(Y, ss[k])
  <2>1. ss[k] \in Seq(X)
    OBVIOUS
  <2> QED BY <2>1, CountNat
<1> DEFINE T == {n \in 0..L : n >= k => m <= Count(Y, f[n])}
<1>4. 0 \in T
  BY <1>1
<1>5. ASSUME NEW n \in 1..L, n - 1 \in T PROVE n \in T
  <2>1. PICK v \in Seq(X) : v = f[n - 1]
    BY <1>2
  <2>2. PICK t \in Seq(X) : t = ss[n]
    BY <1>1
  <2>3. f[n] = v \o t
    BY <1>1, <1>2, <2>1, <2>2 DEF Joins
  <2>a. PICK a \in Nat : a = Count(Y, v)
    BY CountNat
  <2>b. PICK b \in Nat : b = Count(Y, t)
    BY CountNat
  <2>c. Count(Y, v \o t) = a + b
    BY <2>a, <2>b, CountConcat
  <2>4. a \in Nat /\ b \in Nat /\ a = Count(Y, v) /\ b = Count(Y, t) /\ Count(Y, v \o t) = a + b
    BY <2>a, <2>b, <2>c
  <2>5. n >= k => m <= a + b
    <3>1. CASE n = k
      <4>1. m = b
        BY <1>3, <2>2, <2>4, <3>1
      <4> QED BY <4>1
    <3>2. CASE n # k
      <4>1. n >= k => m <= a
        BY <1>1, <1>5, <2>1, <2>4, <3>2
      <4> QED BY <4>1
    <3> QED BY <3>1, <3>2
  <2>6. n \in 0..L /\ (n >= k => m <= Count(Y, f[n]))
    BY <2>3, <2>4, <2>5
  <2> QED BY <2>6
<1>6. \A n \in 0..L : n \in T
  <2> HIDE DEF T
  <2> QED BY <1>4, <1>5, InductionUpTo
<1>7. L \in T
  BY <1>6
<1> QED BY <1>1, <1>2, <1>3, <1>7

LEMMA LoneParts ==
    ASSUME NEW s, NEW t, IsSeq(s), IsSeq(t), NEW Y, Lone(Y, s \o t)
    PROVE  Lone(Y, s) /\ Lone(Y, t)
<1>1. PICK v : v = s \o t /\ Behind(v, s, t) /\ Lone(Y, v)
  BY ConcatIs
<1>2. PICK K, L \in Nat : K = Len(s) /\ L = Len(t) /\ DOMAIN s = 1..K /\ DOMAIN t = 1..L
  BY SeqIs
<1>3. \A i \in 1..K : i \in DOMAIN v /\ v[i] = s[i]
  BY <1>1, <1>2 DEF Behind
<1>4. \A i \in 1..L : K + i \in DOMAIN v /\ v[K + i] = t[i]
  BY <1>1, <1>2 DEF Behind
<1>5. Lone(Y, s)
  BY <1>1, <1>2, <1>3 DEF Lone
<1>6. ASSUME NEW i \in 1..L, NEW j \in 1..L, t[i] \in Y, t[j] \in Y PROVE i = j
  <2>1. K + i = K + j
    BY <1>1, <1>4, <1>6 DEF Lone
  <2> QED BY <2>1
<1> QED BY <1>2, <1>5, <1>6 DEF Lone

(* What spend k makes of one output, the bundle makes at least as often.   *)
LEMMA MadeOften ==
    ASSUME NEW ss, Proposed(ss), NEW k \in DOMAIN ss, NEW Y
    PROVE  /\ IsSeq(Made(ss[k])) /\ IsSeq(MadeUpTo(ss, Len(ss)))
           /\ Count(Y, Made(ss[k])) <= Count(Y, MadeUpTo(ss, Len(ss)))
           /\ Left(ss) = LeftOf(MadeUpTo(ss, Len(ss)))
<1>1. PICK n \in Nat : n = Len(ss) /\ DOMAIN ss = 1..n
  BY SeqIs DEF Proposed
<1>2. SoundBundle(ss)
  BY DEF Proposed, Proper, SoundBundle
<1>3. PICK pp : pp = [i \in 1..n |-> Made(ss[i])] /\ FlattenSeq(pp) = MadeUpTo(ss, Len(ss))
  BY <1>1 DEF MadeUpTo
<1>4. PICK X : X = UNION {ToSet(pp[i]) : i \in 1..n}
  OBVIOUS
<1>5. ASSUME NEW i \in 1..n PROVE IsSeq(pp[i]) /\ pp[i] \in Seq(X)
  <2>1. PICK p : p = Creates(Run(ss[i])) /\ IsSeq(p)
    BY <1>1, RunPriced, CreatesAre DEF Proposed, Proper, WellFormed, Priced
  <2>2. PICK q : q = pp[i] /\ DOMAIN q = DOMAIN p
    BY <1>3, <2>1 DEF Made
  <2>3. PICK m \in Nat : DOMAIN p = 1..m
    BY <2>1, SeqIs
  <2>4. DOMAIN q = 1..m
    BY <2>2, <2>3
  <2>5. q = [j \in 1..m |-> q[j]]
    BY <1>3, <2>1, <2>2, <2>3 DEF Made
  <2>6. IsSeq(q)
    BY <2>5, MadeSeq
  <2>7. q \in Seq(ToSet(q)) /\ ToSet(q) \subseteq X
    BY <1>4, <2>2, <2>6 DEF IsSeq
  <2>8. q \in Seq(X)
    BY <2>7
  <2> QED BY <2>2, <2>6, <2>8
<1>6. pp \in Seq(Seq(X)) /\ Len(pp) = n
  <2>1. pp = [i \in 1..n |-> pp[i]]
    BY <1>3
  <2> QED BY <1>5, <2>1
<1>7. Count(Y, pp[k]) <= Count(Y, FlattenSeq(pp))
  BY <1>1, <1>6, FlattenCount
<1>8. IsSeq(FlattenSeq(pp))
  BY <1>6, FlattenType, SeqIsSeq
<1>9. Left(ss) = LeftOf(MadeUpTo(ss, Len(ss)))
  BY <1>2, WholeBundle
<1> QED BY <1>1, <1>3, <1>5, <1>7, <1>8, <1>9

(* The only output that leaves is made once.                               *)
LEMMA OnlyOutput ==
    ASSUME NEW M, IsSeq(M), NEW ph, NEW n, NEW asset, NEW o, o = SpendOutput(ph, n, asset),
           Len(LeftOf(M)) = 1, LeftOf(M)[1] = o
    PROVE  Lone({o}, M)
<1>1. PICK v : v = LeftOf(M) /\ IsSeq(v)
  BY CountLeaving
<1>2. DOMAIN v = 1..1 /\ Len(v) = 1 /\ v[1] = o
  BY <1>1, SeqIs
<1>3. PICK Z : Z = {m \in ToSet(M) : Leaving(m) /\ Masked(m) \in {o}}
  OBVIOUS
<1>4. Count({o}, v) = Count(Z, M)
  BY <1>1, <1>3, CountLeaving
<1>5. Lone({o}, v)
  BY <1>2 DEF Lone
<1>6. Count({o}, v) <= 1
  BY <1>1, <1>5, LoneCounted
<1>7. Lone(Z, M)
  BY <1>4, <1>6, LoneCounted
<1>8. v \in Seq({o})
  BY <1>1, <1>2 DEF IsSeq, ToSet
<1>9. PICK m \in ToSet(M) : Leaving(m) /\ Masked(m) = o
  <2>1. Count({o}, v) = 1
    BY <1>2, <1>8, CountAll
  <2>2. Z # {}
    <3>1. CASE Z = {}
      <4>1. {i \in DOMAIN M : M[i] \in Z} = {}
        BY <3>1
      <4>2. Count(Z, M) = 0
        BY <4>1, FS_EmptySet DEF Count
      <4> QED BY <1>4, <2>1, <4>2
    <3> QED BY <3>1
  <2> QED BY <1>3, <2>2
<1>10. o.ph = ph /\ o.amount = n
  BY DEF SpendOutput
<1>11. Leaving(o) /\ Masked(o) = o
  <2>1. CASE IsProtocolSink(m.ph)
    <3>1. o.ph = NoAddress
      <4>1. Masked(m) = [m EXCEPT !.ph = NoAddress]
        BY <2>1 DEF Masked
      <4>2. \E p : p \in DOMAIN m /\ p = "ph"
        <5>1. DOMAIN o = DOMAIN m
          BY <1>9, <4>1
        <5>2. "ph" \in DOMAIN o
          BY DEF SpendOutput
        <5> QED BY <5>1, <5>2
      <4> QED BY <1>9, <4>1, <4>2
    <3>2. ~IsProtocolSink(NoAddress)
      BY DEF IsProtocolSink, SettlementPayment, SingletonLauncher, NoAddress
    <3>3. ~Owned(NoAddress)
      BY DEF Owned, P2, NoAddress
    <3> QED BY <3>1, <3>2, <3>3 DEF Leaving, Masked
  <2>2. CASE ~IsProtocolSink(m.ph)
    <3>1. m = o
      BY <1>9, <2>2 DEF Masked
    <3> QED BY <1>9, <3>1
  <2> QED BY <2>1, <2>2
<1> QED BY <1>3, <1>7, <1>11 DEF Lone, ToSet

(* Two conditions that create one coin make one output twice.              *)
LEMMA TwinsMade ==
    ASSUME NEW s, Proper(s), s.kind # "option", NEW d, d.op = "create_coin",
           NEW o, o = Output(d.ph, d.amount, s.asset), IsSeq(Made(s)), Lone({o}, Made(s))
    PROVE  Lone({c \in ToSet(Run(s)) : Twins(c, d)}, Run(s))
<1>1. PICK conds : conds = Run(s) /\ IsSeq(conds)
  BY RunPriced DEF Proper, WellFormed, Priced
<1>2. PICK p : p = Creates(conds) /\ p \in Seq({c \in ToSet(conds) : c.op = "create_coin"})
  BY <1>1, CreatesAre
<1>3. PICK v : v = Made(s) /\ v = [i \in DOMAIN p |-> Output(p[i].ph, p[i].amount, s.asset)]
  BY <1>1, <1>2 DEF Made, Payee
<1>4. PICK Z : Z = {c \in ToSet(conds) : Twins(c, d)}
  OBVIOUS
<1>5. ASSUME NEW i \in DOMAIN p PROVE v[i] \in {o} <=> p[i] \in Z
  <2>1. p[i] \in ToSet(conds) /\ p[i].op = "create_coin"
    BY <1>2
  <2>2. v[i] = Output(p[i].ph, p[i].amount, s.asset)
    BY <1>3
  <2>3. v[i] = o <=> p[i].ph = d.ph /\ p[i].amount = d.amount
    BY <2>2 DEF Output
  <2> QED BY <1>4, <2>1, <2>3 DEF Twins
<1>6. DOMAIN v = DOMAIN p
  BY <1>3
<1>7. Lone(Z, p)
  BY <1>3, <1>5, <1>6 DEF Lone
<1>8. \A i \in DOMAIN conds : conds[i] \in Z => conds[i].op = "create_coin"
  BY <1>4 DEF Twins
<1> QED BY <1>1, <1>2, <1>4, <1>7, <1>8, CreatesLone

(* The change of a payment is not the payment again.                       *)
LEMMA OnePayment ==
    ASSUME NEW ss, Proposed(ss), 1 \in DOMAIN ss, NEW leg, leg.amount \in Nat, NEW ph, NEW n \in Int,
           NEW rest, Priced(rest), ss[1].kind # "option",
           SignsFor(ss[1], (PayLegs(<<leg>>) \o Change(ph, n)) \o rest),
           SameBag(Left(ss), LegOutputs(<<leg>>, ss[1].asset))
    PROVE  OneEach(PayLegs(<<leg>>) \o Change(ph, n))
<1>1. PICK d : d = CreateCoin(leg.to, leg.amount)
  OBVIOUS
<1>2. d.op = "create_coin" /\ d.ph = leg.to /\ d.amount = leg.amount
  BY <1>1 DEF CreateCoin
<1>3. PayLegs(<<leg>>) = <<d>>
  BY <1>1 DEF PayLegs
<1>4. PICK o : o = SpendOutput(leg.to, leg.amount, ss[1].asset)
                  /\ o = Output(d.ph, d.amount, ss[1].asset)
  BY <1>2 DEF SpendOutput, Output
<1>5. PICK M : M = MadeUpTo(ss, Len(ss)) /\ IsSeq(M) /\ Left(ss) = LeftOf(M)
  BY MadeOften
<1>6. PICK v : v = LeftOf(M) /\ IsSeq(v)
  BY <1>5, CountLeaving
<1>7. PICK w : w = LegOutputs(<<leg>>, ss[1].asset) /\ SameBag(v, w)
  BY <1>5, <1>6
<1>8. w = <<o>> /\ Len(w) = 1
  <2>1. PICK z : z = <<leg>>
    OBVIOUS
  <2>2. DOMAIN z = 1..1 /\ z[1] = leg
    BY <2>1
  <2>3. w = [i \in DOMAIN z |-> SpendOutput(z[i].to, z[i].amount, ss[1].asset)]
    BY <1>7, <2>1 DEF LegOutputs
  <2>a. DOMAIN w = 1..1
    BY <2>2, <2>3
  <2>b. 1 \in DOMAIN z
    BY <2>2
  <2>c. w[1] = SpendOutput(z[1].to, z[1].amount, ss[1].asset)
    BY <2>3, <2>b
  <2>4. DOMAIN w = 1..1 /\ w[1] = o
    BY <1>4, <2>2, <2>a, <2>c
  <2>5. w = [i \in 1..1 |-> w[i]]
    BY <2>2, <2>3
  <2> QED BY <2>4, <2>5
<1>9. Len(v) = 1 /\ v[1] = o
  <2>1. Len(v) = 1 /\ DOMAIN v = 1..1
    BY <1>6, <1>7, <1>8, SeqIs DEF SameBag
  <2>2. v[1] \in ToSet(v)
    BY <2>1 DEF ToSet
  <2>3. Occurrences(v[1], v) = Occurrences(v[1], w)
    BY <1>7, <2>2 DEF SameBag
  <2>4. PICK x : x = v[1]
    OBVIOUS
  <2>5. ASSUME x # o PROVE FALSE
    <3>1. {i \in DOMAIN w : w[i] = x} = {}
      BY <1>8, <2>5
    <3>2. {i \in DOMAIN v : v[i] = x} = {1}
      BY <2>1, <2>4
    <3>3. Occurrences(x, v) = 1
      BY <3>2, FS_Singleton DEF Occurrences
    <3>4. Occurrences(x, w) = 0
      BY <3>1, FS_EmptySet DEF Occurrences
    <3>5. Occurrences(x, v) = Occurrences(x, w)
      BY <2>3, <2>4
    <3> QED BY <3>3, <3>4, <3>5
  <2> QED BY <2>1, <2>4, <2>5
<1>10. Lone({o}, M)
  BY <1>4, <1>5, <1>6, <1>9, OnlyOutput
<1>11. PICK s : s = ss[1] /\ Proper(s)
  BY DEF Proposed
<1>12. IsSeq(Made(s)) /\ Lone({o}, Made(s))
  <2>1. IsSeq(Made(s)) /\ Count({o}, Made(s)) <= Count({o}, M)
    BY <1>5, <1>11, MadeOften
  <2>2. Count({o}, M) <= 1
    BY <1>5, <1>10, LoneCounted
  <2>3. Count({o}, Made(s)) \in Nat /\ Count({o}, M) \in Nat
    BY <1>5, <2>1, CountNat DEF IsSeq
  <2>4. Count({o}, Made(s)) <= 1
    BY <2>1, <2>2, <2>3
  <2> QED BY <2>1, <2>4, LoneCounted
<1>13. PICK p : p = PayLegs(<<leg>>) \o Change(ph, n) /\ Priced(p)
  BY <1>3, PayLegsPriced, OneLeg, ChangePriced, PricedConcat
<1>14. PICK Z : Z = {c \in ToSet(Run(s)) : Twins(c, d)} /\ Lone(Z, Run(s))
  BY <1>2, <1>4, <1>11, <1>12, TwinsMade
<1>15. Lone(Z, p) /\ ToSet(p) \subseteq ToSet(Run(s))
  <2>1. PICK sig : sig.op = "agg_sig_me" /\ Run(s) = <<sig>> \o (p \o rest)
    BY <1>11, <1>13 DEF SignsFor
  <2>2. IsSeq(<<sig>>) /\ IsSeq(p) /\ IsSeq(rest) /\ IsSeq(p \o rest)
    BY <1>13, <2>1, OnePriced, PricedConcat DEF PricedOne, Priced
  <2>3. Lone(Z, p \o rest)
    BY <1>14, <2>1, <2>2, LoneParts
  <2>4. Lone(Z, p)
    BY <2>2, <2>3, LoneParts
  <2>5. ToSet(p) \subseteq ToSet(p \o rest) /\ ToSet(p \o rest) \subseteq ToSet(Run(s))
    BY <2>1, <2>2, ConcatHolds
  <2> QED BY <2>4, <2>5
<1>16. PICK e : Change(ph, n) = <<>> \/ Change(ph, n) = <<e>>
  BY DEF Change
<1>17. \/ DOMAIN p = 1..1
       \/ DOMAIN p = 1..2 /\ p[1] = d /\ p[2] = e
  <2>1. PICK t : t = Change(ph, n) /\ IsSeq(t) /\ (t = <<>> \/ t = <<e>>)
    BY <1>16, ChangePriced DEF Priced
  <2>2. PICK u : u = <<d>> /\ IsSeq(u)
    BY <1>2, OnePriced DEF PricedOne, Priced
  <2>3. Behind(p, u, t)
    BY <1>3, <1>13, <2>1, <2>2, ConcatIs
  <2>4. DOMAIN u = 1..1 /\ Len(u) = 1 /\ u[1] = d
    BY <2>2
  <2>5. CASE t = <<>>
    <3>1. DOMAIN t = {} /\ Len(t) = 0
      BY <2>5
    <3> QED BY <2>3, <2>4, <3>1 DEF Behind
  <2>6. CASE t = <<e>>
    <3>1. DOMAIN t = 1..1 /\ Len(t) = 1 /\ t[1] = e
      BY <2>6
    <3> QED BY <2>3, <2>4, <3>1 DEF Behind
  <2> QED BY <2>1, <2>5, <2>6
<1> SUFFICES ASSUME NEW i \in DOMAIN p, NEW j \in DOMAIN p, Twins(p[i], p[j])
             PROVE  i = j
  BY <1>13 DEF OneEach
<1>18. CASE DOMAIN p = 1..1
  BY <1>18
<1>19. CASE DOMAIN p = 1..2 /\ p[1] = d /\ p[2] = e
  <2>1. DOMAIN p = 1..2 /\ p[1] = d /\ p[2] = e
    BY <1>19
  <2>2. CASE i = j
    BY <2>2
  <2>3. CASE i # j
    <3>1. Twins(e, d) /\ Twins(d, d)
      BY <2>1, <2>3 DEF Twins
    <3>2. d \in ToSet(p) /\ e \in ToSet(p)
      BY <2>1 DEF ToSet
    <3>3. d \in Z /\ e \in Z
      BY <1>14, <1>15, <3>1, <3>2
    <3> QED BY <1>15, <2>1, <3>3 DEF Lone
  <2> QED BY <2>2, <2>3
<1> QED BY <1>17, <1>18, <1>19

-----------------------------------------------------------------------------
(* Conditions that pay, and a fee behind them.                             *)

Paying(s) == Priced(s) /\ \A c \in ToSet(s) : c = CreateCoin(c.ph, c.amount)
(* Conditions to put on a lead: they ask nothing, pay no coin twice, and   *)
(* reserve fee.                                                            *)
Carries(conds, X, fee) == Priced(conds) /\ Tame(conds, X) /\ OneEach(conds) /\ Reserved(conds) = fee

LEMMA PayingIs ==
    ASSUME NEW s, Paying(s), NEW X
    PROVE  Tame(s, X) /\ Reserved(s) = 0 /\ (Distinct(s) => OneEach(s))
<1>1. \A c \in ToSet(s) : c.op = "create_coin"
  BY DEF Paying, CreateCoin
<1>2. IsSeq(s)
  BY DEF Paying, Priced
<1>3. Tame(s, X)
  BY <1>1 DEF Tame
<1>4. Reserved(s) = 0
  BY <1>1, <1>2, ReservedNone
<1>5. Distinct(s) => OneEach(s)
  BY <1>2, DistinctOneEach DEF Paying
<1> QED BY <1>3, <1>4, <1>5

LEMMA PayingConcat ==
    ASSUME NEW s, NEW t, Paying(s), Paying(t)
    PROVE  Paying(s \o t)
<1>1. Priced(s \o t)
  BY PricedConcat DEF Paying
<1>2. ToSet(s \o t) = ToSet(s) \cup ToSet(t)
  BY ConcatHolds DEF Paying, Priced
<1> QED BY <1>1, <1>2 DEF Paying

LEMMA PayLegsPaying ==
    ASSUME NEW legs, LegsOK(legs)
    PROVE  Paying(PayLegs(legs))
<1>1. PICK p : p = PayLegs(legs) /\ Priced(p) /\ \A i \in DOMAIN p : p[i] = CreateCoin(legs[i].to, legs[i].amount)
  BY PayLegsPriced
<1>2. \A i \in DOMAIN p : p[i] = CreateCoin(p[i].ph, p[i].amount)
  BY <1>1 DEF CreateCoin
<1> QED BY <1>1, <1>2 DEF Paying, ToSet

LEMMA ChangePaying ==
    ASSUME NEW ph, NEW n \in Int
    PROVE  Paying(Change(ph, n)) /\ OneEach(Change(ph, n))
<1>1. PICK p : p = Change(ph, n) /\ Priced(p)
  BY ChangePriced
<1>a. PICK d : d = CreateCoin(ph, n)
  OBVIOUS
<1>2. d = CreateCoin(ph, n) /\ d = CreateCoin(d.ph, d.amount)
  BY <1>a DEF CreateCoin
<1>3. p = <<>> \/ p = <<d>>
  BY <1>1, <1>2 DEF Change
<1>4. CASE p = <<>>
  <2>1. DOMAIN p = {}
    BY <1>4
  <2> QED BY <1>1, <2>1 DEF Paying, OneEach, ToSet
<1>5. CASE p = <<d>>
  <2>1. DOMAIN p = 1..1 /\ p[1] = d
    BY <1>5
  <2>2. \A i \in DOMAIN p : i = 1
    BY <2>1
  <2> QED BY <1>1, <1>2, <2>1, <2>2 DEF Paying, OneEach, ToSet
<1> QED BY <1>3, <1>4, <1>5

LEMMA PayingCarries ==
    ASSUME NEW p, Paying(p), OneEach(p), NEW X
    PROVE  Carries(p, X, 0)
BY PayingIs DEF Carries, Paying

LEMMA FeeTame ==
    ASSUME NEW fee \in Nat, NEW X
    PROVE  Tame(Fee(fee), X) /\ Barren(Fee(fee))
<1>a. PICK c : c = ReserveFee(fee)
  OBVIOUS
<1>1. c = ReserveFee(fee) /\ c.op = "reserve_fee"
  BY <1>a DEF ReserveFee
<1>2. ToSet(Fee(fee)) \subseteq {c}
  <2>1. Fee(fee) = <<>> \/ Fee(fee) = <<c>>
    BY <1>1 DEF Fee
  <2>2. ToSet(<<>>) = {} /\ ToSet(<<c>>) = {c}
    BY DEF ToSet
  <2> QED BY <2>1, <2>2
<1> QED BY <1>1, <1>2 DEF Tame, Barren

LEMMA WithFee ==
    ASSUME NEW p, Paying(p), OneEach(p), NEW fee \in Nat, NEW X
    PROVE  Carries(p \o Fee(fee), X, fee)
<1>1. Priced(p) /\ IsSeq(p) /\ Tame(p, X) /\ Reserved(p) = 0
  BY PayingIs DEF Paying, Priced
<1>2. PICK t : t = Fee(fee) /\ Priced(t) /\ IsSeq(t) /\ Tame(t, X) /\ Barren(t) /\ Reserved(t) = fee
  BY FeePriced, FeeTame, ReservedFee DEF Priced
<1>3. Priced(p \o t) /\ Tame(p \o t, X) /\ OneEach(p \o t)
  BY <1>1, <1>2, PricedConcat, TameConcat, OneEachConcat
<1>4. Reserved(p \o t) = Reserved(p) + Reserved(t)
  BY <1>1, <1>2, ReservedConcat
<1> QED BY <1>1, <1>2, <1>3, <1>4 DEF Carries

LEMMA CoinsConcat ==
    ASSUME NEW s, NEW t, IsSeq(s), IsSeq(t)
    PROVE  CoinsOf(s \o t) = CoinsOf(s) \cup CoinsOf(t)
<1>1. \A v : CoinsOf(v) = {x.coin : x \in ToSet(v)}
  BY DEF CoinsOf, ToSet
<1>2. ToSet(s \o t) = ToSet(s) \cup ToSet(t)
  BY ConcatHolds
<1> QED BY <1>1, <1>2

(* Standard coins that pay and reserve a fee.                              *)
LEMMA LinkedAgrees ==
    ASSUME NEW coins, Coins(coins), Unlike(coins), coins # <<>>, NEW p, Paying(p), OneEach(p),
           NEW fee \in Nat
    PROVE  LET ss == Linked(coins, p \o Fee(fee)) IN Fair(ss, CoinsOf(ss), fee)
<1>1. PICK conds : conds = p \o Fee(fee) /\ Carries(conds, ToSet(coins), fee)
  BY WithFee
<1>2. coins[1] \in ToSet(coins)
  BY SeqIs DEF Coins, ToSet
<1>3. PICK ss : ss = Linked(coins, conds)
  OBVIOUS
<1>4. Fair(ss, ToSet(coins), fee) /\ CoinsOf(ss) = ToSet(coins)
  BY <1>1, <1>2, <1>3, LinkedFair DEF Carries
<1> QED BY <1>1, <1>3, <1>4

LEMMA TwoJoined == ASSUME NEW a, NEW b PROVE <<a>> \o <<b>> = <<a, b>>
<1>1. PICK u, t : u = <<a>> /\ t = <<b>>
  OBVIOUS
<1>2. DOMAIN u = 1..1 /\ Len(u) = 1 /\ u[1] = a /\ DOMAIN t = 1..1 /\ Len(t) = 1 /\ t[1] = b
  BY <1>1
<1>3. IsSeq(u) /\ IsSeq(t)
  <2>1. u \in Seq({a}) /\ t \in Seq({b})
    BY <1>1
  <2> QED BY <2>1, SeqIsSeq
<1>4. PICK v : v = u \o t /\ Behind(v, u, t)
  BY <1>3, ConcatIs
<1>5. DOMAIN v = 1..2 /\ IsSeq(v) /\ Len(v) = 2 /\ v[1] = a
  BY <1>2, <1>4 DEF Behind
<1>6. v[2] = b
  <2>1. v[Len(u) + 1] = t[1] /\ Len(u) + 1 = 2
    BY <1>2, <1>4 DEF Behind
  <2> QED BY <1>2, <2>1
<1>7. v = [i \in 1..2 |-> v[i]]
  BY <1>5, SeqIs
<1>8. v = <<a, b>>
  BY <1>5, <1>6, <1>7
<1> QED BY <1>1, <1>4, <1>8

(* The fee of a CAT spend: coins tied to the lead.                         *)
LEMMA FeeSpendsFair ==
    ASSUME NEW w, WalletOK(w), NEW fee \in Nat, NEW lead, NEW f \in FeeSpends(w, fee, lead),
           NEW X, lead \in X, CoinsOf(f) \subseteq X
    PROVE  Fair(f, X, fee) /\ CoinsOf(f) \subseteq w.xch
<1>1. CASE fee = 0
  <2>1. f = <<>>
    BY <1>1 DEF FeeSpends
  <2>2. CoinsOf(f) = {}
    BY <2>1 DEF CoinsOf
  <2> QED BY <1>1, <2>1, <2>2, NothingFair
<1>2. CASE fee # 0
  <2>1. PICK s \in SelectOrFail(w.xch, fee, CoinCap) :
            f = Linked(s, <<ReserveFee(fee), ConcurrentSpend(lead)>>
                          \o Change(w.change, U64Sum(s) - fee))
    BY <1>2 DEF FeeSpends
  <2>2. Coins(s) /\ Unlike(s) /\ ToSet(s) \subseteq w.xch /\ s # <<>>
    <3>1. Purse(w.xch)
      BY DEF WalletOK
    <3>2. Takes(s, w.xch) /\ s # <<>>
      BY <1>2, <2>1, <3>1, CapAssumption, SelectionTakes, SelectionLeads
    <3> QED BY <3>1, <3>2, TakenCoins DEF Takes, Unlike, ToSet
  <2>3. PICK n \in Int : n = U64Sum(s) - fee
    BY <2>2, SumNat
  <2>4. PICK a, b : a = ReserveFee(fee) /\ b = ConcurrentSpend(lead)
    OBVIOUS
  <2>5. a.op = "reserve_fee" /\ a.amount = fee /\ b.op = "concurrent_spend" /\ b.coin = lead
    BY <2>4 DEF ReserveFee, ConcurrentSpend
  <2>6. PICK t : t = <<a, b>>
    OBVIOUS
  <2>7. Priced(t) /\ IsSeq(t) /\ ToSet(t) = {a, b}
    <3>1. Priced(t)
      BY <2>5, <2>6, TwoPriced DEF PricedOne
    <3>2. ToSet(t) = {a, b}
      BY <2>6 DEF ToSet
    <3> QED BY <3>1, <3>2 DEF Priced
  <2>8. Tame(t, X) /\ Barren(t)
    BY <2>5, <2>7 DEF Tame, Barren
  <2>9. Reserved(t) = fee
    <3>1. Fee(fee) = <<a>>
      BY <1>2, <2>4 DEF Fee
    <3>2. Reserved(<<a>>) = fee
      BY <3>1, ReservedFee
    <3>3. Priced(<<a>>) /\ Priced(<<b>>) /\ IsSeq(<<b>>)
      BY <2>5, OnePriced DEF PricedOne, Priced
    <3>4. Reserved(<<b>>) = 0
      <4>1. ToSet(<<b>>) = {b}
        BY DEF ToSet
      <4> QED BY <2>5, <3>3, <4>1, ReservedNone
    <3>5. t = <<a>> \o <<b>>
      BY <2>6, TwoJoined
    <3> QED BY <3>2, <3>3, <3>4, <3>5, ReservedConcat
  <2>10. PICK p : p = Change(w.change, U64Sum(s) - fee) /\ Paying(p) /\ OneEach(p)
    BY <2>3, ChangePaying
  <2>11. Priced(p) /\ IsSeq(p) /\ Tame(p, X) /\ Reserved(p) = 0
    BY <2>10, PayingIs DEF Paying, Priced
  <2>12. PICK conds : conds = t \o p
    OBVIOUS
  <2>13. Priced(conds) /\ Tame(conds, X) /\ OneEach(conds)
    BY <2>7, <2>8, <2>10, <2>11, <2>12, PricedConcat, TameConcat, OneEachConcat
  <2>14. Reserved(conds) = fee
    BY <2>7, <2>9, <2>11, <2>12, ReservedConcat
  <2>15. f = Linked(s, conds)
    BY <2>1, <2>4, <2>6, <2>10, <2>12
  <2>16. CoinsOf(f) = ToSet(s)
    <3>1. PICK x : x = s[1] /\ x \in ToSet(s)
      BY <2>2, SeqIs DEF Coins, ToSet
    <3>2. PICK Y : Y = X \cup {x}
      OBVIOUS
    <3>3. Tame(conds, Y)
      BY <2>13, <3>2 DEF Tame
    <3> QED BY <2>2, <2>13, <2>15, <3>1, <3>2, <3>3, LinkedFair
  <2>17. s[1] \in X
    BY <2>2, <2>16, SeqIs DEF Coins, ToSet
  <2> QED BY <2>2, <2>13, <2>14, <2>15, <2>16, <2>17, LinkedFair
<1> QED BY <1>1, <1>2

(* CAT coins that pay, and coins tied to them that reserve the fee.        *)
LEMMA RingAgrees ==
    ASSUME NEW w, WalletOK(w), NEW asset \in Assets, NEW coins, Coins(coins), Unlike(coins),
           coins # <<>>, ToSet(coins) \cap w.xch = {}, NEW p, Paying(p), OneEach(p),
           NEW fee \in Nat, NEW f \in FeeSpends(w, fee, coins[1]),
           NEW ss, ss = CatRing(asset, coins, p) \o f
    PROVE  Fair(ss, CoinsOf(ss), fee)
<1>1. PICK r : r = CatRing(asset, coins, p)
  OBVIOUS
<1>2. Priced(p) /\ \A X : Tame(p, X) /\ Reserved(p) = 0
  BY PayingIs DEF Paying
<1>3. \A X : Fair(r, X, 0) /\ CoinsOf(r) = ToSet(coins)
  BY <1>1, <1>2, RingFair
<1>4. Proposed(f)
  BY FeeSpendsProposed
<1>5. PICK X : X = CoinsOf(ss)
  OBVIOUS
<1>6. X = CoinsOf(r) \cup CoinsOf(f)
  BY <1>1, <1>3, <1>4, <1>5, CoinsConcat DEF Fair, Proposed
<1>7. coins[1] \in X
  <2>1. coins[1] \in ToSet(coins)
    BY SeqIs DEF Coins, ToSet
  <2> QED BY <1>3, <1>6, <2>1
<1>8. Fair(f, X, fee) /\ CoinsOf(f) \subseteq w.xch
  BY <1>6, <1>7, FeeSpendsFair
<1>9. CoinsOf(r) \cap CoinsOf(f) = {}
  BY <1>3, <1>8
<1>10. Fair(r \o f, X, 0 + fee)
  BY <1>3, <1>8, <1>9, FairConcat
<1> QED BY <1>1, <1>5, <1>10

-----------------------------------------------------------------------------
(* The coins of a wallet.                                                  *)

LEMMA PickedLone ==
    ASSUME NEW s, IsSeq(s), NEW at, NEW Y, Lone(Y, s)
    PROVE  Lone(Y, Picked(s, at))
<1>1. s \in Seq(ToSet(s)) /\ DOMAIN s = 1..Len(s)
  BY DEF IsSeq
<1>2. PICK Z : Z = IF \E i \in DOMAIN s : i \in at /\ s[i] \in Y THEN Y ELSE {}
  OBVIOUS
<1>3. \A i \in 1..Len(s) : s[i] \in Z <=> i \in at /\ s[i] \in Y
  BY <1>1, <1>2 DEF Lone
<1>4. Count(Y, Picked(s, at)) = Count(Z, s)
  BY <1>1, <1>3, CountPicked
<1>5. Lone(Z, s)
  BY <1>2 DEF Lone
<1>6. Count(Z, s) <= 1
  BY <1>5, LoneCounted
<1>7. IsSeq(Picked(s, at))
  BY PickedSeq
<1> QED BY <1>4, <1>6, <1>7, LoneCounted

LEMMA PickedCoins ==
    ASSUME NEW s, IsSeq(s), \A i, j \in DOMAIN s : s[i].coin = s[j].coin => i = j, NEW at,
           NEW v, v = [i \in DOMAIN Picked(s, at) |-> Picked(s, at)[i].coin]
    PROVE  Unlike(v) /\ ToSet(v) \subseteq {x.coin : x \in ToSet(s)}
<1>1. PICK p : p = Picked(s, at) /\ p \in Seq(ToSet(s))
  BY PickedSeq
<1>2. v = [i \in DOMAIN p |-> p[i].coin]
  BY <1>1
<1>3. ASSUME NEW i \in DOMAIN p, NEW j \in DOMAIN p, p[i].coin = p[j].coin
      PROVE  i = j
  <2>1. PICK Y : Y = {x \in ToSet(s) : x.coin = p[i].coin}
    OBVIOUS
  <2>2. Lone(Y, s)
    BY <2>1 DEF Lone
  <2>3. Lone(Y, p)
    BY <1>1, <2>2, PickedLone
  <2>4. p[i] \in Y /\ p[j] \in Y
    BY <1>1, <1>3, <2>1
  <2> QED BY <2>3, <2>4 DEF Lone
<1>4. Unlike(v)
  BY <1>2, <1>3 DEF Unlike
<1>5. ToSet(v) \subseteq {x.coin : x \in ToSet(s)}
  BY <1>1, <1>2 DEF ToSet
<1> QED BY <1>4, <1>5

(* The CAT coins of a wallet are as many coins, and none of its others.    *)
PlainWallet(w) ==
    /\ \A i, j \in DOMAIN w.cats : w.cats[i].coin = w.cats[j].coin => i = j
    /\ \A i \in DOMAIN w.cats : w.cats[i].coin \notin w.xch
    /\ \A c \in w.xch : KeyKnown(PuzzleHashOf(c))

LEMMA CatsUnlike ==
    ASSUME NEW w, WalletOK(w), PlainWallet(w), NEW asset, NEW cats, cats = CatsOf(w, asset)
    PROVE  Coins(cats) /\ Unlike(cats) /\ ToSet(cats) \cap w.xch = {}
<1>1. PICK s : s = w.cats /\ IsSeq(s)
  BY DEF WalletOK
<1>2. PICK at : at = {i \in DOMAIN s : s[i].asset = asset}
  OBVIOUS
<1>3. cats = [i \in DOMAIN Picked(s, at) |-> Picked(s, at)[i].coin]
  BY <1>1, <1>2 DEF CatsOf, Where
<1>4. Unlike(cats) /\ ToSet(cats) \subseteq {x.coin : x \in ToSet(s)}
  <2>1. \A i, j \in DOMAIN s : s[i].coin = s[j].coin => i = j
    BY <1>1 DEF PlainWallet
  <2> QED BY <1>1, <1>3, <2>1, PickedCoins
<1>5. \A x \in ToSet(s) : x.coin \notin w.xch
  BY <1>1 DEF PlainWallet, ToSet
<1> QED BY <1>4, <1>5, CoinsOfCats

LEMMA HoldingsPlain ==
    ASSUME NEW chn, Units(chn), Antichain(chn), NEW change
    PROVE  PlainWallet(Holdings(chn, change))
<1>1. \A u, v \in chn : u.coin = v.coin => u = v
  <2> SUFFICES ASSUME NEW u \in chn, NEW v \in chn, u.coin = v.coin
               PROVE  u = v
    OBVIOUS
  <2>1. Under(u.coin, v.coin)
    <3>1. IsSeq(u.coin)
      BY DEF Units, UnitOK, IsCoin
    <3>2. Len(u.coin) \in Nat
      BY <3>1, SeqIs
    <3> QED BY <3>2 DEF Under
  <2> QED BY <2>1 DEF Antichain
<1>2. PICK mine : mine = {u \in chn : KeyKnown(PuzzleHashOf(u.coin))}
  OBVIOUS
<1>3. PICK xs : xs = {v \in mine : v.asset = XCH}
  OBVIOUS
<1>4. PICK cs : cs = {v \in mine : v.asset # XCH}
  OBVIOUS
<1>5. PICK w : w = Holdings(chn, change)
  OBVIOUS
<1>6. w.xch = {u.coin : u \in xs} /\ w.cats = SetToSeq(cs)
  BY <1>2, <1>3, <1>4, <1>5 DEF Holdings
<1>7. PICK n \in Nat : n = Cardinality(cs)
  <2>1. IsFiniteSet(cs)
    BY <1>2, <1>4, FS_Subset DEF Units
  <2> QED BY <2>1, FS_CardinalityType
<1>8. w.cats \in [1..n -> cs] /\ IsInjective(w.cats)
  <2>0. IsFiniteSet(cs)
    BY <1>2, <1>4, FS_Subset DEF Units
  <2>1. ExistsBijection(1..n, cs)
    BY <1>7, <2>0, FS_CardinalityType
  <2>2. \E f \in [1..n -> cs] : IsInjective(f)
    BY <2>1 DEF ExistsBijection, Bijection, Injection, IsInjective
  <2> QED BY <1>6, <1>7, <2>2 DEF SetToSeq
<1>9. PICK s : s = w.cats /\ s \in [1..n -> cs] /\ IsInjective(s)
  BY <1>8
<1>10. ASSUME NEW i \in 1..n, NEW j \in 1..n, s[i].coin = s[j].coin PROVE i = j
  <2>1. s[i] \in chn /\ s[j] \in chn
    BY <1>2, <1>4, <1>9
  <2>2. s[i] = s[j]
    BY <1>1, <1>10, <2>1
  <2> QED BY <1>9, <2>2 DEF IsInjective
<1>11. ASSUME NEW i \in 1..n, NEW u \in xs PROVE s[i].coin # u.coin
  BY <1>1, <1>2, <1>3, <1>4, <1>9
<1>12. \A c \in w.xch : KeyKnown(PuzzleHashOf(c))
  BY <1>2, <1>3, <1>6
<1> QED BY <1>5, <1>6, <1>9, <1>10, <1>11, <1>12 DEF PlainWallet

-----------------------------------------------------------------------------
(* What the builders hand out agrees with itself, given that the gate      *)
(* found nothing in it that its summary does not list.                     *)

Agrees(u) == u.fee \in Nat /\ Fair(u.spends, CoinsOf(u.spends), u.fee)
Told(u)   == SameBag(Left(u.spends), u.outputs)

LEMMA UnsignedHolds ==
    ASSUME NEW spends, NEW outputs, NEW fee, NEW u, u = UnsignedSpend(spends, outputs, fee)
    PROVE  u.spends = spends /\ u.outputs = outputs /\ u.fee = fee
BY DEF UnsignedSpend

LEMMA SelectionUnlike ==
    ASSUME NEW S, Purse(S), NEW target \in Nat, target > 0, NEW t \in SelectOrFail(S, target, CoinCap)
    PROVE  Coins(t) /\ Unlike(t) /\ ToSet(t) \subseteq S /\ t # <<>>
<1>1. Takes(t, S) /\ t # <<>>
  BY CapAssumption, SelectionTakes, SelectionLeads
<1> QED BY <1>1, TakenCoins DEF Takes, Unlike, ToSet

LEMMA SendXchAgrees ==
    ASSUME NEW w, WalletOK(w), NEW leg, leg.amount \in Nat, NEW fee \in Nat,
           NEW u \in BuildSendXch(w, leg, fee), Told(u)
    PROVE  Agrees(u)
<1>1. PICK target \in Nat : target = leg.amount + fee
  OBVIOUS
<1>2. PICK s \in SelectOrFail(w.xch, target, CoinCap) :
          /\ Payable(target)
          /\ u = UnsignedSpend(Linked(s, PayLegs(<<leg>>)
                                         \o Change(w.change, U64(U64Sum(s) - target)) \o Fee(fee)),
                               LegOutputs(<<leg>>, XCH), fee)
  BY <1>1 DEF BuildSendXch
<1>3. Coins(s) /\ Unlike(s) /\ s # <<>>
  BY <1>2, SelectionUnlike DEF Payable, WalletOK
<1>4. PICK n \in Int : n = U64(U64Sum(s) - target)
  BY <1>3, SumNat, Max64Assumption DEF U64
<1>5. PICK p : p = PayLegs(<<leg>>) \o Change(w.change, n) /\ Paying(p)
  BY OneLeg, PayLegsPaying, ChangePaying, PayingConcat
<1>6. PICK ss : ss = Linked(s, p \o Fee(fee)) /\ u.spends = ss /\ u.fee = fee
                  /\ u.outputs = LegOutputs(<<leg>>, XCH)
  BY <1>2, <1>4, <1>5, UnsignedHolds
<1>7. Priced(p \o Fee(fee)) /\ Priced(Fee(fee))
  BY <1>5, FeePriced, PricedConcat DEF Paying
<1>8. Proposed(ss)
  BY <1>3, <1>6, <1>7, LinkedProposed
<1>9. 1 \in DOMAIN ss /\ ss[1] = StandardSpend(s[1], p \o Fee(fee))
  BY <1>3, <1>6, SeqIs DEF Coins, Linked
<1>10. ss[1].kind # "option" /\ ss[1].asset = XCH /\ SignsFor(ss[1], p \o Fee(fee))
  <2>1. PICK t : t = ss[1] /\ t = StandardSpend(s[1], p \o Fee(fee))
    BY <1>9
  <2>2. t.kind = "standard" /\ t.asset = XCH
    BY <2>1 DEF StandardSpend, CoinSpend
  <2>3. SignsFor(t, p \o Fee(fee))
    BY <2>1, StandardSigns
  <2> QED BY <2>1, <2>2, <2>3
<1>11. OneEach(p)
  BY <1>5, <1>6, <1>7, <1>8, <1>9, <1>10, OnePayment DEF Told
<1>12. Fair(ss, CoinsOf(ss), fee)
  BY <1>3, <1>5, <1>6, <1>11, LinkedAgrees
<1> QED BY <1>6, <1>12 DEF Agrees

LEMMA NothingBehind == ASSUME NEW s, IsSeq(s) PROVE s \o <<>> = s
<1>1. s \in Seq(ToSet(s)) /\ <<>> \in Seq(ToSet(s))
  BY DEF IsSeq
<1> QED BY <1>1, ConcatProperties

(* The lead of a ring that pays one leg signs for it.                      *)
LEMMA RingLead ==
    ASSUME NEW asset, NEW coins, Coins(coins), coins # <<>>, NEW p, NEW f, IsSeq(f),
           NEW ss, ss = CatRing(asset, coins, p) \o f, IsSeq(CatRing(asset, coins, p))
    PROVE  /\ 1 \in DOMAIN ss /\ ss[1].kind # "option" /\ ss[1].asset = asset
           /\ SignsFor(ss[1], p)
<1>1. PICK r : r = CatRing(asset, coins, p)
  OBVIOUS
<1>2. 1 \in DOMAIN coins
  BY SeqIs DEF Coins
<1>3. 1 \in DOMAIN r /\ r[1] = CatSpend(asset, coins[1], p)
  BY <1>1, <1>2 DEF CatRing
<1>4. Behind(ss, r, f)
  BY <1>1, ConcatIs
<1>5. PICK K, L \in Nat : K = Len(r) /\ L = Len(f) /\ DOMAIN r = 1..K
  BY <1>1, SeqIs
<1>6. 1 \in DOMAIN ss /\ ss[1] = r[1]
  BY <1>3, <1>4, <1>5 DEF Behind
<1>7. r[1].kind = "cat" /\ r[1].asset = asset
  BY <1>3 DEF CatSpend, CoinSpend
<1>8. SignsFor(r[1], p)
  BY <1>3, CatSigns
<1> QED BY <1>6, <1>7, <1>8

(* One leg paid from CAT coins, and the fee from others.                   *)
LEMMA OneLegAgrees ==
    ASSUME NEW w, WalletOK(w), NEW asset \in Assets, NEW leg, leg.amount \in Nat, NEW coins,
           Coins(coins), Unlike(coins), coins # <<>>, ToSet(coins) \cap w.xch = {},
           NEW fee \in Nat, NEW f \in FeeSpends(w, fee, coins[1]),
           NEW ss, ss = CatRing(asset, coins, PaidFrom(w, coins, <<leg>>)) \o f,
           SameBag(Left(ss), LegOutputs(<<leg>>, asset))
    PROVE  Fair(ss, CoinsOf(ss), fee)
<1>1. PICK n \in Int : n = U64Sum(coins) - Payout(<<leg>>)
  BY OneLeg, SumNat, PayoutNat
<1>2. PICK p : p = PayLegs(<<leg>>) \o Change(w.change, n) /\ Paying(p)
                  /\ p = PaidFrom(w, coins, <<leg>>)
  BY <1>1, OneLeg, PayLegsPaying, ChangePaying, PayingConcat DEF PaidFrom
<1>3. Proposed(CatRing(asset, coins, p)) /\ Proposed(f)
  BY <1>2, CatRingProposed, FeeSpendsProposed DEF Paying
<1>4. Proposed(ss)
  BY <1>2, <1>3, ProposedConcat
<1>5. 1 \in DOMAIN ss /\ ss[1].kind # "option" /\ ss[1].asset = asset /\ SignsFor(ss[1], p)
  <2>1. IsSeq(CatRing(asset, coins, p)) /\ IsSeq(f)
    BY <1>3 DEF Proposed
  <2>2. ss = CatRing(asset, coins, p) \o f
    BY <1>2
  <2> QED BY <2>1, <2>2, RingLead
<1>6. p \o <<>> = p /\ Priced(<<>>)
  BY <1>2, NothingBehind, NothingPriced DEF Paying, Priced
<1>7. OneEach(p)
  <2>1. SignsFor(ss[1], (PayLegs(<<leg>>) \o Change(w.change, n)) \o <<>>)
    BY <1>2, <1>5, <1>6
  <2>2. SameBag(Left(ss), LegOutputs(<<leg>>, ss[1].asset))
    BY <1>5
  <2>3. OneEach(PayLegs(<<leg>>) \o Change(w.change, n))
    BY <1>4, <1>5, <1>6, <2>1, <2>2, OnePayment
  <2> QED BY <1>2, <2>3
<1> QED BY <1>2, <1>7, RingAgrees

LEMMA SendCatAgrees ==
    ASSUME NEW w, WalletOK(w), PlainWallet(w), NEW asset \in Assets, NEW leg, leg.amount \in Nat,
           NEW fee \in Nat, NEW u \in BuildSendCat(w, asset, leg, fee), Told(u)
    PROVE  Agrees(u)
<1>1. PICK cats : cats = CatsOf(w, asset) /\ cats # <<>>
  BY DEF BuildSendCat
<1>2. Coins(cats) /\ Unlike(cats) /\ ToSet(cats) \cap w.xch = {}
  BY <1>1, CatsUnlike
<1>3. PICK f \in FeeSpends(w, fee, cats[1]) :
          u = UnsignedSpend(CatInnerSpends(w, asset, cats, leg) \o f, LegOutputs(<<leg>>, asset), fee)
  BY <1>1 DEF BuildSendCat
<1>4. PICK ss : ss = CatRing(asset, cats, PaidFrom(w, cats, <<leg>>)) \o f
  OBVIOUS
<1>5. u.spends = ss /\ u.outputs = LegOutputs(<<leg>>, asset) /\ u.fee = fee
  <2>1. CatInnerSpends(w, asset, cats, leg) \o f = ss
    BY <1>4 DEF CatInnerSpends
  <2>2. u = UnsignedSpend(ss, LegOutputs(<<leg>>, asset), fee)
    BY <1>3, <2>1
  <2> QED BY <2>2, UnsignedHolds
<1>6. Fair(ss, CoinsOf(ss), fee)
  BY <1>1, <1>2, <1>4, <1>5, OneLegAgrees DEF Told
<1> QED BY <1>5, <1>6 DEF Agrees

(* Legs that resolve pay something.                                        *)
LEMMA LegsPositive ==
    ASSUME NEW legs, LegsOK(legs), LegsResolve(legs), NEW fee \in Nat
    PROVE  Payout(legs) + fee > 0
<1>1. PICK n \in Nat : n = Len(legs) /\ DOMAIN legs = 1..n /\ n >= 1
  BY SeqIs DEF LegsOK, LegsResolve
<1>2. PICK ns : ns = [i \in DOMAIN legs |-> legs[i].amount]
  OBVIOUS
<1>3. ns \in Seq(Nat) /\ Len(ns) = n /\ ns[n] > 0
  BY <1>1, <1>2 DEF LegsOK, LegsResolve
<1>4. Payout(legs) = Total(ns)
  BY <1>2 DEF Payout, SumOver
<1>5. PICK g : Totals(g, ns)
  BY <1>3, TotalsAre
<1>6. g[n] = g[n - 1] + ns[n] /\ g[n] = Total(ns) /\ g[n - 1] \in Nat /\ ns[n] \in Nat
  BY <1>1, <1>3, <1>5 DEF Totals
<1> QED BY <1>3, <1>4, <1>6

(* The coins of one key are some of the coins.                             *)
LEMMA GroupPurse ==
    ASSUME NEW cats, Coins(cats), NEW g \in LargestSingleKeyGroup(cats)
    PROVE  Purse(g) /\ g \subseteq ToSet(cats)
<1>1. PICK at : g = ToSet(Picked(cats, at))
  <2>1. PICK known : known = {i \in DOMAIN cats : KeyKnown(PuzzleHashOf(cats[i]))}
    OBVIOUS
  <2>2. PICK best : best = {i \in known : \A j \in known : TotalAt(cats, PuzzleHashOf(cats[i]))
                                                         >= TotalAt(cats, PuzzleHashOf(cats[j]))}
    OBVIOUS
  <2>3. PICK ph : ph = PuzzleHashOf(cats[Min(best)])
    OBVIOUS
  <2>4. g \in {ToSet(Where(cats, LAMBDA c : PuzzleHashOf(c) = ph))}
    BY <2>1, <2>2, <2>3 DEF LargestSingleKeyGroup
  <2> QED BY <2>4 DEF Where
<1>2. Picked(cats, at) \in Seq(ToSet(cats))
  BY PickedSeq DEF Coins
<1>3. g \subseteq ToSet(cats)
  BY <1>1, <1>2 DEF ToSet
<1>4. Purse(ToSet(cats))
  BY PurseOf
<1>5. Purse(g)
  BY <1>3, <1>4, FS_Subset DEF Purse
<1> QED BY <1>3, <1>5

LEMMA MultiSendXchAgrees ==
    ASSUME NEW w, WalletOK(w), NEW legs, LegsOK(legs), NEW fee \in Nat,
           NEW u \in BuildMultiSendXch(w, legs, fee)
    PROVE  Agrees(u)
<1>1. PICK target \in Nat : target = Payout(legs) + fee
  BY PayoutNat
<1> DEFINE created(t) == PayLegs(legs) \o Change(w.change, U64(U64Sum(t) - target))
<1>2. PICK s \in SelectOrFail(w.xch, target, CoinCap) :
          /\ LegsResolve(legs) /\ Distinct(created(s))
          /\ u = UnsignedSpend(Linked(s, created(s) \o Fee(fee)), LegOutputs(legs, XCH), fee)
  BY <1>1 DEF BuildMultiSendXch
<1>3. Coins(s)
  BY <1>2, SelectionTakes, TakenCoins DEF WalletOK
<1>4. PICK n \in Int : n = U64(U64Sum(s) - target)
  BY <1>3, SumNat, Max64Assumption DEF U64
<1>5. PICK p : p = PayLegs(legs) \o Change(w.change, n) /\ Paying(p)
  BY PayLegsPaying, ChangePaying, PayingConcat
<1>6. Distinct(p) /\ u = UnsignedSpend(Linked(s, p \o Fee(fee)), LegOutputs(legs, XCH), fee)
  BY <1>2, <1>4, <1>5
<1>7. OneEach(p)
  BY <1>5, <1>6, PayingIs
<1>8. target > 0
  BY <1>1, <1>2, LegsPositive
<1>9. Coins(s) /\ Unlike(s) /\ s # <<>>
  BY <1>2, <1>8, SelectionUnlike DEF WalletOK
<1>10. PICK ss : ss = Linked(s, p \o Fee(fee)) /\ u.spends = ss /\ u.fee = fee
  BY <1>6, UnsignedHolds
<1>11. Fair(ss, CoinsOf(ss), fee)
  BY <1>5, <1>7, <1>9, <1>10, LinkedAgrees
<1> QED BY <1>10, <1>11 DEF Agrees

LEMMA MultiSendCatAgrees ==
    ASSUME NEW w, WalletOK(w), PlainWallet(w), NEW asset \in Assets, NEW legs, LegsOK(legs),
           NEW fee \in Nat, NEW u \in BuildMultiSendCat(w, asset, legs, fee)
    PROVE  Agrees(u)
<1>1. PICK cats : cats = CatsOf(w, asset) /\ cats # <<>>
  BY DEF BuildMultiSendCat
<1>2. Coins(cats) /\ Unlike(cats) /\ ToSet(cats) \cap w.xch = {}
  BY <1>1, CatsUnlike
<1>3. PICK f \in FeeSpends(w, fee, cats[1]) :
          /\ Distinct(PaidFrom(w, cats, legs))
          /\ u = UnsignedSpend(CatRingPaying(w, asset, cats, legs) \o f, LegOutputs(legs, asset), fee)
  BY <1>1 DEF BuildMultiSendCat
<1>4. PICK ss : ss = CatRing(asset, cats, PaidFrom(w, cats, legs)) \o f
  OBVIOUS
<1>5. u.spends = ss /\ u.fee = fee
  <2>1. CatRingPaying(w, asset, cats, legs) \o f = ss
    BY <1>4 DEF CatRingPaying
  <2>2. u = UnsignedSpend(ss, LegOutputs(legs, asset), fee)
    BY <1>3, <2>1
  <2> QED BY <2>2, UnsignedHolds
<1>6. PICK n \in Int : n = U64Sum(cats) - Payout(legs)
  BY <1>2, SumNat, PayoutNat
<1>7. PICK p : p = PaidFrom(w, cats, legs) /\ Paying(p)
  BY <1>6, PayLegsPaying, ChangePaying, PayingConcat DEF PaidFrom
<1>8. OneEach(p)
  BY <1>3, <1>7, PayingIs
<1>9. Fair(ss, CoinsOf(ss), fee)
  BY <1>1, <1>2, <1>3, <1>4, <1>7, <1>8, RingAgrees
<1> QED BY <1>5, <1>9 DEF Agrees

LEMMA CombineAgrees ==
    ASSUME NEW w, WalletOK(w), NEW fee \in Nat, NEW u \in BuildCombineXch(w, fee)
    PROVE  Agrees(u)
<1>1. PICK s \in SelectForConsolidation(w.xch, CoinCap) :
          u = UnsignedSpend(Linked(s, Change(w.change, U64Sum(s) - fee) \o Fee(fee)), <<>>, fee)
  BY DEF BuildCombineXch, SelfDirected
<1>2. PICK k \in Nat : k = (IF CoinCap < 2 THEN 2 ELSE CoinCap) /\ k >= 2
  BY CapAssumption
<1>3. s = Largest(w.xch, k) /\ ~(Cardinality(w.xch) < 2)
  BY <1>1, <1>2 DEF SelectForConsolidation
<1>4. Purse(w.xch) /\ Cardinality(w.xch) \in Nat
  BY FS_CardinalityType DEF WalletOK, Purse
<1>5. Takes(s, w.xch) /\ s # <<>>
  <2>1. PICK m \in 0..Cardinality(w.xch) :
            /\ m = Smaller(k, Cardinality(w.xch))
            /\ IsFirst(s, HighValueFirst(w.xch), m) /\ Takes(s, w.xch)
    BY <1>3, <1>4, LargestIs
  <2>2. m >= 2
    BY <1>2, <1>3, <1>4, <2>1 DEF Smaller
  <2>3. Len(s) = m
    BY <2>1 DEF IsFirst
  <2> QED BY <2>1, <2>2, <2>3
<1>6. Coins(s) /\ Unlike(s)
  BY <1>4, <1>5, TakenCoins DEF Takes, Unlike
<1>7. PICK n \in Int : n = U64Sum(s) - fee
  BY <1>6, SumNat
<1>8. PICK p : p = Change(w.change, n) /\ Paying(p) /\ OneEach(p)
  BY ChangePaying
<1>9. PICK ss : ss = Linked(s, p \o Fee(fee)) /\ u.spends = ss /\ u.fee = fee
  BY <1>1, <1>7, <1>8, UnsignedHolds
<1>10. Fair(ss, CoinsOf(ss), fee)
  BY <1>5, <1>6, <1>8, <1>9, LinkedAgrees
<1> QED BY <1>9, <1>10 DEF Agrees

LEMMA CancelAgrees ==
    ASSUME NEW w, NEW o, OfferOK(o), NEW fee \in Nat, NEW u \in BuildCancel(w, o, fee)
    PROVE  Agrees(u)
<1>1. PICK coins : coins = Reclaimable(o) /\ coins # <<>>
  BY DEF BuildCancel
<1>2. u = UnsignedSpend(Linked(coins, Change(w.change, U64Sum(coins) - fee) \o Fee(fee)), <<>>, fee)
  BY <1>1 DEF BuildCancel
<1>3. Coins(coins) /\ Unlike(coins)
  <2>1. PICK s : s = o.spends /\ IsSeq(s) /\ \A i, j \in DOMAIN s : s[i].coin = s[j].coin => i = j
    BY DEF OfferOK
  <2>2. PICK at : at = {i \in DOMAIN s : s[i].kind = "standard" /\ KeyKnown(PuzzleHashOf(s[i].coin))}
    OBVIOUS
  <2>3. PICK mine : mine = Picked(s, at) /\ IsSeq(mine) /\ mine \in Seq(ToSet(s))
    BY <2>1, PickedSeq
  <2>4. coins = [i \in DOMAIN mine |-> mine[i].coin]
    BY <1>1, <2>1, <2>2, <2>3 DEF Reclaimable, Where
  <2>5. Unlike(coins)
    BY <2>1, <2>3, <2>4, PickedCoins
  <2>6. Len(mine) \in Nat /\ DOMAIN mine = 1..Len(mine)
    BY <2>3, SeqIs
  <2>7. coins = [i \in 1..Len(mine) |-> coins[i]]
    BY <2>4, <2>6
  <2>8. IsSeq(coins) /\ DOMAIN coins = DOMAIN mine
    BY <2>6, <2>7, MadeSeq
  <2>9. \A x \in ToSet(s) : IsCoin(x.coin)
    BY <2>1 DEF OfferOK, ToSet
  <2>10. \A i \in DOMAIN mine : IsCoin(coins[i])
    BY <2>3, <2>4, <2>9
  <2> QED BY <2>5, <2>8, <2>10 DEF Coins
<1>4. PICK n \in Int : n = U64Sum(coins) - fee
  BY <1>3, SumNat
<1>5. PICK p : p = Change(w.change, n) /\ Paying(p) /\ OneEach(p)
  BY ChangePaying
<1>6. PICK ss : ss = Linked(coins, p \o Fee(fee)) /\ u.spends = ss /\ u.fee = fee
  BY <1>2, <1>4, <1>5, UnsignedHolds
<1>7. Fair(ss, CoinsOf(ss), fee)
  BY <1>1, <1>3, <1>5, <1>6, LinkedAgrees
<1> QED BY <1>6, <1>7 DEF Agrees

LEMMA TipAgrees ==
    ASSUME NEW w, WalletOK(w), PlainWallet(w), NEW asset \in Assets, NEW leg, leg.amount \in Nat,
           NEW u \in BuildTip(w, asset, leg), Told(u)
    PROVE  Agrees(u)
<1>1. PICK cats : cats = CatsOf(w, asset) /\ Coins(cats) /\ ToSet(cats) \cap w.xch = {}
  BY CatsUnlike
<1>2. PICK g \in LargestSingleKeyGroup(cats) : leg.amount > 0 /\ \E s \in SelectOrFail(g, leg.amount, CoinCap) :
         u = FinishTip(asset, CatRing(asset, s, PaidFrom(w, s, <<leg>>)), leg)
  BY <1>1 DEF BuildTip, TipInputs
<1>3. PICK s \in SelectOrFail(g, leg.amount, CoinCap) :
         u = FinishTip(asset, CatRing(asset, s, PaidFrom(w, s, <<leg>>)), leg)
  BY <1>2
<1>4. Purse(g) /\ g \subseteq ToSet(cats)
  BY <1>1, <1>2, GroupPurse
<1>5. Coins(s) /\ Unlike(s) /\ ToSet(s) \subseteq g /\ s # <<>>
  BY <1>2, <1>4, SelectionUnlike
<1>6. PICK ss : ss = CatRing(asset, s, PaidFrom(w, s, <<leg>>))
  OBVIOUS
<1>7. u.spends = ss /\ u.outputs = LegOutputs(<<leg>>, asset) /\ u.fee = 0
  <2>1. u = UnsignedSpend(ss, LegOutputs(<<leg>>, asset), 0)
    BY <1>3, <1>6 DEF FinishTip
  <2> QED BY <2>1, UnsignedHolds
<1>8. PICK f : f = <<>> /\ f \in FeeSpends(w, 0, s[1])
  BY DEF FeeSpends
<1>9. ss = ss \o f
  <2>1. Priced(PaidFrom(w, s, <<leg>>))
    BY <1>5, OneLeg, PaidFromPriced
  <2>2. Proposed(ss)
    BY <1>5, <1>6, <2>1, CatRingProposed
  <2> QED BY <1>8, <2>2, NothingBehind DEF Proposed
<1>10. ToSet(s) \cap w.xch = {}
  BY <1>1, <1>4, <1>5
<1>11. Fair(ss, CoinsOf(ss), 0)
  <2>1. SameBag(Left(ss), LegOutputs(<<leg>>, asset))
    BY <1>7 DEF Told
  <2>2. ss = CatRing(asset, s, PaidFrom(w, s, <<leg>>)) \o f
    BY <1>6, <1>9
  <2> QED BY <1>5, <1>8, <1>10, <2>1, <2>2, OneLegAgrees
<1> QED BY <1>7, <1>11 DEF Agrees

LEMMA SplitAgrees ==
    ASSUME NEW w, WalletOK(w), NEW parts \in Nat, NEW fee \in Nat,
           NEW u \in BuildSplitXch(w, parts, fee)
    PROVE  Agrees(u)
<1>1. PICK coins : coins = LargestSpendable(w.xch)
  OBVIOUS
<1>2. Coins(coins)
  BY <1>1, LargestIs, TakenCoins DEF LargestSpendable, WalletOK
<1>3. parts >= 2 /\ coins # <<>> /\ ~(AmountOf(coins[1]) < fee)
  BY <1>1 DEF BuildSplitXch
<1>4. PICK c : c = coins[1] /\ IsCoin(c)
  <2>1. 1 \in DOMAIN coins
    BY <1>2, <1>3, SeqIs DEF Coins
  <2> QED BY <1>2, <2>1 DEF Coins
<1> DEFINE pays(a) == [i \in DOMAIN a |-> CreateCoin(w.change, a[i])]
<1>5. \E a \in StaggeredAmounts(AmountOf(c) - fee, parts) :
         /\ Distinct(pays(a))
         /\ u = UnsignedSpend(<<StandardSpend(c, pays(a) \o Fee(fee))>>, <<>>, fee)
  BY <1>1, <1>3, <1>4 DEF BuildSplitXch, SelfDirected
<1>6. PICK a \in StaggeredAmounts(AmountOf(c) - fee, parts) :
         /\ Distinct(pays(a))
         /\ u = UnsignedSpend(<<StandardSpend(c, pays(a) \o Fee(fee))>>, <<>>, fee)
  <2> HIDE DEF pays
  <2> QED BY <1>5
<1>7. PICK n \in Nat : n = AmountOf(c) - fee
  BY <1>3, <1>4 DEF IsCoin
<1>8. a \in Seq(Nat) /\ Len(a) = parts /\ DOMAIN a = 1..parts
  BY <1>3, <1>6, <1>7, SharesNat
<1>9. PICK p : p = pays(a)
  OBVIOUS
<1>10. Paying(p)
  <2>1. p = [i \in 1..parts |-> p[i]]
    BY <1>8, <1>9
  <2>2. IsSeq(p) /\ DOMAIN p = 1..parts
    BY <2>1, MadeSeq
  <2>3. ASSUME NEW i \in DOMAIN p
        PROVE  PricedOne(p[i]) /\ p[i] = CreateCoin(p[i].ph, p[i].amount)
    <3>1. PICK m \in Nat : m = a[i]
      BY <1>8, <2>2
    <3>2. PICK d : d = CreateCoin(w.change, m)
      OBVIOUS
    <3>3. d.amount = m /\ d.ph = w.change /\ PricedOne(d)
      BY <3>2 DEF CreateCoin, PricedOne
    <3>4. p[i] = d
      BY <1>9, <2>2, <1>8, <3>1, <3>2
    <3> QED BY <3>2, <3>3, <3>4
  <2>4. Priced(p)
    BY <2>2, <2>3, PricedIs
  <2> QED BY <2>3, <2>4 DEF Paying, ToSet
<1>11. OneEach(p)
  BY <1>6, <1>9, <1>10, PayingIs
<1>12. PICK one : one = <<c>> /\ DOMAIN one = 1..1 /\ one[1] = c /\ Coins(one) /\ Unlike(one) /\ one # <<>>
  <2>1. PICK one : one = <<c>>
    OBVIOUS
  <2>2. DOMAIN one = 1..1 /\ one[1] = c /\ one \in Seq({c}) /\ one # <<>>
    BY <2>1
  <2>3. IsSeq(one)
    BY <2>2, SeqIsSeq
  <2>4. Coins(one) /\ Unlike(one)
    BY <1>4, <2>2, <2>3 DEF Coins, Unlike
  <2> QED BY <2>1, <2>2, <2>4
<1>13. PICK ss : ss = Linked(one, p \o Fee(fee))
  OBVIOUS
<1>14. ss = <<StandardSpend(c, p \o Fee(fee))>>
  <2>1. PICK t : t = StandardSpend(c, p \o Fee(fee))
    OBVIOUS
  <2>2. ss = [i \in DOMAIN one |-> StandardSpend(one[i], IF i = 1 THEN p \o Fee(fee) ELSE <<ConcurrentSpend(one[1])>>)]
    BY <1>13 DEF Linked
  <2>3. 1 \in DOMAIN one
    BY <1>12
  <2>4. ss[1] = StandardSpend(one[1], p \o Fee(fee))
    BY <2>2, <2>3
  <2>5. ss = [i \in 1..1 |-> ss[i]]
    BY <1>12, <2>2
  <2>6. ss[1] = t
    BY <1>12, <2>1, <2>4
  <2> QED BY <2>1, <2>5, <2>6
<1>15. u.spends = ss /\ u.fee = fee
  <2>1. u = UnsignedSpend(ss, <<>>, fee)
    BY <1>6, <1>9, <1>14
  <2> QED BY <2>1, UnsignedHolds
<1>16. Fair(ss, CoinsOf(ss), fee)
  BY <1>10, <1>11, <1>12, <1>13, LinkedAgrees
<1> QED BY <1>15, <1>16 DEF Agrees

(* What an option's transfer asks of the network: to create one coin.      *)
LEMMA TransferRun ==
    ASSUME NEW c, NEW l, NEW key, NEW ph, NEW n \in Nat, NEW X,
           NEW s, s = SingletonSpend("option", c, l, key, <<CreateCoin(ph, n)>>)
    PROVE  Tame(Run(s), X) /\ OneEach(Run(s)) /\ Reserved(Run(s)) = 0
<1>1. PICK d : d = CreateCoin(ph, n)
  OBVIOUS
<1>2. d.op = "create_coin" /\ d.amount = n
  BY <1>1 DEF CreateCoin
<1>3. s.kind = "option" /\ s.inner = "standard" /\ s.conds = <<d>>
  BY <1>1 DEF SingletonSpend, CoinSpend
<1>b. PICK sig : sig = AggSigMe(s.key, Message(s))
  OBVIOUS
<1>4. InnerRun(s) = <<sig>> \o s.conds /\ sig.op = "agg_sig_me"
  <2>1. InnerRun(s) = <<sig>> \o s.conds
    BY <1>3, <1>b DEF InnerRun, AsksSignature
  <2>2. sig.op = "agg_sig_me"
    BY <1>b DEF AggSigMe
  <2> QED BY <2>1, <2>2
<1>5. PICK v : v = InnerRun(s)
  OBVIOUS
<1>a. v = <<sig, d>>
  BY <1>3, <1>4, <1>5, TwoJoined
<1>6. DOMAIN v = 1..2 /\ Len(v) = 2 /\ v[1] = sig /\ v[2] = d
  BY <1>a
<1>7. Kept(s) = v
  <2>1. PICK at : at = {i \in DOMAIN v : v[i].op \notin {"melt_singleton", "update_metadata"}}
    OBVIOUS
  <2>2. 1..Len(v) \subseteq at
    BY <1>2, <1>4, <1>6, <2>1
  <2>3. v \in Seq({sig, d})
    BY <1>a
  <2>4. Picked(v, at) = v
    BY <2>2, <2>3, PickedAll
  <2> QED BY <1>5, <2>1, <2>4 DEF Kept, Where
<1>8. PICK r : r = Run(s) /\ r = [i \in DOMAIN v |-> Rewritten(v[i])]
  BY <1>3, <1>7, RunIs DEF Wraps
<1>9. Rewritten(sig) = sig
  BY <1>4 DEF Rewritten
<1>c. PICK e : e = Rewritten(d)
  OBVIOUS
<1>10. e = Rewritten(d) /\ e.op = "create_coin"
  <2>1. PICK z : z = CreateCoin(SingletonOf(d.ph), d.amount)
    OBVIOUS
  <2>2. z.op = "create_coin"
    BY <2>1 DEF CreateCoin
  <2>3. e = z \/ e = d
    BY <1>2, <1>c, <2>1 DEF Rewritten
  <2> QED BY <1>2, <1>c, <2>2, <2>3
<1>11. DOMAIN r = 1..2 /\ r[1] = sig /\ r[2] = e
  BY <1>6, <1>8, <1>9, <1>10
<1>12. ToSet(r) = {sig, e}
  BY <1>11 DEF ToSet
<1>13. Tame(r, X)
  BY <1>4, <1>10, <1>12 DEF Tame
<1>14. OneEach(r)
  BY <1>4, <1>11 DEF OneEach, Twins
<1>15. IsSeq(r)
  <2>1. r = [i \in 1..2 |-> r[i]]
    BY <1>6, <1>8
  <2> QED BY <2>1, MadeSeq
<1>16. Reserved(r) = 0
  BY <1>4, <1>10, <1>12, <1>15, ReservedNone
<1> QED BY <1>8, <1>13, <1>14, <1>16

LEMMA TransferOptionAgrees ==
    ASSUME NEW w, WalletOK(w), PlainWallet(w), NEW h, NEW on, IsCoin(on.coin),
           PuzzleHashOf(on.coin) = SingletonOf(on.owner), NEW to, NEW fee \in Nat,
           NEW u \in BuildTransferOption(w, h, on, to, fee)
    PROVE  Agrees(u)
<1>1. PICK s : s = SingletonSpend("option", on.coin, on.launcher, on.owner[2],
                                  <<CreateCoin(to, AmountOf(on.coin))>>)
  OBVIOUS
<1>2. PICK f \in FeeSpends(w, fee, on.coin) :
          u = UnsignedSpend(<<s>> \o f, <<SpendOutput(to, AmountOf(on.coin), XCH)>>, fee)
  BY <1>1 DEF BuildTransferOption
<1>a. PICK ss : ss = <<s>> \o f
  OBVIOUS
<1>3. ss = <<s>> \o f /\ u.spends = ss /\ u.fee = fee
  <2>1. PICK out : out = <<SpendOutput(to, AmountOf(on.coin), XCH)>>
    OBVIOUS
  <2>2. u = UnsignedSpend(ss, out, fee)
    BY <1>2, <1>a, <2>1
  <2>3. u.spends = ss /\ u.fee = fee
    BY <2>2, UnsignedHolds
  <2> QED BY <1>a, <2>3
<1>4. s.coin = on.coin
  BY <1>1 DEF SingletonSpend, CoinSpend
<1>5. Proper(s)
  <2>1. Priced(<<CreateCoin(to, AmountOf(on.coin))>>)
    BY CreatePriced DEF IsCoin
  <2> QED BY <1>1, <2>1, SingletonProper
<1>6. PICK r : r = <<s>> /\ Proposed(r)
  BY <1>5, OneProposed
<1>7. DOMAIN r = 1..1 /\ r[1] = s /\ Len(r) = 1
  BY <1>6
<1>8. PICK X : X = CoinsOf(ss)
  OBVIOUS
<1>9. Proposed(f)
  BY <1>2, FeeSpendsProposed
<1>10. CoinsOf(r) = {on.coin} /\ X = CoinsOf(r) \cup CoinsOf(f)
  <2>1. CoinsOf(r) = {on.coin}
    BY <1>4, <1>7 DEF CoinsOf
  <2> QED BY <1>3, <1>6, <1>8, <1>9, <2>1, CoinsConcat DEF Proposed
<1>11. Tame(Run(s), X) /\ OneEach(Run(s)) /\ Reserved(Run(s)) = 0
  BY <1>1, TransferRun DEF IsCoin
<1>12. Fair(r, X, 0)
  <2>1. Separate(r)
    BY <1>7 DEF Separate
  <2>2. FeeOfEach(r) \in Seq({0})
    <3>1. PICK z : z = FeeOfEach(r)
      OBVIOUS
    <3>2. DOMAIN z = 1..1 /\ z[1] = 0
      BY <1>7, <1>11, <3>1 DEF FeeOfEach
    <3>3. z = [i \in 1..1 |-> z[i]]
      BY <1>7, <3>1 DEF FeeOfEach
    <3>4. z = <<0>>
      BY <3>2, <3>3
    <3>5. z \in Seq({0})
      BY <3>4
    <3> QED BY <3>1, <3>5
  <2>3. Fees(r) = 0
    BY <1>6, <2>2, FeesAre, TotalZero
  <2> QED BY <1>6, <1>7, <1>11, <2>1, <2>3 DEF Fair
<1>13. Fair(f, X, fee) /\ CoinsOf(f) \subseteq w.xch
  BY <1>2, <1>10, FeeSpendsFair
<1>14. on.coin \notin w.xch
  <2>1. ASSUME on.coin \in w.xch PROVE FALSE
    <3>1. KeyKnown(PuzzleHashOf(on.coin))
      BY <2>1 DEF PlainWallet
    <3>2. PICK k : PuzzleHashOf(on.coin) = P2(k)
      BY <3>1 DEF KeyKnown
    <3>3. P2(k)[1] = "p2" /\ SingletonOf(on.owner)[1] = "singleton"
      BY DEF P2, SingletonOf
    <3> QED BY <3>2, <3>3
  <2> QED BY <2>1
<1>15. CoinsOf(r) \cap CoinsOf(f) = {}
  BY <1>10, <1>13, <1>14
<1>16. Fair(r \o f, X, 0 + fee)
  BY <1>12, <1>13, <1>15, FairConcat
<1> QED BY <1>3, <1>6, <1>8, <1>16 DEF Agrees

-----------------------------------------------------------------------------
(***************************************************************************)
(* What is signed is valid.  The half of an exchange waits for the other   *)
(* one, and no option is minted or exercised: account_coin has no handler  *)
(* for a spend of theirs.                                                  *)
(***************************************************************************)

LEMMA BuiltAgrees ==
    ASSUME NEW w, WalletOK(w), PlainWallet(w), NEW r, RequestOK(r), NEW u \in Built(r, w), Told(u),
           r.kind \notin Halves \cup {"mint_option", "exercise_option"}
    PROVE  Agrees(u)
<1>1. r.kind \notin {"tip", "auto_tip"} => r.fee \in Nat
  BY DEF RequestOK
<1>2. CASE r.kind = "send_xch"
  BY <1>1, <1>2, SendXchAgrees DEF Built, RequestOK, SendOK
<1>3. CASE r.kind = "send_cat"
  BY <1>1, <1>3, SendCatAgrees DEF Built, RequestOK, SendOK
<1>4. CASE r.kind = "multi_send_xch"
  BY <1>1, <1>4, MultiSendXchAgrees DEF Built, RequestOK, SendOK
<1>5. CASE r.kind = "multi_send_cat"
  BY <1>1, <1>5, MultiSendCatAgrees DEF Built, RequestOK, SendOK
<1>6. CASE r.kind = "combine"
  BY <1>1, <1>6, CombineAgrees DEF Built
<1>7. CASE r.kind = "split"
  BY <1>1, <1>7, SplitAgrees DEF Built, RequestOK, SendOK
<1>8. CASE r.kind = "tip"
  BY <1>8, TipAgrees DEF Built, RequestOK, TipOK
<1>9. CASE r.kind = "auto_tip"
  <2>1. u \in BuildAutoTip(w, r.policy, r.sent, r.today)
    BY <1>9 DEF Built
  <2>2. u \in BuildTip(w, r.policy.asset, r.policy.leg)
    BY <2>1 DEF BuildAutoTip
  <2> QED BY <1>9, <2>2, TipAgrees DEF RequestOK, TipOK
<1>10. CASE r.kind = "cancel"
  BY <1>1, <1>10, CancelAgrees DEF Built, RequestOK
<1>11. CASE r.kind = "transfer_option"
  <2>1. u \in BuildTransferOption(w, r.handle, r.on, r.to, r.fee)
    BY <1>11 DEF Built
  <2>2. IsCoin(r.on.coin) /\ PuzzleHashOf(r.on.coin) = SingletonOf(r.on.owner)
    BY <1>11 DEF RequestOK, OptionOK
  <2> QED BY <1>1, <1>11, <2>1, <2>2, TransferOptionAgrees
<1> QED BY <1>2, <1>3, <1>4, <1>5, <1>6, <1>7, <1>8, <1>9, <1>10, <1>11
        DEF RequestOK, Kinds, Halves

(* The spends of an option that is minted or exercised the gate refuses.   *)
LEMMA StrangeRefused ==
    ASSUME NEW s, (s.kind = "option" /\ s.inner = "eve") \/ s.kind = "one_of_many"
    PROVE  ~Admissible(s)
<1>1. ~IsCatClaim(s) /\ ~IsCatSend(s) /\ ~IsOptionTransfer(s)
  BY DEF IsCatClaim, IsCatSend, IsOptionTransfer
<1>2. ~IsLaunch(s) /\ ~IsNftTransfer(s) /\ ~IsNftEveMint(s)
  BY DEF IsLaunch, IsNftTransfer, IsNftEveMint
<1>3. ~IsMelt(s) /\ ~IsStandardSend(s) /\ ~IsSettlementClaim(s)
  BY DEF IsMelt, IsStandardSend, IsSettlementClaim
<1> QED BY <1>1, <1>2, <1>3 DEF Admissible

LEMMA MintRefused ==
    ASSUME NEW w, NEW underlying, NEW owner, NEW fee, NEW u \in BuildMintOption(w, underlying, owner, fee)
    PROVE  \E i \in 1..Len(u.spends) : ~Admissible(u.spends[i])
<1>1. PICK c : u = UnsignedSpend(<<StandardSpend(c, <<CreateCoin(OptionLock, underlying)>> \o Funds(c, owner)),
                     LauncherSpend(c, owner),
                     [SingletonSpend("option", EveCoin(c, owner), LauncherCoin(c), "nobody",
                                     <<CreateCoin(owner, 1)>>) EXCEPT !.inner = "eve"]>>,
                   <<SpendOutput(owner, underlying, XCH)>>, AmountOf(c) - (underlying + 1))
  BY DEF BuildMintOption
<1>2. PICK a : a = StandardSpend(c, <<CreateCoin(OptionLock, underlying)>> \o Funds(c, owner))
  OBVIOUS
<1>3. PICK b : b = LauncherSpend(c, owner)
  OBVIOUS
<1>4. PICK conds : conds = <<CreateCoin(owner, 1)>>
  OBVIOUS
<1>5. PICK s : s = [SingletonSpend("option", EveCoin(c, owner), LauncherCoin(c), "nobody", conds)
                      EXCEPT !.inner = "eve"]
  OBVIOUS
<1>6. s.kind = "option" /\ s.inner = "eve"
  BY <1>5 DEF SingletonSpend, CoinSpend
<1>7. PICK out, rest : out = <<SpendOutput(owner, underlying, XCH)>> /\ rest = AmountOf(c) - (underlying + 1)
  OBVIOUS
<1>8. u = UnsignedSpend(<<a, b, s>>, out, rest)
  BY <1>1, <1>2, <1>3, <1>4, <1>5, <1>7
<1>9. u.spends = <<a, b, s>>
  BY <1>8, UnsignedHolds
<1>10. 3 \in 1..Len(u.spends) /\ u.spends[3] = s
  BY <1>9
<1>11. ~Admissible(s)
  BY <1>6, StrangeRefused
<1> QED BY <1>10, <1>11

LEMMA ExerciseRefused ==
    ASSUME NEW w, NEW h, NEW on, NEW fee, NEW u \in BuildExerciseOption(w, h, on, fee)
    PROVE  \E i \in 1..Len(u.spends) : ~Admissible(u.spends[i])
<1>1. PICK c : u = UnsignedSpend(<<SingletonSpend("option", on.coin, on.launcher, on.owner[2],
                                    <<OtherCondition, MeltSingleton>>),
                     SingletonSpend("one_of_many", Coin(on.launcher, OptionLock, 2),
                                    on.launcher, "nobody", <<CreateCoin(SettlementPayment, 2)>>),
                     StandardSpend(c, <<CreateCoin(SettlementPayment, h.strike)>>)>>,
                   <<SpendOutput(h.creator, h.strike, XCH)>>, AmountOf(c) - h.strike)
  BY DEF BuildExerciseOption
<1>2. PICK a : a = SingletonSpend("option", on.coin, on.launcher, on.owner[2],
                                  <<OtherCondition, MeltSingleton>>)
  OBVIOUS
<1>3. PICK b : b = StandardSpend(c, <<CreateCoin(SettlementPayment, h.strike)>>)
  OBVIOUS
<1>4. PICK conds : conds = <<CreateCoin(SettlementPayment, 2)>>
  OBVIOUS
<1>5. PICK s : s = SingletonSpend("one_of_many", Coin(on.launcher, OptionLock, 2),
                                  on.launcher, "nobody", conds)
  OBVIOUS
<1>6. s.kind = "one_of_many"
  BY <1>5 DEF SingletonSpend, CoinSpend
<1>7. PICK out, rest : out = <<SpendOutput(h.creator, h.strike, XCH)>> /\ rest = AmountOf(c) - h.strike
  OBVIOUS
<1>8. u = UnsignedSpend(<<a, s, b>>, out, rest)
  BY <1>1, <1>2, <1>3, <1>4, <1>5, <1>7
<1>9. u.spends = <<a, s, b>>
  BY <1>8, UnsignedHolds
<1>10. 2 \in 1..Len(u.spends) /\ u.spends[2] = s
  BY <1>9
<1>11. ~Admissible(s)
  BY <1>6, StrangeRefused
<1> QED BY <1>10, <1>11

LEMMA OutIsNat == ASSUME NEW ss, Proposed(ss), NEW a PROVE TotalOut(a, ss) \in Nat
<1>1. PICK ns : ns = [i \in DOMAIN ss |-> IF ss[i].asset = a THEN Paid(Run(ss[i])) ELSE 0]
  OBVIOUS
<1>2. PICK L \in Nat : DOMAIN ss = 1..L
  BY SeqIs DEF Proposed
<1>3. ASSUME NEW i \in 1..L PROVE Paid(Run(ss[i])) \in Nat
  <2>1. PICK s : s = ss[i] /\ WellFormed(s)
    BY <1>2 DEF Proposed, Proper
  <2>2. Paid(Run(s)) \in Nat
    BY <2>1, RunPriced, AmountsAdd DEF WellFormed
  <2> QED BY <2>1, <2>2
<1>4. ns \in Seq(Nat)
  <2>1. ns \in [1..L -> Nat]
    BY <1>1, <1>2, <1>3
  <2> QED BY <2>1
<1>5. Total(ns) \in Nat
  BY <1>4, TotalNat
<1> QED BY <1>1, <1>5 DEF TotalOut, SumOver

LEMMA PlainInit ==
    ASSUME NEW asked, NEW coins, ChainOK(coins), NEW change, FlowInit(coins, change)
    PROVE  PlainWallet(wallet)
<1>1. Units(chain) /\ Antichain(chain)
  BY FlowSoundInit, OnceInit DEF FlowSound, OnceInv
<1>2. PICK chn : chn = chain
  OBVIOUS
<1>3. PlainWallet(Holdings(chn, change))
  BY <1>1, <1>2, HoldingsPlain
<1> QED BY <1>2, <1>3 DEF FlowInit

LEMMA PlainStep ==
    ASSUME NEW asked, Units(chain), Antichain(chain), PlainWallet(wallet),
           [FlowNext(asked)]_pipelineVars
    PROVE  PlainWallet(wallet')
<1>1. wallet' = wallet \/ \E change : wallet' = Holdings(chain, change)
  BY DEF FlowNext, FlowStep, Ask, Build, BuildFails, Sync, Settle,
     SubmitAccepted, SubmitRejected, SubmitLost, GiveUp, Confirm, pipelineVars, flowVars
<1>2. PICK chn : chn = chain
  OBVIOUS
<1>3. \A change : PlainWallet(Holdings(chn, change))
  BY <1>2, HoldingsPlain
<1> QED BY <1>1, <1>2, <1>3

ValidInv(asked) == FlowGate(asked) /\ OnceInv /\ PlainWallet(wallet)

LEMMA ValidSuffices ==
    ASSUME NEW asked, AskedOK(asked), ValidInv(asked), request # NoRequest,
           request.kind \notin Halves, phase = "signed"
    PROVE  Consistent(unsigned.spends)
<1>1. PICK u, w, r : u = unsigned /\ w = wallet /\ r = request
  OBVIOUS
<1>2. Proposed(u.spends) /\ WalletOK(w) /\ PlainWallet(w)
  BY <1>1 DEF ValidInv, FlowGate, FlowSound
<1>3. SomeRequest
  BY DEF SomeRequest
<1>4. RequestOK(r)
  BY <1>1, <1>3 DEF ValidInv, FlowGate, FlowSound, AskedOK
<1>5. u \in Built(r, w)
  BY <1>1, <1>3 DEF ValidInv, OnceInv, OpenBuilt
<1>6. Conserves(u) /\ Told(u)
  BY <1>1 DEF ValidInv, FlowGate, GateCore, BooksInv, SignedTells, Signed, Tells, Told
<1>7. \A i \in 1..Len(u.spends) : Admissible(u.spends[i])
  BY <1>1 DEF ValidInv, FlowGate, GateCore, SignedWhole, Signed, Passed
<1>8. r.kind # "mint_option"
  BY <1>5, <1>7, MintRefused DEF Built
<1>9. r.kind # "exercise_option"
  BY <1>5, <1>7, ExerciseRefused DEF Built
<1>10. Agrees(u)
  BY <1>1, <1>2, <1>4, <1>5, <1>6, <1>8, <1>9, BuiltAgrees
<1>11. PICK ss, fee : ss = u.spends /\ fee = u.fee
  OBVIOUS
<1>12. fee \in Nat /\ Fair(ss, CoinsOf(ss), fee)
  BY <1>10, <1>11 DEF Agrees
<1>13. /\ TotalIn(XCH, ss) = TotalOut(XCH, ss) + fee
       /\ \A a \in Assets : TotalIn(a, ss) = TotalOut(a, ss)
  BY <1>6, <1>11 DEF Conserves
<1>14. TotalOut(XCH, ss) \in Nat
  BY <1>2, <1>11, OutIsNat
<1>15. Consistent(ss)
  BY <1>12, <1>13, <1>14, FairConsistent
<1> QED BY <1>1, <1>11, <1>15

(* A signed bundle is one the network can take, whatever was asked for and *)
(* whatever the wallet holds: its inputs differ, it creates no coin twice, *)
(* it asserts nothing but spends of its own, and it pays what it reserves  *)
(* (ensure_distinct_created_coins, assert_conserved, verify's analysis).   *)
THEOREM FlowSignedIsValid ==
    ASSUME NEW CONSTANT asked, AskedOK(asked), NEW CONSTANT coins, ChainOK(coins),
           NEW CONSTANT change
    PROVE  FlowSpec(asked, coins, change) => []SignedIsValid
<1>1. FlowInit(coins, change) => ValidInv(asked)
  BY FlowGateInit, OnceInit, PlainInit DEF ValidInv
<1>2. ValidInv(asked) /\ [FlowNext(asked)]_pipelineVars => ValidInv(asked)'
  <2> SUFFICES ASSUME ValidInv(asked), [FlowNext(asked)]_pipelineVars
               PROVE  ValidInv(asked)'
    OBVIOUS
  <2>1. FlowGate(asked) /\ FlowSound(asked) /\ OnceInv /\ PlainWallet(wallet)
    BY DEF ValidInv, FlowGate
  <2>2. FlowGate(asked)' /\ OnceInv'
    BY <2>1, FlowGateStep, OnceStep
  <2>3. PlainWallet(wallet')
    BY <2>1, PlainStep DEF FlowSound, OnceInv
  <2> QED BY <2>2, <2>3 DEF ValidInv, PlainWallet
<1>3. ValidInv(asked) => SignedIsValid
  BY ValidSuffices DEF SignedIsValid
<1> QED BY <1>1, <1>2, <1>3, PTL DEF FlowSpec
=============================================================================
