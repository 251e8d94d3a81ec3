-------------------------- MODULE WalletSync_proofs --------------------------
(***************************************************************************)
(* Theorems about WalletSync, for every set of coins and every height.     *)
(*                                                                         *)
(* TypeCorrect and InboundAnnouncedOnce hold for any number of callers.    *)
(* The others are about one caller of the engine, Task = {t}: two callers  *)
(* whose calls overlap can leave the store behind the chain                *)
(* (WalletSyncStale).                                                      *)
(***************************************************************************)
EXTENDS WalletSync, SequenceTheorems, FiniteSetTheorems, TLAPS

USE DEF At

-----------------------------------------------------------------------------
(* Types.                                                                   *)

LEMMA RecordType ==
  ASSUME NEW n \in Nat, NEW m \in Nat
  PROVE  [created |-> n, spent |-> m] \in CoinRecord
BY DEF CoinRecord

LEMMA TypeInit == Init => TypeOK
<1>1. Unborn \in CoinRecord
  BY DEF Unborn, CoinRecord
<1>2. << >> \in Seq(Nat) /\ << >> \in Seq(Event)
  OBVIOUS
<1> QED
  BY <1>1, <1>2 DEF Init, TypeOK, CoinTable, PC, Lifecycle

LEMMA TypeChain == TypeOK /\ (Block \/ Fork) => TypeOK'
<1> SUFFICES ASSUME TypeOK, Block \/ Fork
             PROVE  TypeOK'
  OBVIOUS
<1>1. CASE Block
  <2>1. tip' \in Nat
    BY <1>1 DEF TypeOK, Block
  <2>2. truth' \in [Coin -> CoinRecord]
    <3>1. PICK born \in SUBSET {c \in Coin : truth[c].created = 0},
               gone \in SUBSET {c \in Coin : truth[c].created # 0 /\ truth[c].spent = 0} :
            truth' = [c \in Coin |->
                        IF c \in born THEN [created |-> tip + 1, spent |-> 0]
                        ELSE IF c \in gone THEN [truth[c] EXCEPT !.spent = tip + 1]
                        ELSE truth[c]]
      BY <1>1 DEF Block
    <3>2. tip + 1 \in Nat /\ truth \in [Coin -> CoinRecord]
      BY DEF TypeOK
    <3>3. ASSUME NEW c \in Coin
          PROVE  /\ [created |-> tip + 1, spent |-> 0] \in CoinRecord
                 /\ [truth[c] EXCEPT !.spent = tip + 1] \in CoinRecord
      BY <3>2 DEF CoinRecord
    <3> QED
      BY <3>1, <3>2, <3>3
  <2> QED
    BY <1>1, <2>1, <2>2 DEF TypeOK, Block, store, local, heard
<1>2. CASE Fork
  <2> PICK f \in 0..(tip - 1) :
        /\ tip' = f
        /\ truth' = [c \in Coin |->
                       IF truth[c].created > f THEN Unborn
                       ELSE IF truth[c].spent > f THEN [truth[c] EXCEPT !.spent = 0]
                       ELSE truth[c]]
        /\ reorgs' = Append(reorgs, f)
    BY <1>2 DEF Fork
  <2>1. f \in Nat /\ tip' \in Nat
    BY DEF TypeOK
  <2>2. truth' \in [Coin -> CoinRecord]
    <3>1. ASSUME NEW c \in Coin
          PROVE  [truth[c] EXCEPT !.spent = 0] \in CoinRecord
      <4>1. truth[c] \in CoinRecord
        BY DEF TypeOK
      <4> QED
        BY <4>1 DEF CoinRecord
    <3>2. Unborn \in CoinRecord /\ truth \in [Coin -> CoinRecord]
      BY DEF TypeOK, CoinRecord, Unborn
    <3> QED
      BY <3>1, <3>2
  <2>3. reorgs' \in Seq(Nat)
    BY <2>1 DEF TypeOK
  <2>4. forks' \in Nat
    BY <1>2 DEF TypeOK, Fork
  <2> QED
    BY <1>2, <2>1, <2>2, <2>3, <2>4 DEF TypeOK, Fork, store, local, heard
<1> QED
  BY <1>1, <1>2

(* The events of a coin change are events. *)
LEMMA EventsForType ==
  ASSUME NEW c \in Coin, NEW rec \in CoinRecord, NEW change
  PROVE  EventsFor(c, rec, change) \in Seq(Event)
<1>1. CoinStateChanged(c, rec) \in Event
  BY DEF CoinStateChanged, Event, CoinRecord
<1>2. Funds("FundsReceived", c) \in Event /\ Funds("FundsSent", c) \in Event
  BY DEF Funds, Event
<1> HIDE DEF CoinStateChanged, Funds, Event
<1> QED
  BY <1>1, <1>2 DEF EventsFor

LEMMA TypeEmit ==
  ASSUME TypeOK, NEW t \in Task, Emit(t)
  PROVE  TypeOK'
<1> DEFINE e == Head(out[t])
<1>1. out[t] \in Seq(Event) /\ out[t] # << >>
  BY DEF TypeOK, Emit
<1>2. e \in Event /\ Tail(out[t]) \in Seq(Event)
  BY <1>1, HeadTailProperties
<1>3. e.coin \in Coin /\ [created |-> e.created, spent |-> e.spent] \in CoinRecord
  BY <1>2 DEF Event, CoinRecord
<1> HIDE DEF e
<1>4. told' \in [Coin -> CoinRecord]
  BY <1>3 DEF TypeOK, Emit, e
<1>5. received' \in [Coin -> Nat] /\ sent' \in [Coin -> Nat]
  <2>1. received' \in {received, [received EXCEPT ![e.coin] = @ + 1]}
    BY DEF Emit, e
  <2>2. sent' \in {sent, [sent EXCEPT ![e.coin] = @ + 1]}
    BY DEF Emit, e
  <2>3. received \in [Coin -> Nat] /\ sent \in [Coin -> Nat]
    BY DEF TypeOK
  <2> QED
    BY <1>3, <2>1, <2>2, <2>3
<1>6. out' \in [Task -> Seq(Event)]
  BY <1>2 DEF TypeOK, Emit
<1> QED
  BY <1>4, <1>5, <1>6 DEF TypeOK, Emit, chain, store

LEMMA TypeApply ==
  ASSUME TypeOK, NEW t \in Task, Apply(t)
  PROVE  TypeOK'
<1> PICK r \in batch[t] :
      /\ coins' = [coins EXCEPT ![r[1]] = r[2]]
      /\ out' = [out EXCEPT ![t] = EventsFor(r[1], r[2], Classify(coins[r[1]], r[2]))]
      /\ top' = [top EXCEPT ![t] = HigherOf(@, r[2])]
      /\ batch' = [batch EXCEPT ![t] = @ \ {r}]
  BY DEF Apply
<1>1. r[1] \in Coin /\ r[2] \in CoinRecord
  BY DEF TypeOK
<1>2. coins' \in CoinTable
  BY <1>1 DEF TypeOK, CoinTable
<1>3. out' \in [Task -> Seq(Event)]
  BY <1>1, EventsForType DEF TypeOK
<1>4. HigherOf(top[t], r[2]) \in Nat
  BY <1>1 DEF TypeOK, HigherOf, CoinRecord
<1>5. top' \in [Task -> Nat]
  BY <1>4 DEF TypeOK
<1>6. batch' \in [Task -> SUBSET (Coin \X CoinRecord)]
  BY DEF TypeOK
<1> QED
  BY <1>2, <1>3, <1>5, <1>6 DEF TypeOK, Apply, chain, heard

LEMMA TypePeerCall ==
  ASSUME TypeOK, NEW t \in Task,
         FetchFromPeer(t) \/ SetPeak(t) \/ MarkSynced(t) \/ SetSyncStatus(t) \/ PublishProgress(t)
  PROVE  TypeOK'
<1>1. CASE FetchFromPeer(t)
  <2>1. {<<c, truth[c]>> : c \in {d \in Coin : truth[d].created # 0}}
          \in SUBSET (Coin \X CoinRecord)
    BY DEF TypeOK
  <2> QED
    BY <1>1, <2>1 DEF TypeOK, FetchFromPeer, PC, chain, store, heard
<1>2. CASE SetPeak(t)
  <2>1. peak' \in Nat /\ top' \in [Task -> Nat]
    BY <1>2 DEF TypeOK, SetPeak
  <2>2. pc' \in [Task -> PC]
    BY <1>2 DEF TypeOK, SetPeak, PC
  <2> QED
    BY <1>2, <2>1, <2>2 DEF TypeOK, SetPeak, chain, heard
<1>3. CASE MarkSynced(t)
  BY <1>3 DEF TypeOK, MarkSynced, PC, Lifecycle, chain, store, heard
<1>4. CASE SetSyncStatus(t)
  BY <1>4 DEF TypeOK, SetSyncStatus, PC, chain, heard
<1>5. CASE PublishProgress(t)
  BY <1>5 DEF TypeOK, PublishProgress, PC, Lifecycle, chain, store
<1> QED
  BY <1>1, <1>2, <1>3, <1>4, <1>5

LEMMA TypePointCall ==
  ASSUME TypeOK, NEW t \in Task,
         StartFallback(t) \/ StartResolve(t) \/ PointRead(t) \/ EndFallback(t)
  PROVE  TypeOK'
<1>1. CASE StartFallback(t)
  BY <1>1 DEF TypeOK, StartFallback, PC, chain, store, heard
<1>2. CASE StartResolve(t)
  <2>1. ids' \in [Task -> SUBSET Coin] /\ pc' \in [Task -> PC]
    BY <1>2 DEF TypeOK, StartResolve, PC
  <2> QED
    BY <1>2, <2>1 DEF TypeOK, StartResolve, chain, store, heard
<1>3. CASE PointRead(t)
  <2> PICK c \in ids[t] :
        /\ ids' = [ids EXCEPT ![t] = @ \ {c}]
        /\ \/ /\ batch' = [batch EXCEPT ![t] = {<<c, truth[c]>>}]
              /\ pc' = [pc EXCEPT ![t] = "point"]
           \/ UNCHANGED <<batch, pc>>
    BY <1>3 DEF PointRead
  <2>1. c \in Coin /\ truth[c] \in CoinRecord
    BY DEF TypeOK
  <2>2. ids' \in [Task -> SUBSET Coin] /\ pc' \in [Task -> PC]
    BY DEF TypeOK, PC
  <2>3. batch' \in [Task -> SUBSET (Coin \X CoinRecord)]
    <3>1. {<<c, truth[c]>>} \in SUBSET (Coin \X CoinRecord)
      BY <2>1
    <3> QED
      BY <3>1 DEF TypeOK
  <2> QED
    BY <1>3, <2>2, <2>3 DEF TypeOK, PointRead, chain, store, heard
<1>4. CASE EndFallback(t)
  BY <1>4 DEF TypeOK, EndFallback, PC, chain, store, heard
<1> QED
  BY <1>1, <1>2, <1>3, <1>4

(* A rollback leaves a coin table. *)
LEMMA RolledBackType ==
  ASSUME coins \in CoinTable, NEW fork
  PROVE  RolledBack(coins, fork) \in CoinTable
<1>1. ASSUME NEW c \in SpentAfter(coins, fork)
      PROVE  [coins[c] EXCEPT !.spent = 0] \in CoinRecord
  BY <1>1 DEF SpentAfter, Held, CoinTable, CoinRecord
<1> QED
  BY <1>1 DEF RolledBack, CoinTable

LEMMA TypeReorg ==
  ASSUME TypeOK, NEW t \in Task, HandleReorg(t) \/ AnnounceAffected(t) \/ EndAffected(t)
  PROVE  TypeOK'
<1>1. CASE HandleReorg(t)
  <2> DEFINE fork == Head(reorgs)
  <2>1. fork \in Nat /\ Tail(reorgs) \in Seq(Nat)
    BY <1>1, HeadTailProperties DEF TypeOK, HandleReorg
  <2> HIDE DEF fork
  <2>2. coins' \in CoinTable
    BY <1>1, RolledBackType DEF TypeOK, HandleReorg
  <2>3. ids' \in [Task -> SUBSET Coin]
    <3>1. Affected(coins, fork) \subseteq Coin
      BY DEF Affected, CreatedAfter, SpentAfter, Held
    <3> QED
      BY <1>1, <3>1 DEF TypeOK, HandleReorg, fork
  <2>4. undone' \in [Coin -> Nat]
    <3>1. undone \in [Coin -> Nat]
      BY DEF TypeOK
    <3>2. undone' = [c \in Coin |-> IF c \in Affected(coins, fork) THEN undone[c] + 1 ELSE undone[c]]
      BY <1>1 DEF HandleReorg, fork
    <3> QED
      BY <3>1, <3>2
  <2>5. peak' \in Nat /\ height' \in [Task -> Nat] /\ reorgs' \in Seq(Nat)
    BY <1>1, <2>1 DEF TypeOK, HandleReorg, PeakAfter, fork
  <2>6. goal' \in [Task -> Lifecycle] /\ pc' \in [Task -> PC]
    BY <1>1 DEF TypeOK, HandleReorg, Lifecycle, PC
  <2> QED
    BY <1>1, <2>2, <2>3, <2>4, <2>5, <2>6 DEF TypeOK, HandleReorg, chain, heard
<1>2. CASE AnnounceAffected(t)
  <2> PICK c \in ids[t] :
        /\ ids' = [ids EXCEPT ![t] = @ \ {c}]
        /\ out' = [out EXCEPT ![t] =
             <<CoinStateChanged(c, IF coins[c] = NoCoin THEN Unborn ELSE coins[c])>>]
    BY <1>2 DEF AnnounceAffected
  <2> DEFINE rec == IF coins[c] = NoCoin THEN Unborn ELSE coins[c]
  <2>1. c \in Coin /\ rec \in CoinRecord
    BY DEF TypeOK, CoinTable, Unborn, CoinRecord
  <2> HIDE DEF rec
  <2>2. CoinStateChanged(c, rec) \in Event
    BY <2>1 DEF CoinStateChanged, Event, CoinRecord
  <2>3. out' \in [Task -> Seq(Event)]
    BY <2>2 DEF TypeOK, rec
  <2> QED
    BY <1>2, <2>3 DEF TypeOK, AnnounceAffected, chain, store, heard
<1>3. CASE EndAffected(t)
  BY <1>3 DEF TypeOK, EndAffected, StepAfterAffected, PC, chain, store, heard
<1> QED
  BY <1>1, <1>2, <1>3

LEMMA TypeStep == TypeOK /\ [Next]_vars => TypeOK'
<1> SUFFICES ASSUME TypeOK, [Next]_vars
             PROVE  TypeOK'
  OBVIOUS
<1>1. CASE Block \/ Fork
  BY <1>1, TypeChain
<1>2. ASSUME NEW t \in Task, Continue(t) \/ Begin(t)
      PROVE  TypeOK'
  BY <1>2, TypeEmit, TypeApply, TypePeerCall, TypePointCall, TypeReorg DEF Continue, Begin
<1>3. CASE UNCHANGED vars
  BY <1>3 DEF TypeOK, vars, chain, store, local, heard
<1> QED
  BY <1>1, <1>2, <1>3 DEF Next

(* Every variable of the sync engine keeps its type, whoever calls it: no   *)
(* step leaves a coin without an entry, or a height below zero.             *)
THEOREM TypeCorrect == Spec => []TypeOK
BY TypeInit, TypeStep, PTL DEF Spec

-----------------------------------------------------------------------------
(* One caller: what a subscriber knows.                                     *)

View(c) == IF coins[c] = NoCoin THEN Unborn ELSE coins[c]

(* The caller still owes the stream a word about c. *)
Owed(t, c) ==
  \/ pc[t] = "affected" /\ c \in ids[t]
  \/ out[t] # << >> /\ Head(out[t]).coin = c

(* What is queued is the truth about one coin, after at most one Funds      *)
(* event, and that event is warranted by what the subscriber was told.      *)
QueueTrue(t) ==
  \/ out[t] = << >>
  \/ \E c \in Coin : out[t] = <<CoinStateChanged(c, View(c))>>
  \/ \E c \in Coin :
       /\ out[t] = <<Funds("FundsReceived", c), CoinStateChanged(c, View(c))>>
       /\ told[c] = Unborn
  \/ \E c \in Coin :
       /\ out[t] = <<Funds("FundsSent", c), CoinStateChanged(c, View(c))>>
       /\ told[c].spent = 0

(* The inductive invariant: all that is not owed has been told. *)
Informed(t) ==
  /\ QueueTrue(t)
  /\ \A c \in Coin : Owed(t, c) \/ told[c] = View(c)

LEMMA InformedInit ==
  ASSUME NEW t \in Task, Init
  PROVE  Informed(t)
BY DEF Init, Informed, QueueTrue, Owed, View

(* A step that touches neither the store's coins nor the queue. *)
LEMMA InformedFrame ==
  ASSUME NEW t \in Task, Informed(t), UNCHANGED <<coins, told, out>>,
         \/ UNCHANGED <<pc, ids>>
         \/ pc[t] # "affected"
         \/ ids[t] = {}
  PROVE  Informed(t)'
<1>1. \A c : View(c)' = View(c)
  BY DEF View
<1>2. QueueTrue(t)'
  BY <1>1 DEF Informed, QueueTrue
<1>3. \A c \in Coin : Owed(t, c) => Owed(t, c)'
  BY DEF Owed
<1> QED
  BY <1>1, <1>2, <1>3 DEF Informed

LEMMA InformedEmit ==
  ASSUME TypeOK, NEW t \in Task, Informed(t), Emit(t)
  PROVE  Informed(t)'
<1>1. out[t] # << >> /\ out'[t] = Tail(out[t])
  BY DEF Emit, TypeOK
<1>2. \A c : View(c)' = View(c)
  BY DEF Emit, store, View
<1>3. UNCHANGED <<pc, ids>>
  BY DEF Emit
<1>4. ASSUME NEW d \in Coin, out[t] = <<CoinStateChanged(d, View(d))>>
      PROVE  Informed(t)'
  <2>1. Head(out[t]) = CoinStateChanged(d, View(d)) /\ out'[t] = << >>
    BY <1>1, <1>4
  <2>2. told' = [told EXCEPT ![d] = [created |-> View(d).created, spent |-> View(d).spent]]
    <3> DEFINE e == Head(out[t])
    <3>1. /\ e.type = "CoinStateChanged" /\ e.coin = d
          /\ e.created = View(d).created /\ e.spent = View(d).spent
      BY <2>1 DEF CoinStateChanged
    <3>2. told' = IF e.type = "CoinStateChanged"
                  THEN [told EXCEPT ![e.coin] = [created |-> e.created, spent |-> e.spent]]
                  ELSE told
      BY DEF Emit
    <3> HIDE DEF e
    <3> QED
      BY <3>1, <3>2
  <2>3. View(d) = [created |-> View(d).created, spent |-> View(d).spent]
    BY DEF TypeOK, View, CoinTable, CoinRecord, Unborn
  <2>4. told' = [told EXCEPT ![d] = View(d)]
    BY <2>2, <2>3
  <2>5. told'[d] = View(d) /\ \A c \in Coin \ {d} : told'[c] = told[c]
    BY <2>4 DEF TypeOK
  <2>6. \A c \in Coin \ {d} : Owed(t, c) => Owed(t, c)'
    BY <1>3, <2>1 DEF Owed, CoinStateChanged
  <2> QED
    BY <1>2, <2>1, <2>5, <2>6 DEF Informed, QueueTrue
<1>5. ASSUME NEW d \in Coin, NEW type \in {"FundsReceived", "FundsSent"},
             out[t] = <<Funds(type, d), CoinStateChanged(d, View(d))>>
      PROVE  Informed(t)'
  <2>1. Head(out[t]) = Funds(type, d) /\ out'[t] = <<CoinStateChanged(d, View(d))>>
    BY <1>1, <1>5
  <2>2. told' = told
    BY <2>1 DEF Emit, Funds
  <2>3. \A c \in Coin : Owed(t, c) => Owed(t, c)'
    <3>1. Head(out'[t]).coin = d /\ Head(out[t]).coin = d /\ out'[t] # << >>
      BY <2>1 DEF CoinStateChanged, Funds
    <3> QED
      BY <1>3, <3>1 DEF Owed
  <2>4. QueueTrue(t)'
    BY <1>2, <2>1 DEF QueueTrue
  <2> QED
    BY <1>2, <2>2, <2>3, <2>4 DEF Informed
<1> QED
  BY <1>1, <1>4, <1>5 DEF Informed, QueueTrue

(* What Classify says, and which events follow.                             *)
LEMMA ChangeEvents ==
  ASSUME NEW c \in Coin, NEW rec \in CoinRecord, NEW prev \in CoinRecord \cup {NoCoin}
  PROVE  LET es == EventsFor(c, rec, Classify(prev, rec)) IN
         \/ es = << >> /\ prev = rec
         \/ es = <<CoinStateChanged(c, rec)>>
         \/ es = <<Funds("FundsReceived", c), CoinStateChanged(c, rec)>> /\ prev = NoCoin
         \/ /\ es = <<Funds("FundsSent", c), CoinStateChanged(c, rec)>>
            /\ prev = NoCoin \/ prev.spent = 0
<1> HIDE DEF CoinStateChanged, Funds
<1>1. \/ Classify(prev, rec) = "Unchanged" /\ prev = rec
      \/ Classify(prev, rec) = "Created" /\ prev = NoCoin
      \/ Classify(prev, rec) = "Spent" /\ (prev = NoCoin \/ prev.spent = 0)
      \/ Classify(prev, rec) = "Updated"
  BY DEF Classify
<1> QED
  BY <1>1 DEF EventsFor

LEMMA InformedApply ==
  ASSUME TypeOK, NEW t \in Task, Informed(t), Apply(t)
  PROVE  Informed(t)'
<1> PICK r \in batch[t] :
      /\ coins' = [coins EXCEPT ![r[1]] = r[2]]
      /\ out' = [out EXCEPT ![t] = EventsFor(r[1], r[2], Classify(coins[r[1]], r[2]))]
  BY DEF Apply
<1> DEFINE d == r[1]
           rec == r[2]
<1>1. d \in Coin /\ rec \in CoinRecord /\ coins[d] \in CoinRecord \cup {NoCoin}
  BY DEF TypeOK, CoinTable
<1>2. rec # NoCoin
  BY <1>1, NoCoinAssumption
<1>3. View(d)' = rec /\ \A c \in Coin \ {d} : View(c)' = View(c)
  BY <1>1, <1>2 DEF View, TypeOK, CoinTable
<1>4. out[t] = << >> /\ pc[t] # "affected" /\ UNCHANGED <<pc, ids, told>>
  BY DEF Apply, heard
<1>5. \A c \in Coin : told[c] = View(c)
  BY <1>4 DEF Informed, Owed
<1>6. out'[t] = EventsFor(d, rec, Classify(coins[d], rec))
  BY DEF TypeOK
<1> HIDE DEF d, rec
<1>7. CASE out'[t] = << >> /\ coins[d] = rec
  <2>1. View(d)' = View(d)
    BY <1>2, <1>3, <1>7 DEF View
  <2> QED
    BY <1>3, <1>4, <1>5, <1>7, <2>1 DEF Informed, QueueTrue
<1>8. CASE out'[t] # << >> /\ Head(out'[t]).coin = d
  <2>1. \A c \in Coin \ {d} : told'[c] = View(c)'
    BY <1>3, <1>4, <1>5
  <2>2. Owed(t, d)'
    BY <1>8 DEF Owed
  <2>3. QueueTrue(t)' => Informed(t)'
    BY <2>1, <2>2 DEF Informed
  <2>4. coins[d] = NoCoin => told'[d] = Unborn
    BY <1>1, <1>4, <1>5 DEF View
  <2>5. coins[d] = NoCoin \/ coins[d].spent = 0 => told'[d].spent = 0
    BY <1>1, <1>4, <1>5 DEF View, Unborn
  <2>6. QueueTrue(t)'
    BY <1>1, <1>3, <1>6, <1>8, <2>4, <2>5, ChangeEvents DEF QueueTrue
  <2> QED
    BY <2>3, <2>6
<1>9. \/ out'[t] = << >> /\ coins[d] = rec
      \/ out'[t] # << >> /\ Head(out'[t]).coin = d
  BY <1>1, <1>6, ChangeEvents DEF CoinStateChanged, Funds
<1> QED
  BY <1>7, <1>8, <1>9

(* The coins a rollback does not report are as they were. *)
LEMMA RolledBackRest ==
  ASSUME NEW fork, NEW c \in Coin, c \notin Affected(coins, fork)
  PROVE  RolledBack(coins, fork)[c] = coins[c]
BY DEF RolledBack, Affected

LEMMA InformedReorg ==
  ASSUME TypeOK, NEW t \in Task, Informed(t), HandleReorg(t)
  PROVE  Informed(t)'
<1> DEFINE fork == Head(reorgs)
<1>1. /\ out[t] = << >> /\ pc[t] # "affected"
      /\ pc'[t] = "affected"
      /\ ids'[t] = Affected(coins, fork)
      /\ coins' = RolledBack(coins, fork)
      /\ UNCHANGED <<out, told>>
  BY DEF HandleReorg, heard, TypeOK
<1> HIDE DEF fork
<1>2. \A c \in Coin : told[c] = View(c)
  BY <1>1 DEF Informed, Owed
<1>3. ASSUME NEW c \in Coin
      PROVE  Owed(t, c)' \/ told'[c] = View(c)'
  <2>1. CASE c \in Affected(coins, fork)
    BY <1>1, <2>1 DEF Owed
  <2>2. CASE c \notin Affected(coins, fork)
    <3>1. coins'[c] = coins[c]
      BY <1>1, <2>2, RolledBackRest
    <3> QED
      BY <1>1, <1>2, <3>1 DEF View
  <2> QED
    BY <2>1, <2>2
<1> QED
  BY <1>1, <1>3 DEF Informed, QueueTrue

LEMMA InformedAnnounce ==
  ASSUME TypeOK, NEW t \in Task, Informed(t), AnnounceAffected(t)
  PROVE  Informed(t)'
<1> PICK d \in ids[t] :
      /\ ids' = [ids EXCEPT ![t] = @ \ {d}]
      /\ out' = [out EXCEPT ![t] = <<CoinStateChanged(d, View(d))>>]
  BY DEF AnnounceAffected, View
<1>1. /\ d \in Coin
      /\ out[t] = << >>
      /\ UNCHANGED <<coins, told, pc>>
      /\ ids'[t] = ids[t] \ {d}
      /\ out'[t] = <<CoinStateChanged(d, View(d))>>
  BY DEF AnnounceAffected, store, heard, TypeOK
<1>2. \A c : View(c)' = View(c)
  BY <1>1 DEF View
<1>3. QueueTrue(t)'
  BY <1>1, <1>2 DEF QueueTrue
<1>4. Owed(t, d)' /\ \A c \in Coin \ {d} : Owed(t, c) => Owed(t, c)'
  BY <1>1 DEF Owed, CoinStateChanged
<1> QED
  BY <1>1, <1>2, <1>3, <1>4 DEF Informed

LEMMA InformedStep ==
  ASSUME NEW t, Task = {t}, TypeOK, Informed(t), [Next]_vars
  PROVE  Informed(t)'
<1> t \in Task
  OBVIOUS
<1>1. CASE Block \/ Fork
  <2>1. UNCHANGED <<coins, told, out, pc, ids>>
    BY <1>1 DEF Block, Fork, store, local, heard
  <2> QED
    BY <2>1, InformedFrame
<1>2. CASE FetchFromPeer(t) \/ SetPeak(t) \/ MarkSynced(t) \/ SetSyncStatus(t)
             \/ PublishProgress(t)
  <2>1. UNCHANGED <<coins, told, out>> /\ pc[t] # "affected"
    BY <1>2 DEF FetchFromPeer, SetPeak, MarkSynced, SetSyncStatus, PublishProgress, store, heard
  <2> QED
    BY <2>1, InformedFrame
<1>3. CASE StartFallback(t) \/ StartResolve(t) \/ PointRead(t) \/ EndFallback(t)
  <2>1. UNCHANGED <<coins, told, out>> /\ pc[t] # "affected"
    BY <1>3 DEF StartFallback, StartResolve, PointRead, EndFallback, store, heard
  <2> QED
    BY <2>1, InformedFrame
<1>4. CASE EndAffected(t)
  <2>1. UNCHANGED <<coins, told, out>> /\ ids[t] = {}
    BY <1>4 DEF EndAffected, store, heard
  <2> QED
    BY <2>1, InformedFrame
<1>5. CASE UNCHANGED vars
  <2>1. UNCHANGED <<coins, told, out, pc, ids>>
    BY <1>5 DEF vars, store, local, heard
  <2> QED
    BY <2>1, InformedFrame
<1> QED
  BY <1>1, <1>2, <1>3, <1>4, <1>5, InformedEmit, InformedApply, InformedReorg, InformedAnnounce
  DEF Next, Continue, Begin

(* With one caller the stream tells the whole truth: whenever no call is    *)
(* under way, a subscriber that folded the CoinStateChanged events of       *)
(* ingest and handle_reorg knows exactly what the store holds.              *)
THEOREM SoloEventsMatchStore ==
  ASSUME NEW t, Task = {t}
  PROVE  Spec => []EventsMatchStore
<1>1. Init => TypeOK /\ Informed(t)
  BY TypeInit, InformedInit
<1>2. TypeOK /\ Informed(t) /\ [Next]_vars => TypeOK' /\ Informed(t)'
  BY TypeStep, InformedStep
<1>3. Informed(t) => EventsMatchStore
  BY DEF Informed, Owed, View, EventsMatchStore, Quiet
<1> QED
  BY <1>1, <1>2, <1>3, PTL DEF Spec

LEMMA BookedStep ==
  ASSUME NEW t, Task = {t}, TypeOK, Informed(t), [Next]_vars, NEW c \in Coin
  PROVE  /\ received'[c] # received[c] => told[c] = Unborn
         /\ sent'[c] # sent[c] => told[c].spent = 0
<1>1. CASE Emit(t)
  <2>1. CASE \E d \in Coin : out[t] = <<CoinStateChanged(d, View(d))>>
    <3>1. Head(out[t]).type = "CoinStateChanged"
      BY <2>1 DEF CoinStateChanged
    <3> QED
      BY <1>1, <3>1 DEF Emit
  <2>2. CASE \E d \in Coin :
               /\ out[t] = <<Funds("FundsReceived", d), CoinStateChanged(d, View(d))>>
               /\ told[d] = Unborn
    <3> PICK d \in Coin :
          /\ out[t] = <<Funds("FundsReceived", d), CoinStateChanged(d, View(d))>>
          /\ told[d] = Unborn
      BY <2>2
    <3>1. Head(out[t]).type = "FundsReceived" /\ Head(out[t]).coin = d
      BY DEF Funds
    <3>2. sent' = sent /\ received' = [received EXCEPT ![d] = @ + 1]
      BY <1>1, <3>1 DEF Emit
    <3> QED
      BY <3>2 DEF TypeOK
  <2>3. CASE \E d \in Coin :
               /\ out[t] = <<Funds("FundsSent", d), CoinStateChanged(d, View(d))>>
               /\ told[d].spent = 0
    <3> PICK d \in Coin :
          /\ out[t] = <<Funds("FundsSent", d), CoinStateChanged(d, View(d))>>
          /\ told[d].spent = 0
      BY <2>3
    <3>1. Head(out[t]).type = "FundsSent" /\ Head(out[t]).coin = d
      BY DEF Funds
    <3>2. received' = received /\ sent' = [sent EXCEPT ![d] = @ + 1]
      BY <1>1, <3>1 DEF Emit
    <3> QED
      BY <3>2 DEF TypeOK
  <2> QED
    BY <1>1, <2>1, <2>2, <2>3 DEF Informed, QueueTrue, Emit
<1>2. CASE ~Emit(t)
  <2>1. UNCHANGED <<received, sent>>
    <3>1. CASE Block \/ Fork \/ UNCHANGED vars
      BY <3>1 DEF Block, Fork, vars, heard
    <3>2. CASE \/ Apply(t) \/ SetPeak(t) \/ MarkSynced(t) \/ SetSyncStatus(t)
               \/ PublishProgress(t) \/ FetchFromPeer(t)
      BY <3>2 DEF Apply, SetPeak, MarkSynced, SetSyncStatus, PublishProgress, FetchFromPeer, heard
    <3>3. CASE \/ PointRead(t) \/ EndFallback(t) \/ StartFallback(t) \/ StartResolve(t)
      BY <3>3 DEF PointRead, EndFallback, StartFallback, StartResolve, heard
    <3>4. CASE HandleReorg(t) \/ AnnounceAffected(t) \/ EndAffected(t)
      BY <3>4 DEF HandleReorg, AnnounceAffected, EndAffected, heard
    <3> QED
      BY <1>2, <3>1, <3>2, <3>3, <3>4 DEF Next, Continue, Begin
  <2> QED
    BY <2>1
<1> QED
  BY <1>1, <1>2

(* With one caller no Funds event is booked twice: a FundsReceived reaches  *)
(* a subscriber only for a coin it was told does not exist, a FundsSent     *)
(* only for one it was told is not spent (emit_for_change).                 *)
THEOREM SoloBookedOnce ==
  ASSUME NEW t, Task = {t}
  PROVE  Spec => BookedOnce
<1>1. Init => TypeOK /\ Informed(t)
  BY TypeInit, InformedInit
<1>2. TypeOK /\ Informed(t) /\ [Next]_vars => TypeOK' /\ Informed(t)'
  BY TypeStep, InformedStep
<1>3. TypeOK /\ Informed(t) /\ [Next]_vars =>
        [\A c \in Coin : /\ received'[c] # received[c] => told[c] = Unborn
                         /\ sent'[c] # sent[c] => told[c].spent = 0]_vars
  BY BookedStep
<1> QED
  BY <1>1, <1>2, <1>3, PTL DEF Spec, BookedOnce

-----------------------------------------------------------------------------
(* Any number of callers: inbound value is announced once.                  *)

(* A Funds event heads its queue; one event about the coin follows it.      *)
FundsFirst(t) ==
  /\ Len(out[t]) <= 2
  /\ Len(out[t]) = 2 => out[t][2].type = "CoinStateChanged"

(* The tasks that are about to announce the coin as inbound. *)
Announcing(c) ==
  {t \in Task : out[t] # << >> /\ Head(out[t]).type = "FundsReceived" /\ Head(out[t]).coin = c}

HeldCount(c) == IF coins[c] = NoCoin THEN 0 ELSE 1

(* The inductive invariant: the announcements made and under way are paid   *)
(* for, each by the coin's presence in the store or by a rollback of it.    *)
CountedFor(c) ==
  /\ IsFiniteSet(Announcing(c))
  /\ received[c] + Cardinality(Announcing(c)) <= undone[c] + HeldCount(c)

Counted ==
  /\ \A t \in Task : FundsFirst(t)
  /\ \A c \in Coin : CountedFor(c)

LEMMA CountedInit == Init => Counted
<1> SUFFICES ASSUME Init
             PROVE  Counted
  OBVIOUS
<1>1. ASSUME NEW c \in Coin
      PROVE  CountedFor(c)
  <2>1. Announcing(c) = {}
    BY DEF Init, Announcing
  <2> QED
    BY <2>1, FS_EmptySet DEF Init, CountedFor, HeldCount
<1> QED
  BY <1>1 DEF Init, Counted, FundsFirst

(* A step that leaves the queues alone and forgets no coin for nothing. *)
LEMMA CountedFrame ==
  ASSUME TypeOK, TypeOK', Counted, UNCHANGED <<out, received>>,
         \A c \in Coin : undone[c] + HeldCount(c) <= undone'[c] + HeldCount(c)'
  PROVE  Counted'
<1>1. \A t \in Task : FundsFirst(t)'
  BY DEF Counted, FundsFirst
<1>2. ASSUME NEW c \in Coin
      PROVE  CountedFor(c)'
  <2>1. Announcing(c)' = Announcing(c)
    BY DEF Announcing
  <2>2. Cardinality(Announcing(c)) \in Nat
    BY FS_CardinalityType DEF Counted, CountedFor
  <2>3. HeldCount(c) \in Nat /\ HeldCount(c)' \in Nat
    BY DEF HeldCount
  <2>4. received[c] \in Nat /\ undone[c] \in Nat /\ undone'[c] \in Nat
    BY DEF TypeOK
  <2> HIDE DEF Announcing, HeldCount
  <2> QED
    BY <2>1, <2>2, <2>3, <2>4 DEF Counted, CountedFor
<1> QED
  BY <1>1, <1>2 DEF Counted

(* What is left of a short queue after its first event. *)
LEMMA ShortTail ==
  ASSUME NEW S, NEW q \in Seq(S), q # << >>, Len(q) <= 2
  PROVE  \/ Tail(q) = << >>
         \/ /\ Len(q) = 2 /\ Len(Tail(q)) = 1 /\ Tail(q) # << >>
            /\ Head(Tail(q)) = q[2]
<1> DEFINE r == Tail(q)
<1>1. /\ r \in Seq(S) /\ Len(r) = Len(q) - 1
      /\ \A i \in 1..Len(r) : r[i] = q[i + 1]
  BY HeadTailProperties
<1>2. Len(q) \in Nat /\ Len(r) \in Nat
  BY <1>1, LenProperties
<1> HIDE DEF r
<1>3. CASE Len(r) = 0
  BY <1>1, <1>3, EmptySeq DEF r
<1>4. CASE Len(r) = 1
  <2>1. r[1] = q[2] /\ Len(q) = 2
    BY <1>1, <1>2, <1>4
  <2>2. r # << >>
    BY <1>1, <1>4
  <2>3. Head(r) = r[1]
    BY <1>1, <2>2
  <2> QED
    BY <1>4, <2>1, <2>2, <2>3 DEF r
<1> QED
  BY <1>1, <1>2, <1>3, <1>4

LEMMA CountedEmit ==
  ASSUME TypeOK, Counted, NEW t \in Task, Emit(t)
  PROVE  Counted'
<1> DEFINE e == Head(out[t])
<1>1. out[t] \in Seq(Event) /\ out[t] # << >> /\ FundsFirst(t)
  BY DEF TypeOK, Emit, Counted
<1>2. /\ out' = [out EXCEPT ![t] = Tail(out[t])]
      /\ out'[t] = Tail(out[t])
      /\ \A u \in Task \ {t} : out'[u] = out[u]
      /\ UNCHANGED <<coins, undone>>
  BY DEF Emit, TypeOK, store
<1>3. \/ out'[t] = << >>
      \/ /\ out'[t] # << >> /\ Head(out'[t]).type = "CoinStateChanged"
         /\ Len(out'[t]) = 1
  <2>1. Len(out[t]) <= 2 /\ (Len(out[t]) = 2 => out[t][2].type = "CoinStateChanged")
    BY <1>1 DEF FundsFirst
  <2> QED
    BY <1>1, <1>2, <2>1, ShortTail
<1>4. \A u \in Task : FundsFirst(u)'
  BY <1>2, <1>3 DEF FundsFirst, Counted
<1>5. ASSUME NEW c \in Coin
      PROVE  CountedFor(c)'
  <2>1. /\ IsFiniteSet(Announcing(c))
        /\ received[c] + Cardinality(Announcing(c)) <= undone[c] + HeldCount(c)
        /\ Cardinality(Announcing(c)) \in Nat
    BY FS_CardinalityType DEF Counted, CountedFor
  <2>2. HeldCount(c)' = HeldCount(c) /\ undone'[c] = undone[c]
    BY <1>2 DEF HeldCount
  <2>3. Announcing(c)' = Announcing(c) \ {t}
    <3>1. t \notin Announcing(c)'
      BY <1>3 DEF Announcing
    <3>2. \A u \in Task \ {t} : u \in Announcing(c)' <=> u \in Announcing(c)
      BY <1>2 DEF Announcing
    <3>3. Announcing(c) \subseteq Task /\ Announcing(c)' \subseteq Task
      BY DEF Announcing
    <3> QED
      BY <3>1, <3>2, <3>3
  <2>4. /\ IsFiniteSet(Announcing(c)')
        /\ Cardinality(Announcing(c)') =
             IF t \in Announcing(c) THEN Cardinality(Announcing(c)) - 1
             ELSE Cardinality(Announcing(c))
    BY <2>1, <2>3, FS_RemoveElement
  <2>5. received[c] \in Nat /\ undone[c] \in Nat /\ HeldCount(c) \in Nat
    BY DEF TypeOK, HeldCount
  <2>6. CASE t \in Announcing(c)
    <3>1. e.type = "FundsReceived" /\ e.coin = c
      BY <2>6 DEF Announcing
    <3>2. received' = [received EXCEPT ![c] = @ + 1]
      BY <3>1 DEF Emit
    <3>3. received'[c] = received[c] + 1
      BY <3>2 DEF TypeOK
    <3> QED
      BY <2>1, <2>2, <2>4, <2>5, <2>6, <3>3 DEF CountedFor
  <2>7. CASE t \notin Announcing(c)
    <3>1. received'[c] = received[c]
      <4>1. CASE e.type = "FundsReceived"
        <5>1. e.coin # c
          BY <1>1, <2>7, <4>1 DEF Announcing
        <5> QED
          BY <4>1, <5>1 DEF Emit, TypeOK
      <4>2. CASE e.type # "FundsReceived"
        BY <4>2 DEF Emit
      <4> QED
        BY <4>1, <4>2
    <3> QED
      BY <2>1, <2>2, <2>4, <2>5, <2>7, <3>1 DEF CountedFor
  <2> QED
    BY <2>6, <2>7
<1> QED
  BY <1>4, <1>5 DEF Counted

LEMMA CountedApply ==
  ASSUME TypeOK, Counted, NEW t \in Task, Apply(t)
  PROVE  Counted'
<1> PICK r \in batch[t] :
      /\ coins' = [coins EXCEPT ![r[1]] = r[2]]
      /\ out' = [out EXCEPT ![t] = EventsFor(r[1], r[2], Classify(coins[r[1]], r[2]))]
  BY DEF Apply
<1> DEFINE d == r[1]
           rec == r[2]
<1>1. d \in Coin /\ rec \in CoinRecord /\ coins[d] \in CoinRecord \cup {NoCoin}
  BY DEF TypeOK, CoinTable
<1>2. out[t] = << >> /\ UNCHANGED <<received, undone>>
  BY DEF Apply, heard
<1>3. /\ coins'[d] # NoCoin
      /\ \A c \in Coin \ {d} : coins'[c] = coins[c]
  BY <1>1, NoCoinAssumption DEF TypeOK, CoinTable
<1>4. /\ out'[t] = EventsFor(d, rec, Classify(coins[d], rec))
      /\ \A u \in Task \ {t} : out'[u] = out[u]
  BY DEF TypeOK
<1> HIDE DEF d, rec
<1>5. \/ out'[t] = << >>
      \/ out'[t] = <<CoinStateChanged(d, rec)>>
      \/ out'[t] = <<Funds("FundsReceived", d), CoinStateChanged(d, rec)>> /\ coins[d] = NoCoin
      \/ out'[t] = <<Funds("FundsSent", d), CoinStateChanged(d, rec)>>
  BY <1>1, <1>4, ChangeEvents
<1>6. \A u \in Task : FundsFirst(u)'
  <2>1. FundsFirst(t)'
    <3>1. CoinStateChanged(d, rec).type = "CoinStateChanged"
      BY DEF CoinStateChanged
    <3> DEFINE e == CoinStateChanged(d, rec)
               q == out'[t]
    <3>2. q = << >> \/ q = <<e>> \/ \E f : q = <<f, e>>
      BY <1>5
    <3>3. e.type = "CoinStateChanged"
      BY <3>1
    <3> HIDE DEF e, q
    <3>4. Len(q) <= 2 /\ (Len(q) = 2 => q[2].type = "CoinStateChanged")
      BY <3>2, <3>3
    <3> QED
      BY <3>4 DEF FundsFirst, q
  <2> QED
    BY <1>4, <2>1 DEF FundsFirst, Counted
<1>7. ASSUME NEW c \in Coin
      PROVE  CountedFor(c)'
  <2>1. /\ IsFiniteSet(Announcing(c))
        /\ received[c] + Cardinality(Announcing(c)) <= undone[c] + HeldCount(c)
        /\ Cardinality(Announcing(c)) \in Nat
    BY FS_CardinalityType DEF Counted, CountedFor
  <2>2. t \notin Announcing(c)
    BY <1>2 DEF Announcing
  <2>3. \A u \in Task \ {t} : u \in Announcing(c)' <=> u \in Announcing(c)
    BY <1>4 DEF Announcing
  <2>4. Announcing(c) \subseteq Task /\ Announcing(c)' \subseteq Task
    BY DEF Announcing
  <2>5. /\ received'[c] = received[c] /\ undone'[c] = undone[c]
        /\ received[c] \in Nat /\ undone[c] \in Nat
    BY <1>2 DEF TypeOK
  <2>6. CASE t \in Announcing(c)'
    <3>1. c = d /\ coins[d] = NoCoin
      BY <1>5, <2>6 DEF Announcing, CoinStateChanged, Funds
    <3>2. HeldCount(c) = 0 /\ HeldCount(c)' = 1
      BY <1>3, <3>1 DEF HeldCount
    <3>3. Announcing(c)' = Announcing(c) \cup {t}
      BY <2>3, <2>4, <2>6
    <3>4. IsFiniteSet(Announcing(c)') /\ Cardinality(Announcing(c)') = Cardinality(Announcing(c)) + 1
      BY <2>1, <2>2, <3>3, FS_AddElement
    <3> QED
      BY <2>1, <2>5, <3>2, <3>4 DEF CountedFor
  <2>7. CASE t \notin Announcing(c)'
    <3>1. Announcing(c)' = Announcing(c)
      <4>1. PICK new : new = Announcing(c)'
        OBVIOUS
      <4>2. PICK old : old = Announcing(c)
        OBVIOUS
      <4>3. \A u : u \in new <=> u \in old
        BY <2>2, <2>3, <2>4, <2>7, <4>1, <4>2
      <4> QED
        BY <4>1, <4>2, <4>3
    <3>2. /\ HeldCount(c) \in Nat /\ HeldCount(c)' \in Nat
          /\ HeldCount(c) <= HeldCount(c)'
      BY <1>1, <1>3 DEF HeldCount
    <3> QED
      BY <2>1, <2>5, <3>1, <3>2 DEF CountedFor
  <2> QED
    BY <2>6, <2>7
<1> QED
  BY <1>6, <1>7 DEF Counted

LEMMA CountedReorg ==
  ASSUME TypeOK, TypeOK', Counted, NEW t \in Task, HandleReorg(t)
  PROVE  Counted'
<1> DEFINE fork == Head(reorgs)
<1>1. /\ coins' = RolledBack(coins, fork)
      /\ undone' = [c \in Coin |->
                       IF c \in Affected(coins, fork) THEN undone[c] + 1 ELSE undone[c]]
      /\ UNCHANGED <<out, received>>
  BY DEF HandleReorg, heard
<1> HIDE DEF fork
<1>2. ASSUME NEW c \in Coin
      PROVE  undone[c] + HeldCount(c) <= undone'[c] + HeldCount(c)'
  <2>1. undone[c] \in Nat
    BY DEF TypeOK
  <2>2. CASE c \in Affected(coins, fork)
    BY <1>1, <2>1, <2>2 DEF HeldCount
  <2>3. CASE c \notin Affected(coins, fork)
    <3>1. coins'[c] = coins[c] /\ undone'[c] = undone[c]
      BY <1>1, <2>3, RolledBackRest
    <3> QED
      BY <2>1, <3>1 DEF HeldCount
  <2> QED
    BY <2>2, <2>3
<1> QED
  BY <1>1, <1>2, CountedFrame

LEMMA CountedAnnounce ==
  ASSUME TypeOK, Counted, NEW t \in Task, AnnounceAffected(t)
  PROVE  Counted'
<1> PICK d \in ids[t] :
      out' = [out EXCEPT ![t] = <<CoinStateChanged(d, View(d))>>]
  BY DEF AnnounceAffected, View
<1>1. /\ out[t] = << >>
      /\ out'[t] = <<CoinStateChanged(d, View(d))>>
      /\ \A u \in Task \ {t} : out'[u] = out[u]
      /\ UNCHANGED <<received, undone, coins>>
  BY DEF AnnounceAffected, heard, store, TypeOK
<1>2. \A u \in Task : FundsFirst(u)'
  BY <1>1 DEF FundsFirst, Counted
<1>3. ASSUME NEW c \in Coin
      PROVE  Announcing(c)' = Announcing(c)
  BY <1>1 DEF Announcing, CoinStateChanged
<1>4. \A c \in Coin : HeldCount(c)' = HeldCount(c)
  BY <1>1 DEF HeldCount
<1> QED
  BY <1>1, <1>2, <1>3, <1>4 DEF Counted, CountedFor

LEMMA CountedStep ==
  ASSUME TypeOK, TypeOK', Counted, [Next]_vars
  PROVE  Counted'
<1>1. CASE UNCHANGED <<out, received, undone, coins>>
  <2>1. \A c \in Coin : undone[c] + HeldCount(c) <= undone'[c] + HeldCount(c)'
    BY <1>1 DEF TypeOK, HeldCount
  <2> QED
    BY <1>1, <2>1, CountedFrame
<1>2. CASE Block \/ Fork \/ UNCHANGED vars
  BY <1>1, <1>2 DEF Block, Fork, vars, store, local, heard
<1>3. ASSUME NEW t \in Task,
             \/ SetPeak(t) \/ MarkSynced(t) \/ SetSyncStatus(t) \/ PublishProgress(t)
             \/ FetchFromPeer(t) \/ EndAffected(t)
      PROVE  Counted'
  BY <1>1, <1>3 DEF SetPeak, MarkSynced, SetSyncStatus, PublishProgress, FetchFromPeer,
                    EndAffected, store, heard
<1>4. ASSUME NEW t \in Task,
             PointRead(t) \/ EndFallback(t) \/ StartFallback(t) \/ StartResolve(t)
      PROVE  Counted'
  BY <1>1, <1>4 DEF PointRead, EndFallback, StartFallback, StartResolve, store, heard
<1> QED
  BY <1>2, <1>3, <1>4, CountedEmit, CountedApply, CountedReorg, CountedAnnounce
  DEF Next, Continue, Begin

(* Whoever calls the engine, and however their calls interleave, a coin is  *)
(* announced as inbound once, and once more per rollback that touched it:   *)
(* upsert_coin classifies and writes in one critical section, so of the     *)
(* callers that ingest the same coin only one finds it unknown.             *)
THEOREM InboundAnnouncedOnce == Spec => []ReceivedOnce
<1>1. Init => TypeOK /\ Counted
  BY TypeInit, CountedInit
<1>2. TypeOK /\ Counted /\ [Next]_vars => TypeOK' /\ Counted'
  BY TypeStep, CountedStep
<1>3. TypeOK /\ Counted => ReceivedOnce
  <2> SUFFICES ASSUME TypeOK, Counted, NEW c \in Coin
               PROVE  received[c] <= 1 + undone[c]
    BY DEF ReceivedOnce
  <2>1. /\ received[c] + Cardinality(Announcing(c)) <= undone[c] + HeldCount(c)
        /\ Cardinality(Announcing(c)) \in Nat
    BY FS_CardinalityType DEF Counted, CountedFor
  <2>2. received[c] \in Nat /\ undone[c] \in Nat /\ HeldCount(c) \in {0, 1}
    BY DEF TypeOK, HeldCount
  <2> QED
    BY <2>1, <2>2
<1> QED
  BY <1>1, <1>2, <1>3, PTL DEF Spec

-----------------------------------------------------------------------------
(* One caller: what the wallet says of its progress.                        *)

(* Between the calls the status is told as it is recorded and a Synced      *)
(* wallet has processed its target; within a call the lifecycle and the     *)
(* height about to be recorded belong together.                             *)
Reporting(t) ==
  /\ pc[t] \in {"idle", "peer", "point", "read", "mark"} =>
       /\ told_sync = <<lifecycle, target>>
       /\ lifecycle = "Synced" => peak >= target
  /\ pc[t] = "affected" => goal[t] = "Syncing"
  /\ pc[t] \in {"status", "progress"} /\ goal[t] = "Synced" => peak >= height[t]
  /\ pc[t] = "progress" => lifecycle = goal[t] /\ target = height[t]

LEMMA ReportingStep ==
  ASSUME NEW t, Task = {t}, TypeOK, Reporting(t), [Next]_vars
  PROVE  Reporting(t)'
<1> t \in Task
  OBVIOUS
<1>1. CASE Block \/ Fork \/ Emit(t) \/ UNCHANGED vars
  <2>1. UNCHANGED <<store, pc, goal, height, told_sync>>
    BY <1>1 DEF Block, Fork, Emit, vars, local, heard, store
  <2> QED
    BY <2>1 DEF Reporting, store
<1>2. CASE Apply(t) \/ FetchFromPeer(t) \/ StartFallback(t) \/ StartResolve(t)
             \/ PointRead(t) \/ EndFallback(t)
  <2>1. /\ UNCHANGED <<peak, target, lifecycle, goal, height, told_sync>>
        /\ pc[t] \in {"idle", "peer", "point", "read", "mark"}
        /\ pc'[t] \in {"idle", "peer", "point", "read", "mark"}
    BY <1>2 DEF Apply, FetchFromPeer, StartFallback, StartResolve, PointRead, EndFallback,
                store, heard, TypeOK
  <2> QED
    BY <2>1 DEF Reporting
<1>3. CASE AnnounceAffected(t) \/ EndAffected(t)
  <2>1. /\ UNCHANGED <<peak, target, lifecycle, goal, height, told_sync>>
        /\ pc[t] = "affected" /\ pc'[t] \in {"affected", "status"}
    BY <1>3 DEF AnnounceAffected, EndAffected, StepAfterAffected, store, heard, TypeOK
  <2> QED
    BY <2>1 DEF Reporting
<1>4. CASE SetPeak(t)
  <2>1. /\ UNCHANGED <<target, lifecycle, goal, height, told_sync>>
        /\ pc[t] \in {"peer", "point"} /\ pc'[t] \in {"mark", "read"}
        /\ peak' = IF top[t] > peak THEN top[t] ELSE peak
    BY <1>4 DEF SetPeak, heard, TypeOK
  <2>2. top[t] \in Nat /\ peak \in Nat /\ target \in Nat
    BY DEF TypeOK
  <2>3. peak' >= peak /\ peak' \in Nat
    BY <2>1, <2>2
  <2> QED
    BY <2>1, <2>2, <2>3 DEF Reporting
<1>5. CASE MarkSynced(t)
  <2>1. /\ UNCHANGED <<peak, target, lifecycle, told_sync>>
        /\ pc'[t] = "status" /\ goal'[t] = "Synced" /\ height'[t] = peak
    BY <1>5 DEF MarkSynced, store, heard, TypeOK
  <2>2. peak \in Nat
    BY DEF TypeOK
  <2> QED
    BY <2>1, <2>2 DEF Reporting
<1>6. CASE SetSyncStatus(t)
  <2>1. /\ UNCHANGED <<peak, goal, height, told_sync>>
        /\ lifecycle' = goal[t] /\ target' = height[t]
        /\ pc[t] = "status" /\ pc'[t] = "progress"
    BY <1>6 DEF SetSyncStatus, heard, TypeOK
  <2> QED
    BY <2>1 DEF Reporting
<1>7. CASE PublishProgress(t)
  <2>1. /\ UNCHANGED <<peak, target, lifecycle>>
        /\ told_sync' = <<goal[t], height[t]>>
        /\ pc[t] = "progress" /\ pc'[t] = "idle"
    BY <1>7 DEF PublishProgress, store, TypeOK
  <2> QED
    BY <2>1 DEF Reporting
<1>8. CASE HandleReorg(t)
  <2>1. pc'[t] = "affected" /\ goal'[t] = "Syncing"
    BY <1>8 DEF HandleReorg, TypeOK
  <2> QED
    BY <2>1 DEF Reporting
<1> QED
  BY <1>1, <1>2, <1>3, <1>4, <1>5, <1>6, <1>7, <1>8 DEF Next, Continue, Begin

(* With one caller a wallet that says Synced has processed its target, and  *)
(* the last SyncProgress said the same: mark_synced records the peak it     *)
(* read, and handle_reorg, which alone moves the peak back, ends with the   *)
(* status Syncing.                                                          *)
THEOREM SoloSyncedAtTarget ==
  ASSUME NEW t, Task = {t}
  PROVE  Spec => []SyncedAtTarget
<1>1. Init => TypeOK /\ Reporting(t)
  BY TypeInit DEF Init, Reporting
<1>2. TypeOK /\ Reporting(t) /\ [Next]_vars => TypeOK' /\ Reporting(t)'
  BY TypeStep, ReportingStep
<1>3. Reporting(t) => SyncedAtTarget
  BY DEF Reporting, SyncedAtTarget, Quiet
<1> QED
  BY <1>1, <1>2, <1>3, PTL DEF Spec

-----------------------------------------------------------------------------
(* One caller: the store and the chain.                                     *)

(* No reorganisation still to be handled undoes the block of this height. *)
Lasting(m) == \A i \in 1..Len(reorgs) : m <= reorgs[i]

(* Whatever the pending rollbacks leave of the record is on the chain. *)
Explained(c, rec) ==
  /\ rec.created > 0
  /\ \A m \in Nat : Lasting(m) /\ rec.created <= m =>
       /\ rec.created = truth[c].created
       /\ rec.spent <= m => rec.spent \in {0, truth[c].spent}

(* The inductive invariant of the store.  An answer that is being applied   *)
(* may be older than a fork, but then the fork is still to be handled.      *)
OnChain(t) ==
  /\ \A c \in Held(coins) : Explained(c, coins[c])
  /\ \A r \in batch[t] : Explained(r[1], r[2])
  /\ pc[t] \notin {"peer", "point"} => batch[t] = {}

LEMMA LastingFork ==
  ASSUME reorgs \in Seq(Nat), NEW f \in Nat, reorgs' = Append(reorgs, f), NEW m \in Nat,
         Lasting(m)'
  PROVE  Lasting(m) /\ m <= f
<1>1. /\ Len(reorgs') = Len(reorgs) + 1
      /\ reorgs'[Len(reorgs) + 1] = f
      /\ \A i \in 1..Len(reorgs) : reorgs'[i] = reorgs[i]
  OBVIOUS
<1>2. Len(reorgs) \in Nat
  OBVIOUS
<1> QED
  BY <1>1, <1>2 DEF Lasting

LEMMA LastingTail ==
  ASSUME reorgs \in Seq(Nat), reorgs # << >>, reorgs' = Tail(reorgs), NEW m \in Nat,
         Lasting(m)', m <= Head(reorgs)
  PROVE  Lasting(m)
<1>1. /\ Len(reorgs') = Len(reorgs) - 1
      /\ \A i \in 1..Len(reorgs') : reorgs'[i] = reorgs[i + 1]
      /\ Head(reorgs) = reorgs[1]
  BY HeadTailProperties
<1>2. Len(reorgs) \in Nat
  OBVIOUS
<1>3. ASSUME NEW i \in 1..Len(reorgs), i # 1
      PROVE  m <= reorgs[i]
  <2>1. i - 1 \in 1..Len(reorgs') /\ reorgs'[i - 1] = reorgs[i]
    BY <1>1, <1>2, <1>3
  <2> QED
    BY <2>1 DEF Lasting
<1> QED
  BY <1>1, <1>3 DEF Lasting

(* A new block leaves explained records explained ... *)
LEMMA ExplainedBlock ==
  ASSUME TypeOK, Block, NEW c \in Coin, NEW rec \in CoinRecord, Explained(c, rec)
  PROVE  Explained(c, rec)'
<1>1. \A m : Lasting(m)' <=> Lasting(m)
  BY DEF Block, Lasting
<1>2. \/ truth'[c] = truth[c]
      \/ truth[c].created = 0
      \/ truth'[c].created = truth[c].created /\ truth[c].spent = 0
  <2> PICK born \in SUBSET {d \in Coin : truth[d].created = 0},
           gone \in SUBSET {d \in Coin : truth[d].created # 0 /\ truth[d].spent = 0} :
        truth' = [d \in Coin |->
                    IF d \in born THEN [created |-> tip + 1, spent |-> 0]
                    ELSE IF d \in gone THEN [truth[d] EXCEPT !.spent = tip + 1]
                    ELSE truth[d]]
    BY DEF Block
  <2>1. truth[c] \in CoinRecord
    BY DEF TypeOK
  <2> QED
    BY <2>1 DEF CoinRecord
<1> QED
  BY <1>1, <1>2 DEF Explained, CoinRecord

(* ... and so does a fork, which is then still to be handled. *)
LEMMA ExplainedFork ==
  ASSUME TypeOK, Fork, NEW c \in Coin, NEW rec \in CoinRecord, Explained(c, rec)
  PROVE  Explained(c, rec)'
<1> PICK f \in 0..(tip - 1) :
      /\ tip' = f
      /\ truth' = [d \in Coin |->
                     IF truth[d].created > f THEN Unborn
                     ELSE IF truth[d].spent > f THEN [truth[d] EXCEPT !.spent = 0]
                     ELSE truth[d]]
      /\ reorgs' = Append(reorgs, f)
  BY DEF Fork
<1>1. f \in Nat /\ reorgs \in Seq(Nat) /\ truth[c] \in CoinRecord
  BY DEF TypeOK
<1>2. truth'[c] = IF truth[c].created > f THEN Unborn
                  ELSE IF truth[c].spent > f THEN [truth[c] EXCEPT !.spent = 0]
                  ELSE truth[c]
  OBVIOUS
<1>3. ASSUME NEW m \in Nat, Lasting(m)', rec.created <= m
      PROVE  /\ rec.created = truth'[c].created
             /\ rec.spent <= m => rec.spent \in {0, truth'[c].spent}
  <2>1. Lasting(m) /\ m <= f
    BY <1>1, <1>3, LastingFork
  <2>2. /\ rec.created = truth[c].created
        /\ rec.spent <= m => rec.spent \in {0, truth[c].spent}
    BY <1>3, <2>1 DEF Explained
  <2>3. truth[c].created <= f
    BY <1>1, <1>3, <2>1, <2>2 DEF CoinRecord
  <2>4. /\ truth'[c].created = truth[c].created
        /\ truth[c].spent <= f => truth'[c].spent = truth[c].spent
    BY <1>1, <1>2, <2>3 DEF CoinRecord
  <2> QED
    BY <1>1, <1>3, <2>1, <2>2, <2>4 DEF CoinRecord
<1> QED
  BY <1>3 DEF Explained

(* What a rollback leaves of an explained record is explained by the rest   *)
(* of the reorganisations.                                                  *)
LEMMA ExplainedReorg ==
  ASSUME TypeOK, NEW t \in Task, HandleReorg(t), NEW c \in Held(coins), coins'[c] # NoCoin,
         Explained(c, coins[c])
  PROVE  Explained(c, coins[c])'
<1>1. reorgs \in Seq(Nat) /\ reorgs # << >> /\ reorgs' = Tail(reorgs)
  BY DEF HandleReorg, TypeOK
<1> PICK fork \in Nat : fork = Head(reorgs)
  BY <1>1, HeadTailProperties
<1>2. coins' = RolledBack(coins, fork) /\ truth' = truth
  BY DEF HandleReorg, chain
<1>3. c \in Coin /\ coins[c] \in CoinRecord
  BY DEF Held, TypeOK, CoinTable
<1>4. /\ coins[c].created <= fork
      /\ coins'[c].created = coins[c].created
      /\ coins'[c].spent = IF coins[c].spent > fork THEN 0 ELSE coins[c].spent
  <2>1. c \notin CreatedAfter(coins, fork)
    BY <1>2, <1>3 DEF RolledBack
  <2>2. coins'[c] = IF coins[c].spent > fork THEN [coins[c] EXCEPT !.spent = 0] ELSE coins[c]
    BY <1>2, <1>3, <2>1 DEF RolledBack, SpentAfter
  <2> QED
    BY <1>3, <2>1, <2>2 DEF CreatedAfter, CoinRecord
<1>5. ASSUME NEW m \in Nat, Lasting(m)', coins'[c].created <= m
      PROVE  /\ coins'[c].created = truth[c].created
             /\ coins'[c].spent <= m => coins'[c].spent \in {0, truth[c].spent}
  <2>1. PICK n \in Nat : n <= m /\ n <= fork /\ n \in {m, fork}
    OBVIOUS
  <2>2. Lasting(n)'
    <3>1. \A i \in 1..Len(reorgs') : reorgs'[i] \in Nat
      BY <1>1
    <3> SUFFICES ASSUME NEW i \in 1..Len(reorgs')
                 PROVE  n <= reorgs'[i]
      BY DEF Lasting
    <3>2. m <= reorgs'[i] /\ reorgs'[i] \in Nat
      BY <1>5, <3>1 DEF Lasting
    <3> QED
      BY <1>5, <2>1, <3>2
  <2>3. Lasting(n)
    BY <1>1, <2>1, <2>2, LastingTail
  <2>4. coins[c].created <= n
    BY <1>3, <1>4, <1>5, <2>1 DEF CoinRecord
  <2>5. /\ coins[c].created = truth[c].created
        /\ coins[c].spent <= n => coins[c].spent \in {0, truth[c].spent}
    BY <2>1, <2>3, <2>4 DEF Explained
  <2> QED
    BY <1>3, <1>4, <1>5, <2>1, <2>5 DEF CoinRecord
<1> QED
  BY <1>2, <1>4, <1>5 DEF Explained

(* A step that leaves the chain, the store and the fetched records alone. *)
LEMMA OnChainFrame ==
  ASSUME NEW t \in Task, OnChain(t), UNCHANGED <<truth, reorgs, coins, batch>>,
         pc'[t] \in {"peer", "point"} \/ batch[t] = {}
  PROVE  OnChain(t)'
<1>1. \A m : Lasting(m)' <=> Lasting(m)
  BY DEF Lasting
<1>2. \A c, rec : Explained(c, rec) => Explained(c, rec)'
  BY <1>1 DEF Explained
<1> QED
  BY <1>2 DEF OnChain, Held

LEMMA OnChainStep ==
  ASSUME NEW t, Task = {t}, TypeOK, OnChain(t), [Next]_vars
  PROVE  OnChain(t)'
<1> t \in Task
  OBVIOUS
<1>1. CASE Block \/ Fork
  <2>1. \A c \in Coin, rec \in CoinRecord : Explained(c, rec) => Explained(c, rec)'
    BY <1>1, ExplainedBlock, ExplainedFork
  <2>2. UNCHANGED <<coins, batch, pc>>
    BY <1>1 DEF Block, Fork, store, local
  <2>3. ASSUME NEW c \in Held(coins)
        PROVE  c \in Coin /\ coins[c] \in CoinRecord
    BY DEF Held, TypeOK, CoinTable
  <2>4. ASSUME NEW r \in batch[t]
        PROVE  r[1] \in Coin /\ r[2] \in CoinRecord
    BY DEF TypeOK
  <2> QED
    BY <2>1, <2>2, <2>3, <2>4 DEF OnChain, Held
<1>2. CASE \/ Emit(t) \/ MarkSynced(t) \/ SetSyncStatus(t) \/ PublishProgress(t)
           \/ AnnounceAffected(t) \/ EndAffected(t) \/ UNCHANGED vars
  <2>1. UNCHANGED <<truth, reorgs, coins, batch>>
    BY <1>2 DEF Emit, MarkSynced, SetSyncStatus, PublishProgress, AnnounceAffected, EndAffected,
                vars, chain, store, local
  <2>2. pc'[t] = pc[t] \/ pc[t] \notin {"peer", "point"}
    BY <1>2 DEF Emit, MarkSynced, SetSyncStatus, PublishProgress, AnnounceAffected, EndAffected,
                vars, local
  <2> QED
    BY <2>1, <2>2, OnChainFrame DEF OnChain
<1>3. CASE StartFallback(t) \/ StartResolve(t) \/ EndFallback(t)
  <2>1. UNCHANGED <<truth, reorgs, coins, batch>> /\ pc[t] \in {"idle", "read"}
    BY <1>3 DEF StartFallback, StartResolve, EndFallback, chain, store
  <2> QED
    BY <2>1, OnChainFrame DEF OnChain
<1>4. CASE SetPeak(t)
  <2>1. UNCHANGED <<truth, reorgs, coins, batch>> /\ batch[t] = {}
    BY <1>4 DEF SetPeak, chain
  <2> QED
    BY <2>1, OnChainFrame
<1>5. CASE Apply(t)
  <2> PICK r \in batch[t] :
        /\ coins' = [coins EXCEPT ![r[1]] = r[2]]
        /\ batch' = [batch EXCEPT ![t] = @ \ {r}]
    BY <1>5 DEF Apply
  <2>1. \A m : Lasting(m)' <=> Lasting(m)
    BY <1>5 DEF Apply, Lasting
  <2>2. \A c, rec : Explained(c, rec) => Explained(c, rec)'
    BY <1>5, <2>1 DEF Apply, chain, Explained
  <2>3. /\ batch'[t] \subseteq batch[t]
        /\ pc'[t] \in {"peer", "point"}
    BY <1>5 DEF Apply, TypeOK
  <2>4. Explained(r[1], r[2]) /\ r[1] \in Coin
    BY DEF OnChain, TypeOK
  <2>5. ASSUME NEW c \in Held(coins)'
        PROVE  Explained(c, coins'[c])
    <3>1. coins'[c] = IF c = r[1] THEN r[2] ELSE coins[c]
      BY <2>4 DEF TypeOK, CoinTable, Held
    <3> QED
      BY <2>4, <3>1 DEF OnChain, Held
  <2> QED
    BY <2>2, <2>3, <2>5 DEF OnChain
<1>6. ASSUME FetchFromPeer(t) \/ PointRead(t)
      PROVE  OnChain(t)'
  <2>1. UNCHANGED <<truth, reorgs, coins>> /\ batch[t] = {}
    BY <1>6 DEF FetchFromPeer, PointRead, OnChain, chain, store
  <2>2. \A m : Lasting(m)' <=> Lasting(m)
    BY <2>1 DEF Lasting
  <2>3. \A c, rec : Explained(c, rec) => Explained(c, rec)'
    BY <2>1, <2>2 DEF Explained
  <2>4. ASSUME NEW c \in Coin, truth[c].created # 0
        PROVE  Explained(c, truth[c])
    BY <2>4 DEF Explained, TypeOK, CoinRecord
  <2>5. \/ batch'[t] = {<<c, truth[c]>> : c \in {d \in Coin : truth[d].created # 0}}
           /\ pc'[t] = "peer"
        \/ \E c \in Coin : truth[c].created # 0 /\ batch'[t] = {<<c, truth[c]>>}
                           /\ pc'[t] = "point"
        \/ batch'[t] = {}
    <3>1. CASE FetchFromPeer(t)
      BY <3>1 DEF FetchFromPeer, TypeOK
    <3>2. CASE PointRead(t)
      BY <2>1, <3>2 DEF PointRead, TypeOK
    <3> QED
      BY <1>6, <3>1, <3>2
  <2>6. \A r \in batch'[t] : Explained(r[1], r[2])
    BY <2>4, <2>5
  <2> QED
    BY <2>1, <2>3, <2>5, <2>6 DEF OnChain, Held
<1>7. CASE HandleReorg(t)
  <2>1. /\ batch' = batch /\ batch[t] = {}
        /\ coins' = RolledBack(coins, Head(reorgs))
    BY <1>7 DEF HandleReorg, OnChain
  <2>2. ASSUME NEW c \in Held(coins)'
        PROVE  Explained(c, coins[c])'
    <3>1. c \in Held(coins) /\ coins'[c] # NoCoin
      BY <2>1 DEF Held, RolledBack, CreatedAfter, SpentAfter
    <3> QED
      BY <1>7, <3>1, ExplainedReorg DEF OnChain
  <2> QED
    BY <2>1, <2>2 DEF OnChain
<1> QED
  BY <1>1, <1>2, <1>3, <1>4, <1>5, <1>6, <1>7 DEF Next, Continue, Begin

(* With one caller no orphan survives: once every reorganisation is         *)
(* handled, each coin of the wallet is on the chain where the wallet has    *)
(* it, whatever stale answers were applied in between (rollback_to, ingest).*)
THEOREM SoloStoreOnChain ==
  ASSUME NEW t, Task = {t}
  PROVE  Spec => []StoreOnChain
<1>1. Init => TypeOK /\ OnChain(t)
  BY TypeInit DEF Init, OnChain, Held
<1>2. TypeOK /\ OnChain(t) /\ [Next]_vars => TypeOK' /\ OnChain(t)'
  BY TypeStep, OnChainStep
<1>3. TypeOK /\ OnChain(t) => StoreOnChain
  <2> SUFFICES ASSUME TypeOK, OnChain(t), reorgs = << >>, NEW c \in Held(coins)
               PROVE  /\ coins[c].created = truth[c].created
                      /\ coins[c].spent \in {0, truth[c].spent}
    BY DEF StoreOnChain, Settled
  <2>1. \A m \in Nat : Lasting(m)
    BY DEF Lasting
  <2>2. coins[c] \in CoinRecord
    BY DEF Held, TypeOK, CoinTable
  <2>3. PICK m \in Nat : coins[c].created <= m /\ coins[c].spent <= m
    <3>1. coins[c].created \in Nat /\ coins[c].spent \in Nat
      BY <2>2 DEF CoinRecord
    <3> QED
      BY <3>1
  <2>4. Explained(c, coins[c])
    BY DEF OnChain
  <2> QED
    BY <2>1, <2>3, <2>4 DEF Explained
<1> QED
  BY <1>1, <1>2, <1>3, PTL DEF Spec

-----------------------------------------------------------------------------
(* One caller: the peak and the chain.                                      *)

(* A height the wallet has seen is on the chain, unless a fork that may     *)
(* have undone it is still to be handled.                                   *)
OnTip(h) == reorgs = << >> => h <= tip

(* The chain's records end at its tip, and so does the last reorganisation. *)
ChainEnds ==
  /\ \A c \in Coin : truth[c].created <= tip /\ truth[c].spent <= tip
  /\ reorgs # << >> => reorgs[Len(reorgs)] <= tip

PeakSeen(t) ==
  /\ ChainEnds
  /\ OnTip(peak)
  /\ OnTip(top[t])
  /\ \A r \in batch[t] : OnTip(r[2].created) /\ OnTip(r[2].spent)
  /\ pc[t] \notin {"peer", "point"} => top[t] = 0 /\ batch[t] = {}

LEMMA ChainEndsStep ==
  ASSUME TypeOK, ChainEnds, Block \/ Fork
  PROVE  ChainEnds'
<1>1. tip \in Nat /\ reorgs \in Seq(Nat) /\ \A c \in Coin : truth[c] \in CoinRecord
  BY DEF TypeOK
<1>2. CASE Block
  <2> PICK born \in SUBSET {d \in Coin : truth[d].created = 0},
           gone \in SUBSET {d \in Coin : truth[d].created # 0 /\ truth[d].spent = 0} :
        truth' = [d \in Coin |->
                    IF d \in born THEN [created |-> tip + 1, spent |-> 0]
                    ELSE IF d \in gone THEN [truth[d] EXCEPT !.spent = tip + 1]
                    ELSE truth[d]]
    BY <1>2 DEF Block
  <2>1. tip' = tip + 1 /\ reorgs' = reorgs
    BY <1>2 DEF Block
  <2>2. ASSUME NEW c \in Coin
        PROVE  truth'[c].created <= tip' /\ truth'[c].spent <= tip'
    BY <1>1, <2>1 DEF ChainEnds, CoinRecord
  <2>3. reorgs # << >> => reorgs[Len(reorgs)] \in Nat
    BY <1>1
  <2> QED
    BY <1>1, <2>1, <2>2, <2>3 DEF ChainEnds
<1>3. CASE Fork
  <2> PICK f \in 0..(tip - 1) :
        /\ tip' = f
        /\ truth' = [d \in Coin |->
                       IF truth[d].created > f THEN Unborn
                       ELSE IF truth[d].spent > f THEN [truth[d] EXCEPT !.spent = 0]
                       ELSE truth[d]]
        /\ reorgs' = Append(reorgs, f)
    BY <1>3 DEF Fork
  <2>1. ASSUME NEW c \in Coin
        PROVE  truth'[c].created <= tip' /\ truth'[c].spent <= tip'
    BY <1>1 DEF CoinRecord, Unborn
  <2>2. reorgs'[Len(reorgs')] = f
    BY <1>1
  <2> QED
    BY <2>1, <2>2 DEF ChainEnds
<1> QED
  BY <1>2, <1>3

LEMMA PeakSeenStep ==
  ASSUME NEW t, Task = {t}, TypeOK, PeakSeen(t), [Next]_vars
  PROVE  PeakSeen(t)'
<1> t \in Task
  OBVIOUS
<1>1. CASE Block \/ Fork
  <2>1. UNCHANGED <<peak, top, batch, pc>>
    BY <1>1 DEF Block, Fork, store, local
  <2>2. ASSUME NEW h \in Nat, OnTip(h)
        PROVE  OnTip(h)'
    <3>1. CASE Block
      BY <2>2, <3>1 DEF Block, OnTip, TypeOK
    <3>2. CASE Fork
      <4>1. PICK f : reorgs' = Append(reorgs, f)
        BY <3>2 DEF Fork
      <4>2. reorgs \in Seq(Nat)
        BY DEF TypeOK
      <4>3. Len(reorgs') # 0
        BY <4>1, <4>2
      <4>4. reorgs' # << >>
        BY <4>3
      <4> QED
        BY <4>4 DEF OnTip
    <3> QED
      BY <1>1, <3>1, <3>2
  <2>3. peak \in Nat /\ top[t] \in Nat
    BY DEF TypeOK
  <2>4. \A r \in batch[t] : r[2].created \in Nat /\ r[2].spent \in Nat
    BY DEF TypeOK, CoinRecord
  <2>5. ChainEnds'
    BY <1>1, ChainEndsStep DEF PeakSeen
  <2>6. OnTip(peak)' /\ OnTip(top[t])'
    BY <2>1, <2>2, <2>3 DEF PeakSeen, OnTip
  <2>7. \A r \in batch'[t] : OnTip(r[2].created)' /\ OnTip(r[2].spent)'
    BY <2>1, <2>2, <2>4 DEF PeakSeen
  <2> QED
    BY <2>1, <2>5, <2>6, <2>7 DEF PeakSeen
<1>2. ASSUME UNCHANGED <<truth, tip, reorgs>>
      PROVE  ChainEnds' /\ \A h : OnTip(h) => OnTip(h)'
  BY <1>2 DEF PeakSeen, ChainEnds, OnTip
<1>3. CASE \/ Emit(t) \/ MarkSynced(t) \/ SetSyncStatus(t) \/ PublishProgress(t)
           \/ AnnounceAffected(t) \/ EndAffected(t) \/ UNCHANGED vars
           \/ StartFallback(t) \/ StartResolve(t) \/ EndFallback(t)
  <2>1. UNCHANGED <<truth, tip, reorgs, peak, batch, top>>
    BY <1>3 DEF Emit, MarkSynced, SetSyncStatus, PublishProgress, AnnounceAffected, EndAffected,
                StartFallback, StartResolve, EndFallback, vars, chain, store, local
  <2>2. pc'[t] = pc[t] \/ pc[t] \notin {"peer", "point"}
    BY <1>3 DEF Emit, MarkSynced, SetSyncStatus, PublishProgress, AnnounceAffected, EndAffected,
                StartFallback, StartResolve, EndFallback, vars, local
  <2> QED
    BY <1>2, <2>1, <2>2 DEF PeakSeen
<1>4. CASE FetchFromPeer(t) \/ PointRead(t)
  <2>1. /\ UNCHANGED <<truth, tip, reorgs, peak, top>>
        /\ pc[t] \notin {"peer", "point"}
    BY <1>4 DEF FetchFromPeer, PointRead, chain, store
  <2>2. \/ batch'[t] = {<<c, truth[c]>> : c \in {d \in Coin : truth[d].created # 0}}
           /\ pc'[t] = "peer"
        \/ \E c \in Coin : batch'[t] = {<<c, truth[c]>>} /\ pc'[t] = "point"
        \/ batch'[t] = batch[t]
    <3>1. CASE FetchFromPeer(t)
      BY <3>1 DEF FetchFromPeer, TypeOK
    <3>2. CASE PointRead(t)
      BY <3>2 DEF PointRead, TypeOK
    <3> QED
      BY <1>4, <3>1, <3>2
  <2>3. \A c \in Coin : OnTip(truth[c].created) /\ OnTip(truth[c].spent)
    BY DEF PeakSeen, ChainEnds, OnTip
  <2>4. batch[t] = {} /\ top[t] = 0
    BY <2>1 DEF PeakSeen
  <2>5. \A r \in batch'[t] : OnTip(r[2].created) /\ OnTip(r[2].spent)
    BY <2>2, <2>3, <2>4
  <2>6. pc'[t] \notin {"peer", "point"} => batch'[t] = {}
    BY <2>2, <2>4
  <2> QED
    BY <1>2, <2>1, <2>4, <2>5, <2>6 DEF PeakSeen
<1>5. CASE Apply(t)
  <2> PICK r \in batch[t] :
        /\ top' = [top EXCEPT ![t] = HigherOf(@, r[2])]
        /\ batch' = [batch EXCEPT ![t] = @ \ {r}]
    BY <1>5 DEF Apply
  <2>1. UNCHANGED <<truth, tip, reorgs, peak, pc>> /\ pc[t] \in {"peer", "point"}
    BY <1>5 DEF Apply, chain
  <2>2. batch'[t] \subseteq batch[t] /\ top'[t] = HigherOf(top[t], r[2])
    BY DEF TypeOK
  <2>3. HigherOf(top[t], r[2]) \in {top[t], r[2].created, r[2].spent}
    BY DEF HigherOf
  <2>4. OnTip(top'[t])
    BY <2>2, <2>3 DEF PeakSeen
  <2> QED
    BY <1>2, <2>1, <2>2, <2>4 DEF PeakSeen
<1>6. CASE SetPeak(t)
  <2>1. /\ UNCHANGED <<truth, tip, reorgs, batch>> /\ batch[t] = {}
        /\ peak' \in {peak, top[t]} /\ top'[t] = 0
    BY <1>6 DEF SetPeak, chain, TypeOK
  <2>2. OnTip(0) /\ OnTip(peak')
    BY <2>1 DEF PeakSeen, OnTip, TypeOK
  <2> QED
    BY <1>2, <2>1, <2>2 DEF PeakSeen
<1>7. CASE HandleReorg(t)
  <2>1. /\ UNCHANGED <<truth, tip, top, batch>>
        /\ top[t] = 0 /\ batch[t] = {}
        /\ reorgs # << >> /\ reorgs' = Tail(reorgs) /\ peak' = Head(reorgs)
    BY <1>7 DEF HandleReorg, PeakAfter, chain, PeakSeen
  <2>2. reorgs \in Seq(Nat) /\ tip \in Nat
    BY DEF TypeOK
  <2>3. /\ reorgs' \in Seq(Nat)
        /\ Len(reorgs') = Len(reorgs) - 1
        /\ \A i \in 1..Len(reorgs') : reorgs'[i] = reorgs[i + 1]
        /\ Head(reorgs) = reorgs[1]
        /\ Len(reorgs) \in Nat
    BY <2>1, <2>2, HeadTailProperties, LenProperties
  <2>4. CASE reorgs' = << >>
    <3>1. Len(reorgs) = 1
      BY <2>3, <2>4
    <3>2. peak' <= tip'
      BY <2>1, <2>3, <3>1 DEF PeakSeen, ChainEnds
    <3> QED
      BY <2>1, <2>2, <2>4, <3>2 DEF PeakSeen, ChainEnds, OnTip
  <2>5. CASE reorgs' # << >>
    <3>1. Len(reorgs') \in 1..Len(reorgs')
      BY <2>3, <2>5, EmptySeq
    <3>2. reorgs'[Len(reorgs')] = reorgs[Len(reorgs)]
      BY <2>3, <3>1
    <3> QED
      BY <2>1, <2>5, <3>2 DEF PeakSeen, ChainEnds, OnTip
  <2> QED
    BY <2>4, <2>5
<1> QED
  BY <1>1, <1>3, <1>4, <1>5, <1>6, <1>7 DEF Next, Continue, Begin

(* With one caller the wallet never claims to have processed more than      *)
(* there is: once every reorganisation is handled its peak is at or below   *)
(* the chain's tip (set_peak moves it forward only, rollback_to resets it). *)
THEOREM SoloPeakOnChain ==
  ASSUME NEW t, Task = {t}
  PROVE  Spec => []PeakOnChain
<1>1. Init => TypeOK /\ PeakSeen(t)
  <2>1. Init => PeakSeen(t)
    BY DEF Init, PeakSeen, ChainEnds, OnTip, Unborn
  <2> QED
    BY <2>1, TypeInit
<1>2. TypeOK /\ PeakSeen(t) /\ [Next]_vars => TypeOK' /\ PeakSeen(t)'
  BY TypeStep, PeakSeenStep
<1>3. PeakSeen(t) => PeakOnChain
  BY DEF PeakSeen, OnTip, PeakOnChain, Settled
<1> QED
  BY <1>1, <1>2, <1>3, PTL DEF Spec
=============================================================================
