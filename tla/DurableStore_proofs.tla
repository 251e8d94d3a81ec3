------------------------- MODULE DurableStore_proofs -------------------------
(***************************************************************************)
(* Theorems about DurableStore, for every set of coins, every height and   *)
(* any number of failing statements and crashes.                           *)
(***************************************************************************)
EXTENDS DurableStore, DurableSchema, TLAPS

-----------------------------------------------------------------------------
(* The call under way has the fields its next statement needs.              *)

LEMMA UpsertType ==
  ASSUME call \in Calls, call.next = "upsert"
  PROVE  call.coin \in Coin /\ call.rec \in CoinRecord /\ call.change \in CoinChange
BY DEF Calls, Idle

LEMMA RollbackType ==
  ASSUME call \in Calls, call.next \in {"delete", "select", "unspend", "peak"}
  PROVE  /\ call.fork \in Nat /\ call.ids \in SUBSET Coin
         /\ call = [next |-> call.next, fork |-> call.fork, ids |-> call.ids]
BY DEF Calls, Idle

LEMMA WriteType ==
  ASSUME call \in Calls, call.next = "write"
  PROVE  call.height \in Nat /\ call.read \in Nat
BY DEF Calls, Idle

LEMMA ReturnType ==
  ASSUME call \in Calls, call.next = "return"
  PROVE  call.answer \in Answers
BY DEF Calls, Idle

LEMMA ClassifyType ==
  ASSUME NEW prev, NEW rec
  PROVE  Classify(prev, rec) \in CoinChange
BY DEF Classify, CoinChange

(* A finished call is one whose answer is on its way. *)
LEMMA ReturningType ==
  ASSUME NEW a \in Answers
  PROVE  Returning(a) \in Calls
BY DEF Returning, Calls

LEMMA IdleType == Idle \in Calls /\ Done \in Answers /\ Failed \in Answers
BY DEF Idle, Calls, Done, Failed, Answers

LEMMA TypeInit == Init => TypeOK
BY IdleType DEF Init, TypeOK, CoinTable, Lifecycle

(* Every action keeps every type. *)
LEMMA TypeStep == TypeOK /\ [Next]_vars => TypeOK'
<1> SUFFICES ASSUME TypeOK, [Next]_vars
             PROVE  TypeOK'
  OBVIOUS
<1> USE DEF TypeOK
<1>0. Height \subseteq Nat /\ Records \subseteq CoinRecord
  BY BoundAssumption DEF Height, Records, CoinRecord
<1>1. ASSUME NEW c \in Coin, NEW rec \in Records, ApplyCoinState(c, rec)
      PROVE  TypeOK'
  <2>1. call' \in Calls
    BY <1>0, <1>1, ClassifyType DEF ApplyCoinState, Begin, Calls
  <2> QED
    BY <1>1, <2>1 DEF ApplyCoinState, Begin, disk
<1>2. CASE Upsert
  <2>1. rows' \in CoinTable
    BY <1>2, UpsertType DEF Upsert, CoinTable
  <2>2. Changed(call.change) \in Answers
    BY <1>2, UpsertType DEF Upsert, Changed, Answers
  <2> QED
    BY <1>2, <2>1, <2>2, ReturningType DEF Upsert
<1>3. ASSUME NEW h \in Height, RollbackTo(h)
      PROVE  TypeOK'
  <2>1. CreatedAfter(rows, h) \in SUBSET Coin
    BY DEF CreatedAfter, Held
  <2>2. call' \in Calls
    BY <1>0, <1>3, <2>1 DEF RollbackTo, Begin, Calls
  <2> QED
    BY <1>3, <2>2 DEF RollbackTo, Begin, disk
<1>4. CASE DeleteCreated
  <2>1. call' \in Calls
    BY <1>4, RollbackType DEF DeleteCreated, Calls
  <2>2. rows' \in CoinTable
    BY <1>4 DEF DeleteCreated, CoinTable
  <2> QED
    BY <1>4, <2>1, <2>2 DEF DeleteCreated
<1>5. CASE SelectSpent
  <2>1. Collected(call.ids, {c \in Held(rows) : rows[c].spent > call.fork}) \in SUBSET Coin
    BY <1>5, RollbackType DEF SelectSpent, Collected, Held
  <2>2. call' \in Calls
    BY <1>5, <2>1, RollbackType DEF SelectSpent, Calls
  <2> QED
    BY <1>5, <2>2 DEF SelectSpent, disk
<1>6. CASE UnspendSpent
  <2>1. call' \in Calls
    BY <1>6, RollbackType DEF UnspendSpent, Calls
  <2>2. rows' \in CoinTable
    BY <1>6 DEF UnspendSpent, CoinTable, Held, Unspent, CoinRecord
  <2> QED
    BY <1>6, <2>1, <2>2 DEF UnspendSpent
<1>7. CASE ResetPeak
  <2>1. Touched(call.ids) \in Answers
    BY <1>7, RollbackType DEF ResetPeak, Touched, Answers
  <2> QED
    BY <1>7, <2>1, RollbackType, ReturningType DEF ResetPeak
<1>8. ASSUME NEW h \in Height, SetPeak(h)
      PROVE  TypeOK'
  <2>1. call' \in Calls
    BY <1>0, <1>8 DEF SetPeak, Begin, Calls
  <2> QED
    BY <1>8, <2>1 DEF SetPeak, Begin, disk
<1>9. CASE WritePeak
  BY <1>9, WriteType, IdleType, ReturningType DEF WritePeak, PeakWritten
<1>10. ASSUME NEW l \in Lifecycle, NEW h \in Height, SetSyncStatus(l, h)
       PROVE  TypeOK'
  BY <1>0, <1>10, IdleType, ReturningType DEF SetSyncStatus, Begin
<1>11. CASE Return
  BY <1>11, ReturnType, IdleType DEF Return, disk
<1>12. CASE Fail
  BY <1>12, IdleType DEF Fail, disk
<1>13. CASE Crash
  BY <1>13, IdleType DEF Crash, disk
<1>14. CASE UNCHANGED vars
  BY <1>14 DEF vars, disk
<1> QED
  BY <1>1, <1>2, <1>3, <1>4, <1>5, <1>6, <1>7, <1>8, <1>9, <1>10, <1>11, <1>12, <1>13, <1>14 DEF Next

(* Every variable keeps its type, whatever fails. *)
THEOREM TypeCorrect == Spec => []TypeOK
BY TypeInit, TypeStep, PTL DEF Spec
-----------------------------------------------------------------------------
(* What a rollback makes of one coin, and of a table on the way.            *)

Rolled(rec, fork) ==
  IF rec = NoCoin \/ rec.created > fork THEN NoCoin
  ELSE IF rec.spent > fork THEN [rec EXCEPT !.spent = 0] ELSE rec

Swept(coins, fork) ==
  [c \in Coin |-> IF c \in CreatedAfter(coins, fork) THEN NoCoin ELSE coins[c]]

LEMMA RolledBackPointwise ==
  ASSUME NEW coins \in CoinTable, NEW fork \in Nat
  PROVE  RolledBack(coins, fork) = [c \in Coin |-> Rolled(coins[c], fork)]
BY DEF RolledBack, Rolled, CreatedAfter, SpentAfter, Held, CoinTable, CoinRecord

(* The tables a rollback passes through are tables. *)
LEMMA RolledBackType ==
  ASSUME NEW coins \in CoinTable, NEW fork \in Nat
  PROVE  RolledBack(coins, fork) \in CoinTable /\ Swept(coins, fork) \in CoinTable
BY DEF RolledBack, Swept, CoinTable, CoinRecord, SpentAfter, Held

(* Nothing above the fork is left by a rollback. *)
LEMMA RolledBackBelow ==
  ASSUME NEW coins \in CoinTable, NEW fork \in Nat, NEW c \in Held(RolledBack(coins, fork))
  PROVE  /\ RolledBack(coins, fork)[c].created <= fork
         /\ RolledBack(coins, fork)[c].spent <= fork
<1>1. c \in Coin /\ RolledBack(coins, fork)[c] = Rolled(coins[c], fork) /\ Rolled(coins[c], fork) # NoCoin
  BY RolledBackPointwise DEF Held
<1>2. coins[c] # NoCoin /\ coins[c] \in CoinRecord /\ ~(coins[c].created > fork)
  BY <1>1 DEF Rolled, CoinTable
<1>3. CASE coins[c].spent > fork
  BY <1>1, <1>2, <1>3 DEF Rolled, CoinRecord
<1>4. CASE ~(coins[c].spent > fork)
  BY <1>1, <1>2, <1>4 DEF Rolled, CoinRecord
<1> QED
  BY <1>3, <1>4

(* A coin rolled back once more stays as it is. *)
LEMMA RolledAgain ==
  ASSUME NEW rec \in CoinRecord \cup {NoCoin}, NEW fork \in Nat
  PROVE  Rolled(Rolled(rec, fork), fork) = Rolled(rec, fork)
BY DEF Rolled, CoinRecord

(* The DELETE is the first half of the rollback ... *)
LEMMA SweptRollsBack ==
  ASSUME NEW coins \in CoinTable, NEW fork \in Nat
  PROVE  RolledBack(Swept(coins, fork), fork) = RolledBack(coins, fork)
<1>1. Swept(coins, fork) \in CoinTable
  BY RolledBackType
<1>2. ASSUME NEW c \in Coin
      PROVE  Rolled(Swept(coins, fork)[c], fork) = Rolled(coins[c], fork)
  BY <1>2 DEF Swept, Rolled, CreatedAfter, Held
<1> QED
  BY <1>1, <1>2, RolledBackPointwise

(* ... and a rollback repeated changes nothing.                             *)
LEMMA RolledBackAgain ==
  ASSUME NEW coins \in CoinTable, NEW fork \in Nat
  PROVE  RolledBack(RolledBack(coins, fork), fork) = RolledBack(coins, fork)
<1>1. RolledBack(coins, fork) \in CoinTable
  BY RolledBackType
<1>2. ASSUME NEW c \in Coin
      PROVE  Rolled(RolledBack(coins, fork)[c], fork) = Rolled(coins[c], fork)
  BY <1>2, RolledBackPointwise, RolledAgain DEF CoinTable
<1> QED
  BY <1>1, <1>2, RolledBackPointwise

Unspending(coins, fork) ==
  [c \in Coin |-> IF c \in Held(coins) THEN Unspent(coins[c], fork) ELSE NoCoin]

(* The UPDATE is the other half: after the DELETE it completes the rollback. *)
LEMMA UnspendingCompletes ==
  ASSUME NEW coins \in CoinTable, NEW fork \in Nat
  PROVE  Unspending(Swept(coins, fork), fork) = RolledBack(coins, fork)
BY RolledBackPointwise
   DEF Unspending, Swept, Rolled, Unspent, CreatedAfter, Held, CoinTable, CoinRecord

(* Whatever the table, the UPDATE does nothing a rollback would not do. *)
LEMMA UnspendingRollsBack ==
  ASSUME NEW coins \in CoinTable, NEW fork \in Nat
  PROVE  RolledBack(Unspending(coins, fork), fork) = RolledBack(coins, fork)
<1>1. Unspending(coins, fork) \in CoinTable
  BY DEF Unspending, Unspent, CoinTable, CoinRecord, Held
<1>2. ASSUME NEW c \in Coin
      PROVE  Rolled(Unspending(coins, fork)[c], fork) = Rolled(coins[c], fork)
  BY <1>2 DEF Unspending, Unspent, Rolled, Held, CoinTable, CoinRecord
<1> QED
  BY <1>1, <1>2, RolledBackPointwise

(* The ids both SELECTs collect are those the rollback touches. *)
LEMMA CollectedAffected ==
  ASSUME NEW coins \in CoinTable, NEW fork \in Nat
  PROVE  Collected(CreatedAfter(coins, fork),
                   {c \in Held(Swept(coins, fork)) : Swept(coins, fork)[c].spent > fork})
         = Affected(coins, fork)
BY DEF Collected, Affected, SpentAfter, CreatedAfter, Swept, Held
-----------------------------------------------------------------------------
(* The strengthening: how far the call under way has come, as the           *)
(* difference between the tables and what they were when it began.          *)

Rolling == call.next \in {"delete", "select", "unspend", "peak"}

OthersKept == peak = before.peak /\ target = before.target /\ lifecycle = before.lifecycle

Unmoved == rows = before.coins /\ OthersKept

Applied(c, rec) ==
  /\ rows = [before.coins EXCEPT ![c] = rec]
  /\ OthersKept
  /\ call.answer = Changed(Classify(before.coins[c], rec))

WasRolledBack(fork) ==
  /\ rows = RolledBack(before.coins, fork)
  /\ peak = fork /\ target = before.target /\ lifecycle = before.lifecycle
  /\ call.answer = Touched(Affected(before.coins, fork))

PeakSet(h) ==
  /\ rows = before.coins
  /\ peak = IF h > before.peak THEN h ELSE before.peak
  /\ target = before.target /\ lifecycle = before.lifecycle
  /\ call.answer = Done

StatusSet(l, h) ==
  /\ rows = before.coins /\ peak = before.peak
  /\ target = h /\ lifecycle = l
  /\ call.answer = Done

Finished ==
  \/ \E c \in Coin, rec \in Records : Applied(c, rec)
  \/ \E h \in Height : WasRolledBack(h) \/ PeakSet(h)
  \/ \E l \in Lifecycle, h \in Height : StatusSet(l, h)

Staged ==
  /\ call # Idle => before.coins \in CoinTable
  /\ call.next = "upsert" =>
       /\ Unmoved /\ call.rec \in Records
       /\ call.change = Classify(rows[call.coin], call.rec)
  /\ Rolling => call.fork \in Height /\ OthersKept
  /\ call.next = "delete" =>
       rows = before.coins /\ call.ids = CreatedAfter(before.coins, call.fork)
  /\ call.next = "select" =>
       rows = Swept(before.coins, call.fork) /\ call.ids = CreatedAfter(before.coins, call.fork)
  /\ call.next = "unspend" =>
       rows = Swept(before.coins, call.fork) /\ call.ids = Affected(before.coins, call.fork)
  /\ call.next = "peak" =>
       rows = RolledBack(before.coins, call.fork) /\ call.ids = Affected(before.coins, call.fork)
  /\ call.next = "write" => Unmoved /\ call.height \in Height /\ call.read = peak
  /\ call.next = "return" => Finished

LEMMA StagedInit == Init => Staged
BY DEF Init, Staged, Idle, Rolling

LEMMA StagedStep == TypeOK /\ Staged /\ [Next]_vars => Staged'
<1> SUFFICES ASSUME TypeOK, Staged, [Next]_vars
             PROVE  Staged'
  OBVIOUS
<1>0. Height \subseteq Nat
  BY BoundAssumption DEF Height
<1>1. ASSUME NEW c \in Coin, NEW rec \in Records, ApplyCoinState(c, rec)
      PROVE  Staged'
  BY <1>1 DEF Staged, TypeOK, ApplyCoinState, Begin, Disk, disk, Unmoved, OthersKept, Rolling
<1>2. CASE Upsert
  <2>1. Finished'
    <3>1. PICK c \in Coin, rec \in Records : c = call.coin /\ rec = call.rec
      BY <1>2, UpsertType DEF Upsert, Staged, TypeOK
    <3>2. Applied(c, rec)'
      BY <1>2, <3>1 DEF Staged, Upsert, Unmoved, OthersKept, Applied, Returning
    <3> QED
      BY <3>2 DEF Finished
  <2> QED
    BY <1>2, <2>1 DEF Staged, TypeOK, Upsert, Returning, Rolling, Idle
<1>3. ASSUME NEW h \in Height, RollbackTo(h)
      PROVE  Staged'
  BY <1>3 DEF Staged, TypeOK, RollbackTo, Begin, Disk, disk, Unmoved, OthersKept, Rolling
<1>4. CASE DeleteCreated
  <2>1. /\ call'.next = "select" /\ call'.fork = call.fork /\ call'.ids = call.ids
        /\ call # Idle
    BY <1>4, RollbackType DEF DeleteCreated, TypeOK, Idle
  <2>2. rows' = Swept(before.coins, call.fork)
    BY <1>4 DEF DeleteCreated, Staged, Swept
  <2> QED
    BY <1>4, <2>1, <2>2 DEF Staged, DeleteCreated, Rolling, OthersKept
<1>5. CASE SelectSpent
  <2>1. /\ call'.next = "unspend" /\ call'.fork = call.fork
        /\ call'.ids = Collected(call.ids, {c \in Held(rows) : rows[c].spent > call.fork})
        /\ call # Idle
    BY <1>5, RollbackType DEF SelectSpent, TypeOK, Idle
  <2>2. call'.ids = Affected(before.coins, call.fork)
    BY <1>0, <1>5, <2>1, CollectedAffected DEF SelectSpent, Staged, Rolling
  <2> QED
    BY <1>5, <2>1, <2>2 DEF Staged, SelectSpent, Rolling, OthersKept, disk
<1>6. CASE UnspendSpent
  <2>1. /\ call'.next = "peak" /\ call'.fork = call.fork /\ call'.ids = call.ids
        /\ call # Idle
    BY <1>6, RollbackType DEF UnspendSpent, TypeOK, Idle
  <2>2. rows' = Unspending(Swept(before.coins, call.fork), call.fork)
    BY <1>6 DEF UnspendSpent, Staged, Unspending
  <2>3. rows' = RolledBack(before.coins, call.fork)
    BY <1>0, <1>6, <2>1, <2>2, UnspendingCompletes DEF UnspendSpent, Staged, Rolling
  <2> QED
    BY <1>6, <2>1, <2>3 DEF Staged, UnspendSpent, Rolling, OthersKept
<1>7. CASE ResetPeak
  <2>1. PICK h \in Height : h = call.fork
    BY <1>7 DEF ResetPeak, Staged, Rolling
  <2>2. WasRolledBack(h)'
    BY <1>7, <2>1 DEF ResetPeak, Staged, Rolling, OthersKept, WasRolledBack, Returning
  <2>3. Finished'
    BY <2>2 DEF Finished
  <2> QED
    BY <1>7, <2>3 DEF Staged, ResetPeak, Returning, Rolling, Idle
<1>8. ASSUME NEW h \in Height, SetPeak(h)
      PROVE  Staged'
  BY <1>8 DEF Staged, TypeOK, SetPeak, Begin, Disk, disk, Unmoved, OthersKept, Rolling
<1>9. CASE WritePeak
  <2>1. PICK h \in Height : h = call.height
    BY <1>9 DEF WritePeak, Staged
  <2>2. PeakSet(h)'
    BY <1>9, <2>1 DEF WritePeak, PeakWritten, Staged, Unmoved, OthersKept, PeakSet, Returning
  <2>3. Finished'
    BY <2>2 DEF Finished
  <2> QED
    BY <1>9, <2>3 DEF Staged, WritePeak, Returning, Rolling, Idle
<1>10. ASSUME NEW l \in Lifecycle, NEW h \in Height, SetSyncStatus(l, h)
       PROVE  Staged'
  <2>1. StatusSet(l, h)'
    BY <1>10 DEF SetSyncStatus, Begin, Disk, StatusSet, Returning
  <2>2. Finished'
    BY <2>1 DEF Finished
  <2> QED
    BY <1>10, <2>2 DEF Staged, TypeOK, SetSyncStatus, Begin, Disk, Returning, Rolling
<1>11. CASE Return \/ Fail \/ Crash
  BY <1>11 DEF Staged, Return, Fail, Crash, Idle, Rolling
<1>12. CASE UNCHANGED vars
  BY <1>12 DEF Staged, vars, disk, Unmoved, OthersKept, Rolling, Finished, Applied,
               WasRolledBack, PeakSet, StatusSet
<1> QED
  BY <1>1, <1>2, <1>3, <1>4, <1>5, <1>6, <1>7, <1>8, <1>9, <1>10, <1>11, <1>12 DEF Next

LEMMA StagedCorrect == Spec => [](TypeOK /\ Staged)
BY TypeInit, TypeStep, StagedInit, StagedStep, PTL DEF Spec
-----------------------------------------------------------------------------
(* The peak falls only in a rollback's last statement, and then nothing     *)
(* above it is left.                                                        *)
THEOREM PeakNeverFallsEarly == Spec => PeakFallsLast
<1>1. ASSUME TypeOK, Staged, [Next]_vars, peak' < peak
      PROVE  \A c \in Held(rows') : rows'[c].created <= peak' /\ rows'[c].spent <= peak'
  <2>1. ResetPeak
    <3>1. CASE WritePeak
      BY <1>1, <3>1, WriteType DEF WritePeak, PeakWritten, Staged, TypeOK
    <3>2. CASE UNCHANGED vars
      BY <1>1, <3>2 DEF vars, disk, TypeOK
    <3>3. CASE Upsert \/ DeleteCreated \/ SelectSpent \/ UnspendSpent
      BY <1>1, <3>3 DEF TypeOK, Upsert, DeleteCreated, SelectSpent, UnspendSpent, disk
    <3>4. CASE Return \/ Fail \/ Crash
      BY <1>1, <3>4 DEF TypeOK, Return, Fail, Crash, disk
    <3>5. ASSUME NEW c \in Coin, NEW rec \in Records, ApplyCoinState(c, rec) PROVE FALSE
      BY <1>1, <3>5 DEF TypeOK, ApplyCoinState, disk
    <3>6. ASSUME NEW h \in Height, RollbackTo(h) \/ SetPeak(h) PROVE FALSE
      BY <1>1, <3>6 DEF TypeOK, RollbackTo, SetPeak, disk
    <3>7. ASSUME NEW l \in Lifecycle, NEW h \in Height, SetSyncStatus(l, h) PROVE FALSE
      BY <1>1, <3>7 DEF TypeOK, SetSyncStatus
    <3> QED
      BY <1>1, <3>1, <3>2, <3>3, <3>4, <3>5, <3>6, <3>7 DEF Next
  <2>2. /\ rows' = RolledBack(before.coins, call.fork) /\ peak' = call.fork
        /\ before.coins \in CoinTable /\ call.fork \in Nat
    BY <1>1, <2>1, RollbackType DEF ResetPeak, Staged, TypeOK, Idle
  <2> QED
    BY <2>2, RolledBackBelow
<1>2. TypeOK /\ Staged /\ [Next]_vars =>
        [peak' < peak =>
           \A c \in Held(rows') : rows'[c].created <= peak' /\ rows'[c].spent <= peak']_peak
  BY <1>1
<1> QED
  BY <1>2, StagedCorrect, PTL DEF Spec, PeakFallsLast
-----------------------------------------------------------------------------
(* A rollback that broke off leaves tables which the same rollback makes    *)
(* the same of; only that rollback may run until it is over.                *)

Torn ==
  broken # Whole =>
    /\ broken.fork \in Nat
    /\ RolledBack(rows, broken.fork) = RolledBack(broken.disk.coins, broken.fork)
    /\ call = Idle \/ (Rolling /\ call.fork = broken.fork)

LEMMA RollingFork ==
  ASSUME TypeOK, Staged, Rolling
  PROVE  /\ call.fork \in Nat /\ call # Idle
         /\ before.coins \in CoinTable /\ rows \in CoinTable
BY RollbackType DEF TypeOK, Staged, Rolling, Idle

(* Wherever it stands, the rollback under way has not lost its goal. *)
LEMMA RollingKeepsGoal ==
  ASSUME TypeOK, Staged, Rolling
  PROVE  RolledBack(rows, call.fork) = RolledBack(before.coins, call.fork)
<1>1. CASE call.next = "delete"
  BY <1>1 DEF Staged
<1>2. CASE call.next \in {"select", "unspend"}
  BY <1>2, RollingFork, SweptRollsBack DEF Staged
<1>3. CASE call.next = "peak"
  BY <1>3, RollingFork, RolledBackAgain DEF Staged
<1> QED
  BY <1>1, <1>2, <1>3 DEF Rolling

LEMMA TornStep == TypeOK /\ Staged /\ Torn /\ [Next]_vars => Torn'
<1> SUFFICES ASSUME TypeOK, Staged, Torn, [Next]_vars
             PROVE  Torn'
  OBVIOUS
<1>1. ASSUME NEW c \in Coin, NEW rec \in Records, ApplyCoinState(c, rec)
      PROVE  Torn'
  BY <1>1 DEF Torn, ApplyCoinState
<1>2. CASE Upsert \/ WritePeak \/ Return
  <2>1. broken = Whole /\ broken' = broken
    BY <1>2 DEF Torn, Upsert, WritePeak, Return, Rolling, Idle
  <2> QED
    BY <2>1 DEF Torn
<1>3. ASSUME NEW h \in Height, RollbackTo(h)
      PROVE  Torn'
  BY <1>3 DEF Torn, RollbackTo, Begin, disk, Rolling
<1>4. CASE DeleteCreated
  <2>1. call'.next = "select" /\ call'.fork = call.fork /\ broken' = broken
    BY <1>4, RollbackType DEF DeleteCreated, TypeOK
  <2>2. rows' = Swept(rows, call.fork)
    BY <1>4 DEF DeleteCreated, Swept
  <2>3. RolledBack(rows', call.fork) = RolledBack(rows, call.fork)
    BY <1>4, <2>2, RollingFork, SweptRollsBack DEF DeleteCreated, Rolling
  <2>4. broken # Whole => call.fork = broken.fork
    BY <1>4 DEF Torn, DeleteCreated, Idle
  <2> QED
    BY <2>1, <2>3, <2>4 DEF Torn, Rolling
<1>5. CASE SelectSpent
  <2>1. call'.next = "unspend" /\ call'.fork = call.fork /\ broken' = broken /\ rows' = rows
    BY <1>5, RollbackType DEF SelectSpent, TypeOK, disk
  <2>2. broken # Whole => call.fork = broken.fork
    BY <1>5 DEF Torn, SelectSpent, Idle
  <2> QED
    BY <2>1, <2>2 DEF Torn, Rolling
<1>6. CASE UnspendSpent
  <2>1. call'.next = "peak" /\ call'.fork = call.fork /\ broken' = broken
    BY <1>6, RollbackType DEF UnspendSpent, TypeOK
  <2>2. rows' = Unspending(rows, call.fork)
    BY <1>6 DEF UnspendSpent, Unspending
  <2>3. RolledBack(rows', call.fork) = RolledBack(rows, call.fork)
    BY <1>6, <2>2, RollingFork, UnspendingRollsBack DEF UnspendSpent, Rolling
  <2>4. broken # Whole => call.fork = broken.fork
    BY <1>6 DEF Torn, UnspendSpent, Idle
  <2> QED
    BY <2>1, <2>3, <2>4 DEF Torn, Rolling
<1>7. CASE ResetPeak
  BY <1>7 DEF Torn, ResetPeak
<1>8. ASSUME NEW h \in Height, SetPeak(h)
      PROVE  Torn'
  BY <1>8 DEF Torn, SetPeak
<1>9. ASSUME NEW l \in Lifecycle, NEW h \in Height, SetSyncStatus(l, h)
      PROVE  Torn'
  BY <1>9 DEF Torn, SetSyncStatus
<1>10. CASE Fail \/ Crash
  <2>1. call' = Idle /\ rows' = rows /\ BreakOff
    BY <1>10 DEF Fail, Crash, disk
  <2>2. CASE broken = Whole /\ Rolling
    <3>1. broken'.fork = call.fork /\ broken'.disk.coins = before.coins
      BY <2>1, <2>2 DEF BreakOff, Rolling
    <3> QED
      BY <2>1, <2>2, <3>1, RollingFork, RollingKeepsGoal DEF Torn
  <2>3. CASE ~(broken = Whole /\ Rolling)
    <3>1. broken' = broken
      BY <2>1, <2>3 DEF BreakOff, Rolling
    <3> QED
      BY <2>1, <3>1 DEF Torn
  <2> QED
    BY <2>2, <2>3
<1>11. CASE UNCHANGED vars
  BY <1>11 DEF Torn, vars, disk, Rolling
<1> QED
  BY <1>1, <1>2, <1>3, <1>4, <1>5, <1>6, <1>7, <1>8, <1>9, <1>10, <1>11 DEF Next

(* Repeating a rollback that broke off leaves the coins the first one would *)
(* have left, however often it broke off and wherever.                      *)
THEOREM RetriesComplete == Spec => []RetryCompletes
<1>1. Init => Torn
  BY DEF Init, Torn
<1>2. TypeOK /\ Staged /\ Torn => RetryCompletes
  <2> SUFFICES ASSUME TypeOK, Staged, Torn, call.next = "peak", broken # Whole
               PROVE  rows = RolledBack(broken.disk.coins, broken.fork)
    BY DEF RetryCompletes
  <2>1. Rolling /\ call.fork = broken.fork
    BY DEF Torn, Rolling, Idle
  <2>2. RolledBack(rows, call.fork) = rows
    BY <2>1, RollingFork, RolledBackAgain DEF Staged
  <2> QED
    BY <2>1, <2>2 DEF Torn
<1> QED
  BY <1>1, <1>2, StagedCorrect, TornStep, PTL DEF Spec
-----------------------------------------------------------------------------
(* Every step is one of CoinStore, or none that its callers can see.        *)

(* CoinStore reads WalletStore's operators as DurableStore does. *)
LEMMA SameRollback ==
  ASSUME NEW coins, NEW fork
  PROVE  /\ Store!RolledBack(coins, fork) = RolledBack(coins, fork)
         /\ Store!Affected(coins, fork) = Affected(coins, fork)
BY DEF Store!RolledBack, RolledBack, Store!Affected, Affected, Store!SpentAfter, SpentAfter,
       Store!CreatedAfter, CreatedAfter, Store!Held, Held

LEMMA SameClassify ==
  ASSUME NEW prev, NEW rec
  PROVE  Store!Classify(prev, rec) = Classify(prev, rec)
BY DEF Store!Classify, Classify

LEMMA SeenIdle ==
  ASSUME call = Idle
  PROVE  /\ Seen.coins = rows /\ Seen.peak = peak
         /\ Seen.target = target /\ Seen.lifecycle = lifecycle
BY DEF Seen, Disk

(* A step that begins or continues a call is invisible. *)
LEMMA Invisible ==
  ASSUME call' # Idle, answer' = answer,
         before' = IF call = Idle THEN Disk ELSE before
  PROVE  UNCHANGED Store!vars
<1>1. Seen' = Seen
  BY DEF Seen
<1> QED
  BY <1>1 DEF Store!vars

(* A call that has run to its end did one step of the abstract store, and   *)
(* its caller learns the answer, or nothing.                                *)
LEMMA FinishedSteps ==
  ASSUME TypeOK, Staged, call.next = "return", call' = Idle, UNCHANGED disk,
         answer' \in {call.answer, Failed}
  PROVE  Store!Next
<1>1. /\ Seen = before
      /\ Seen'.coins = rows /\ Seen'.peak = peak
      /\ Seen'.target = target /\ Seen'.lifecycle = lifecycle
  BY DEF Seen, Disk, disk, Idle
<1>2. ASSUME NEW c \in Coin, NEW rec \in Records, Applied(c, rec)
      PROVE  Store!Next
  <2>1. Store!Apply(c, rec)
    BY <1>1, <1>2, SameClassify DEF Store!Apply, Applied, OthersKept, Store!Answers, Store!Failed, Failed,
       Store!Changed, Changed
  <2>2. rec \in [created : Height, spent : Height]
    BY DEF Records
  <2> QED
    BY <2>1, <2>2 DEF Store!Next
<1>3. ASSUME NEW h \in Height, WasRolledBack(h)
      PROVE  Store!Next
  <2>1. Store!Rollback(h)
    BY <1>1, <1>3, SameRollback DEF Store!Rollback, WasRolledBack, Store!Answers, Store!Failed, Failed,
       Store!Touched, Touched
  <2> QED
    BY <2>1 DEF Store!Next
<1>4. ASSUME NEW h \in Height, PeakSet(h)
      PROVE  Store!Next
  <2>1. Store!SetPeak(h)
    BY <1>1, <1>4 DEF Store!SetPeak, PeakSet, Store!Answers, Store!Failed, Failed,
       Store!Done, Done
  <2> QED
    BY <2>1 DEF Store!Next
<1>5. ASSUME NEW l \in Lifecycle, NEW h \in Height, StatusSet(l, h)
      PROVE  Store!Next
  <2>1. Store!SetSyncStatus(l, h)
    BY <1>1, <1>5 DEF Store!SetSyncStatus, StatusSet, Store!Answers, Store!Failed, Failed,
       Store!Done, Done
  <2> QED
    BY <2>1 DEF Store!Next
<1> QED
  BY <1>2, <1>3, <1>4, <1>5 DEF Staged, Finished

(* A call that ends early did nothing, or tore a rollback.                  *)
LEMMA EarlyEndSteps ==
  ASSUME TypeOK, Staged, call.next # "return", call' = Idle, UNCHANGED disk, answer' = Failed
  PROVE  Store!Next
<1>1. /\ Seen'.coins = rows /\ Seen'.peak = peak
      /\ Seen'.target = target /\ Seen'.lifecycle = lifecycle
  BY DEF Seen, Disk, disk
<1>2. CASE call = Idle
  <2>1. Store!Refuse
    BY <1>1, <1>2, SeenIdle DEF Store!Refuse, Store!Failed, Failed
  <2> QED
    BY <2>1 DEF Store!Next
<1>3. CASE call.next \in {"upsert", "write", "delete"}
  <2>1. Seen = before /\ Unmoved
    BY <1>3 DEF Seen, Idle, Staged, Unmoved, Rolling
  <2>2. Store!Refuse
    BY <1>1, <2>1 DEF Store!Refuse, Store!Failed, Failed, Unmoved, OthersKept
  <2> QED
    BY <2>2 DEF Store!Next
<1>4. CASE call.next \in {"select", "unspend", "peak"}
  <2>1. Seen = before /\ OthersKept /\ Rolling
    BY <1>4 DEF Seen, Idle, Staged, Rolling
  <2>2. PICK h \in Height : h = call.fork
    BY <2>1 DEF Staged
  <2>3. PICK part \in SUBSET Coin :
          rows = [c \in Coin |-> IF c \in part THEN RolledBack(before.coins, h)[c]
                                 ELSE before.coins[c]]
    <3>1. CASE call.next \in {"select", "unspend"}
      <4>1. CreatedAfter(before.coins, h) \in SUBSET Coin
        BY DEF CreatedAfter, Held
      <4>2. rows = [c \in Coin |-> IF c \in CreatedAfter(before.coins, h)
                                   THEN RolledBack(before.coins, h)[c] ELSE before.coins[c]]
        BY <2>2, <3>1 DEF Staged, Swept, RolledBack
      <4> QED
        BY <4>1, <4>2
    <3>2. CASE call.next = "peak"
      <4>1. rows = [c \in Coin |-> IF c \in Coin THEN RolledBack(before.coins, h)[c]
                                   ELSE before.coins[c]]
        BY <2>2, <3>2 DEF Staged, RolledBack
      <4> QED
        BY <4>1
    <3> QED
      BY <1>4, <3>1, <3>2
  <2>4. Store!TornRollback(h)
    BY <1>1, <2>1, <2>3, SameRollback DEF Store!TornRollback, Store!Failed, Failed, OthersKept
  <2> QED
    BY <2>4 DEF Store!Next
<1>5. call = Idle \/ call.next \in {"upsert", "write", "delete", "select", "unspend", "peak", "return"}
  BY DEF TypeOK, Calls
<1> QED
  BY <1>2, <1>3, <1>4, <1>5

LEMMA StoreSteps == TypeOK /\ Staged /\ [Next]_vars => [Store!Next]_Store!vars
<1> SUFFICES ASSUME TypeOK, Staged, [Next]_vars
             PROVE  Store!Next \/ UNCHANGED Store!vars
  BY DEF Store!vars
<1>1. ASSUME NEW c \in Coin, NEW rec \in Records, ApplyCoinState(c, rec)
      PROVE  UNCHANGED Store!vars
  BY <1>1, Invisible DEF ApplyCoinState, Begin, Idle
<1>2. ASSUME NEW h \in Height, RollbackTo(h) \/ SetPeak(h)
      PROVE  UNCHANGED Store!vars
  BY <1>2, Invisible DEF RollbackTo, SetPeak, Begin, Idle
<1>3. ASSUME NEW l \in Lifecycle, NEW h \in Height, SetSyncStatus(l, h)
      PROVE  UNCHANGED Store!vars
  BY <1>3, Invisible DEF SetSyncStatus, Begin, Idle, Returning
<1>4. CASE Upsert \/ ResetPeak \/ WritePeak
  BY <1>4, Invisible DEF Upsert, ResetPeak, WritePeak, Idle, Returning
<1>5. CASE DeleteCreated \/ SelectSpent \/ UnspendSpent
  <2>1. call'.next \in {"select", "unspend", "peak"} /\ call # Idle
    BY <1>5, RollbackType DEF DeleteCreated, SelectSpent, UnspendSpent, TypeOK, Idle
  <2> QED
    BY <1>5, <2>1, Invisible DEF DeleteCreated, SelectSpent, UnspendSpent, Idle
<1>6. CASE Return
  BY <1>6, FinishedSteps DEF Return
<1>7. CASE Fail \/ Crash
  <2>1. call' = Idle /\ UNCHANGED disk /\ answer' = Failed
    BY <1>7 DEF Fail, Crash
  <2> QED
    BY <2>1, FinishedSteps, EarlyEndSteps
<1>8. CASE UNCHANGED vars
  BY <1>8 DEF vars, disk, Store!vars, Seen, Disk
<1> QED
  BY <1>1, <1>2, <1>3, <1>4, <1>5, <1>6, <1>7, <1>8 DEF Next

(* The SQLite store is a drop-in for the in-memory one but for a torn       *)
(* rollback, whatever fails and wherever the process ends.                  *)
THEOREM Implementation == Spec => ImplementsCoinStore
<1>1. Init => Store!Init
  BY SeenIdle DEF Init, Store!Init, Store!Done, Done
<1> QED
  BY <1>1, StagedCorrect, StoreSteps, PTL DEF Spec, ImplementsCoinStore, Store!Spec

-----------------------------------------------------------------------------
(***************************************************************************)
(* The schema of the durable stores, for any number of openers, migrations *)
(* and processes.                                                          *)
(***************************************************************************)

(* The strengthening: what a connection at work has passed over or run is  *)
(* there; and a connection that works alone is at the migration after the  *)
(* file's.                                                                 *)
ClosedWhenDown == build = 0 => \A o \in Opener : at[o] = "closed"
RecordedIsThere == \A v \in Migrations : v <= version => applied[v] > 0
OpenIsCurrent   == \A o \in Opener, v \in Migrations : at[o] = "open" /\ v <= build => applied[v] > 0
WorkIsInOrder   ==
    \A o \in Opener : at[o] = "migrate" =>
        todo[o] <= build /\ \A v \in Migrations : v < todo[o] => applied[v] > 0
Alone ==
    /\ \A v \in Migrations : applied[v] = IF v <= version THEN 1 ELSE 0
    /\ \A o \in Opener : at[o] = "open" => version = build
    /\ \A o \in Opener : at[o] = "migrate" => todo[o] = version + 1
    /\ \A o, p \in Opener : at[o] = "migrate" /\ at[p] = "migrate" => o = p
SchemaInv ==
    /\ SchemaTypeOK /\ ClosedWhenDown
    /\ RecordedIsThere /\ OpenIsCurrent /\ WorkIsInOrder
    /\ ~overlapped => Alone

LEMMA SchemaInvInit == SchemaInit => SchemaInv
<1> SUFFICES ASSUME SchemaInit
             PROVE  SchemaInv
  OBVIOUS
<1> USE NewestAssumption DEF SchemaInit, Migrations
<1>1. SchemaTypeOK
  <2>1. 0 \in 0..Newest /\ 1 \in 1..Newest /\ 0 \in Nat
    OBVIOUS
  <2> QED
    BY <2>1 DEF SchemaTypeOK
<1>2. \A o \in Opener : at[o] = "closed"
  OBVIOUS
<1>3. ClosedWhenDown /\ OpenIsCurrent /\ WorkIsInOrder
  BY <1>2 DEF ClosedWhenDown, OpenIsCurrent, WorkIsInOrder
<1>4. RecordedIsThere /\ \A v \in Migrations : applied[v] = IF v <= version THEN 1 ELSE 0
  BY DEF RecordedIsThere
<1>5. Alone
  BY <1>2, <1>4 DEF Alone
<1> QED BY <1>1, <1>3, <1>4, <1>5 DEF SchemaInv

(* What only closes connections or begins a process keeps the invariant.   *)
LEMMA ClosingKeeps ==
    ASSUME SchemaInv, UNCHANGED <<version, applied, todo, overlapped>>,
           at' \in [Opener -> {"closed", "select", "migrate", "open"}],
           \A o \in Opener : at'[o] \in {at[o], "closed", "select"},
           build' \in 0..Newest, processes' \in Nat,
           build' = build \/ \A o \in Opener : at'[o] = "closed"
    PROVE  ClosedWhenDown' => SchemaInv'
<1> SUFFICES ASSUME ClosedWhenDown'
             PROVE  SchemaInv'
  OBVIOUS
<1>1. SchemaTypeOK' /\ RecordedIsThere'
  BY DEF SchemaInv, SchemaTypeOK, RecordedIsThere, Migrations
<1>2. OpenIsCurrent' /\ WorkIsInOrder'
  BY DEF SchemaInv, OpenIsCurrent, WorkIsInOrder
<1>3. ~overlapped' => Alone'
  BY DEF SchemaInv, Alone
<1> QED BY <1>1, <1>2, <1>3 DEF SchemaInv

LEMMA ReadingKeeps ==
    ASSUME SchemaInv, NEW o \in Opener, ReadVersion(o)
    PROVE  SchemaInv'
<1> USE NewestAssumption DEF Migrations, FirstPending
<1>0. build # 0
  BY DEF SchemaInv, ClosedWhenDown, ReadVersion
<1>1. CASE version > build /\ at' = [at EXCEPT ![o] = "closed"] /\ UNCHANGED <<todo, overlapped>>
  <2>1. ClosedWhenDown'
    BY <1>0 DEF ReadVersion, ClosedWhenDown
  <2> QED
    BY <2>1, <1>1, ClosingKeeps DEF ReadVersion, SchemaInv, SchemaTypeOK
<1>2. CASE /\ version <= build /\ FirstPending(version) > build
           /\ at' = [at EXCEPT ![o] = "open"] /\ UNCHANGED <<todo, overlapped>>
  <2>1. version = build
    BY <1>2 DEF SchemaInv, SchemaTypeOK
  <2>2. SchemaTypeOK' /\ ClosedWhenDown' /\ RecordedIsThere'
    BY <1>0, <1>2 DEF SchemaInv, SchemaTypeOK, ClosedWhenDown, RecordedIsThere, ReadVersion
  <2>3. OpenIsCurrent'
    BY <1>2, <2>1 DEF SchemaInv, SchemaTypeOK, OpenIsCurrent, RecordedIsThere, ReadVersion
  <2>4. WorkIsInOrder'
    BY <1>2 DEF SchemaInv, SchemaTypeOK, WorkIsInOrder, ReadVersion
  <2>5. ~overlapped' => Alone'
    BY <1>2, <2>1 DEF SchemaInv, SchemaTypeOK, Alone, ReadVersion
  <2> QED BY <2>2, <2>3, <2>4, <2>5 DEF SchemaInv
<1>3. CASE /\ version <= build /\ FirstPending(version) <= build
           /\ at' = [at EXCEPT ![o] = "migrate"]
           /\ todo' = [todo EXCEPT ![o] = FirstPending(version)]
           /\ overlapped' = (overlapped \/ \E p \in Opener : at[p] = "migrate")
  <2>1. version + 1 \in Migrations
    BY <1>3 DEF SchemaInv, SchemaTypeOK
  <2>2. SchemaTypeOK' /\ ClosedWhenDown' /\ RecordedIsThere'
    BY <1>0, <1>3, <2>1 DEF SchemaInv, SchemaTypeOK, ClosedWhenDown, RecordedIsThere, ReadVersion
  <2>3. OpenIsCurrent'
    BY <1>3 DEF SchemaInv, SchemaTypeOK, OpenIsCurrent, ReadVersion
  <2>4. WorkIsInOrder'
    BY <1>3, <2>1 DEF SchemaInv, SchemaTypeOK, WorkIsInOrder, RecordedIsThere, ReadVersion
  <2>5. ~overlapped' => Alone'
    BY <1>3, <2>1 DEF SchemaInv, SchemaTypeOK, Alone, ReadVersion
  <2> QED BY <2>2, <2>3, <2>4, <2>5 DEF SchemaInv
<1> QED BY <1>1, <1>2, <1>3 DEF ReadVersion

LEMMA MigratingKeeps ==
    ASSUME SchemaInv, NEW o \in Opener, RunMigration(o)
    PROVE  SchemaInv'
<1> USE NewestAssumption DEF Migrations
<1> DEFINE v == todo[o]
<1>1. v \in Migrations /\ v <= build /\ build # 0
  BY DEF RunMigration, SchemaInv, SchemaTypeOK, WorkIsInOrder
<1>2. /\ applied'[v] = applied[v] + 1 /\ applied[v] \in Nat /\ version' = v
      /\ \A u \in Migrations : u # v => applied'[u] = applied[u]
  BY <1>1 DEF RunMigration, SchemaInv, SchemaTypeOK
<1>3. \A u \in Migrations : u <= v => applied'[u] > 0
  BY <1>1, <1>2 DEF RunMigration, SchemaInv, WorkIsInOrder, SchemaTypeOK
<1>4. \A u \in Migrations : applied[u] > 0 => applied'[u] > 0
  BY <1>2 DEF SchemaInv, SchemaTypeOK
<1>5. SchemaTypeOK' /\ ClosedWhenDown'
  <2>1. applied' \in [Migrations -> Nat] /\ version' \in 0..Newest
    BY <1>1, <1>2 DEF RunMigration, SchemaInv, SchemaTypeOK
  <2>2. at' \in [Opener -> {"closed", "select", "migrate", "open"}] /\ todo' \in [Opener -> Migrations]
    <3>1. CASE v = build
      BY <3>1 DEF RunMigration, SchemaInv, SchemaTypeOK
    <3>2. CASE v # build
      <4>1. v + 1 \in Migrations /\ at' = at /\ todo' = [todo EXCEPT ![o] = v + 1]
        BY <1>1, <3>2 DEF RunMigration, SchemaInv, SchemaTypeOK
      <4> QED BY <4>1 DEF SchemaInv, SchemaTypeOK
    <3> QED BY <3>1, <3>2
  <2> QED
    BY <1>1, <2>1, <2>2 DEF RunMigration, SchemaInv, SchemaTypeOK, ClosedWhenDown
<1>6. RecordedIsThere'
  BY <1>2, <1>3 DEF RecordedIsThere
<1>7. OpenIsCurrent'
  BY <1>1, <1>3, <1>4 DEF OpenIsCurrent, RunMigration, SchemaInv, SchemaTypeOK
<1>8. WorkIsInOrder'
  <2> SUFFICES ASSUME NEW p \in Opener, at'[p] = "migrate"
               PROVE  todo'[p] <= build' /\ \A u \in Migrations : u < todo'[p] => applied'[u] > 0
    BY DEF WorkIsInOrder
  <2>1. CASE p # o
    <3>1. at[p] = "migrate" /\ todo'[p] = todo[p] /\ build' = build
      BY <2>1 DEF RunMigration, SchemaInv, SchemaTypeOK
    <3> QED BY <3>1, <1>4 DEF SchemaInv, WorkIsInOrder
  <2>2. CASE p = o
    <3>1. v # build /\ todo'[o] = v + 1 /\ build' = build
      BY <2>2 DEF RunMigration, SchemaInv, SchemaTypeOK
    <3>2. build \in Nat /\ v \in Nat /\ v + 1 <= build
      BY <3>1, <1>1 DEF SchemaInv, SchemaTypeOK
    <3>3. ASSUME NEW u \in Migrations, u < v + 1
          PROVE  applied'[u] > 0
      <4>1. u <= v
        BY <3>2, <3>3
      <4> QED BY <4>1, <1>3
    <3> QED BY <2>2, <3>1, <3>2, <3>3
  <2> QED BY <2>1, <2>2
<1>9. ASSUME ~overlapped'
      PROVE  Alone'
  <2>1. Alone /\ v = version + 1 /\ version \in Nat
    BY <1>9 DEF RunMigration, SchemaInv, Alone, SchemaTypeOK
  <2>2. \A u \in Migrations : applied'[u] = IF u <= version' THEN 1 ELSE 0
    BY <1>1, <1>2, <2>1 DEF Alone
  <2>3. \A p \in Opener : at[p] # "open"
    BY <1>1, <2>1 DEF Alone, SchemaInv, SchemaTypeOK
  <2>4. \A p \in Opener : at[p] = "migrate" => p = o
    BY <2>1 DEF Alone, RunMigration
  <2>5. \A p \in Opener : at'[p] = "open" => version' = build'
    BY <1>2, <2>3 DEF RunMigration, SchemaInv, SchemaTypeOK
  <2>6. \A p \in Opener : at'[p] = "migrate" => p = o /\ todo'[p] = version' + 1
    BY <1>2, <2>4 DEF RunMigration, SchemaInv, SchemaTypeOK
  <2> QED BY <2>2, <2>5, <2>6 DEF Alone
<1> QED BY <1>5, <1>6, <1>7, <1>8, <1>9 DEF SchemaInv

LEMMA SchemaInvStep == SchemaInv /\ [SchemaNext]_schemaVars => SchemaInv'
<1> SUFFICES ASSUME SchemaInv, [SchemaNext]_schemaVars
             PROVE  SchemaInv'
  OBVIOUS
<1>1. ASSUME NEW b \in Migrations, BeginProcess(b)
      PROVE  SchemaInv'
  <2>1. b \in 0..Newest /\ b # 0
    BY NewestAssumption DEF Migrations
  <2>2. \A o \in Opener : at'[o] = "closed"
    BY <1>1 DEF BeginProcess, SchemaInv, ClosedWhenDown
  <2> QED
    BY <1>1, <2>1, <2>2, ClosingKeeps DEF BeginProcess, SchemaInv, SchemaTypeOK, ClosedWhenDown
<1>2. ASSUME NEW o \in Opener, OpenFile(o) \/ CloseFile(o)
      PROVE  SchemaInv'
  <2>1. ClosedWhenDown'
    BY <1>2 DEF OpenFile, CloseFile, SchemaInv, SchemaTypeOK, ClosedWhenDown
  <2> QED
    BY <1>2, <2>1, ClosingKeeps DEF OpenFile, CloseFile, SchemaInv, SchemaTypeOK
<1>3. CASE EndProcess
  BY <1>3, ClosingKeeps, NewestAssumption DEF EndProcess, SchemaInv, SchemaTypeOK, ClosedWhenDown
<1>4. CASE UNCHANGED schemaVars
  BY <1>4 DEF schemaVars, SchemaInv, SchemaTypeOK, ClosedWhenDown, RecordedIsThere,
              OpenIsCurrent, WorkIsInOrder, Alone
<1> QED BY <1>1, <1>2, <1>3, <1>4, ReadingKeeps, MigratingKeeps DEF SchemaNext

(* However the file was opened, by builds new and old, one after the other *)
(* or two at once, and wherever they were cut short: its version never     *)
(* promises tables that are not there, and a migration that no other       *)
(* opener raced ran once and was recorded (migrate).                       *)
THEOREM SchemaIsSound == SchemaSpec => []UpgradedOnce
<1>1. SchemaInv => UpgradedOnce
  BY DEF SchemaInv, UpgradedOnce, RecordedIsThere, OpenIsCurrent, Alone
<1> QED BY <1>1, SchemaInvInit, SchemaInvStep, PTL DEF SchemaSpec
=============================================================================
