----------------------------- MODULE DurableStore -----------------------------
(***************************************************************************)
(* SqliteWalletStore (engine/persist.rs), statement by statement.          *)
(*                                                                         *)
(* A call holds the connection's mutex from beginning to end, so there is  *)
(* at most one, `call'.  Its statements run one after the other in         *)
(* autocommit: each one takes effect by itself or not at all, any of them  *)
(* may fail (and `?' returns the error at once), and the process may end   *)
(* between any two of them, or after the last one before the caller knows. *)
(* No call opens a transaction around its statements.                      *)
(*                                                                         *)
(* SQLite itself is external.  A wallet without a row in sync_state reads  *)
(* as Idle at height 0, and the first write inserts just that, so the      *)
(* missing row and the default row are one.                                *)
(***************************************************************************)
EXTENDS WalletStore

CONSTANTS
  MaxHeight,   \* bound: the heights the store is called with
  MaxFaults    \* bound: failing statements and crashes

ASSUME BoundAssumption == MaxHeight \in Nat /\ MaxFaults \in Nat

VARIABLES
  rows,        \* table coins
  peak,        \* sync_state.peak_height
  target,      \* sync_state.target_height
  lifecycle,   \* sync_state.lifecycle
  call,        \* the call under way: its next statement and its locals
  answer,      \* what the last call returned
  faults,      \* failures and crashes so far
  before,      \* history: coins, peak, target and lifecycle when the call began
  broken       \* history: the rollback that broke off, until another call begins

disk == <<rows, peak, target, lifecycle>>
vars == <<disk, call, answer, faults, before, broken>>

Height == 0..MaxHeight
Lifecycle == {"Idle", "Syncing", "Synced"}

(* What a peer reports of a coin: it is spent after it was created, if ever. *)
Records == {rec \in [created : Height, spent : Height] :
              rec.spent # 0 => rec.created \in 1..rec.spent}

Idle == [next |-> "idle"]
Whole == [next |-> "whole"]

Done == [ok |-> TRUE]
Changed(change) == [ok |-> TRUE, change |-> change]
Touched(ids) == [ok |-> TRUE, ids |-> ids]
Failed == [ok |-> FALSE]

Disk == [coins |-> rows, peak |-> peak, target |-> target, lifecycle |-> lifecycle]

Init ==
  /\ rows = [c \in Coin |-> NoCoin]
  /\ peak = 0
  /\ target = 0
  /\ lifecycle = "Idle"
  /\ call = Idle
  /\ answer = Done
  /\ faults = 0
  /\ before = Disk
  /\ broken = Whole
-----------------------------------------------------------------------------
(* A call takes the mutex and runs its first statement.                     *)
Begin(c) ==
  /\ call = Idle
  /\ call' = c
  /\ before' = Disk
  /\ UNCHANGED <<answer, faults>>

(* The last statement has been executed; the answer is on its way.          *)
Returning(a) == [next |-> "return", answer |-> a]

Return ==
  /\ call.next = "return"
  /\ answer' = call.answer
  /\ call' = Idle
  /\ UNCHANGED <<disk, faults, before, broken>>

-----------------------------------------------------------------------------
(* apply_coin_state: SELECT the previous row and classify, then upsert.     *)
ApplyCoinState(c, rec) ==
  /\ Begin([next |-> "upsert", coin |-> c, rec |-> rec, change |-> Classify(rows[c], rec)])
  /\ broken' = Whole
  /\ UNCHANGED disk

Upsert ==
  /\ call.next = "upsert"
  /\ rows' = [rows EXCEPT ![call.coin] = call.rec]
  /\ call' = Returning(Changed(call.change))
  /\ UNCHANGED <<peak, target, lifecycle, answer, faults, before, broken>>
-----------------------------------------------------------------------------
(* rollback_to.                                                             *)

(* SELECT the coins created above the fork. *)
RollbackTo(fork) ==
  /\ Begin([next |-> "delete", fork |-> fork, ids |-> CreatedAfter(rows, fork)])
  /\ broken' = IF broken # Whole /\ broken.fork = fork THEN broken ELSE Whole
  /\ UNCHANGED disk

(* DELETE them. *)
DeleteCreated ==
  /\ call.next = "delete"
  /\ rows' = [c \in Coin |-> IF c \in CreatedAfter(rows, call.fork) THEN NoCoin ELSE rows[c]]
  /\ call' = [call EXCEPT !.next = "select"]
  /\ UNCHANGED <<peak, target, lifecycle, answer, faults, before, broken>>

(* Mutant: the second SELECT replaces the ids of the first. *)
Collected_Replaced(ids, more) == more

(* `affected' is a HashSet both SELECTs insert into. *)
Collected(ids, more) == ids \cup more

(* SELECT the coins spent above the fork. *)
SelectSpent ==
  /\ call.next = "select"
  /\ call' = [call EXCEPT !.next = "unspend",
                          !.ids = Collected(@, {c \in Held(rows) : rows[c].spent > call.fork})]
  /\ UNCHANGED <<disk, answer, faults, before, broken>>

(* Mutant: the spend in the block above the fork stays. *)
Unspent_OffByOne(rec, fork) == IF rec.spent > fork + 1 THEN [rec EXCEPT !.spent = 0] ELSE rec

(* spent_height = NULL WHERE spent_height > fork. *)
Unspent(rec, fork) == IF rec.spent > fork THEN [rec EXCEPT !.spent = 0] ELSE rec

(* UPDATE them. *)
UnspendSpent ==
  /\ call.next = "unspend"
  /\ rows' = [c \in Coin |-> IF c \in Held(rows) THEN Unspent(rows[c], call.fork) ELSE NoCoin]
  /\ call' = [call EXCEPT !.next = "peak"]
  /\ UNCHANGED <<peak, target, lifecycle, answer, faults, before, broken>>

(* set_peak_absolute, which creates the row if there is none. *)
ResetPeak ==
  /\ call.next = "peak"
  /\ peak' = call.fork
  /\ call' = Returning(Touched(call.ids))
  /\ broken' = Whole
  /\ UNCHANGED <<rows, target, lifecycle, answer, faults, before>>
-----------------------------------------------------------------------------
(* set_peak: SELECT the peak, then write the higher one.                    *)
SetPeak(h) ==
  /\ Begin([next |-> "write", height |-> h, read |-> peak])
  /\ broken' = Whole
  /\ UNCHANGED disk

(* Mutant: the advance is written, not the height. *)
PeakWritten_Advance(read, h) == h - read

(* current.max(peak_height). *)
PeakWritten(read, h) == IF h > read THEN h ELSE read

WritePeak ==
  /\ call.next = "write"
  /\ peak' = PeakWritten(call.read, call.height)
  /\ call' = Returning(Done)
  /\ UNCHANGED <<rows, target, lifecycle, answer, faults, before, broken>>

(* set_sync_status: one statement, which leaves the peak alone. *)
SetSyncStatus(l, h) ==
  /\ Begin(Returning(Done))
  /\ lifecycle' = l
  /\ target' = h
  /\ broken' = Whole
  /\ UNCHANGED <<rows, peak>>
-----------------------------------------------------------------------------
(* A rollback that ends before its last statement is broken off. *)
BreakOff ==
  broken' = IF broken = Whole /\ call.next \in {"delete", "select", "unspend", "peak"}
            THEN [next |-> "broken", fork |-> call.fork, disk |-> before]
            ELSE broken

(* The next statement fails, the first of a call (then `call' is still      *)
(* Idle) or a later one: the call returns the error.                        *)
Fail ==
  /\ faults < MaxFaults
  /\ call.next # "return"
  /\ faults' = faults + 1
  /\ call' = Idle
  /\ answer' = Failed
  /\ BreakOff
  /\ UNCHANGED <<disk, before>>

(* The process ends and the store is opened again: the caller never learns  *)
(* how its call ended.                                                      *)
Crash ==
  /\ faults < MaxFaults
  /\ call # Idle
  /\ faults' = faults + 1
  /\ call' = Idle
  /\ answer' = Failed
  /\ BreakOff
  /\ UNCHANGED <<disk, before>>

Next ==
  \/ \E c \in Coin, rec \in Records : ApplyCoinState(c, rec)
  \/ Upsert
  \/ \E h \in Height : RollbackTo(h) \/ SetPeak(h)
  \/ DeleteCreated \/ SelectSpent \/ UnspendSpent \/ ResetPeak
  \/ WritePeak
  \/ \E l \in Lifecycle, h \in Height : SetSyncStatus(l, h)
  \/ Return
  \/ Fail \/ Crash

Spec == Init /\ [][Next]_vars
-----------------------------------------------------------------------------
Answers == {Done, Failed} \cup [ok : {TRUE}, change : CoinChange] \cup [ok : {TRUE}, ids : SUBSET Coin]

Calls ==
  {Idle}
  \cup [next : {"upsert"}, coin : Coin, rec : CoinRecord, change : CoinChange]
  \cup [next : {"delete", "select", "unspend", "peak"}, fork : Nat, ids : SUBSET Coin]
  \cup [next : {"write"}, height : Nat, read : Nat]
  \cup [next : {"return"}, answer : Answers]

TypeOK ==
  /\ rows \in CoinTable
  /\ peak \in Nat
  /\ target \in Nat
  /\ lifecycle \in Lifecycle
  /\ call \in Calls
  /\ answer \in Answers
  /\ faults \in Nat

(* Repeating a rollback that broke off, as often as it takes, leaves the    *)
(* coins exactly as the first one would have, although its statements took  *)
(* effect one by one: each coin is rolled back once, none twice.            *)
RetryCompletes ==
  call.next = "peak" /\ broken # Whole => rows = RolledBack(broken.disk.coins, broken.fork)

(* The peak goes down last: when it does, no coin and no spend above it is  *)
(* left.  A rollback cut short therefore never claims a lower peak than the *)
(* coins it left behind (the order of rollback_to's statements).            *)
PeakFallsLast ==
  [][peak' < peak => \A c \in Held(rows') : rows'[c].created <= peak' /\ rows'[c].spent <= peak']_peak

(* A rollback takes effect as a whole or not at all, whatever fails (the    *)
(* module's doc: "WAL journaling gives crash-safe atomic writes +           *)
(* rollback").                                                              *)
AllOrNothing ==
  call = Idle /\ broken # Whole =>
    \/ rows = broken.disk.coins /\ peak = broken.disk.peak
    \/ rows = RolledBack(broken.disk.coins, broken.fork) /\ peak = broken.fork
-----------------------------------------------------------------------------
(* The store as its callers see it: while a call holds the mutex, nobody    *)
(* sees what it has done so far.                                            *)
Seen == IF call = Idle THEN Disk ELSE before

Store == INSTANCE CoinStore WITH
  coins <- Seen.coins,
  peak <- Seen.peak,
  target <- Seen.target,
  lifecycle <- Seen.lifecycle

(* Drop-in for the in-memory store: a call that returns has done, and       *)
(* answers, just what InMemoryWalletStore's one step would have; a call     *)
(* that fails did that, or nothing, or tore a rollback coin by coin.        *)
ImplementsCoinStore == Store!Spec
=============================================================================
