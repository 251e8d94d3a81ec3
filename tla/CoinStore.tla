------------------------------ MODULE CoinStore ------------------------------
(***************************************************************************)
(* What a wallet store promises the sync engine: every call is one step    *)
(* and answers what the step did.  InMemoryWalletStore keeps this by its   *)
(* mutex.  A durable store may also fail, and then a rollback may be torn: *)
(* each coin is as it was before or as the rollback leaves it, nothing     *)
(* else.  (SPEC.md 3: the durable store is a drop-in.)                     *)
(***************************************************************************)
EXTENDS WalletStore

CONSTANTS
  Height,     \* the heights the store is called with
  Lifecycle   \* SyncLifecycle

VARIABLES
  coins,      \* the coin table
  peak,       \* the height the wallet has processed up to
  target,     \* the tip it is syncing toward
  lifecycle,  \* the sync lifecycle
  answer      \* what the last call returned

vars == <<coins, peak, target, lifecycle, answer>>

Done == [ok |-> TRUE]
Changed(change) == [ok |-> TRUE, change |-> change]
Touched(ids) == [ok |-> TRUE, ids |-> ids]
Failed == [ok |-> FALSE]

Init ==
  /\ coins = [c \in Coin |-> NoCoin]
  /\ peak = 0
  /\ target = 0
  /\ lifecycle = "Idle"
  /\ answer = Done

(* The caller learns the answer, or that there is none. *)
Answers(a) == answer' \in {a, Failed}

Apply(c, rec) ==
  /\ coins' = [coins EXCEPT ![c] = rec]
  /\ Answers(Changed(Classify(coins[c], rec)))
  /\ UNCHANGED <<peak, target, lifecycle>>

Rollback(fork) ==
  /\ coins' = RolledBack(coins, fork)
  /\ peak' = fork
  /\ Answers(Touched(Affected(coins, fork)))
  /\ UNCHANGED <<target, lifecycle>>

(* Some of the coins are rolled back, and the caller gets no answer. *)
TornRollback(fork) ==
  /\ \E part \in SUBSET Coin :
       coins' = [c \in Coin |-> IF c \in part THEN RolledBack(coins, fork)[c] ELSE coins[c]]
  /\ answer' = Failed
  /\ UNCHANGED <<peak, target, lifecycle>>

SetPeak(h) ==
  /\ peak' = IF h > peak THEN h ELSE peak
  /\ Answers(Done)
  /\ UNCHANGED <<coins, target, lifecycle>>

SetSyncStatus(l, h) ==
  /\ lifecycle' = l
  /\ target' = h
  /\ Answers(Done)
  /\ UNCHANGED <<coins, peak>>

Refuse ==
  /\ answer' = Failed
  /\ UNCHANGED <<coins, peak, target, lifecycle>>

Next ==
  \/ \E c \in Coin, rec \in [created : Height, spent : Height] : Apply(c, rec)
  \/ \E h \in Height : Rollback(h) \/ TornRollback(h) \/ SetPeak(h)
  \/ \E l \in Lifecycle, h \in Height : SetSyncStatus(l, h)
  \/ Refuse

Spec == Init /\ [][Next]_vars
=============================================================================
