----------------------------- MODULE WalletSync -----------------------------
(***************************************************************************)
(* The sync engine (engine/sync.rs) driving the wallet store               *)
(* (engine/state.rs) from a chain that grows and reorganises.              *)
(*                                                                         *)
(* Every call of SyncEngine is a sequence of store calls, each under the   *)
(* store's mutex, and of publications; between any two of them, and while  *)
(* a peer or the fallback is awaited, the chain moves on and other tasks   *)
(* run.  A task is one caller of the engine.  SyncEngine's methods take    *)
(* &self over a shared store, so nothing in the engine keeps two tasks     *)
(* from running at once; with one task the calls come one after the other. *)
(*                                                                         *)
(* The chain and the transports are external: a peer answers with all the  *)
(* wallet's coins as they are at the moment it answers, a point read with  *)
(* the one coin it was asked about.  Every reorganisation is reported to   *)
(* the engine, at some later time and in order.                            *)
(*                                                                         *)
(* The event log is kept as what a subscriber makes of it: `told' is the   *)
(* fold of the CoinStateChanged events, `told_sync' the last SyncProgress. *)
(***************************************************************************)
EXTENDS WalletStore, Sequences, FiniteSets

CONSTANTS
  Task,        \* concurrent callers of the SyncEngine
  MaxHeight,   \* bound: the height of the chain
  MaxReorgs    \* bound: reorganisations of the chain

ASSUME BoundAssumption == MaxHeight \in Nat /\ MaxReorgs \in Nat

VARIABLES
  truth,       \* the chain's coin states
  tip,         \* the chain's height
  forks,       \* how often the chain has been reorganised
  reorgs,      \* fork heights not yet given to handle_reorg
  coins,       \* WalletState.coins
  peak,        \* WalletState.peak_height
  target,      \* WalletState.target_height
  lifecycle,   \* WalletState.lifecycle
  pc,          \* where each task stands
  batch,       \* records a task has fetched and not yet applied
  ids,         \* coin ids a task has still to read
  top,         \* ingest's max_height
  goal,        \* the lifecycle a task is about to record
  height,      \* the height a task is about to record with it
  out,         \* events a task has still to publish
  told,        \* history: each coin's state according to the events
  told_sync,   \* history: the last SyncProgress
  received,    \* history: FundsReceived events per coin
  sent,        \* history: FundsSent events per coin
  undone       \* history: rollbacks that touched the coin

chain == <<truth, tip, forks>>
store == <<coins, peak, target, lifecycle>>
local == <<pc, batch, ids, top, goal, height, out>>
heard == <<told, told_sync, received, sent>>
vars == <<chain, reorgs, store, local, heard, undone>>

Lifecycle == {"Idle", "Syncing", "Synced"}
PC == {"idle", "peer", "point", "read", "mark", "affected", "status", "progress"}

Unborn == [created |-> 0, spent |-> 0]

Init ==
  /\ truth = [c \in Coin |-> Unborn]
  /\ tip = 0
  /\ forks = 0
  /\ reorgs = << >>
  /\ coins = [c \in Coin |-> NoCoin]
  /\ peak = 0
  /\ target = 0
  /\ lifecycle = "Idle"
  /\ pc = [t \in Task |-> "idle"]
  /\ batch = [t \in Task |-> {}]
  /\ ids = [t \in Task |-> {}]
  /\ top = [t \in Task |-> 0]
  /\ goal = [t \in Task |-> "Idle"]
  /\ height = [t \in Task |-> 0]
  /\ out = [t \in Task |-> << >>]
  /\ told = [c \in Coin |-> Unborn]
  /\ told_sync = <<"Idle", 0>>
  /\ received = [c \in Coin |-> 0]
  /\ sent = [c \in Coin |-> 0]
  /\ undone = [c \in Coin |-> 0]
-----------------------------------------------------------------------------
(* The chain.                                                               *)

(* A block creates and spends coins of the wallet. *)
Block ==
  /\ tip < MaxHeight
  /\ tip' = tip + 1
  /\ \E born \in SUBSET {c \in Coin : truth[c].created = 0},
        gone \in SUBSET {c \in Coin : truth[c].created # 0 /\ truth[c].spent = 0} :
       truth' = [c \in Coin |->
                   IF c \in born THEN [created |-> tip + 1, spent |-> 0]
                   ELSE IF c \in gone THEN [truth[c] EXCEPT !.spent = tip + 1]
                   ELSE truth[c]]
  /\ UNCHANGED <<forks, reorgs, store, local, heard, undone>>

(* The blocks above the fork leave the chain. *)
Fork ==
  /\ forks < MaxReorgs
  /\ \E f \in 0..(tip - 1) :
       /\ tip' = f
       /\ truth' = [c \in Coin |->
                      IF truth[c].created > f THEN Unborn
                      ELSE IF truth[c].spent > f THEN [truth[c] EXCEPT !.spent = 0]
                      ELSE truth[c]]
       /\ reorgs' = Append(reorgs, f)
  /\ forks' = forks + 1
  /\ UNCHANGED <<store, local, heard, undone>>
-----------------------------------------------------------------------------
(* Publications.                                                            *)

CoinStateChanged(c, rec) ==
  [type |-> "CoinStateChanged", coin |-> c, created |-> rec.created, spent |-> rec.spent]
Funds(type, c) == [type |-> type, coin |-> c, created |-> 0, spent |-> 0]

(* Mutant: a first-seen coin that is already spent is announced as inbound. *)
EventsFor_AlwaysReceived(c, rec, change) ==
  IF change = "Unchanged" THEN << >>
  ELSE <<Funds("FundsReceived", c), CoinStateChanged(c, rec)>>

(* emit_for_change: the events a coin change warrants, in order.            *)
EventsFor(c, rec, change) ==
  CASE change = "Unchanged" -> << >>
    [] change = "Created" /\ rec.created # 0 ->
         <<Funds("FundsReceived", c), CoinStateChanged(c, rec)>>
    [] change = "Spent" /\ rec.spent # 0 ->
         <<Funds("FundsSent", c), CoinStateChanged(c, rec)>>
    [] OTHER -> <<CoinStateChanged(c, rec)>>

(* events.publish: the task's next event reaches the log. *)
Emit(t) ==
  /\ out[t] # << >>
  /\ LET e == Head(out[t]) IN
       /\ told' = IF e.type = "CoinStateChanged"
                  THEN [told EXCEPT ![e.coin] = [created |-> e.created, spent |-> e.spent]]
                  ELSE told
       /\ received' = IF e.type = "FundsReceived"
                      THEN [received EXCEPT ![e.coin] = @ + 1] ELSE received
       /\ sent' = IF e.type = "FundsSent"
                  THEN [sent EXCEPT ![e.coin] = @ + 1] ELSE sent
  /\ out' = [out EXCEPT ![t] = Tail(@)]
  /\ UNCHANGED <<chain, reorgs, store, pc, batch, ids, top, goal, height, told_sync, undone>>
-----------------------------------------------------------------------------
(* sync_from_peer, and sync_with_fallback when the peer answers.            *)

At(t, p) == pc[t] = p /\ out[t] = << >>

(* peer.coin_states(...).await: the answer is a snapshot of the chain.  An  *)
(* error leaves everything as it is.                                        *)
FetchFromPeer(t) ==
  /\ At(t, "idle")
  /\ pc' = [pc EXCEPT ![t] = "peer"]
  /\ batch' = [batch EXCEPT ![t] =
                 {<<c, truth[c]>> : c \in {d \in Coin : truth[d].created # 0}}]
  /\ UNCHANGED <<chain, reorgs, store, ids, top, goal, height, out, heard, undone>>

(* ingest: max_height.max(created).max(spent). *)
HigherOf(m, rec) ==
  LET n == IF rec.created > m THEN rec.created ELSE m IN
  IF rec.spent > n THEN rec.spent ELSE n

(* ingest: one record is applied; its events are published next. *)
Apply(t) ==
  /\ pc[t] \in {"peer", "point"}
  /\ out[t] = << >>
  /\ \E r \in batch[t] :
       LET c == r[1]
           rec == r[2] IN
       /\ coins' = [coins EXCEPT ![c] = rec]
       /\ out' = [out EXCEPT ![t] = EventsFor(c, rec, Classify(coins[c], rec))]
       /\ top' = [top EXCEPT ![t] = HigherOf(@, rec)]
       /\ batch' = [batch EXCEPT ![t] = @ \ {r}]
  /\ UNCHANGED <<chain, reorgs, peak, target, lifecycle, pc, ids, goal, height, heard, undone>>

(* ingest ends with set_peak, which never moves the peak back.  A peer sync *)
(* goes on to mark_synced, a point read to the next coin.                   *)
SetPeak(t) ==
  /\ pc[t] \in {"peer", "point"}
  /\ out[t] = << >>
  /\ batch[t] = {}
  /\ peak' = IF top[t] > peak THEN top[t] ELSE peak
  /\ top' = [top EXCEPT ![t] = 0]
  /\ pc' = [pc EXCEPT ![t] = IF @ = "peer" THEN "mark" ELSE "read"]
  /\ UNCHANGED <<chain, reorgs, coins, target, lifecycle, batch, ids, goal, height, out,
                 heard, undone>>

(* mark_synced reads the peak ... *)
MarkSynced(t) ==
  /\ At(t, "mark")
  /\ goal' = [goal EXCEPT ![t] = "Synced"]
  /\ height' = [height EXCEPT ![t] = peak]
  /\ pc' = [pc EXCEPT ![t] = "status"]
  /\ UNCHANGED <<chain, reorgs, store, batch, ids, top, out, heard, undone>>

(* ... and records it as the target: set_sync_status. *)
SetSyncStatus(t) ==
  /\ At(t, "status")
  /\ lifecycle' = goal[t]
  /\ target' = height[t]
  /\ pc' = [pc EXCEPT ![t] = "progress"]
  /\ UNCHANGED <<chain, reorgs, coins, peak, batch, ids, top, goal, height, out, heard, undone>>

(* publish_progress; the call returns. *)
PublishProgress(t) ==
  /\ At(t, "progress")
  /\ told_sync' = <<goal[t], height[t]>>
  /\ pc' = [pc EXCEPT ![t] = "idle"]
  /\ goal' = [goal EXCEPT ![t] = "Idle"]
  /\ height' = [height EXCEPT ![t] = 0]
  /\ UNCHANGED <<chain, reorgs, store, batch, ids, top, out, told, received, sent, undone>>
-----------------------------------------------------------------------------
(* sync_with_fallback when the peer is out of reach, and resolve_coin.      *)

(* The peer call ends in a transport error: the coins are read one by one.  *)
StartFallback(t) ==
  /\ At(t, "idle")
  /\ \E wanted \in SUBSET Coin : ids' = [ids EXCEPT ![t] = wanted]
  /\ pc' = [pc EXCEPT ![t] = "read"]
  /\ UNCHANGED <<chain, reorgs, store, batch, top, goal, height, out, heard, undone>>

(* resolve_coin goes to the fallback only for a coin the store lacks. *)
StartResolve(t) ==
  /\ At(t, "idle")
  /\ \E c \in Coin \ Held(coins) : ids' = [ids EXCEPT ![t] = {c}]
  /\ pc' = [pc EXCEPT ![t] = "read"]
  /\ UNCHANGED <<chain, reorgs, store, batch, top, goal, height, out, heard, undone>>

(* fallback.coin_state(coin_id).await: the coin as it is now, if it exists. *)
PointRead(t) ==
  /\ At(t, "read")
  /\ \E c \in ids[t] :
       /\ ids' = [ids EXCEPT ![t] = @ \ {c}]
       /\ \/ /\ truth[c].created # 0
             /\ batch' = [batch EXCEPT ![t] = {<<c, truth[c]>>}]
             /\ pc' = [pc EXCEPT ![t] = "point"]
          \/ /\ truth[c].created = 0
             /\ UNCHANGED <<batch, pc>>
  /\ UNCHANGED <<chain, reorgs, store, top, goal, height, out, heard, undone>>

(* All coins are read, or one read failed and `?' returns at once.  Either  *)
(* way the wallet is not marked synced.                                     *)
EndFallback(t) ==
  /\ At(t, "read")
  /\ pc' = [pc EXCEPT ![t] = "idle"]
  /\ ids' = [ids EXCEPT ![t] = {}]
  /\ UNCHANGED <<chain, reorgs, store, batch, top, goal, height, out, heard, undone>>
-----------------------------------------------------------------------------
(* handle_reorg.                                                            *)

(* Mutant: the peak is moved like set_peak moves it, never back. *)
PeakAfter_Kept(fork) == IF peak > fork THEN peak ELSE fork

(* Mutant: the last common block is processed again. *)
PeakAfter_Before(fork) == fork - 1

(* rollback_to: "peak_height is reset to fork_height". *)
PeakAfter(fork) == fork

HandleReorg(t) ==
  /\ At(t, "idle")
  /\ reorgs # << >>
  /\ LET fork == Head(reorgs) IN
       /\ coins' = RolledBack(coins, fork)
       /\ peak' = PeakAfter(fork)
       /\ ids' = [ids EXCEPT ![t] = Affected(coins, fork)]
       /\ undone' = [c \in Coin |->
                       IF c \in Affected(coins, fork) THEN undone[c] + 1 ELSE undone[c]]
       /\ height' = [height EXCEPT ![t] = fork]
  /\ goal' = [goal EXCEPT ![t] = "Syncing"]
  /\ reorgs' = Tail(reorgs)
  /\ pc' = [pc EXCEPT ![t] = "affected"]
  /\ UNCHANGED <<chain, target, lifecycle, batch, top, out, heard>>

(* Each affected coin is read again and announced as the store has it now.  *)
AnnounceAffected(t) ==
  /\ At(t, "affected")
  /\ \E c \in ids[t] :
       /\ ids' = [ids EXCEPT ![t] = @ \ {c}]
       /\ out' = [out EXCEPT ![t] =
                    <<CoinStateChanged(c, IF coins[c] = NoCoin THEN Unborn ELSE coins[c])>>]
  /\ UNCHANGED <<chain, reorgs, store, pc, batch, top, goal, height, heard, undone>>

(* Mutant: the rollback is announced, the sync status left as it was. *)
StepAfterAffected_Return == "idle"

(* The rollback ends with the sync status: Syncing, at the fork.            *)
StepAfterAffected == "status"

EndAffected(t) ==
  /\ At(t, "affected")
  /\ ids[t] = {}
  /\ pc' = [pc EXCEPT ![t] = StepAfterAffected]
  /\ UNCHANGED <<chain, reorgs, store, batch, ids, top, goal, height, out, heard, undone>>
-----------------------------------------------------------------------------
(* A call under way goes on ... *)
Continue(t) ==
  \/ Emit(t)
  \/ Apply(t) \/ SetPeak(t) \/ MarkSynced(t) \/ SetSyncStatus(t) \/ PublishProgress(t)
  \/ PointRead(t) \/ EndFallback(t)
  \/ AnnounceAffected(t) \/ EndAffected(t)

(* ... and an idle task begins another one. *)
Begin(t) == FetchFromPeer(t) \/ StartFallback(t) \/ StartResolve(t) \/ HandleReorg(t)

Next ==
  \/ Block
  \/ Fork
  \/ \E t \in Task : Continue(t) \/ Begin(t)

Spec == Init /\ [][Next]_vars

(* A call that was begun runs to its end; a caller syncs from the peer and  *)
(* reports a reorganisation again and again, the one not for ever instead   *)
(* of the other.  The chain does nothing it has to do.                      *)
Fairness ==
  \A t \in Task :
    /\ WF_vars(Continue(t))
    /\ SF_vars(FetchFromPeer(t))
    /\ SF_vars(HandleReorg(t))

FairSpec == Spec /\ Fairness
-----------------------------------------------------------------------------
Event == [type : {"CoinStateChanged", "FundsReceived", "FundsSent"}, coin : Coin,
          created : Nat, spent : Nat]

TypeOK ==
  /\ truth \in [Coin -> CoinRecord]
  /\ tip \in Nat
  /\ forks \in Nat
  /\ reorgs \in Seq(Nat)
  /\ coins \in CoinTable
  /\ peak \in Nat
  /\ target \in Nat
  /\ lifecycle \in Lifecycle
  /\ pc \in [Task -> PC]
  /\ batch \in [Task -> SUBSET (Coin \X CoinRecord)]
  /\ ids \in [Task -> SUBSET Coin]
  /\ top \in [Task -> Nat]
  /\ goal \in [Task -> Lifecycle]
  /\ height \in [Task -> Nat]
  /\ out \in [Task -> Seq(Event)]
  /\ told \in [Coin -> CoinRecord]
  /\ told_sync \in Lifecycle \X Nat
  /\ received \in [Coin -> Nat]
  /\ sent \in [Coin -> Nat]
  /\ undone \in [Coin -> Nat]

Quiet == \A t \in Task : pc[t] = "idle" /\ out[t] = << >>

(* Every reorganisation has been handled and no call is under way. *)
Settled == Quiet /\ reorgs = << >>

(* No orphan survives: once all reorganisations are handled, every coin the *)
(* wallet holds is on the chain, created where the wallet says, and spent   *)
(* there if the wallet says it is spent (rollback_to forgets coins that     *)
(* "never existed on the winning chain").                                   *)
StoreOnChain ==
  Settled => \A c \in Held(coins) :
    /\ coins[c].created = truth[c].created
    /\ coins[c].spent \in {0, truth[c].spent}

(* The wallet never claims to have processed more than there is.            *)
PeakOnChain == Settled => peak <= tip

(* A subscriber that folds the CoinStateChanged events knows exactly what   *)
(* the store holds whenever no call is under way: nothing changes the store *)
(* without an event, and the last event about a coin is the current one.    *)
EventsMatchStore ==
  Quiet => \A c \in Coin : told[c] = IF coins[c] = NoCoin THEN Unborn ELSE coins[c]

(* A wallet that says Synced has processed its target, and the last         *)
(* SyncProgress said the same (mark_synced, handle_reorg).                  *)
SyncedAtTarget ==
  Quiet /\ lifecycle = "Synced" => peak >= target /\ told_sync = <<"Synced", target>>

(* Inbound value is announced once per appearance of a coin, whoever else   *)
(* ingests the same coin: classification and upsert are one critical        *)
(* section.  Only a rollback allows another FundsReceived.                  *)
ReceivedOnce == \A c \in Coin : received[c] <= 1 + undone[c]

(* A subscriber that books the Funds events never books one twice: a        *)
(* FundsReceived reaches it only when the stream last said that the coin    *)
(* does not exist, a FundsSent only when it last said that the coin is not  *)
(* spent.  Reorganisations seen through the peer before handle_reorg is     *)
(* called may un-spend and re-spend a coin; each is told in between.        *)
BookedOnce ==
  [][\A c \in Coin : /\ received'[c] # received[c] => told[c] = Unborn
                     /\ sent'[c] # sent[c] => told[c].spent = 0]_vars

(* What "the height the wallet has processed up to" says of peak_height:    *)
(* no coin of the wallet below it is missing.                               *)
PeakIsProcessed ==
  Settled => \A c \in Coin : truth[c].created \in 1..peak => c \in Held(coins)

(* Once the chain is quiet the wallet ends up with exactly the chain's      *)
(* coins and stays so, whatever reorganisations, point reads and failures   *)
(* came before.                                                             *)
Converges ==
  <>[](\A c \in Coin : coins[c] = IF truth[c] = Unborn THEN NoCoin ELSE truth[c])
=============================================================================
