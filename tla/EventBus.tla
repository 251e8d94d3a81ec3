------------------------------ MODULE EventBus ------------------------------
(***************************************************************************)
(* The engine's event emitter and its subscribers.                         *)
(*                                                                         *)
(*   engine/events.rs    EventSink (publish, record, subscribe), DeltaLog  *)
(*   engine/persist.rs   SqliteDeltaLog (append, catch_up)                 *)
(*   client/subscribe.rs Subscription::next and its LagSignal              *)
(*                                                                         *)
(* EventSink is Clone and every engine subsystem publishes through its own *)
(* handle.  publish() is not atomic: it takes a cursor from an atomic      *)
(* counter, appends to the durable log (best effort), pushes into the      *)
(* in-memory ring under a mutex and sends on the broadcast channel.  Each  *)
(* of the four is one action here and the publishers interleave.           *)
(*                                                                         *)
(* A subscriber runs the loop SPEC.md 5.3 prescribes: read live; on a lag  *)
(* signal, or after (re)connecting, ask the catch-up log once for all that *)
(* follows the last cursor it handled; read live again.                    *)
(*                                                                         *)
(* The Tokio broadcast channel is external.  Its documented behaviour is   *)
(* modelled: `channel' holds every event ever sent, only the last          *)
(* BufferCapacity of which are retained, and a receiver whose position has *)
(* fallen out of the retained part is told so once and moved to the oldest *)
(* retained event.                                                         *)
(***************************************************************************)
EXTENDS Naturals, Sequences, FiniteSets

CONSTANTS
  Publisher,         \* the subsystems holding a clone of the EventSink
  Subscriber,        \* the client-side consumers
  Kind,              \* EventKind
  Interest,          \* Interest[s]: the EnumSet<EventKind> s filters by
  Source,            \* Source[s]: which CatchUp s was given, "ring" or "durable"
  BufferCapacity,    \* the broadcast channel's capacity
  HistoryCapacity,   \* the delta log's capacity
  StorageReliable,   \* whether every append to the durable log succeeds
  MaxCursor,         \* bound: cursors handed out, one fewer after each restart
  MaxRestarts,       \* bound: restarts of the engine process
  NoEvent            \* what an idle publisher holds

ASSUME InterestAssumption == Interest \in [Subscriber -> SUBSET Kind]
ASSUME SourceAssumption == Source \in [Subscriber -> {"ring", "durable"}]
ASSUME CapacityAssumption ==
  /\ BufferCapacity \in Nat \ {0}
  /\ HistoryCapacity \in Nat
ASSUME BoundAssumption == MaxCursor \in Nat /\ MaxRestarts \in Nat
ASSUME ReliableAssumption == StorageReliable \in BOOLEAN

(* An emitted event.  `run' tells apart the events of different process     *)
(* lifetimes; it stands for the payload, no code reads it.                  *)
Event == [cursor : Nat \ {0}, kind : Kind, run : Nat]

ASSUME NoEventAssumption == NoEvent \notin Event

VARIABLES
  run,          \* how often the engine process has been restarted
  next_cursor,  \* EventSink.next_cursor
  history,      \* EventSink.history: the ring, oldest first
  channel,      \* all events sent on the broadcast channel of this process
  durable,      \* the rows of the durable log's events table
  pc,           \* where each publisher stands in publish()
  inflight,     \* the event each publisher is publishing
  mode,         \* "off", "live", or "gap" (owes a catch_up call)
  pos,          \* how many events of `channel' each receiver has passed
  last,         \* the cursor each subscriber handled last
  seen,         \* history variable: the events each subscriber was handed
  aged,         \* history variable: the events evicted before s could catch up
  recorded,     \* history variable: every event ever pushed into the ring
  appended      \* history variable: every event whose durable append returned Ok

emitter == <<run, next_cursor, history, channel, durable, pc, inflight, recorded, appended>>
client == <<mode, pos, last, seen, aged>>
vars == <<emitter, client>>

PC == {"idle", "append", "push", "send"}
Mode == {"off", "live", "gap"}

InitFrom(first_cursor) ==
  /\ run = 0
  /\ next_cursor = first_cursor
  /\ history = << >>
  /\ channel = << >>
  /\ durable = {}
  /\ pc = [p \in Publisher |-> "idle"]
  /\ inflight = [p \in Publisher |-> NoEvent]
  /\ mode = [s \in Subscriber |-> "off"]
  /\ pos = [s \in Subscriber |-> 0]
  /\ last = [s \in Subscriber |-> 0]
  /\ seen = [s \in Subscriber |-> {}]
  /\ aged = [s \in Subscriber |-> {}]
  /\ recorded = {}
  /\ appended = {}

(* Mutant: the counter starts at the "seen nothing" sentinel. *)
Init_FromSentinel == InitFrom(0)

(* build(): "Real cursors start at 1", so that 0 can mean "seen nothing".   *)
Init == InitFrom(1)
-----------------------------------------------------------------------------
(* publish(), step by step.                                                 *)

(* Mutant: a load and a store instead of fetch_add, so that a publisher can *)
(* read the counter before the store of another one lands.                  *)
TakenCursor_Racy ==
  IF \E q \in Publisher : pc[q] = "append" THEN next_cursor - 1 ELSE next_cursor

(* The value fetch_add returns. *)
TakenCursor == next_cursor

(* next_cursor.fetch_add(1): the cursor is taken and consumed in one step.  *)
Stamp(p, k) ==
  /\ pc[p] = "idle"
  /\ run + next_cursor <= MaxCursor
  /\ inflight' = [inflight EXCEPT ![p] = [cursor |-> TakenCursor, kind |-> k, run |-> run]]
  /\ next_cursor' = TakenCursor + 1
  /\ pc' = [pc EXCEPT ![p] = "append"]
  /\ UNCHANGED <<run, history, channel, durable, recorded, appended, client>>

(* Mutant: the table is pruned like the ring. *)
InsertRow_Pruned(rows, e) ==
  {r \in rows : r.cursor + HistoryCapacity > e.cursor} \cup {e}

(* INSERT ... ON CONFLICT(cursor) DO NOTHING: the row of a cursor that is   *)
(* already there stays, and the call still returns Ok.                      *)
InsertRow(rows, e) ==
  IF \E r \in rows : r.cursor = e.cursor THEN rows ELSE rows \cup {e}

(* record(), first half: the dual write.  Its error, if any, is dropped.    *)
AppendDurable(p) ==
  /\ pc[p] = "append"
  /\ \/ /\ durable' = InsertRow(durable, inflight[p])
        /\ appended' = appended \cup {inflight[p]}
     \/ /\ ~StorageReliable
        /\ UNCHANGED <<durable, appended>>
  /\ pc' = [pc EXCEPT ![p] = "push"]
  /\ UNCHANGED <<run, next_cursor, history, channel, inflight, recorded, client>>

(* VecDeque::pop_front, which does nothing to an empty ring. *)
PopFront(ring) == IF ring = << >> THEN ring ELSE Tail(ring)

(* Mutant: eviction only once the ring is over its capacity. *)
Pushed_Late(ring, e) ==
  Append(IF Len(ring) > HistoryCapacity THEN PopFront(ring) ELSE ring, e)

(* Mutant: a ring smaller than the broadcast buffer. *)
Pushed_Single(ring, e) == <<e>>

(* Mutant: push_front, the newest event first. *)
Pushed_Front(ring, e) ==
  <<e>> \o (IF Len(ring) = HistoryCapacity THEN SubSeq(ring, 1, Len(ring) - 1) ELSE ring)

(* The ring after a push: at capacity the oldest event makes room.          *)
Pushed(ring, e) ==
  Append(IF Len(ring) = HistoryCapacity THEN PopFront(ring) ELSE ring, e)

(* Mutant: with a durable log the ring is left alone. *)
PushHistory_Skipped(p) ==
  /\ pc[p] = "push"
  /\ pc' = [pc EXCEPT ![p] = "send"]
  /\ UNCHANGED <<run, next_cursor, history, channel, durable, inflight, recorded,
                 appended, client>>

(* record(), second half, under the ring's mutex.                           *)

PushHistory(p) ==
  /\ pc[p] = "push"
  /\ history' = Pushed(history, inflight[p])
  /\ recorded' = recorded \cup {inflight[p]}
  /\ pc' = [pc EXCEPT ![p] = "send"]
  /\ UNCHANGED <<run, next_cursor, channel, durable, inflight, appended, client>>

(* sender.send(): an error only means that nobody listens.                  *)
Send(p) ==
  /\ pc[p] = "send"
  /\ channel' = Append(channel, inflight[p])
  /\ pc' = [pc EXCEPT ![p] = "idle"]
  /\ inflight' = [inflight EXCEPT ![p] = NoEvent]
  /\ UNCHANGED <<run, next_cursor, history, durable, recorded, appended, client>>
-----------------------------------------------------------------------------
(* The subscriber.                                                          *)

Matches(s, e) == e.kind \in Interest[s]

(* EventSink::subscribe: a receiver that starts at the end of the channel.  *)
(* A subscriber connects, or comes back, and then owes a catch-up.          *)
Subscribe(s) ==
  /\ mode[s] # "gap"
  /\ mode' = [mode EXCEPT ![s] = "gap"]
  /\ pos' = [pos EXCEPT ![s] = Len(channel)]
  /\ UNCHANGED <<emitter, last, seen, aged>>

(* The oldest event the channel still holds is channel[Oldest + 1].         *)
Oldest == IF Len(channel) > BufferCapacity THEN Len(channel) - BufferCapacity ELSE 0

(* Subscription::next: one turn of its loop that receives an event.  The    *)
(* event is handed on if it matches the filter and skipped if not.          *)
Receive(s) ==
  LET e == channel[pos[s] + 1] IN
  /\ mode[s] = "live"
  /\ Oldest <= pos[s] /\ pos[s] < Len(channel)
  /\ pos' = [pos EXCEPT ![s] = @ + 1]
  /\ \/ /\ Matches(s, e)
        /\ seen' = [seen EXCEPT ![s] = @ \cup {e}]
        /\ last' = [last EXCEPT ![s] = e.cursor]
     \/ /\ ~Matches(s, e)
        /\ UNCHANGED <<seen, last>>
  /\ UNCHANGED <<emitter, mode, aged>>

(* Mutant: RecvError::Lagged is passed over like a filtered event. *)
Lag_Ignored(s) ==
  /\ mode[s] = "live"
  /\ pos[s] < Oldest
  /\ pos' = [pos EXCEPT ![s] = Oldest]
  /\ UNCHANGED <<emitter, mode, last, seen, aged>>

(* Subscription::next: the receiver fell behind and returns LagSignal.      *)
Lag(s) ==
  /\ mode[s] = "live"
  /\ pos[s] < Oldest
  /\ pos' = [pos EXCEPT ![s] = Oldest]
  /\ mode' = [mode EXCEPT ![s] = "gap"]
  /\ UNCHANGED <<emitter, last, seen, aged>>

(* Mutant: catch_up without the kind filter. *)
RingAnswer_Unfiltered(s, since) == {i \in DOMAIN history : history[i].cursor > since}

(* Mutant: the range starts one event too late. *)
RingAnswer_OffByOne(s, since) ==
  {i \in DOMAIN history : history[i].cursor > since + 1 /\ Matches(s, history[i])}

(* DeltaLog::catch_up: the positions in the ring of what it returns, which  *)
(* it returns in the ring's order.                                          *)
RingAnswer(s, since) ==
  {i \in DOMAIN history : history[i].cursor > since /\ Matches(s, history[i])}

(* SqliteDeltaLog::catch_up: the rows it returns, in the order of cursors.  *)
DurableAnswer(s, since) ==
  {e \in durable : e.cursor > since /\ Matches(s, e)}

(* What the subscriber is handed by the catch-up log it was given.          *)
Answer(s, since) ==
  IF Source[s] = "ring"
  THEN {history[i] : i \in RingAnswer(s, since)}
  ELSE DurableAnswer(s, since)

(* The answer's last event is the one the subscriber handles last.          *)
IsLastOf(s, since, e) ==
  IF Source[s] = "ring"
  THEN \E i \in RingAnswer(s, since) :
         /\ e = history[i]
         /\ \A j \in RingAnswer(s, since) : j <= i
  ELSE \A f \in DurableAnswer(s, since) : f.cursor <= e.cursor

(* catch_up(last seen cursor, filter), called once, then live again.        *)
CatchUp(s) ==
  LET got == Answer(s, last[s]) IN
  /\ mode[s] = "gap"
  /\ mode' = [mode EXCEPT ![s] = "live"]
  /\ seen' = [seen EXCEPT ![s] = @ \cup got]
  /\ \/ /\ got = {}
        /\ UNCHANGED last
     \/ \E e \in got :
          /\ IsLastOf(s, last[s], e)
          /\ last' = [last EXCEPT ![s] = e.cursor]
  /\ aged' = [aged EXCEPT ![s] =
                IF Source[s] = "ring"
                THEN @ \cup {e \in recorded :
                             /\ e.cursor > last[s]
                             /\ Matches(s, e)
                             /\ e \notin {history[i] : i \in DOMAIN history}}
                ELSE @]
  /\ UNCHANGED <<emitter, pos>>
-----------------------------------------------------------------------------
(* The engine process ends and a new EventSink is built over the same       *)
(* durable log: the counter starts at 1 again, ring, channel and receivers  *)
(* are new, publications under way are gone.  Clients keep what they know.  *)
Restart ==
  /\ run < MaxRestarts
  /\ run' = run + 1
  /\ next_cursor' = 1
  /\ history' = << >>
  /\ channel' = << >>
  /\ pc' = [p \in Publisher |-> "idle"]
  /\ inflight' = [p \in Publisher |-> NoEvent]
  /\ mode' = [s \in Subscriber |-> "off"]
  /\ pos' = [s \in Subscriber |-> 0]
  /\ UNCHANGED <<durable, last, seen, aged, recorded, appended>>

Publish(p) ==
  \/ \E k \in Kind : Stamp(p, k)
  \/ AppendDurable(p)
  \/ PushHistory(p)
  \/ Send(p)

Follow(s) == Subscribe(s) \/ Receive(s) \/ Lag(s) \/ CatchUp(s)

Next ==
  \/ \E p \in Publisher : Publish(p)
  \/ \E s \in Subscriber : Follow(s)
  \/ Restart

Spec == Init /\ [][Next]_vars

(* publish() never blocks, so what was begun is finished; a subscriber that *)
(* is connected polls its receiver and answers a lag signal.  Nobody has to *)
(* publish, subscribe or reconnect.                                         *)
Fairness ==
  /\ \A p \in Publisher : WF_vars(AppendDurable(p) \/ PushHistory(p) \/ Send(p))
  /\ \A s \in Subscriber : WF_vars(Receive(s) \/ Lag(s) \/ CatchUp(s))

FairSpec == Spec /\ Fairness
-----------------------------------------------------------------------------
TypeOK ==
  /\ run \in Nat
  /\ next_cursor \in Nat \ {0}
  /\ history \in Seq(Event)
  /\ channel \in Seq(Event)
  /\ durable \subseteq Event
  /\ pc \in [Publisher -> PC]
  /\ inflight \in [Publisher -> Event \cup {NoEvent}]
  /\ mode \in [Subscriber -> Mode]
  /\ pos \in [Subscriber -> Nat]
  /\ last \in [Subscriber -> Nat]
  /\ seen \in [Subscriber -> SUBSET Event]
  /\ aged \in [Subscriber -> SUBSET Event]
  /\ recorded \subseteq Event
  /\ appended \subseteq Event

(* The bounded ring of the in-memory delta log never outgrows its capacity, *)
(* whoever publishes (DeltaLog is documented as a bounded ring).            *)
RingBounded == Len(history) <= HistoryCapacity

(* No two publications of one process share a cursor: neither two under way *)
(* nor two in the ring nor one under way and one already in the ring        *)
(* (publish stamps every event with a monotonic cursor).                    *)
UniqueCursors ==
  /\ \A p, q \in Publisher :
       /\ p # q
       /\ pc[p] # "idle"
       /\ pc[q] # "idle"
       => inflight[p].cursor # inflight[q].cursor
  /\ \A i, j \in DOMAIN history : i # j => history[i].cursor # history[j].cursor
  /\ \A p \in Publisher, i \in DOMAIN history :
       pc[p] \in {"append", "push"} => inflight[p].cursor # history[i].cursor

(* What any live subscriber can have received, a subscriber that comes      *)
(* later could have caught up to: an event is recorded before it is sent    *)
(* (SPEC 5.2: the event is ALWAYS recorded in the delta log).               *)
RecordedBeforeSent ==
  \A i \in DOMAIN channel : channel[i] \in recorded

(* Live stream and catch-up deliver the same filtered view: a subscriber is *)
(* handed only what was recorded and only kinds it asked for, whichever way *)
(* the event came (DeltaLog::catch_up's filter, Subscription::next's).      *)
FilteredView ==
  \A s \in Subscriber : \A e \in seen[s] :
    /\ e \in recorded \cup appended
    /\ Matches(s, e)

(* Nothing is lost inside the window: once a subscriber has handled some    *)
(* event, every earlier one it asked for was handed to it, or had been      *)
(* evicted from the ring when it caught up (SPEC 5.3).                      *)
GapFree ==
  \A s \in Subscriber : \A f \in seen[s] : \A e \in recorded :
    /\ e.cursor < f.cursor
    /\ Matches(s, e)
    => e \in seen[s] \cup aged[s]

(* New events reach a subscriber in the order of their cursors, although    *)
(* catch-up and the live stream overlap and the overlap is handed over      *)
(* twice (the end-to-end test's "cursors preserve order").                  *)
FirstSeenInOrder ==
  [][\A s \in Subscriber :
       \A e \in seen'[s] \ seen[s], f \in seen[s] : f.cursor < e.cursor]_seen

(* catch_up answers in cursor order (its doc comment: "in cursor order",    *)
(* "Within the window the range is complete and ordered").  The ring is     *)
(* returned in its own order, so the ring must be ordered.                  *)
CatchUpInCursorOrder ==
  \A i, j \in DOMAIN history : i < j => history[i].cursor < history[j].cursor

(* The durable log retains every event whose append it accepted, across     *)
(* restarts (SqliteDeltaLog's doc comment).                                 *)
DurableRetainsAll == appended \subseteq durable

(* A row of the durable log is never lost or overwritten, by a publication, *)
(* by a colliding cursor or by a restart.                                   *)
DurableOnlyGrows == [][durable \subseteq durable']_durable

(* A connected subscriber is eventually handed every recorded event of a    *)
(* kind it asked for, unless the ring had dropped it by the time it caught  *)
(* up, lag signals and reconnections included.                              *)
Delivered ==
  \A s \in Subscriber, c \in 1..MaxCursor :
    (mode[s] # "off" /\ \E e \in recorded : e.cursor = c /\ Matches(s, e))
      ~> (\E e \in seen[s] \cup aged[s] : e.cursor = c)
-----------------------------------------------------------------------------
(* For a subscriber given the durable log as its CatchUp, the bus is the    *)
(* plain stream of EventStream.                                             *)
DurableLog ==
  [i \in 1..Cardinality(durable) |-> CHOOSE e \in durable : e.cursor = i]

DurableSubscriber == {s \in Subscriber : Source[s] = "durable"}

Stream == INSTANCE EventStream WITH
  Subscriber <- DurableSubscriber,
  log <- DurableLog,
  Event <- [cursor : 1..MaxCursor, kind : Kind, run : {0}],
  seen <- [s \in DurableSubscriber |-> seen[s]]

(* One publisher and a reliable disk: every such subscriber's view is       *)
(* always a filtered prefix of what was published.                          *)
ImplementsEventStream == Stream!Spec
=============================================================================
