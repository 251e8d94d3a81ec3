--------------------------- MODULE EventBus_proofs ---------------------------
(***************************************************************************)
(* Theorems about EventBus for every number of publishers and subscribers, *)
(* every capacity and every number of events and restarts.                 *)
(*                                                                         *)
(* The results called Solo are about one publisher; those that need the    *)
(* counter to go on are about one process lifetime, MaxRestarts = 0.       *)
(* EventBusOrder and EventBusRestart show what happens otherwise.          *)
(***************************************************************************)
EXTENDS EventBus, SequenceTheorems, FiniteSetTheorems, TLAPS

USE InterestAssumption, SourceAssumption, CapacityAssumption, BoundAssumption,
    ReliableAssumption, NoEventAssumption

-----------------------------------------------------------------------------
(* Type correctness.                                                        *)

(* A ring of events stays one: pop_front and push_back in record().         *)
LEMMA PushedType ==
  ASSUME NEW ring \in Seq(Event), NEW e \in Event
  PROVE  /\ PopFront(ring) \in Seq(Event)
         /\ Pushed(ring, e) \in Seq(Event)
<1>1. PopFront(ring) \in Seq(Event)
  BY DEF PopFront
<1>2. QED
  BY <1>1 DEF Pushed

(* A publisher past its first step holds an event.                          *)
Holding == \A p \in Publisher : pc[p] # "idle" => inflight[p] \in Event

LEMMA TypeInit == Init => TypeOK /\ Holding
BY DEF Init, InitFrom, TypeOK, Holding, PC, Mode

(* The steps of publish() keep every variable's type.                       *)
LEMMA TypePublish ==
  ASSUME TypeOK, Holding, NEW p \in Publisher, Publish(p)
  PROVE  TypeOK' /\ Holding'
<1> USE DEF TypeOK, Holding, PC, client
<1>1. ASSUME NEW k \in Kind, Stamp(p, k)
      PROVE  TypeOK' /\ Holding'
  <2>1. TakenCursor \in Nat \ {0}
    BY DEF TakenCursor
  <2>2. [cursor |-> TakenCursor, kind |-> k, run |-> run] \in Event
    BY <2>1 DEF Event
  <2>3. QED
    BY <1>1, <2>1, <2>2 DEF Stamp
<1>2. CASE AppendDurable(p)
  BY <1>2 DEF AppendDurable, InsertRow
<1>3. CASE PushHistory(p)
  <2>1. Pushed(history, inflight[p]) \in Seq(Event)
    BY <1>3, PushedType DEF PushHistory
  <2>2. QED
    BY <1>3, <2>1 DEF PushHistory
<1>4. CASE Send(p)
  BY <1>4 DEF Send
<1>5. QED
  BY <1>1, <1>2, <1>3, <1>4 DEF Publish

(* What catch_up returns are events.                                        *)
LEMMA AnswerType ==
  ASSUME TypeOK, NEW s \in Subscriber, NEW since
  PROVE  Answer(s, since) \subseteq Event
BY DEF TypeOK, Answer, RingAnswer, DurableAnswer

(* The steps of a subscriber keep every variable's type.                    *)
LEMMA TypeFollow ==
  ASSUME TypeOK, Holding, NEW s \in Subscriber, Follow(s)
  PROVE  TypeOK' /\ Holding'
<1> USE DEF TypeOK, Holding, Mode, emitter
<1>1. CASE Subscribe(s)
  BY <1>1 DEF Subscribe
<1>2. CASE Receive(s)
  <2>1. channel[pos[s] + 1] \in Event
    BY <1>2 DEF Receive
  <2>2. channel[pos[s] + 1].cursor \in Nat
    BY <2>1 DEF Event
  <2>3. UNCHANGED <<emitter, mode, aged>> /\ pos' \in [Subscriber -> Nat]
    BY <1>2 DEF Receive
  <2>4. CASE Matches(s, channel[pos[s] + 1])
    <3>1. seen' = [seen EXCEPT ![s] = @ \cup {channel[pos[s] + 1]}]
      BY <1>2, <2>4 DEF Receive
    <3>2. last' = [last EXCEPT ![s] = channel[pos[s] + 1].cursor]
      BY <1>2, <2>4 DEF Receive
    <3>3. seen' \in [Subscriber -> SUBSET Event]
      BY <2>1, <3>1
    <3>4. last' \in [Subscriber -> Nat]
      BY <2>2, <3>2
    <3>5. QED
      BY <2>3, <3>3, <3>4
  <2>5. CASE ~Matches(s, channel[pos[s] + 1])
    BY <1>2, <2>3, <2>5 DEF Receive
  <2>6. QED
    BY <2>4, <2>5
<1>3. CASE Lag(s)
  <2>1. Oldest \in Nat
    BY DEF Oldest
  <2>2. QED
    BY <1>3, <2>1 DEF Lag
<1>4. CASE CatchUp(s)
  <2>1. Answer(s, last[s]) \subseteq Event
    BY AnswerType
  <2>2. \A e \in Answer(s, last[s]) : e.cursor \in Nat
    BY <2>1 DEF Event
  <2>3. seen' \in [Subscriber -> SUBSET Event] /\ aged' \in [Subscriber -> SUBSET Event]
    BY <1>4, <2>1 DEF CatchUp
  <2>4. last' \in [Subscriber -> Nat]
    BY <1>4, <2>2 DEF CatchUp
  <2>5. QED
    BY <1>4, <2>3, <2>4 DEF CatchUp
<1>5. QED
  BY <1>1, <1>2, <1>3, <1>4 DEF Follow

LEMMA TypeStep == TypeOK /\ Holding /\ [Next]_vars => TypeOK' /\ Holding'
<1> SUFFICES ASSUME TypeOK, Holding, [Next]_vars
             PROVE  TypeOK' /\ Holding'
  OBVIOUS
<1>1. ASSUME NEW p \in Publisher, Publish(p)
      PROVE  TypeOK' /\ Holding'
  BY <1>1, TypePublish
<1>2. ASSUME NEW s \in Subscriber, Follow(s)
      PROVE  TypeOK' /\ Holding'
  BY <1>2, TypeFollow
<1>3. CASE Restart
  BY <1>3 DEF Restart, TypeOK, Holding, PC, Mode
<1>4. CASE UNCHANGED vars
  BY <1>4 DEF vars, emitter, client, TypeOK, Holding
<1>5. QED
  BY <1>1, <1>2, <1>3, <1>4 DEF Next

(* Every reachable state is well typed: in particular every cursor that is  *)
(* handed out, stored, sent or remembered as an event's is at least 1, so   *)
(* the sentinel 0 never names an event.                                     *)
THEOREM TypeCorrect == Spec => [](TypeOK /\ Holding)
<1>1. QED
  BY TypeInit, TypeStep, PTL DEF Spec
-----------------------------------------------------------------------------
(* The ring.                                                                *)

(* By how many places a push moves the elements of the ring to the front.   *)
Shift(ring) == IF Len(ring) = HistoryCapacity /\ ring # << >> THEN 1 ELSE 0

(* What a push leaves in the ring: the old elements, less the oldest if the *)
(* ring was full, in their old order, and the new one behind them.          *)
LEMMA PushedElements ==
  ASSUME NEW ring \in Seq(Event), NEW e \in Event
  PROVE  /\ Len(Pushed(ring, e)) = Len(ring) - Shift(ring) + 1
         /\ Shift(ring) \in {0, 1}
         /\ Pushed(ring, e)[Len(ring) - Shift(ring) + 1] = e
         /\ \A i \in 1..(Len(ring) - Shift(ring)) :
              /\ i + Shift(ring) \in DOMAIN ring
              /\ Pushed(ring, e)[i] = ring[i + Shift(ring)]
<1> DEFINE rest == IF Len(ring) = HistoryCapacity THEN PopFront(ring) ELSE ring
<1>1. Shift(ring) \in {0, 1}
  BY DEF Shift
<1>2. /\ rest \in Seq(Event)
      /\ Len(rest) = Len(ring) - Shift(ring)
      /\ \A i \in 1..Len(rest) : /\ i + Shift(ring) \in DOMAIN ring
                                 /\ rest[i] = ring[i + Shift(ring)]
  <2>1. CASE Len(ring) = HistoryCapacity /\ ring # << >>
    <3>1. rest = Tail(ring) /\ Shift(ring) = 1 /\ Len(ring) > 0
      BY <2>1 DEF PopFront, Shift
    <3>2. /\ Tail(ring) \in Seq(Event)
          /\ Len(Tail(ring)) = Len(ring) - 1
          /\ \A i \in 1..Len(Tail(ring)) : Tail(ring)[i] = ring[i + 1]
      BY <2>1, HeadTailProperties
    <3>3. \A i \in 1..(Len(ring) - 1) : i + 1 \in DOMAIN ring
      BY LenProperties
    <3> HIDE DEF rest
    <3>4. QED
      BY <3>1, <3>2, <3>3
  <2>2. CASE ~(Len(ring) = HistoryCapacity /\ ring # << >>)
    <3>1. rest = ring /\ Shift(ring) = 0
      BY <2>2 DEF PopFront, Shift
    <3> HIDE DEF rest
    <3>2. QED
      BY <3>1
  <2>3. QED
    BY <2>1, <2>2
<1>3. Pushed(ring, e) = Append(rest, e)
  BY DEF Pushed
<1>4. QED
  BY <1>1, <1>2, <1>3

(* The ring is bounded by its capacity, unless that is zero.                *)
LEMMA RingStep ==
  ASSUME HistoryCapacity > 0, TypeOK, Holding, RingBounded, [Next]_vars
  PROVE  RingBounded'
<1>1. ASSUME NEW p \in Publisher, PushHistory(p)
      PROVE  RingBounded'
  <2>1. inflight[p] \in Event /\ history \in Seq(Event)
    BY <1>1 DEF TypeOK, Holding, PushHistory
  <2>2. Len(history') = Len(history) - Shift(history) + 1
    BY <1>1, <2>1, PushedElements DEF PushHistory
  <2>3. QED
    BY <2>1, <2>2 DEF RingBounded, Shift
<1>2. CASE UNCHANGED history
  BY <1>2 DEF RingBounded
<1>3. CASE Restart
  BY <1>3 DEF Restart, RingBounded
<1>4. QED
  BY <1>1, <1>2, <1>3
  DEF Next, Publish, Follow, Stamp, AppendDurable, Send, Subscribe, Receive, Lag, CatchUp,
      vars, emitter

(* The delta log of an EventSink made with a history capacity of one or     *)
(* more holds at most that many events, whoever publishes.                  *)
THEOREM RingIsBounded ==
  ASSUME HistoryCapacity > 0
  PROVE  Spec => []RingBounded
<1>1. Init => RingBounded
  BY DEF Init, InitFrom, RingBounded
<1>2. TypeOK /\ Holding /\ RingBounded /\ [Next]_vars => RingBounded'
  BY RingStep
<1>3. QED
  BY <1>1, <1>2, TypeCorrect, PTL DEF Spec
-----------------------------------------------------------------------------
(* Cursors.                                                                 *)

(* All cursors in use are below the counter.  UniqueCursors alone is not    *)
(* inductive: it does not say why the next cursor is a new one.             *)
CursorInv ==
  /\ \A p \in Publisher : pc[p] # "idle" => inflight[p].cursor < next_cursor
  /\ \A i \in DOMAIN history : history[i].cursor < next_cursor
  /\ UniqueCursors

LEMMA CursorStep ==
  ASSUME TypeOK, Holding, CursorInv, [Next]_vars
  PROVE  CursorInv'
<1> USE DEF CursorInv, UniqueCursors
<1>0. /\ next_cursor \in Nat
      /\ pc \in [Publisher -> PC]
      /\ inflight \in [Publisher -> Event \cup {NoEvent}]
      /\ history \in Seq(Event)
      /\ \A p \in Publisher : pc[p] # "idle" => inflight[p].cursor \in Nat
      /\ \A i \in DOMAIN history : history[i].cursor \in Nat
  <2>1. \A e \in Event : e.cursor \in Nat
    BY DEF Event
  <2>2. \A i \in DOMAIN history : history[i] \in Event
    BY DEF TypeOK
  <2>3. QED
    BY <2>1, <2>2 DEF TypeOK, Holding
<1>1. ASSUME NEW p \in Publisher, NEW k \in Kind, Stamp(p, k)
      PROVE  CursorInv'
  <2>1. /\ next_cursor' = next_cursor + 1
        /\ history' = history
        /\ pc'[p] = "append"
        /\ inflight'[p].cursor = next_cursor
        /\ \A q \in Publisher \ {p} : pc'[q] = pc[q] /\ inflight'[q] = inflight[q]
    BY <1>0, <1>1 DEF Stamp, TakenCursor
  <2>2. QED
    BY <1>0, <2>1
<1>2. ASSUME NEW p \in Publisher, AppendDurable(p)
      PROVE  CursorInv'
  <2>1. /\ next_cursor' = next_cursor
        /\ history' = history
        /\ inflight' = inflight
        /\ pc[p] = "append" /\ pc'[p] = "push"
        /\ \A q \in Publisher \ {p} : pc'[q] = pc[q]
    BY <1>0, <1>2 DEF AppendDurable
  <2>2. QED
    BY <1>0, <2>1
<1>3. ASSUME NEW p \in Publisher, PushHistory(p)
      PROVE  CursorInv'
  <2>1. /\ next_cursor' = next_cursor
        /\ inflight' = inflight
        /\ pc[p] = "push" /\ pc'[p] = "send"
        /\ \A q \in Publisher \ {p} : pc'[q] = pc[q]
        /\ inflight[p] \in Event
        /\ history' = Pushed(history, inflight[p])
    BY <1>0, <1>3 DEF PushHistory, Holding
  <2> DEFINE n == Len(history) - Shift(history)
  <2>2. /\ Len(history') = n + 1
        /\ n \in Nat
        /\ DOMAIN history' = 1..(n + 1)
        /\ history'[n + 1] = inflight[p]
        /\ Shift(history) \in Nat
        /\ \A i \in 1..n : /\ i + Shift(history) \in DOMAIN history
                           /\ history'[i] = history[i + Shift(history)]
    <3>1. Pushed(history, inflight[p]) \in Seq(Event)
      BY <1>0, <2>1, PushedType
    <3>2. Len(history) \in Nat /\ (Len(history) = 0 <=> history = << >>)
      BY <1>0, LenProperties, EmptySeq
    <3>3. n \in Nat
      BY <3>2 DEF Shift
    <3>4. QED
      BY <1>0, <2>1, <3>1, <3>3, PushedElements, LenProperties
  <2> HIDE DEF n
  <2>3. ASSUME NEW i \in 1..n
        PROVE  /\ history'[i].cursor < next_cursor
               /\ history'[i].cursor # inflight[p].cursor
               /\ \A q \in Publisher :
                    pc[q] \in {"append", "push"} => inflight[q].cursor # history'[i].cursor
    BY <1>0, <2>1, <2>2
  <2>4. ASSUME NEW i \in 1..n, NEW j \in 1..n, i # j
        PROVE  history'[i].cursor # history'[j].cursor
    <3>1. i + Shift(history) # j + Shift(history)
      BY <2>2, <2>4
    <3>2. /\ history'[i] = history[i + Shift(history)]
          /\ history'[j] = history[j + Shift(history)]
          /\ i + Shift(history) \in DOMAIN history
          /\ j + Shift(history) \in DOMAIN history
      BY <2>2
    <3>3. QED
      BY <3>1, <3>2
  <2>5. \A i, j \in DOMAIN history' : i # j => history'[i].cursor # history'[j].cursor
    BY <2>2, <2>3, <2>4
  <2>6. \A i \in DOMAIN history' : history'[i].cursor < next_cursor'
    BY <2>1, <2>2, <2>3
  <2>7. \A q \in Publisher, i \in DOMAIN history' :
          pc'[q] \in {"append", "push"} => inflight'[q].cursor # history'[i].cursor
    BY <2>1, <2>2, <2>3
  <2>8. QED
    BY <2>1, <2>5, <2>6, <2>7
<1>4. ASSUME NEW p \in Publisher, Send(p)
      PROVE  CursorInv'
  <2>1. /\ next_cursor' = next_cursor
        /\ history' = history
        /\ pc[p] = "send" /\ pc'[p] = "idle"
        /\ \A q \in Publisher \ {p} : pc'[q] = pc[q] /\ inflight'[q] = inflight[q]
    BY <1>0, <1>4 DEF Send
  <2>2. QED
    BY <1>0, <2>1
<1>5. CASE Restart
  BY <1>5 DEF Restart
<1>6. CASE UNCHANGED <<next_cursor, history, pc, inflight>>
  BY <1>6
<1>7. QED
  BY <1>1, <1>2, <1>3, <1>4, <1>5, <1>6
  DEF Next, Publish, Follow, Subscribe, Receive, Lag, CatchUp, vars, emitter

(* Cursors are unique among all publications under way and all events in    *)
(* the ring, for any number of concurrent publishers: the atomic counter is *)
(* enough, no lock is needed for it.                                        *)
THEOREM CursorsAreUnique == Spec => []UniqueCursors
<1>1. Init => CursorInv
  BY DEF Init, InitFrom, CursorInv, UniqueCursors
<1>2. TypeOK /\ Holding /\ CursorInv /\ [Next]_vars => CursorInv'
  BY CursorStep
<1>3. CursorInv => UniqueCursors
  BY DEF CursorInv
<1>4. QED
  BY <1>1, <1>2, <1>3, TypeCorrect, PTL DEF Spec
-----------------------------------------------------------------------------
(* What subscribers can be handed.                                          *)

(* What is about to be sent, was sent or is in the ring has been recorded,  *)
(* a row of the durable log was accepted, and views hold nothing else.      *)
RecordInv ==
  /\ \A p \in Publisher : pc[p] = "send" => inflight[p] \in recorded
  /\ \A i \in DOMAIN history : history[i] \in recorded
  /\ durable \subseteq appended
  /\ RecordedBeforeSent
  /\ FilteredView

LEMMA RecordPublish ==
  ASSUME TypeOK, Holding, RecordInv, NEW p \in Publisher, Publish(p)
  PROVE  RecordInv'
<1> USE DEF RecordInv, RecordedBeforeSent, FilteredView, Matches, client
<1>0. /\ pc \in [Publisher -> PC] /\ inflight \in [Publisher -> Event \cup {NoEvent}]
      /\ channel \in Seq(Event) /\ history \in Seq(Event)
  BY DEF TypeOK
<1>1. ASSUME NEW k \in Kind, Stamp(p, k)
      PROVE  RecordInv'
  <2>1. \A q \in Publisher : pc'[q] = "send" => pc[q] = "send" /\ inflight'[q] = inflight[q]
    BY <1>0, <1>1 DEF Stamp
  <2>2. QED
    BY <1>1, <2>1 DEF Stamp
<1>2. CASE AppendDurable(p)
  <2>1. \A q \in Publisher : pc'[q] = "send" => pc[q] = "send" /\ inflight'[q] = inflight[q]
    BY <1>0, <1>2 DEF AppendDurable
  <2>2. durable' \subseteq appended' /\ appended \subseteq appended'
    BY <1>2 DEF AppendDurable, InsertRow
  <2>3. QED
    BY <1>2, <2>1, <2>2 DEF AppendDurable
<1>3. CASE PushHistory(p)
  <2>1. /\ recorded' = recorded \cup {inflight[p]}
        /\ history' = Pushed(history, inflight[p])
        /\ inflight[p] \in Event
        /\ UNCHANGED <<channel, durable, inflight, appended, seen>>
        /\ \A q \in Publisher : pc'[q] = "send" => pc[q] = "send" \/ q = p
    BY <1>0, <1>3 DEF PushHistory, Holding
  <2>2. \A i \in DOMAIN history' : history'[i] \in recorded'
    <3> DEFINE n == Len(history) - Shift(history)
    <3>1. Pushed(history, inflight[p]) \in Seq(Event)
      BY <1>0, <2>1, PushedType
    <3>2. n \in Int
      BY <1>0, LenProperties DEF Shift
    <3>3. Len(history') = n + 1
      BY <1>0, <2>1, PushedElements
    <3>4. DOMAIN history' = 1..(n + 1)
      BY <2>1, <3>1, <3>3, LenProperties
    <3>5. /\ history'[n + 1] = inflight[p]
          /\ \A i \in 1..n : /\ i + Shift(history) \in DOMAIN history
                             /\ history'[i] = history[i + Shift(history)]
      BY <1>0, <2>1, PushedElements
    <3> HIDE DEF n
    <3>6. QED
      BY <2>1, <3>2, <3>4, <3>5
  <2>3. QED
    BY <2>1, <2>2
<1>4. CASE Send(p)
  <2>1. /\ channel' = Append(channel, inflight[p])
        /\ inflight[p] \in recorded
        /\ inflight[p] \in Event
        /\ UNCHANGED <<history, durable, recorded, appended, seen>>
        /\ \A q \in Publisher : pc'[q] = "send" => pc[q] = "send" /\ inflight'[q] = inflight[q]
    BY <1>0, <1>4 DEF Send, Holding
  <2>2. \A i \in DOMAIN channel' : channel'[i] \in recorded
    BY <1>0, <2>1
  <2>3. QED
    BY <2>1, <2>2
<1>5. QED
  BY <1>1, <1>2, <1>3, <1>4 DEF Publish

LEMMA RecordFollow ==
  ASSUME TypeOK, RecordInv, NEW s \in Subscriber, Follow(s)
  PROVE  RecordInv'
<1> USE DEF RecordInv, RecordedBeforeSent, FilteredView, Matches, emitter
<1>1. CASE Subscribe(s)
  BY <1>1 DEF Subscribe
<1>2. CASE Receive(s)
  <2>1. /\ channel[pos[s] + 1] \in recorded
        /\ UNCHANGED emitter
    <3>1. pos[s] + 1 \in DOMAIN channel
      <4>1. pos[s] \in Nat /\ channel \in Seq(Event)
        BY DEF TypeOK
      <4>2. pos[s] < Len(channel)
        BY <1>2 DEF Receive
      <4>3. QED
        BY <4>1, <4>2
    <3>2. QED
      BY <1>2, <3>1 DEF Receive
  <2>2. CASE Matches(s, channel[pos[s] + 1])
    <3>1. seen' = [seen EXCEPT ![s] = @ \cup {channel[pos[s] + 1]}]
      BY <1>2, <2>2 DEF Receive
    <3>2. QED
      BY <2>1, <2>2, <3>1 DEF TypeOK
  <2>3. CASE ~Matches(s, channel[pos[s] + 1])
    BY <1>2, <2>1, <2>3 DEF Receive
  <2>4. QED
    BY <2>2, <2>3
<1>3. CASE Lag(s)
  BY <1>3 DEF Lag
<1>4. CASE CatchUp(s)
  <2>1. /\ seen' = [seen EXCEPT ![s] = @ \cup Answer(s, last[s])]
        /\ UNCHANGED emitter
    BY <1>4 DEF CatchUp
  <2>2. \A e \in Answer(s, last[s]) : e \in recorded \cup appended /\ Matches(s, e)
    BY DEF Answer, RingAnswer, DurableAnswer
  <2>3. QED
    BY <2>1, <2>2 DEF TypeOK
<1>5. QED
  BY <1>1, <1>2, <1>3, <1>4 DEF Follow

LEMMA RecordStep == TypeOK /\ Holding /\ RecordInv /\ [Next]_vars => RecordInv'
<1> SUFFICES ASSUME TypeOK, Holding, RecordInv, [Next]_vars
             PROVE  RecordInv'
  OBVIOUS
<1>1. CASE Restart
  BY <1>1 DEF Restart, RecordInv, RecordedBeforeSent, FilteredView, Matches
<1>2. CASE UNCHANGED vars
  BY <1>2 DEF vars, emitter, client, RecordInv, RecordedBeforeSent, FilteredView, Matches
<1>3. QED
  BY <1>1, <1>2, RecordPublish, RecordFollow DEF Next

LEMMA RecordInvariant == Spec => []RecordInv
<1>1. Init => RecordInv
  BY DEF Init, InitFrom, RecordInv, RecordedBeforeSent, FilteredView
<1>2. QED
  BY <1>1, RecordStep, TypeCorrect, PTL DEF Spec

(* Nothing is on the live stream that the delta log did not record before.  *)
THEOREM SentIsRecorded == Spec => []RecordedBeforeSent
<1>1. RecordInv => RecordedBeforeSent
  BY DEF RecordInv
<1>2. QED
  BY <1>1, RecordInvariant, PTL

(* Whichever way events reach a subscriber, it is handed published events   *)
(* of the kinds it asked for and no others, for any number of publishers,   *)
(* any interleaving, and across restarts.                                   *)
THEOREM ViewsAreFiltered == Spec => []FilteredView
<1>1. RecordInv => FilteredView
  BY DEF RecordInv
<1>2. QED
  BY <1>1, RecordInvariant, PTL

(* The durable log never loses or overwrites a row.                         *)
THEOREM DurableGrows == Spec => DurableOnlyGrows
<1>1. [Next]_vars => [durable \subseteq durable']_durable
  BY DEF Next, Publish, Follow, Stamp, AppendDurable, InsertRow, PushHistory, Send, Subscribe,
         Receive, Lag, CatchUp, Restart, vars, emitter
<1>2. QED
  BY <1>1, PTL DEF Spec, DurableOnlyGrows
-----------------------------------------------------------------------------
(* One publisher.                                                           *)

(* With a single publisher the event under way is newer than all the ring   *)
(* holds, so that pushes keep the ring sorted.  Two publishers break this:  *)
(* the one that stamped first may push last.                                *)
SoloInv ==
  /\ \A p \in Publisher, i \in DOMAIN history :
       pc[p] \in {"append", "push"} => history[i].cursor < inflight[p].cursor
  /\ CatchUpInCursorOrder

LEMMA SoloPush ==
  ASSUME TypeOK, Holding, SoloInv, \A p, q \in Publisher : p = q,
         NEW p \in Publisher, PushHistory(p)
  PROVE  SoloInv'
<1> DEFINE n == Len(history) - Shift(history)
<1>1. /\ pc'[p] = "send" /\ pc[p] = "push"
      /\ inflight[p] \in Event
      /\ history \in Seq(Event)
      /\ history' = Pushed(history, inflight[p])
  BY DEF PushHistory, TypeOK, Holding
<1>2. n \in Int /\ Shift(history) \in Int
  BY <1>1, LenProperties DEF Shift
<1>3. DOMAIN history' = 1..(n + 1)
  <2>1. Pushed(history, inflight[p]) \in Seq(Event)
    BY <1>1, PushedType
  <2>2. Len(history') = n + 1
    BY <1>1, PushedElements
  <2>3. QED
    BY <1>1, <2>1, <2>2, LenProperties
<1>4. /\ history'[n + 1] = inflight[p]
      /\ \A i \in 1..n : /\ i + Shift(history) \in DOMAIN history
                         /\ history'[i] = history[i + Shift(history)]
  BY <1>1, PushedElements
<1> HIDE DEF n
<1>5. ASSUME NEW i \in 1..(n + 1), NEW j \in 1..(n + 1), i < j
      PROVE  history'[i].cursor < history'[j].cursor
  <2>1. i \in 1..n
    BY <1>2, <1>5
  <2>2. CASE j = n + 1
    BY <1>1, <1>4, <2>1, <2>2 DEF SoloInv
  <2>3. CASE j # n + 1
    <3>1. j \in 1..n
      BY <1>2, <2>3
    <3>2. i + Shift(history) < j + Shift(history)
      BY <1>2, <1>5
    <3>3. QED
      BY <1>4, <2>1, <3>1, <3>2 DEF SoloInv, CatchUpInCursorOrder
  <2>4. QED
    BY <2>2, <2>3
<1>6. QED
  BY <1>1, <1>3, <1>5 DEF SoloInv, CatchUpInCursorOrder

LEMMA SoloStep ==
  ASSUME TypeOK, Holding, CursorInv, SoloInv, \A p, q \in Publisher : p = q, [Next]_vars
  PROVE  SoloInv'
<1>1. ASSUME NEW p \in Publisher, NEW k \in Kind, Stamp(p, k)
      PROVE  SoloInv'
  <2>1. history' = history /\ inflight'[p].cursor = next_cursor
    BY <1>1 DEF Stamp, TakenCursor, TypeOK
  <2>2. \A i \in DOMAIN history : history[i].cursor < next_cursor
    BY DEF CursorInv
  <2>3. \A q \in Publisher : q = p
    OBVIOUS
  <2>4. QED
    BY <2>1, <2>2, <2>3 DEF SoloInv, CatchUpInCursorOrder
<1>2. ASSUME NEW p \in Publisher, AppendDurable(p)
      PROVE  SoloInv'
  <2>1. history' = history /\ inflight' = inflight /\ pc[p] = "append"
    BY <1>2 DEF AppendDurable
  <2>2. \A q \in Publisher : pc[q] = "append"
    BY <2>1
  <2>3. QED
    BY <2>1, <2>2 DEF SoloInv, CatchUpInCursorOrder
<1>3. ASSUME NEW p \in Publisher, PushHistory(p)
      PROVE  SoloInv'
  BY <1>3, SoloPush
<1>4. ASSUME NEW p \in Publisher, Send(p)
      PROVE  SoloInv'
  <2>1. history' = history /\ pc'[p] = "idle"
    BY <1>4 DEF Send, TypeOK
  <2>2. \A q \in Publisher : pc'[q] = "idle"
    BY <2>1
  <2>3. QED
    BY <2>1, <2>2 DEF SoloInv, CatchUpInCursorOrder
<1>5. CASE Restart
  BY <1>5 DEF Restart, SoloInv, CatchUpInCursorOrder
<1>6. CASE UNCHANGED <<history, pc, inflight>>
  BY <1>6 DEF SoloInv, CatchUpInCursorOrder
<1>7. QED
  BY <1>1, <1>2, <1>3, <1>4, <1>5, <1>6
  DEF Next, Publish, Follow, Subscribe, Receive, Lag, CatchUp, vars, emitter

(* The in-memory catch_up answers in cursor order as long as there is one   *)
(* publisher, whatever the capacities.                                      *)
THEOREM SoloCatchUpIsOrdered ==
  ASSUME \A p, q \in Publisher : p = q
  PROVE  Spec => []CatchUpInCursorOrder
<1>1. Init => SoloInv
  BY DEF Init, InitFrom, SoloInv, CatchUpInCursorOrder
<1>2. TypeOK /\ Holding /\ CursorInv /\ SoloInv /\ [Next]_vars => SoloInv'
  BY SoloStep
<1>3. SoloInv => CatchUpInCursorOrder
  BY DEF SoloInv
<1>4. Init => CursorInv
  BY DEF Init, InitFrom, CursorInv, UniqueCursors
<1>5. TypeOK /\ Holding /\ CursorInv /\ [Next]_vars => CursorInv'
  BY CursorStep
<1>6. QED
  BY <1>1, <1>2, <1>3, <1>4, <1>5, TypeCorrect, PTL DEF Spec
-----------------------------------------------------------------------------
(* One process lifetime: the durable log.                                   *)

(* Without a restart no cursor is handed out twice, so that no insert ever  *)
(* meets a row with its cursor.  A restart breaks this: the counter starts  *)
(* at 1 again over the rows of the last process (EventBusRestart).          *)
RetainInv ==
  /\ \A e \in durable : e.cursor < next_cursor
  /\ \A p \in Publisher : pc[p] = "append" => \A e \in durable : e.cursor # inflight[p].cursor
  /\ DurableRetainsAll

LEMMA RetainStep ==
  ASSUME MaxRestarts = 0, TypeOK, Holding, CursorInv, RetainInv, [Next]_vars
  PROVE  RetainInv'
<1> USE DEF RetainInv, DurableRetainsAll
<1>0. /\ next_cursor \in Nat
      /\ pc \in [Publisher -> PC]
      /\ inflight \in [Publisher -> Event \cup {NoEvent}]
      /\ \A e \in durable : e.cursor \in Nat
      /\ \A q \in Publisher : pc[q] # "idle" => inflight[q].cursor \in Nat
  <2>1. \A e \in Event : e.cursor \in Nat
    BY DEF Event
  <2>2. QED
    BY <2>1 DEF TypeOK, Holding
<1>1. ASSUME NEW p \in Publisher, NEW k \in Kind, Stamp(p, k)
      PROVE  RetainInv'
  <2>1. /\ next_cursor' = next_cursor + 1
        /\ UNCHANGED <<durable, appended>>
        /\ inflight'[p].cursor = next_cursor
        /\ \A q \in Publisher \ {p} : pc'[q] = pc[q] /\ inflight'[q] = inflight[q]
    BY <1>0, <1>1 DEF Stamp, TakenCursor
  <2>2. QED
    BY <1>0, <2>1
<1>2. ASSUME NEW p \in Publisher, AppendDurable(p)
      PROVE  RetainInv'
  <2>1. /\ UNCHANGED <<next_cursor, inflight>>
        /\ pc[p] = "append" /\ pc'[p] = "push"
        /\ \A q \in Publisher \ {p} : pc'[q] = pc[q]
    BY <1>0, <1>2 DEF AppendDurable
  <2>2. \/ /\ durable' = durable \cup {inflight[p]}
           /\ appended' = appended \cup {inflight[p]}
        \/ UNCHANGED <<durable, appended>>
    BY <1>2, <2>1 DEF AppendDurable, InsertRow
  <2>3. /\ inflight[p].cursor < next_cursor
        /\ \A q \in Publisher \ {p} : pc[q] = "append" => inflight[q].cursor # inflight[p].cursor
    BY <2>1 DEF CursorInv, UniqueCursors
  <2>4. QED
    BY <2>1, <2>2, <2>3
<1>3. ASSUME NEW p \in Publisher, PushHistory(p) \/ Send(p)
      PROVE  RetainInv'
  <2>1. /\ UNCHANGED <<next_cursor, durable, appended>>
        /\ \A q \in Publisher : pc'[q] = "append" => pc[q] = "append" /\ inflight'[q] = inflight[q]
    BY <1>0, <1>3 DEF PushHistory, Send
  <2>2. QED
    BY <2>1
<1>4. CASE Restart
  BY <1>4 DEF Restart, TypeOK
<1>5. CASE UNCHANGED emitter
  BY <1>5 DEF emitter
<1>6. QED
  BY <1>1, <1>2, <1>3, <1>4, <1>5
  DEF Next, Publish, Follow, Subscribe, Receive, Lag, CatchUp, vars

(* As long as the process is not restarted the durable log retains every    *)
(* event whose append it accepted, for any number of concurrent publishers. *)
THEOREM DurableRetainsUntilRestart ==
  ASSUME MaxRestarts = 0
  PROVE  Spec => []DurableRetainsAll
<1>1. Init => CursorInv /\ RetainInv
  BY DEF Init, InitFrom, CursorInv, UniqueCursors, RetainInv, DurableRetainsAll
<1>2. TypeOK /\ Holding /\ CursorInv /\ RetainInv /\ [Next]_vars => CursorInv' /\ RetainInv'
  BY CursorStep, RetainStep
<1>3. RetainInv => DurableRetainsAll
  BY DEF RetainInv
<1>4. QED
  BY <1>1, <1>2, <1>3, TypeCorrect, PTL DEF Spec
-----------------------------------------------------------------------------
(* One publisher, one process lifetime: events stand in line.               *)

Sent == {channel[i] : i \in DOMAIN channel}

(* The event the publisher is working on, if it is at one of these steps. *)
AtWork(p, steps) == IF pc[p] \in steps THEN {inflight[p]} ELSE {}

(* The events on the channel are in the order of their cursors, the one     *)
(* under way is newer than they are, and nothing else was ever recorded or  *)
(* appended.                                                                *)
Line(p) ==
  /\ \A i, j \in DOMAIN channel : i < j => channel[i].cursor < channel[j].cursor
  /\ \A e \in Sent : e.cursor < next_cursor
  /\ pc[p] # "idle" => /\ inflight[p].cursor < next_cursor
                       /\ \A e \in Sent : e.cursor < inflight[p].cursor
  /\ recorded = Sent \cup AtWork(p, {"send"})
  /\ appended \subseteq Sent \cup AtWork(p, {"push", "send"})
  /\ durable \subseteq appended
  /\ StorageReliable => Sent \cup AtWork(p, {"push", "send"}) \subseteq durable

(* What a send leaves on the channel. *)
LEMMA SentElements ==
  ASSUME TypeOK, NEW x \in Event, channel' = Append(channel, x)
  PROVE  /\ Len(channel') = Len(channel) + 1
         /\ DOMAIN channel = 1..Len(channel) /\ DOMAIN channel' = 1..(Len(channel) + 1)
         /\ channel'[Len(channel) + 1] = x
         /\ \A i \in DOMAIN channel : i < Len(channel) + 1 /\ channel'[i] = channel[i]
         /\ Sent' = Sent \cup {x}
<1>1. channel \in Seq(Event) /\ Len(channel) \in Nat
  BY DEF TypeOK
<1>2. /\ Len(channel') = Len(channel) + 1
      /\ DOMAIN channel = 1..Len(channel) /\ DOMAIN channel' = 1..(Len(channel) + 1)
      /\ channel'[Len(channel) + 1] = x
      /\ \A i \in DOMAIN channel : channel'[i] = channel[i]
  BY <1>1
<1>3. QED
  BY <1>1, <1>2 DEF Sent

LEMMA LineStep ==
  ASSUME NEW p, Publisher = {p}, MaxRestarts = 0, TypeOK, Holding, Line(p), [Next]_vars
  PROVE  Line(p)'
<1> p \in Publisher
  OBVIOUS
<1>0. /\ next_cursor \in Nat
      /\ pc[p] \in PC
      /\ \A e \in Sent : e \in Event /\ e.cursor \in Nat
      /\ pc[p] # "idle" => inflight[p] \in Event /\ inflight[p].cursor \in Nat
  <2>1. \A e \in Event : e.cursor \in Nat
    BY DEF Event
  <2>2. Sent \subseteq Event
    BY DEF TypeOK, Sent
  <2>3. QED
    BY <2>1, <2>2 DEF TypeOK, Holding
<1>1. ASSUME NEW k \in Kind, Stamp(p, k)
      PROVE  Line(p)'
  <2>1. /\ next_cursor' = next_cursor + 1
        /\ UNCHANGED <<channel, durable, recorded, appended>>
        /\ inflight'[p].cursor = next_cursor
        /\ pc[p] = "idle" /\ pc'[p] = "append"
    BY <1>1 DEF Stamp, TakenCursor, TypeOK
  <2>2. Sent' = Sent
    BY <2>1 DEF Sent
  <2>3. AtWork(p, {"send"}) = {} /\ AtWork(p, {"push", "send"}) = {}
    BY <2>1 DEF AtWork
  <2>4. AtWork(p, {"send"})' = {} /\ AtWork(p, {"push", "send"})' = {}
    BY <2>1 DEF AtWork
  <2>5. QED
    BY <1>0, <2>1, <2>2, <2>3, <2>4 DEF Line
<1>2. CASE AppendDurable(p)
  <2>1. /\ UNCHANGED <<next_cursor, channel, inflight, recorded>>
        /\ pc[p] = "append" /\ pc'[p] = "push"
    BY <1>2 DEF AppendDurable, TypeOK
  <2>2. Sent' = Sent
    BY <2>1 DEF Sent
  <2>3. AtWork(p, {"send"}) = {} /\ AtWork(p, {"push", "send"}) = {}
    BY <2>1 DEF AtWork
  <2>4. AtWork(p, {"send"})' = {} /\ AtWork(p, {"push", "send"})' = {inflight[p]}
    BY <2>1 DEF AtWork
  <2>5. \A e \in durable : e.cursor # inflight[p].cursor
    BY <1>0, <2>1, <2>3 DEF Line
  <2>6. \/ /\ durable' = durable \cup {inflight[p]}
           /\ appended' = appended \cup {inflight[p]}
        \/ ~StorageReliable /\ UNCHANGED <<durable, appended>>
    BY <1>2, <2>5 DEF AppendDurable, InsertRow
  <2>7. QED
    BY <1>0, <2>1, <2>2, <2>3, <2>4, <2>6 DEF Line
<1>3. CASE PushHistory(p)
  <2>1. /\ UNCHANGED <<next_cursor, channel, inflight, durable, appended>>
        /\ recorded' = recorded \cup {inflight[p]}
        /\ pc[p] = "push" /\ pc'[p] = "send"
    BY <1>3 DEF PushHistory, TypeOK
  <2>2. Sent' = Sent
    BY <2>1 DEF Sent
  <2>3. AtWork(p, {"send"}) = {} /\ AtWork(p, {"push", "send"}) = {inflight[p]}
    BY <2>1 DEF AtWork
  <2>4. AtWork(p, {"send"})' = {inflight[p]} /\ AtWork(p, {"push", "send"})' = {inflight[p]}
    BY <2>1 DEF AtWork
  <2>5. QED
    BY <1>0, <2>1, <2>2, <2>3, <2>4 DEF Line
<1>4. CASE Send(p)
  <2>1. /\ UNCHANGED <<next_cursor, durable, recorded, appended>>
        /\ channel' = Append(channel, inflight[p])
        /\ pc[p] = "send" /\ pc'[p] = "idle"
        /\ inflight[p] \in Event
    BY <1>4 DEF Send, TypeOK, Holding
  <2>2. AtWork(p, {"send"}) = {inflight[p]} /\ AtWork(p, {"push", "send"}) = {inflight[p]}
    BY <2>1 DEF AtWork
  <2>3. AtWork(p, {"send"})' = {} /\ AtWork(p, {"push", "send"})' = {}
    BY <2>1 DEF AtWork
  <2>4. \A i, j \in DOMAIN channel' : i < j => channel'[i].cursor < channel'[j].cursor
    <3>1. SUFFICES ASSUME NEW i \in DOMAIN channel', NEW j \in DOMAIN channel', i < j
                   PROVE  channel'[i].cursor < channel'[j].cursor
      OBVIOUS
    <3>2. i \in DOMAIN channel
      BY <2>1, <3>1, SentElements DEF TypeOK
    <3>3. CASE j \in DOMAIN channel
      BY <2>1, <3>1, <3>2, <3>3, SentElements DEF Line
    <3>4. CASE j \notin DOMAIN channel
      <4>1. channel'[j] = inflight[p] /\ channel'[i] = channel[i] /\ channel[i] \in Sent
        BY <2>1, <3>2, <3>4, SentElements DEF Sent, TypeOK
      <4>2. QED
        BY <2>1, <4>1 DEF Line
    <3>5. QED
      BY <3>3, <3>4
  <2>5. Sent' = Sent \cup {inflight[p]}
    BY <2>1, SentElements
  <2>6. QED
    BY <1>0, <2>1, <2>2, <2>3, <2>4, <2>5 DEF Line
<1>5. CASE Restart
  BY <1>5 DEF Restart, TypeOK
<1>6. CASE UNCHANGED emitter
  <2>1. Sent' = Sent /\ AtWork(p, {"send"})' = AtWork(p, {"send"})
        /\ AtWork(p, {"push", "send"})' = AtWork(p, {"push", "send"})
    BY <1>6 DEF emitter, Sent, AtWork
  <2>2. QED
    BY <1>6, <2>1 DEF emitter, Line
<1>7. QED
  BY <1>1, <1>2, <1>3, <1>4, <1>5, <1>6
  DEF Next, Publish, Follow, Subscribe, Receive, Lag, CatchUp, vars

(* In the line a cursor names one event. *)
LEMMA OneEventPerCursor ==
  ASSUME NEW p, Publisher = {p}, TypeOK, Holding, Line(p),
         NEW e \in recorded \cup appended, NEW f \in recorded \cup appended, e.cursor = f.cursor
  PROVE  e = f
<1>1. e \in Sent \cup AtWork(p, {"push", "send"}) /\ f \in Sent \cup AtWork(p, {"push", "send"})
  BY DEF Line, AtWork
<1>2. e.cursor \in Nat /\ f.cursor \in Nat
  BY DEF TypeOK, Event
<1>3. CASE e \in Sent /\ f \in Sent
  <2> PICK i \in DOMAIN channel, j \in DOMAIN channel : e = channel[i] /\ f = channel[j]
    BY <1>3 DEF Sent
  <2>1. i \in Nat /\ j \in Nat
    BY DEF TypeOK
  <2>2. ~(i < j) /\ ~(j < i)
    BY <1>2 DEF Line
  <2>3. QED
    BY <2>1, <2>2
<1>4. CASE e \notin Sent \/ f \notin Sent
  <2>1. pc[p] # "idle" /\ {e, f} \subseteq Sent \cup {inflight[p]}
    BY <1>1, <1>4 DEF AtWork
  <2>2. \A g \in Sent : g.cursor < inflight[p].cursor
    BY <2>1 DEF Line
  <2>3. QED
    BY <1>2, <1>4, <2>1, <2>2
<1>5. QED
  BY <1>3, <1>4
-----------------------------------------------------------------------------
(* One publisher, one process lifetime: no gap.                             *)

(* What makes GapFree inductive: the last handled event is one of those     *)
(* handed over, and a live subscriber has all it asked for among the events *)
(* its receiver has passed.                                                 *)
Closed(s) ==
  /\ pos[s] <= Len(channel)
  /\ \A f \in seen[s], e \in recorded :
       e.cursor < f.cursor /\ Matches(s, e) => e \in seen[s] \cup aged[s]
  /\ last[s] = 0 \/ \E f \in seen[s] : f.cursor = last[s]
  /\ mode[s] = "live" =>
       \A i \in 1..pos[s] : Matches(s, channel[i]) => channel[i] \in seen[s] \cup aged[s]

(* The catch-up log of this subscriber does not lose events. *)
Kept(s) == StorageReliable \/ Source[s] = "ring"

LEMMA ClosedPublish ==
  ASSUME NEW p, Publisher = {p}, TypeOK, Holding, RecordInv, Line(p), Publish(p),
         NEW s \in Subscriber, Closed(s)
  PROVE  Closed(s)'
<1> p \in Publisher
  OBVIOUS
<1>0. /\ UNCHANGED <<mode, pos, last, seen, aged>>
      /\ pos[s] \in Nat /\ channel \in Seq(Event) /\ Len(channel) \in Nat
  BY DEF Publish, Stamp, AppendDurable, PushHistory, Send, client, TypeOK
<1>1. CASE UNCHANGED <<channel, recorded>>
  BY <1>0, <1>1 DEF Closed, Matches
<1>2. CASE PushHistory(p)
  <2>1. /\ channel' = channel /\ recorded' = recorded \cup {inflight[p]}
        /\ pc[p] = "push" /\ inflight[p] \in Event
    BY <1>2 DEF PushHistory, Holding
  <2>2. ASSUME NEW f \in seen[s]
        PROVE  ~(inflight[p].cursor < f.cursor)
    <3>1. f \in Sent \cup {inflight[p]}
      BY <2>1 DEF RecordInv, FilteredView, Line, AtWork
    <3>2. \A e \in Sent : e.cursor < inflight[p].cursor
      BY <2>1 DEF Line
    <3>3. f.cursor \in Nat /\ inflight[p].cursor \in Nat
      BY <2>1 DEF TypeOK, Event
    <3>4. QED
      BY <3>1, <3>2, <3>3
  <2>3. QED
    BY <1>0, <2>1, <2>2 DEF Closed, Matches
<1>3. CASE Send(p)
  <2>1. /\ channel' = Append(channel, inflight[p]) /\ recorded' = recorded
        /\ inflight[p] \in Event
    BY <1>3 DEF Send, Holding
  <2>2. Len(channel') = Len(channel) + 1
    BY <2>1, SentElements
  <2>3. \A i \in 1..pos[s] : i \in DOMAIN channel /\ channel'[i] = channel[i]
    BY <1>0, <2>1, SentElements DEF Closed
  <2>4. QED
    BY <1>0, <2>1, <2>2, <2>3 DEF Closed, Matches
<1>4. QED
  BY <1>1, <1>2, <1>3 DEF Publish, Stamp, AppendDurable

(* All the subscriber asked for, up to the event it handled last, it has. *)
LEMMA HandledUpToLast ==
  ASSUME NEW p, Publisher = {p}, TypeOK, Holding, RecordInv, Line(p),
         NEW s \in Subscriber, Closed(s),
         NEW e \in recorded, Matches(s, e), e.cursor <= last[s]
  PROVE  e \in seen[s] \cup aged[s]
<1>1. e.cursor \in Nat \ {0} /\ last[s] \in Nat
  BY DEF TypeOK, Event
<1>2. PICK f \in seen[s] : f.cursor = last[s]
  BY <1>1 DEF Closed
<1>3. CASE e.cursor < f.cursor
  BY <1>3 DEF Closed
<1>4. CASE e.cursor = f.cursor
  <2>1. f \in recorded \cup appended
    BY DEF RecordInv, FilteredView
  <2>2. e = f
    BY <1>4, <2>1, OneEventPerCursor
  <2>3. QED
    BY <2>2
<1>5. QED
  BY <1>1, <1>2, <1>3, <1>4

(* A catch-up leaves out nothing the subscriber asked for. *)
LEMMA CatchUpCovers ==
  ASSUME NEW p, Publisher = {p}, TypeOK, Holding, RecordInv, Line(p),
         NEW s \in Subscriber, Closed(s), Kept(s), CatchUp(s),
         NEW e \in recorded, Matches(s, e)
  PROVE  e \in seen'[s] \cup aged'[s]
<1>1. /\ seen'[s] = seen[s] \cup Answer(s, last[s])
      /\ aged'[s] = IF Source[s] = "ring"
                    THEN aged[s] \cup {g \in recorded :
                                         /\ g.cursor > last[s]
                                         /\ Matches(s, g)
                                         /\ g \notin {history[i] : i \in DOMAIN history}}
                    ELSE aged[s]
  BY DEF CatchUp, TypeOK
<1>2. e.cursor \in Nat /\ last[s] \in Nat
  BY DEF TypeOK, Event
<1>3. CASE e.cursor <= last[s]
  BY <1>1, <1>3, HandledUpToLast
<1>4. CASE e.cursor > last[s] /\ Source[s] = "ring"
  BY <1>1, <1>4 DEF Answer, RingAnswer
<1>5. CASE e.cursor > last[s] /\ Source[s] # "ring"
  <2>1. e \in durable
    BY <1>5 DEF Kept, Line, AtWork
  <2>2. QED
    BY <1>1, <1>5, <2>1 DEF Answer, DurableAnswer
<1>6. QED
  BY <1>2, <1>3, <1>4, <1>5

LEMMA ClosedFollow ==
  ASSUME NEW p, Publisher = {p}, TypeOK, Holding, RecordInv, Line(p),
         NEW s \in Subscriber, Closed(s), Kept(s), Follow(s)
  PROVE  Closed(s)'
<1>0. /\ channel \in Seq(Event) /\ pos[s] \in Nat /\ Len(channel) \in Nat
      /\ Oldest \in Nat /\ Oldest <= Len(channel)
      /\ UNCHANGED <<channel, recorded>>
  BY DEF TypeOK, Oldest, Follow, Subscribe, Receive, Lag, CatchUp, emitter
<1>1. CASE Subscribe(s) \/ Lag(s)
  <2>1. /\ mode'[s] = "gap" /\ pos'[s] <= Len(channel)
        /\ UNCHANGED <<last, seen, aged>>
    BY <1>0, <1>1 DEF Subscribe, Lag, TypeOK
  <2>2. QED
    BY <1>0, <2>1 DEF Closed, Matches
<1>2. CASE Receive(s)
  <2> DEFINE e == channel[pos[s] + 1]
  <2>1. /\ pos[s] + 1 \in DOMAIN channel /\ pos'[s] = pos[s] + 1
        /\ e \in Event /\ e \in Sent /\ e \in recorded
        /\ mode[s] = "live" /\ mode'[s] = "live" /\ aged' = aged
    BY <1>0, <1>2 DEF Receive, Sent, Line, TypeOK
  <2>2. ASSUME NEW g \in recorded, g.cursor < e.cursor, Matches(s, g)
        PROVE  g \in seen[s] \cup aged[s]
    <3>1. g.cursor \in Nat /\ e.cursor \in Nat
      BY <2>1 DEF TypeOK, Event
    <3>2. g \in Sent
      <4>1. pc[p] = "send" => e.cursor < inflight[p].cursor /\ inflight[p].cursor \in Nat
        BY <2>1 DEF Line, Holding, Event
      <4>2. QED
        BY <2>2, <3>1, <4>1 DEF Line, AtWork
    <3>3. PICK i \in DOMAIN channel : g = channel[i]
      BY <3>2 DEF Sent
    <3>4. i \in Nat /\ i >= 1
      BY <1>0
    <3>5. ~(pos[s] + 1 < i) /\ i # pos[s] + 1
      BY <2>1, <2>2, <3>1, <3>3 DEF Line
    <3>6. i \in 1..pos[s]
      BY <1>0, <3>4, <3>5
    <3>7. QED
      BY <2>1, <2>2, <3>3, <3>6 DEF Closed
  <2>3. CASE Matches(s, e)
    <3>1. seen'[s] = seen[s] \cup {e} /\ last'[s] = e.cursor
      BY <1>2, <2>3 DEF Receive, TypeOK
    <3>2. QED
      BY <1>0, <2>1, <2>2, <3>1 DEF Closed, Matches
  <2>4. CASE ~Matches(s, e)
    <3>1. UNCHANGED <<seen, last>>
      BY <1>2, <2>4 DEF Receive
    <3>2. QED
      BY <1>0, <2>1, <2>4, <3>1 DEF Closed, Matches
  <2>5. QED
    BY <2>3, <2>4
<1>3. CASE CatchUp(s)
  <2>1. /\ pos' = pos /\ seen'[s] = seen[s] \cup Answer(s, last[s])
        /\ last'[s] = last[s] \/ \E e \in Answer(s, last[s]) : last'[s] = e.cursor
    BY <1>3 DEF CatchUp, TypeOK
  <2>2. \A e \in recorded : Matches(s, e) => e \in seen'[s] \cup aged'[s]
    BY <1>3, CatchUpCovers
  <2>3. \A i \in 1..pos[s] : channel[i] \in recorded
    BY <1>0 DEF Closed, Line, Sent
  <2>4. last'[s] = 0 \/ \E f \in seen'[s] : f.cursor = last'[s]
    BY <2>1 DEF Closed
  <2>5. QED
    BY <1>0, <2>1, <2>2, <2>3, <2>4 DEF Closed, Matches
<1>4. QED
  BY <1>1, <1>2, <1>3 DEF Follow

LEMMA ClosedStep ==
  ASSUME NEW p, Publisher = {p}, MaxRestarts = 0, \A s \in Subscriber : Kept(s),
         TypeOK, Holding, RecordInv, Line(p), \A s \in Subscriber : Closed(s), [Next]_vars
  PROVE  \A s \in Subscriber : Closed(s)'
<1> SUFFICES ASSUME NEW s \in Subscriber
             PROVE  Closed(s)'
  OBVIOUS
<1>1. CASE Publish(p)
  BY <1>1, ClosedPublish
<1>2. CASE Follow(s)
  BY <1>2, ClosedFollow
<1>3. ASSUME NEW q \in Subscriber, q # s, Follow(q)
      PROVE  Closed(s)'
  <2>1. /\ UNCHANGED emitter
        /\ mode'[s] = mode[s] /\ pos'[s] = pos[s] /\ last'[s] = last[s]
        /\ seen'[s] = seen[s] /\ aged'[s] = aged[s]
    BY <1>3 DEF Follow, Subscribe, Receive, Lag, CatchUp, TypeOK
  <2>2. QED
    BY <2>1 DEF emitter, Closed, Matches
<1>4. CASE Restart
  BY <1>4 DEF Restart, TypeOK
<1>5. CASE UNCHANGED vars
  BY <1>5 DEF vars, emitter, client, Closed, Matches
<1>6. QED
  BY <1>1, <1>2, <1>3, <1>4, <1>5 DEF Next

LEMMA LineInit ==
  ASSUME NEW p, Publisher = {p}, Init
  PROVE  Line(p) /\ \A s \in Subscriber : Closed(s)
<1>1. Sent = {} /\ \A steps : "idle" \notin steps => AtWork(p, steps) = {}
  BY DEF Init, InitFrom, Sent, AtWork
<1>2. QED
  BY <1>1 DEF Init, InitFrom, Line, Closed

(* SPEC 5.3 for one publisher and one process lifetime: whatever a          *)
(* subscriber was handed, every earlier event it asked for it was handed    *)
(* too, unless the ring had evicted it by the time of a catch-up.  This is  *)
(* for every buffer and ring capacity, any number of subscribers, lags and  *)
(* reconnections; a subscriber that catches up from the durable log needs   *)
(* its appends to succeed.                                                  *)
THEOREM SoloGapFree ==
  ASSUME NEW p, Publisher = {p}, MaxRestarts = 0, \A s \in Subscriber : Kept(s)
  PROVE  Spec => []GapFree
<1> DEFINE Inv == Line(p) /\ \A s \in Subscriber : Closed(s)
<1>1. Init => Inv
  BY LineInit
<1>2. TypeOK /\ Holding /\ RecordInv /\ Inv /\ [Next]_vars => Inv'
  BY LineStep, ClosedStep
<1>3. Inv => GapFree
  BY DEF Closed, GapFree
<1>4. QED
  BY <1>1, <1>2, <1>3, TypeCorrect, RecordInvariant, PTL DEF Spec
-----------------------------------------------------------------------------
(* One publisher, one process lifetime: order.                              *)

(* How many events were pushed into the ring, and which came as number i. *)
Pushes(p) == Len(channel) + IF pc[p] = "send" THEN 1 ELSE 0
Nth(p, i) == IF i <= Len(channel) THEN channel[i] ELSE inflight[p]

(* The ring is the end of the line. *)
RingIsTail(p) ==
  /\ Len(history) = IF Pushes(p) <= HistoryCapacity THEN Pushes(p) ELSE HistoryCapacity
  /\ \A i \in DOMAIN history : history[i] = Nth(p, Pushes(p) - Len(history) + i)

LEMMA RingIsTailStep ==
  ASSUME NEW p, Publisher = {p}, MaxRestarts = 0, HistoryCapacity > 0,
         TypeOK, Holding, RingIsTail(p), [Next]_vars
  PROVE  RingIsTail(p)'
<1> p \in Publisher
  OBVIOUS
<1>0. /\ channel \in Seq(Event) /\ Len(channel) \in Nat
      /\ history \in Seq(Event) /\ Len(history) \in Nat
      /\ DOMAIN history = 1..Len(history)
      /\ Pushes(p) \in Nat
  BY DEF TypeOK, Pushes
<1>1. CASE UNCHANGED <<channel, history>> /\ pc[p] # "send" /\ pc'[p] # "send"
  <2>1. Pushes(p)' = Pushes(p) /\ Pushes(p) = Len(channel)
    BY <1>0, <1>1 DEF Pushes
  <2>2. \A i \in DOMAIN history :
          Nth(p, Pushes(p) - Len(history) + i)' = Nth(p, Pushes(p) - Len(history) + i)
    <3> SUFFICES ASSUME NEW i \in DOMAIN history
                 PROVE  Nth(p, Pushes(p) - Len(history) + i)' = Nth(p, Pushes(p) - Len(history) + i)
      OBVIOUS
    <3>1. Pushes(p) - Len(history) + i <= Len(channel)
      BY <1>0, <2>1
    <3>2. QED
      BY <1>1, <2>1, <3>1 DEF Nth
  <2>3. QED
    BY <1>1, <2>1, <2>2 DEF RingIsTail
<1>2. CASE PushHistory(p)
  <2>1. /\ channel' = channel /\ inflight' = inflight
        /\ history' = Pushed(history, inflight[p])
        /\ pc[p] = "push" /\ pc'[p] = "send" /\ inflight[p] \in Event
    BY <1>2 DEF PushHistory, TypeOK, Holding
  <2>2. PICK h \in Nat, c \in Nat, d \in {0, 1} :
          h = Len(history) /\ c = Len(channel) /\ d = Shift(history)
    BY <1>0 DEF Shift
  <2>3. Pushes(p) = c /\ Pushes(p)' = c + 1 /\ Len(channel') = c
    BY <2>1, <2>2 DEF Pushes
  <2>4. /\ Len(history') = h - d + 1
        /\ history'[h - d + 1] = inflight[p]
        /\ \A i \in 1..(h - d) : i + d \in 1..h /\ history'[i] = history[i + d]
    BY <1>0, <2>1, <2>2, PushedElements
  <2>5. d = IF h = HistoryCapacity THEN 1 ELSE 0
    <3>1. h = HistoryCapacity => history # << >>
      BY <1>0, <2>2
    <3>2. QED
      BY <2>2, <3>1 DEF Shift
  <2>6. h = IF c <= HistoryCapacity THEN c ELSE HistoryCapacity
    BY <2>2, <2>3 DEF RingIsTail
  <2>7. DOMAIN history' = 1..(h - d + 1)
    <3>1. history' \in Seq(Event)
      BY <1>0, <2>1, PushedType
    <3>2. QED
      BY <2>4, <3>1, LenProperties
  <2>8. Len(history') = IF c + 1 <= HistoryCapacity THEN c + 1 ELSE HistoryCapacity
    BY <2>4, <2>5, <2>6
  <2>9. ASSUME NEW i \in 1..(h - d + 1)
        PROVE  history'[i] = Nth(p, c - h + d + i)'
    <3>1. CASE i \in 1..(h - d)
      <4>1. i + d \in DOMAIN history /\ history'[i] = history[i + d]
        BY <1>0, <2>2, <2>4, <3>1
      <4>2. history[i + d] = Nth(p, c - h + (i + d))
        BY <2>2, <2>3, <4>1 DEF RingIsTail
      <4>3. c - h + (i + d) = c - h + d + i /\ c - h + d + i <= c
        BY <3>1
      <4>4. QED
        BY <2>1, <2>2, <4>1, <4>2, <4>3 DEF Nth
    <3>2. CASE i = h - d + 1
      <4>1. ~(c - h + d + i <= c)
        BY <3>2
      <4>2. QED
        BY <2>1, <2>3, <2>4, <3>2, <4>1 DEF Nth
    <3>3. QED
      BY <3>1, <3>2
  <2>10. ASSUME NEW i \in 1..(h - d + 1)
         PROVE  (c + 1) - (h - d + 1) + i = c - h + d + i
    OBVIOUS
  <2>11. QED
    BY <2>3, <2>4, <2>7, <2>8, <2>9, <2>10 DEF RingIsTail
<1>3. CASE Send(p)
  <2>1. /\ channel' = Append(channel, inflight[p]) /\ history' = history
        /\ pc[p] = "send" /\ pc'[p] = "idle" /\ inflight[p] \in Event
    BY <1>3 DEF Send, TypeOK, Holding
  <2>2. PICK c \in Nat : c = Len(channel)
    BY <1>0
  <2>3. /\ Len(channel') = c + 1 /\ channel'[c + 1] = inflight[p]
        /\ \A i \in 1..c : channel'[i] = channel[i]
    BY <2>1, <2>2, SentElements
  <2>4. Pushes(p) = c + 1 /\ Pushes(p)' = c + 1
    BY <2>1, <2>2, <2>3 DEF Pushes
  <2>5. \A k \in 1..(c + 1) : Nth(p, k)' = Nth(p, k)
    BY <2>2, <2>3 DEF Nth
  <2>6. \A i \in DOMAIN history : (c + 1) - Len(history) + i \in 1..(c + 1)
    BY <1>0, <2>4 DEF RingIsTail
  <2>7. QED
    BY <2>1, <2>4, <2>5, <2>6 DEF RingIsTail
<1>4. CASE Restart
  BY <1>4 DEF Restart, TypeOK
<1>5. CASE UNCHANGED emitter
  BY <1>5 DEF emitter, RingIsTail, Pushes, Nth
<1>6. ASSUME NEW k \in Kind, Stamp(p, k)
      PROVE  RingIsTail(p)'
  BY <1>1, <1>6 DEF Stamp, TypeOK
<1>7. CASE AppendDurable(p)
  BY <1>1, <1>7 DEF AppendDurable, TypeOK
<1>8. QED
  BY <1>2, <1>3, <1>4, <1>5, <1>6, <1>7
  DEF Next, Publish, Follow, Subscribe, Receive, Lag, CatchUp, vars

(* What has aged out of the ring never comes back to it. *)
AgedOut(s) ==
  /\ aged[s] \subseteq recorded
  /\ \A e \in aged[s] : \A i \in DOMAIN history : history[i] # e
  /\ Source[s] # "ring" => aged[s] = {}

LEMMA AgedOutStep ==
  ASSUME NEW p, Publisher = {p}, MaxRestarts = 0, TypeOK, Holding, Line(p),
         NEW s \in Subscriber, AgedOut(s), [Next]_vars
  PROVE  AgedOut(s)'
<1> p \in Publisher
  OBVIOUS
<1>1. CASE UNCHANGED <<history, recorded>> /\ aged'[s] = aged[s]
  BY <1>1 DEF AgedOut
<1>2. CASE PushHistory(p)
  <2>1. /\ history' = Pushed(history, inflight[p]) /\ recorded' = recorded \cup {inflight[p]}
        /\ aged' = aged
        /\ pc[p] = "push" /\ inflight[p] \in Event /\ history \in Seq(Event)
    BY <1>2 DEF PushHistory, Holding, TypeOK, client
  <2>2. inflight[p] \notin aged[s]
    <3>1. recorded = Sent /\ \A e \in Sent : e.cursor < inflight[p].cursor
      BY <2>1 DEF Line, AtWork
    <3>2. inflight[p].cursor \in Nat
      BY <2>1 DEF Event
    <3>3. QED
      BY <3>1, <3>2 DEF AgedOut
  <2>3. \A i \in DOMAIN history' : history'[i] = inflight[p] \/ \E j \in DOMAIN history : history'[i] = history[j]
    <3> DEFINE n == Len(history) - Shift(history)
    <3>0. Pushed(history, inflight[p]) \in Seq(Event)
      BY <2>1, PushedType
    <3>1. n \in Int
      BY <2>1, LenProperties DEF Shift
    <3>2. Len(history') = n + 1
      BY <2>1, PushedElements
    <3>3. DOMAIN history' = 1..(n + 1)
      BY <2>1, <3>0, <3>2, LenProperties
    <3>4. /\ history'[n + 1] = inflight[p]
          /\ \A i \in 1..n : /\ i + Shift(history) \in DOMAIN history
                             /\ history'[i] = history[i + Shift(history)]
      BY <2>1, PushedElements
    <3> HIDE DEF n
    <3>5. QED
      BY <3>1, <3>3, <3>4
  <2>4. QED
    BY <2>1, <2>2, <2>3 DEF AgedOut
<1>3. CASE CatchUp(s)
  <2>1. /\ UNCHANGED <<history, recorded>>
        /\ aged'[s] = IF Source[s] = "ring"
                      THEN aged[s] \cup {g \in recorded :
                                           /\ g.cursor > last[s]
                                           /\ Matches(s, g)
                                           /\ g \notin {history[i] : i \in DOMAIN history}}
                      ELSE aged[s]
    BY <1>3 DEF CatchUp, TypeOK, emitter
  <2>2. QED
    BY <2>1 DEF AgedOut
<1>4. CASE Restart
  BY <1>4 DEF Restart, TypeOK
<1>5. CASE (\E k \in Kind : Stamp(p, k)) \/ AppendDurable(p) \/ Send(p)
  BY <1>1, <1>5 DEF Stamp, AppendDurable, Send, client
<1>6. ASSUME NEW q \in Subscriber, Follow(q), ~CatchUp(s)
      PROVE  AgedOut(s)'
  <2>1. UNCHANGED <<history, recorded>> /\ aged'[s] = aged[s]
    BY <1>6 DEF Follow, Subscribe, Receive, Lag, CatchUp, TypeOK, emitter
  <2>2. QED
    BY <1>1, <2>1
<1>7. CASE UNCHANGED vars
  BY <1>1, <1>7 DEF vars, emitter, client
<1>8. QED
  BY <1>2, <1>3, <1>4, <1>5, <1>6, <1>7 DEF Next, Publish

(* An event that is still on the channel is still in the ring, if the ring  *)
(* is larger than the channel's buffer.  As large is not enough: between    *)
(* the push and the send of an event the ring is one event ahead.           *)
LEMMA RingCoversBuffer ==
  ASSUME NEW p, Publisher = {p}, TypeOK, RingIsTail(p), BufferCapacity < HistoryCapacity,
         NEW i \in DOMAIN channel, Oldest < i
  PROVE  \E j \in DOMAIN history : history[j] = channel[i]
<1> DEFINE j == i - (Pushes(p) - Len(history))
<1>1. /\ Len(channel) \in Nat /\ i \in Nat /\ i <= Len(channel) /\ 1 <= i
      /\ Len(history) \in Nat /\ DOMAIN history = 1..Len(history)
      /\ Pushes(p) \in {Len(channel), Len(channel) + 1}
  BY DEF TypeOK, Pushes
<1>2. Len(history) = IF Pushes(p) <= HistoryCapacity THEN Pushes(p) ELSE HistoryCapacity
  BY DEF RingIsTail
<1>3. Len(channel) - BufferCapacity < i
  BY <1>1 DEF Oldest
<1>4. j \in 1..Len(history) /\ Pushes(p) - Len(history) + j = i
  BY <1>1, <1>2, <1>3
<1>5. history[j] = Nth(p, i)
  BY <1>1, <1>4 DEF RingIsTail
<1>6. QED
  BY <1>1, <1>4, <1>5 DEF Nth

LEMMA FirstSeenStep ==
  ASSUME NEW p, Publisher = {p}, BufferCapacity < HistoryCapacity,
         TypeOK, Holding, RecordInv, Line(p), RingIsTail(p),
         NEW s \in Subscriber, Closed(s), AgedOut(s), [Next]_vars,
         NEW e \in seen'[s] \ seen[s], NEW f \in seen[s]
  PROVE  f.cursor < e.cursor
<1>1. f \in Event /\ f \in recorded \cup appended /\ f.cursor \in Nat
  BY DEF TypeOK, Event, RecordInv, FilteredView
<1>2. SUFFICES ASSUME e \in recorded \cup appended, Matches(s, e),
                      e \in recorded => e \notin aged[s],
                      e \notin recorded => e \in durable /\ e \notin Sent
               PROVE  f.cursor < e.cursor
  <2>1. CASE CatchUp(s)
    <3>1. e \in Answer(s, last[s])
      BY <2>1 DEF CatchUp, TypeOK
    <3>2. CASE Source[s] = "ring"
      <4>1. PICK i \in DOMAIN history : e = history[i] /\ Matches(s, e)
        BY <3>1, <3>2 DEF Answer, RingAnswer
      <4>2. QED
        BY <1>2, <4>1 DEF AgedOut, RecordInv
    <3>3. CASE Source[s] # "ring"
      <4>1. e \in durable /\ Matches(s, e) /\ aged[s] = {}
        BY <3>1, <3>3 DEF Answer, DurableAnswer, AgedOut
      <4>2. QED
        BY <1>2, <4>1 DEF Line
    <3>4. QED
      BY <3>2, <3>3
  <2>2. CASE Receive(s)
    <3>1. e = channel[pos[s] + 1] /\ Matches(s, e) /\ Oldest <= pos[s] /\ pos[s] < Len(channel)
      BY <2>2 DEF Receive, TypeOK
    <3>2. pos[s] + 1 \in DOMAIN channel /\ Oldest < pos[s] + 1
      BY <3>1 DEF TypeOK, Oldest
    <3>3. PICK j \in DOMAIN history : history[j] = e
      BY <3>1, <3>2, RingCoversBuffer
    <3>4. QED
      BY <1>2, <3>1, <3>3 DEF AgedOut, RecordInv
  <2>3. CASE ~CatchUp(s) /\ ~Receive(s)
    <3>1. seen'[s] = seen[s]
      <4>1. CASE \E q \in Subscriber : Follow(q)
        BY <2>3, <4>1 DEF Follow, Subscribe, Receive, Lag, CatchUp, TypeOK
      <4>2. CASE ~\E q \in Subscriber : Follow(q)
        BY <4>2 DEF Next, Publish, Stamp, AppendDurable, PushHistory, Send, Restart, vars, client
      <4>3. QED
        BY <4>1, <4>2
    <3>2. QED
      BY <3>1
  <2>4. QED
    BY <2>1, <2>2, <2>3
<1>3. e.cursor \in Nat /\ e # f
  BY <1>2 DEF TypeOK, Event
<1>4. e.cursor # f.cursor
  BY <1>1, <1>2, <1>3, OneEventPerCursor
<1>5. ~(e.cursor < f.cursor)
  <2>1. CASE e \in recorded
    BY <1>2, <2>1 DEF Closed
  <2>2. CASE e \notin recorded
    <3>1. pc[p] # "idle" /\ e = inflight[p]
      BY <1>2, <2>2 DEF Line, AtWork
    <3>2. \A g \in Sent : g.cursor < e.cursor
      BY <3>1 DEF Line
    <3>3. f \in Sent \cup {e}
      BY <1>1, <3>1 DEF Line, AtWork
    <3>4. QED
      BY <1>1, <1>3, <3>2, <3>3
  <2>3. QED
    BY <2>1, <2>2
<1>6. QED
  BY <1>1, <1>3, <1>4, <1>5

(* New events reach every subscriber in the order of their cursors, with    *)
(* one publisher in one process lifetime, provided that the ring is larger  *)
(* than the broadcast buffer (EventSink::new gives it 4096 events, or as    *)
(* many as the buffer if that is more).  A ring of just the buffer's size   *)
(* is one event too small: a catch-up between the push and the send of an   *)
(* event misses the oldest event of the buffer, which the receiver then     *)
(* delivers late.                                                           *)
THEOREM SoloFirstSeenInOrder ==
  ASSUME NEW p, Publisher = {p}, MaxRestarts = 0, BufferCapacity < HistoryCapacity,
         \A s \in Subscriber : Kept(s)
  PROVE  Spec => FirstSeenInOrder
<1> DEFINE Inv == /\ Line(p) /\ RingIsTail(p)
                  /\ \A s \in Subscriber : Closed(s) /\ AgedOut(s)
<1>1. Init => Inv
  <2>1. Init => RingIsTail(p) /\ \A s \in Subscriber : AgedOut(s)
    BY DEF Init, InitFrom, RingIsTail, Pushes, AgedOut
  <2>2. QED
    BY <2>1, LineInit
<1>2. TypeOK /\ Holding /\ RecordInv /\ Inv /\ [Next]_vars => Inv'
  <2>1. HistoryCapacity > 0
    OBVIOUS
  <2>2. QED
    BY <2>1, LineStep, ClosedStep, RingIsTailStep, AgedOutStep
<1>3. TypeOK /\ Holding /\ RecordInv /\ Inv /\ [Next]_vars =>
        [\A s \in Subscriber :
           \A e \in seen'[s] \ seen[s], f \in seen[s] : f.cursor < e.cursor]_seen
  BY FirstSeenStep
<1>4. QED
  BY <1>1, <1>2, <1>3, TypeCorrect, RecordInvariant, PTL DEF Spec, FirstSeenInOrder
-----------------------------------------------------------------------------
(* One publisher, one process lifetime, a reliable disk: the durable log is *)
(* the abstract stream.                                                     *)

(* The events of the set are numbered from 1 to n by their cursors. *)
Numbered(rows, n) ==
  /\ rows \subseteq Event
  /\ IsFiniteSet(rows) /\ Cardinality(rows) = n
  /\ \A e \in rows : e.cursor \in 1..n
  /\ \A i \in 1..n : \E e \in rows : e.cursor = i
  /\ \A e, f \in rows : e.cursor = f.cursor => e = f

LogOf(rows) == [i \in 1..Cardinality(rows) |-> CHOOSE e \in rows : e.cursor = i]

(* Numbered rows read in the order of their cursors are a sequence. *)
LEMMA LogOfNumbered ==
  ASSUME NEW rows, NEW n \in Nat, Numbered(rows, n)
  PROVE  /\ LogOf(rows) \in Seq(Event) /\ Len(LogOf(rows)) = n
         /\ DOMAIN LogOf(rows) = 1..n
         /\ \A i \in 1..n : LogOf(rows)[i] \in rows /\ LogOf(rows)[i].cursor = i
         /\ \A e \in rows : e.cursor \in 1..n /\ LogOf(rows)[e.cursor] = e
<1>1. LogOf(rows) = [i \in 1..n |-> CHOOSE e \in rows : e.cursor = i]
  BY DEF LogOf, Numbered
<1>2. ASSUME NEW i \in 1..n
      PROVE  LogOf(rows)[i] \in rows /\ LogOf(rows)[i].cursor = i
  <2>1. \E e \in rows : e.cursor = i
    BY DEF Numbered
  <2>2. QED
    BY <1>1, <2>1
<1>3. LogOf(rows) \in [1..n -> Event]
  BY <1>1, <1>2 DEF Numbered
<1>4. LogOf(rows) \in Seq(Event) /\ Len(LogOf(rows)) = n
  BY <1>3
<1>5. ASSUME NEW e \in rows
      PROVE  e.cursor \in 1..n /\ LogOf(rows)[e.cursor] = e
  BY <1>2 DEF Numbered
<1>6. QED
  BY <1>1, <1>2, <1>4, <1>5

(* One more row with the next number is one more element at the end. *)
LEMMA LogOfAppended ==
  ASSUME NEW rows, NEW n \in Nat, Numbered(rows, n), NEW e \in Event, e.cursor = n + 1
  PROVE  /\ Numbered(rows \cup {e}, n + 1)
         /\ LogOf(rows \cup {e}) = Append(LogOf(rows), e)
<1>1. e \notin rows
  BY DEF Numbered
<1>2. IsFiniteSet(rows \cup {e}) /\ Cardinality(rows \cup {e}) = n + 1
  BY <1>1, FS_AddElement DEF Numbered
<1>3. Numbered(rows \cup {e}, n + 1)
  <2>1. \A f \in rows \cup {e} : f.cursor \in 1..(n + 1)
    BY DEF Numbered
  <2>2. \A i \in 1..(n + 1) : \E f \in rows \cup {e} : f.cursor = i
    <3>1. \A i \in 1..(n + 1) : i \in 1..n \/ i = n + 1
      OBVIOUS
    <3>2. QED
      BY <3>1 DEF Numbered
  <2>3. \A f, g \in rows \cup {e} : f.cursor = g.cursor => f = g
    BY DEF Numbered
  <2>4. rows \cup {e} \subseteq Event
    BY DEF Numbered
  <2>5. QED
    BY <1>2, <2>1, <2>2, <2>3, <2>4 DEF Numbered
<1> DEFINE old == LogOf(rows)
           new == LogOf(rows \cup {e})
<1>4. /\ old \in Seq(Event) /\ Len(old) = n
      /\ \A i \in 1..n : old[i] \in rows /\ old[i].cursor = i
  BY LogOfNumbered
<1>5. /\ new \in Seq(Event) /\ Len(new) = n + 1
      /\ \A f \in rows \cup {e} : new[f.cursor] = f
  <2> DEFINE all == rows \cup {e}
             m == n + 1
  <2>1. m \in Nat /\ Numbered(all, m)
    BY <1>3
  <2> HIDE DEF all, m
  <2>2. /\ LogOf(all) \in Seq(Event) /\ Len(LogOf(all)) = m
        /\ \A f \in all : LogOf(all)[f.cursor] = f
    BY <2>1, LogOfNumbered
  <2>3. QED
    BY <2>2 DEF all, m
<1> HIDE DEF old, new
<1>6. \A i \in 1..(n + 1) : new[i] = Append(old, e)[i]
  <2>1. ASSUME NEW i \in 1..n
        PROVE  new[i] = old[i]
    BY <1>4, <1>5
  <2>2. new[n + 1] = e
    BY <1>5
  <2>3. QED
    BY <1>4, <2>1, <2>2
<1>7. Append(old, e) \in Seq(Event) /\ Len(Append(old, e)) = n + 1
  BY <1>4
<1>8. new = Append(old, e)
  BY <1>5, <1>6, <1>7
<1>9. QED
  BY <1>3, <1>8 DEF old, new

(* How many events the durable log has: all that were stamped, but the one  *)
(* that is about to be appended.                                            *)
Rows(p) == IF pc[p] = "append" THEN next_cursor - 2 ELSE next_cursor - 1

(* The durable log's rows are the numbered events; every durable subscriber *)
(* has what it asked for of those up to some number.                        *)
NumberedLog(p) ==
  /\ run = 0
  /\ pc[p] # "idle" => /\ inflight[p].cursor = next_cursor - 1
                       /\ inflight[p].cursor <= MaxCursor
                       /\ inflight[p].run = 0
  /\ Rows(p) \in Nat
  /\ Numbered(durable, Rows(p))

UpTo(s, m) == {e \in durable : e.cursor <= m /\ Matches(s, e)}

Prefixed(s, n) == \E m \in 0..n : seen[s] = UpTo(s, m)

LEMMA NumberedLogStep ==
  ASSUME NEW p, Publisher = {p}, MaxRestarts = 0, StorageReliable,
         TypeOK, Holding, NumberedLog(p), [Next]_vars
  PROVE  NumberedLog(p)'
<1> p \in Publisher
  OBVIOUS
<1>0. next_cursor \in Nat /\ next_cursor >= 1
  BY DEF TypeOK
<1>1. ASSUME NEW k \in Kind, Stamp(p, k)
      PROVE  NumberedLog(p)'
  <2>1. /\ next_cursor' = next_cursor + 1
        /\ UNCHANGED <<run, durable>>
        /\ inflight'[p].cursor = next_cursor /\ inflight'[p].run = run
        /\ pc[p] = "idle" /\ pc'[p] = "append"
        /\ run + next_cursor <= MaxCursor
    BY <1>1 DEF Stamp, TakenCursor, TypeOK
  <2>2. Rows(p)' = Rows(p)
    BY <1>0, <2>1 DEF Rows
  <2>3. QED
    BY <1>0, <2>1, <2>2 DEF NumberedLog
<1>2. CASE AppendDurable(p)
  <2>1. /\ UNCHANGED <<run, next_cursor, inflight>>
        /\ pc[p] = "append" /\ pc'[p] = "push"
        /\ inflight[p] \in Event
        /\ durable' = InsertRow(durable, inflight[p])
    BY <1>2 DEF AppendDurable, TypeOK, Holding
  <2>2. Rows(p) = next_cursor - 2 /\ Rows(p)' = Rows(p) + 1 /\ inflight[p].cursor = Rows(p) + 1
    BY <1>0, <2>1 DEF Rows, NumberedLog
  <2>3. durable' = durable \cup {inflight[p]}
    BY <2>1, <2>2 DEF InsertRow, NumberedLog, Numbered
  <2>4. PICK n \in Nat : n = Rows(p)
    BY DEF NumberedLog
  <2>5. Numbered(durable, n) /\ inflight[p].cursor = n + 1
    BY <2>2, <2>4 DEF NumberedLog
  <2>6. Numbered(durable \cup {inflight[p]}, n + 1)
    BY <2>1, <2>5, LogOfAppended
  <2>7. Rows(p)' = n + 1 /\ n + 1 \in Nat
    BY <2>2, <2>4
  <2>8. QED
    BY <2>1, <2>3, <2>6, <2>7 DEF NumberedLog
<1>3. CASE PushHistory(p) \/ Send(p)
  <2>1. /\ UNCHANGED <<run, next_cursor, durable>>
        /\ pc[p] \in {"push", "send"} /\ pc'[p] \in {"send", "idle"}
        /\ pc'[p] # "idle" => inflight'[p] = inflight[p]
    BY <1>3 DEF PushHistory, Send, TypeOK
  <2>2. Rows(p)' = Rows(p)
    BY <2>1 DEF Rows
  <2>3. QED
    BY <2>1, <2>2 DEF NumberedLog
<1>4. CASE Restart
  BY <1>4 DEF Restart, TypeOK
<1>5. CASE UNCHANGED emitter
  BY <1>5 DEF emitter, NumberedLog, Rows
<1>6. QED
  BY <1>1, <1>2, <1>3, <1>4, <1>5
  DEF Next, Publish, Follow, Subscribe, Receive, Lag, CatchUp, vars

(* A subscriber's own steps move its view on to some prefix. *)
LEMMA FollowDelivers ==
  ASSUME NEW p, Publisher = {p}, StorageReliable,
         TypeOK, Holding, RecordInv, Line(p), NumberedLog(p),
         NEW s \in Subscriber, Source[s] # "ring",
         Closed(s), Closed(s)', AgedOut(s)', Prefixed(s, Rows(p)), Follow(s)
  PROVE  \E m \in 0..Rows(p) : seen[s] \subseteq UpTo(s, m) /\ seen'[s] = UpTo(s, m)
<1>1. PICK n \in Nat : n = Rows(p)
  BY DEF NumberedLog
<1>2. PICK m \in 0..n : seen[s] = UpTo(s, m)
  BY <1>1 DEF Prefixed
<1>3. /\ \A g \in durable : g.cursor \in 1..n
      /\ \A g, h \in durable : g.cursor = h.cursor => g = h
  BY <1>1 DEF NumberedLog, Numbered
<1>4. CASE Subscribe(s) \/ Lag(s)
  <2>1. seen' = seen
    BY <1>4 DEF Subscribe, Lag
  <2>2. QED
    BY <1>1, <1>2, <2>1
<1>5. CASE Receive(s)
  <2> DEFINE e == channel[pos[s] + 1]
  <2>1. e \in Sent /\ e \in durable /\ recorded' = recorded
    BY <1>5 DEF Receive, Sent, Line, TypeOK, emitter
  <2>2. CASE seen'[s] = seen[s]
    BY <1>1, <1>2, <2>2
  <2>3. CASE seen'[s] # seen[s]
    <3>1. seen'[s] = seen[s] \cup {e} /\ Matches(s, e)
      BY <1>5, <2>3 DEF Receive, TypeOK
    <3> HIDE DEF e
    <3>2. e.cursor \in 1..n /\ m < e.cursor
      <4>1. e \notin seen[s]
        BY <2>3, <3>1
      <4>2. QED
        BY <1>2, <1>3, <2>1, <3>1, <4>1 DEF UpTo
    <3>3. ASSUME NEW g \in durable, g.cursor < e.cursor, Matches(s, g)
          PROVE  g \in seen[s]
      <4>1. g.cursor \in Nat
        BY <1>3
      <4>2. g \in Sent
        <5>1. g \in Sent \cup AtWork(p, {"push", "send"})
          BY DEF Line
        <5>2. pc[p] # "idle" => inflight[p].cursor \in Nat /\ e.cursor < inflight[p].cursor
          BY <2>1 DEF Line, Holding, Event
        <5>3. QED
          BY <3>2, <3>3, <4>1, <5>1, <5>2 DEF AtWork
      <4>3. g \in recorded'
        BY <2>1, <4>2 DEF Line
      <4>4. g \in seen'[s]
        BY <3>1, <3>3, <4>3 DEF Closed, AgedOut, Matches
      <4>5. QED
        BY <3>1, <3>2, <3>3, <4>1, <4>4
    <3>4. UpTo(s, e.cursor) = seen[s] \cup {e}
      <4>1. \A g \in durable : g.cursor <= e.cursor <=> g.cursor < e.cursor \/ g = e
        BY <1>3, <2>1
      <4>2. \A g \in seen[s] : g \in durable /\ g.cursor < e.cursor /\ Matches(s, g)
        BY <1>2, <1>3, <3>2 DEF UpTo
      <4>3. QED
        BY <2>1, <3>1, <3>3, <4>1, <4>2 DEF UpTo
    <3>5. QED
      BY <1>1, <3>1, <3>2, <3>4
  <2>4. QED
    BY <2>2, <2>3
<1>6. CASE CatchUp(s)
  <2>1. seen'[s] = seen[s] \cup {g \in durable : g.cursor > last[s] /\ Matches(s, g)}
    BY <1>6 DEF CatchUp, Answer, DurableAnswer, TypeOK
  <2>2. last[s] = 0 \/ last[s] <= m
    BY <1>2 DEF Closed, UpTo
  <2>3. last[s] \in Nat
    BY DEF TypeOK
  <2>4. ASSUME NEW g \in durable, Matches(s, g), ~(g.cursor > last[s])
        PROVE  g \in seen[s]
    BY <1>2, <1>3, <2>2, <2>3, <2>4 DEF UpTo
  <2>5. UpTo(s, n) = seen'[s]
    BY <1>2, <1>3, <2>1, <2>4 DEF UpTo
  <2>6. QED
    BY <1>1, <2>1, <2>5
<1>7. QED
  BY <1>4, <1>5, <1>6 DEF Follow

(* The publisher's steps leave every view the prefix it was. *)
LEMMA PublishKeepsPrefix ==
  ASSUME NEW p, Publisher = {p}, StorageReliable, MaxRestarts = 0,
         TypeOK, Holding, NumberedLog(p), Publish(p),
         NEW s \in Subscriber, Prefixed(s, Rows(p))
  PROVE  Prefixed(s, Rows(p))'
<1> p \in Publisher
  OBVIOUS
<1>1. PICK n \in Nat : n = Rows(p)
  BY DEF NumberedLog
<1>2. PICK m \in 0..n : seen[s] = UpTo(s, m)
  BY <1>1 DEF Prefixed
<1>3. seen' = seen /\ next_cursor \in Nat
  BY DEF Publish, Stamp, AppendDurable, PushHistory, Send, client, TypeOK
<1>4. CASE AppendDurable(p)
  <2>1. pc[p] = "append" /\ pc'[p] = "push" /\ UNCHANGED next_cursor
    BY <1>4 DEF AppendDurable, TypeOK
  <2>2. durable' = durable \cup {inflight[p]} /\ inflight[p].cursor = n + 1
    <3>1. inflight[p].cursor = n + 1
      BY <1>1, <1>3, <2>1 DEF NumberedLog, Rows
    <3>2. \A r \in durable : r.cursor # n + 1
      BY <1>1 DEF NumberedLog, Numbered
    <3>3. QED
      BY <1>4, <3>1, <3>2 DEF AppendDurable, InsertRow
  <2>3. Rows(p)' = n + 1
    BY <1>1, <1>3, <2>1 DEF Rows
  <2>4. UpTo(s, m)' = UpTo(s, m)
    BY <2>2 DEF UpTo, Matches
  <2>5. m \in 0..(n + 1)
    OBVIOUS
  <2>6. QED
    BY <1>2, <1>3, <2>3, <2>4, <2>5 DEF Prefixed
<1>5. CASE ~AppendDurable(p)
  <2>1. durable' = durable /\ Rows(p)' = Rows(p)
    BY <1>3, <1>5 DEF Publish, Stamp, TakenCursor, PushHistory, Send, TypeOK, Rows
  <2>2. UpTo(s, m)' = UpTo(s, m)
    BY <2>1 DEF UpTo, Matches
  <2>3. QED
    BY <1>1, <1>2, <1>3, <2>1, <2>2 DEF Prefixed
<1>6. QED
  BY <1>4, <1>5

(* The numbered rows are the abstract log, and UpTo its filtered prefixes. *)
LEMMA PrefixIsView ==
  ASSUME NEW n \in Nat, Numbered(durable, n), NEW s \in Subscriber, NEW m \in 0..n
  PROVE  Len(DurableLog) = n /\ Stream!View(s, m) = UpTo(s, m)
<1>1. DurableLog = LogOf(durable)
  BY DEF DurableLog, LogOf
<1>2. /\ Len(DurableLog) = n
      /\ \A i \in 1..n : DurableLog[i] \in durable /\ DurableLog[i].cursor = i
      /\ \A e \in durable : e.cursor \in 1..n /\ DurableLog[e.cursor] = e
  BY <1>1, LogOfNumbered
<1> HIDE DEF DurableLog
<1>3. ASSUME NEW e \in Stream!View(s, m)
      PROVE  e \in UpTo(s, m)
  <2>1. PICK j \in 1..m : e = DurableLog[j] /\ DurableLog[j].kind \in Interest[s]
    BY DEF Stream!View
  <2>2. j \in 1..n
    OBVIOUS
  <2>3. QED
    BY <1>2, <2>1, <2>2 DEF UpTo, Matches
<1>4. ASSUME NEW e \in UpTo(s, m)
      PROVE  e \in Stream!View(s, m)
  <2>1. e \in durable /\ e.cursor <= m /\ e.kind \in Interest[s]
    BY DEF UpTo, Matches
  <2>2. e.cursor \in 1..m /\ DurableLog[e.cursor] = e
    BY <1>2, <2>1
  <2>3. QED
    BY <2>1, <2>2 DEF Stream!View
<1>5. QED
  BY <1>2, <1>3, <1>4

(* An accepted append publishes the next event of the abstract log. *)
LEMMA AppendPublishes ==
  ASSUME NEW p, Publisher = {p}, StorageReliable, TypeOK, Holding, NumberedLog(p),
         AppendDurable(p)
  PROVE  Stream!Publish
<1> p \in Publisher
  OBVIOUS
<1>1. PICK n \in Nat : n = Rows(p)
  BY DEF NumberedLog
<1>2. /\ pc[p] = "append" /\ inflight[p] \in Event
      /\ durable' = InsertRow(durable, inflight[p])
      /\ UNCHANGED seen
  BY DEF AppendDurable, Holding, client
<1>3. /\ inflight[p].cursor = n + 1 /\ inflight[p].cursor <= MaxCursor
      /\ inflight[p].run = 0 /\ Numbered(durable, n)
  <2>1. next_cursor \in Nat
    BY DEF TypeOK
  <2>2. QED
    BY <1>1, <1>2, <2>1 DEF NumberedLog, Rows
<1>4. durable' = durable \cup {inflight[p]}
  BY <1>2, <1>3 DEF InsertRow, Numbered
<1>5. LogOf(durable)' = Append(LogOf(durable), inflight[p]) /\ Len(LogOf(durable)) = n
  <2>1. LogOf(durable \cup {inflight[p]}) = Append(LogOf(durable), inflight[p])
    BY <1>2, <1>3, LogOfAppended
  <2>2. Len(LogOf(durable)) = n
    BY <1>3, LogOfNumbered
  <2>3. LogOf(durable)' = LogOf(durable \cup {inflight[p]})
    BY <1>4 DEF LogOf
  <2>4. QED
    BY <2>1, <2>2, <2>3
<1>6. DurableLog = LogOf(durable) /\ DurableLog' = LogOf(durable)'
  BY DEF DurableLog, LogOf
<1>7. inflight[p] \in [cursor : 1..MaxCursor, kind : Kind, run : {0}]
  BY <1>2, <1>3, BoundAssumption DEF Event
<1>8. QED
  BY <1>2, <1>3, <1>5, <1>6, <1>7 DEF Stream!Publish

(* Every step of the bus is a step of the abstract stream or none. *)
LEMMA StreamStep ==
  ASSUME NEW p, Publisher = {p}, StorageReliable, MaxRestarts = 0,
         TypeOK, Holding, RecordInv, Line(p), NumberedLog(p),
         \A s \in Subscriber : Closed(s) /\ Closed(s)' /\ AgedOut(s)',
         \A s \in DurableSubscriber : Prefixed(s, Rows(p)),
         [Next]_vars
  PROVE  [Stream!Next]_(Stream!vars)
<1> DEFINE view == [s \in DurableSubscriber |-> seen[s]]
<1>1. CASE AppendDurable(p)
  BY <1>1, AppendPublishes DEF Stream!Next
<1>2. ASSUME NEW s \in DurableSubscriber, Follow(s)
      PROVE  Stream!Deliver(s)
  <2>1. s \in Subscriber /\ Source[s] # "ring"
    BY DEF DurableSubscriber
  <2>2. PICK n \in Nat : n = Rows(p) /\ Numbered(durable, n)
    BY DEF NumberedLog
  <2>3. PICK m \in 0..n : seen[s] \subseteq UpTo(s, m) /\ seen'[s] = UpTo(s, m)
    BY <1>2, <2>1, <2>2, FollowDelivers
  <2>4. Len(DurableLog) = n /\ Stream!View(s, m) = UpTo(s, m)
    BY <2>1, <2>2, PrefixIsView
  <2>5. durable' = durable /\ \A q \in Subscriber : q # s => seen'[q] = seen[q]
    BY <1>2, <2>1 DEF Follow, Subscribe, Receive, Lag, CatchUp, emitter, TypeOK
  <2>6. DurableLog' = DurableLog
    BY <2>5 DEF DurableLog
  <2>7. view' = [view EXCEPT ![s] = UpTo(s, m)]
    BY <2>3, <2>5 DEF DurableSubscriber
  <2>8. view[s] \subseteq UpTo(s, m)
    BY <2>3
  <2>9. QED
    BY <2>4, <2>6, <2>7, <2>8 DEF Stream!Deliver
<1>3. ASSUME NEW s \in Subscriber, s \notin DurableSubscriber, Follow(s)
      PROVE  UNCHANGED Stream!vars
  <2>1. durable' = durable /\ \A q \in DurableSubscriber : seen'[q] = seen[q]
    BY <1>3 DEF Follow, Subscribe, Receive, Lag, CatchUp, emitter, TypeOK, DurableSubscriber
  <2>2. QED
    BY <2>1 DEF Stream!vars, DurableLog
<1>4. CASE (\E k \in Kind : Stamp(p, k)) \/ PushHistory(p) \/ Send(p) \/ UNCHANGED vars
  <2>1. UNCHANGED <<durable, seen>>
    BY <1>4 DEF Stamp, PushHistory, Send, client, vars, emitter
  <2>2. QED
    BY <2>1 DEF Stream!vars, DurableLog
<1>5. CASE Restart
  BY <1>5 DEF Restart, TypeOK
<1>6. QED
  BY <1>1, <1>2, <1>3, <1>4, <1>5 DEF Next, Publish, Stream!Next

(* With one publisher, one process lifetime and a reliable disk the bus     *)
(* implements EventStream for every subscriber that catches up from the     *)
(* durable log: the log is the abstract log, and whatever lags, reconnects, *)
(* overlaps and buffer sizes there are, such a subscriber's view is always  *)
(* a filtered prefix of it.                                                 *)
THEOREM SoloImplementsEventStream ==
  ASSUME NEW p, Publisher = {p}, MaxRestarts = 0, StorageReliable
  PROVE  Spec => ImplementsEventStream
<1> DEFINE Rest == /\ Line(p) /\ NumberedLog(p)
                   /\ \A s \in Subscriber : Closed(s) /\ AgedOut(s)
           Inv == Rest /\ \A s \in DurableSubscriber : Prefixed(s, Rows(p))
<1>1. Init => Inv
  <2> SUFFICES ASSUME Init
               PROVE  Inv
    OBVIOUS
  <2>1. Rows(p) = 0 /\ NumberedLog(p)
    <3>1. IsFiniteSet({}) /\ Cardinality({}) = 0
      BY FS_EmptySet
    <3>2. QED
      BY <3>1 DEF Init, InitFrom, Rows, NumberedLog, Numbered
  <2>2. \A s \in Subscriber : AgedOut(s)
    BY DEF Init, InitFrom, AgedOut
  <2>3. ASSUME NEW s \in DurableSubscriber
        PROVE  Prefixed(s, Rows(p))
    <3>1. seen[s] = {} /\ UpTo(s, 0) = {}
      BY DEF Init, InitFrom, UpTo, DurableSubscriber
    <3>2. QED
      BY <2>1, <3>1 DEF Prefixed
  <2>4. QED
    BY <2>1, <2>2, <2>3, LineInit
<1>2. TypeOK /\ Holding /\ RecordInv /\ Rest /\ [Next]_vars => Rest'
  BY LineStep, ClosedStep, AgedOutStep, NumberedLogStep DEF Kept
<1>3. TypeOK /\ Holding /\ RecordInv /\ Inv /\ [Next]_vars => Inv' /\ [Stream!Next]_(Stream!vars)
  <2> SUFFICES ASSUME TypeOK, Holding, RecordInv, Inv, [Next]_vars
               PROVE  Inv' /\ [Stream!Next]_(Stream!vars)
    OBVIOUS
  <2>1. Rest'
    BY <1>2
  <2>2. ASSUME NEW s \in DurableSubscriber
        PROVE  Prefixed(s, Rows(p))'
    <3>1. s \in Subscriber /\ Source[s] # "ring"
      BY DEF DurableSubscriber
    <3>2. PICK n \in Nat : n = Rows(p)
      BY DEF NumberedLog
    <3>3. CASE Follow(s)
      <4>1. PICK m \in 0..n : seen'[s] = UpTo(s, m)
        BY <2>1, <3>1, <3>2, <3>3, FollowDelivers
      <4>2. UNCHANGED <<durable, pc, next_cursor>>
        BY <3>3 DEF Follow, Subscribe, Receive, Lag, CatchUp, emitter
      <4>3. Rows(p)' = Rows(p) /\ UpTo(s, m)' = UpTo(s, m)
        BY <4>2 DEF Rows, UpTo, Matches
      <4>4. QED
        BY <3>2, <4>1, <4>3 DEF Prefixed
    <3>4. CASE Publish(p)
      BY <3>1, <3>4, PublishKeepsPrefix
    <3>5. CASE ~Publish(p) /\ ~Follow(s)
      <4>1. UNCHANGED <<durable, pc, next_cursor>> /\ seen'[s] = seen[s]
        BY <3>1, <3>5 DEF Next, Follow, Subscribe, Receive, Lag, CatchUp, Restart, vars,
                          emitter, client, TypeOK
      <4>2. PICK m \in 0..n : seen[s] = UpTo(s, m)
        BY <3>2 DEF Prefixed
      <4>3. Rows(p)' = Rows(p) /\ UpTo(s, m)' = UpTo(s, m)
        BY <4>1 DEF Rows, UpTo, Matches
      <4>4. QED
        BY <3>2, <4>1, <4>2, <4>3 DEF Prefixed
    <3>6. QED
      BY <3>3, <3>4, <3>5
  <2>3. [Stream!Next]_(Stream!vars)
    BY <2>1, StreamStep
  <2>4. QED
    BY <2>1, <2>2, <2>3
<1>4. Init => Stream!Init
  <2> SUFFICES ASSUME Init
               PROVE  Stream!Init
    OBVIOUS
  <2>1. DurableLog = << >>
    <3>1. Cardinality(durable) = 0
      BY FS_EmptySet DEF Init, InitFrom
    <3>2. QED
      BY <3>1 DEF DurableLog
  <2>2. [s \in DurableSubscriber |-> seen[s]] = [s \in DurableSubscriber |-> {}]
    BY DEF Init, InitFrom, DurableSubscriber
  <2>3. QED
    BY <2>1, <2>2 DEF Stream!Init
<1>5. QED
  BY <1>1, <1>3, <1>4, TypeCorrect, RecordInvariant, PTL
  DEF Spec, ImplementsEventStream, Stream!Spec
=============================================================================
