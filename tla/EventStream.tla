----------------------------- MODULE EventStream -----------------------------
(***************************************************************************)
(* What the event system promises its subscribers, with nothing about how  *)
(* it is done: one log of published events, numbered 1, 2, 3, ..., and for *)
(* every subscriber a view that is always the part of some prefix of that  *)
(* log the subscriber asked for.  A view only grows: no gap, no invention, *)
(* no event of a kind that was not asked for.                              *)
(* (SPEC.md 5.2 and 5.3; EventBus is shown to implement this.)             *)
(***************************************************************************)
EXTENDS Naturals, Sequences

CONSTANTS
  Subscriber,   \* those who follow the log
  Event,        \* the events that can be published, records with a cursor and a kind
  Interest      \* Interest[s]: the kinds subscriber s asked for

VARIABLES
  log,          \* the events published so far, in order
  seen          \* seen[s]: the set of events subscriber s has been handed

vars == <<log, seen>>

(* The part of the first n published events that s asked for. *)
View(s, n) == {log[i] : i \in {j \in 1..n : log[j].kind \in Interest[s]}}

Init ==
  /\ log = << >>
  /\ seen = [s \in Subscriber |-> {}]

Publish ==
  /\ \E e \in Event :
       /\ e.cursor = Len(log) + 1
       /\ log' = Append(log, e)
  /\ UNCHANGED seen

(* The view of s moves on to a longer prefix, by one event or by many. *)
Deliver(s) ==
  /\ \E n \in 0..Len(log) :
       /\ seen[s] \subseteq View(s, n)
       /\ seen' = [seen EXCEPT ![s] = View(s, n)]
  /\ UNCHANGED log

Next == Publish \/ \E s \in Subscriber : Deliver(s)

Spec == Init /\ [][Next]_vars
=============================================================================
