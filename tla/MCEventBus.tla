----------------------------- MODULE MCEventBus -----------------------------
(* Instances of EventBus for TLC. *)
EXTENDS EventBus, TLC

CONSTANTS p1, p2, s1, s2, funds, tip

(* Two subscribers: s1 wants everything and catches up from the ring, s2    *)
(* wants one kind and catches up from the durable log.                      *)
MCInterest == [s \in Subscriber |-> IF s = s1 THEN {funds, tip} ELSE {tip}]
MCSource == [s \in Subscriber |-> IF s = s1 THEN "ring" ELSE "durable"]

(* One subscriber of one kind, on the ring. *)
MCTipOnly == [s \in Subscriber |-> {tip}]
MCRing == [s \in Subscriber |-> "ring"]

(* The publishers are interchangeable. *)
PublisherSymmetry == Permutations(Publisher)
=============================================================================
