------------------------------ MODULE Registries ------------------------------
(***************************************************************************)
(* The engine's housekeeping (engine::actions) and the client's address    *)
(* book: small tables behind locks.  NetworkBook has one lock per field,   *)
(* and some calls take several in turn, so the calls of its threads are    *)
(* modelled lock by lock; a call of one lock is one step.  The book orders *)
(* its peers only when they are read, so peers is a set here.              *)
(***************************************************************************)
EXTENDS Naturals, Sequences, FiniteSets, SequencesExt

CONSTANTS
    Thread, Peer, Networks,
    NoPeer,
    Kind, Id,       \* asset families and asset ids
    Label, Address,
    MaxIndex        \* the largest u32

ASSUME NoPeerAssumption == NoPeer \notin Peer

VARIABLES
    peers, target, network, deltaSync,   \* NetworkBook
    call,       \* the call of each thread and the lock it stands before
    joined,     \* history: the network a listed peer was added under
    overtaken,  \* history: peers dropped while a target_peer call for them was
                \* between its two locks, and not listed again since
    hidden, stale, window, contacts      \* AssetActions, DerivationWindow, AddressBook

bookVars     == <<peers, target, network, deltaSync, call, joined, overtaken>>
registryVars == <<hidden, stale, window, contacts>>

NoCall == [op |-> "none"]
Absent == "none"

BookInit ==
    /\ peers = {} /\ target = NoPeer /\ network \in Networks /\ deltaSync = TRUE
    /\ call = [t \in Thread |-> NoCall]
    /\ joined = [p \in Peer |-> network] /\ overtaken = {}

-----------------------------------------------------------------------------
(* NetworkBook.                                                            *)

Free(t)     == call[t] = NoCall
Ends(t)     == call' = [call EXCEPT ![t] = NoCall]
Goes(t, c)  == call' = [call EXCEPT ![t] = c]
Listed(p)   == p \in peers
Aiming(p)   == \E t \in Thread : call[t] = [op |-> "target", peer |-> p]
Overtaken(dropped) == {p \in dropped \cap peers : Aiming(p)}

AddPeer(t, p) ==
    /\ Free(t)
    /\ peers'  = peers \cup {p}
    /\ joined' = IF Listed(p) THEN joined ELSE [joined EXCEPT ![p] = network]
    /\ overtaken' = overtaken \ {p}
    /\ UNCHANGED <<target, network, deltaSync, call>>

(* remove_peer holds the peers lock until it returns.                      *)
RemovePeer(t, p) ==
    /\ Free(t)
    /\ peers'  = peers \ {p}
    /\ target' = IF Listed(p) /\ target = p THEN NoPeer ELSE target
    /\ overtaken' = overtaken \cup Overtaken({p})
    /\ UNCHANGED <<network, deltaSync, call, joined>>

(* target_peer: the peers lock is given back before the target lock.       *)
LookUpTarget(t, p) ==
    /\ Free(t) /\ Listed(p)
    /\ Goes(t, [op |-> "target", peer |-> p])
    /\ UNCHANGED <<peers, target, network, deltaSync, joined, overtaken>>

WriteTarget(t) ==
    /\ call[t].op = "target"
    /\ target' = call[t].peer
    /\ Ends(t)
    /\ UNCHANGED <<peers, network, deltaSync, joined, overtaken>>

(* Mutant: set_network clears the peers before it writes the network.      *)
SetNetworkOrder_PeersFirst == <<"peers", "network", "target">>

(* Mutant: set_network clears the target before it clears the peers.       *)
SetNetworkOrder_TargetFirst == <<"network", "target", "peers">>

(* set_network takes its three locks one after the other.                  *)
SetNetworkOrder == <<"network", "peers", "target">>

SetNetwork(t, n) ==
    /\ Free(t)
    /\ Goes(t, [op |-> "set_network", network |-> n, left |-> SetNetworkOrder])
    /\ UNCHANGED <<peers, target, network, deltaSync, joined, overtaken>>

WriteField(t) ==
    /\ call[t].op = "set_network"
    /\ LET field == Head(call[t].left)
       IN  /\ network' = IF field = "network" THEN call[t].network ELSE network
           /\ peers'   = IF field = "peers" THEN {} ELSE peers
           /\ target'  = IF field = "target" THEN NoPeer ELSE target
           /\ overtaken' = IF field = "peers" THEN overtaken \cup Overtaken(peers) ELSE overtaken
    /\ IF Len(call[t].left) = 1 THEN Ends(t)
       ELSE Goes(t, [call[t] EXCEPT !.left = Tail(@)])
    /\ UNCHANGED <<deltaSync, joined>>

SetDeltaSync(t, enabled) ==
    /\ Free(t)
    /\ deltaSync' = enabled
    /\ UNCHANGED <<peers, target, network, call, joined, overtaken>>

BookNext ==
    \E t \in Thread :
        \/ \E p \in Peer : AddPeer(t, p) \/ RemovePeer(t, p) \/ LookUpTarget(t, p)
        \/ \E n \in Networks : SetNetwork(t, n)
        \/ WriteTarget(t) \/ WriteField(t)
        \/ \E b \in BOOLEAN : SetDeltaSync(t, b)

BookSpec == BookInit /\ [][BookNext]_bookVars

-----------------------------------------------------------------------------
(* AssetActions, DerivationWindow and AddressBook: one lock, one step.     *)

RegistryInit ==
    /\ hidden = {} /\ stale = [k \in Kind |-> <<>>] /\ window = 0
    /\ contacts = [l \in Label |-> Absent]

SetVisibility(k, i, visible) ==
    /\ hidden' = IF visible THEN hidden \ {<<k, i>>} ELSE hidden \cup {<<k, i>>}
    /\ UNCHANGED <<stale, window, contacts>>

RequestRefresh(k, i) ==
    /\ stale' = [stale EXCEPT ![k] = IF i \in ToSet(@) THEN @ ELSE Append(@, i)]
    /\ UNCHANGED <<hidden, window, contacts>>

ClearRefresh(k, i) ==
    /\ stale' = [stale EXCEPT ![k] = SelectSeq(@, LAMBDA j : j # i)]
    /\ UNCHANGED <<hidden, window, contacts>>

(* increase: saturating                                                    *)
Increase(count) ==
    /\ window' = IF window + count > MaxIndex THEN MaxIndex ELSE window + count
    /\ UNCHANGED <<hidden, stale, contacts>>

SetContact(l, a) == contacts' = [contacts EXCEPT ![l] = a] /\ UNCHANGED <<hidden, stale, window>>
RemoveContact(l) == SetContact(l, Absent)

RegistryNext ==
    \/ \E k \in Kind, i \in Id : \/ \E v \in BOOLEAN : SetVisibility(k, i, v)
                                 \/ RequestRefresh(k, i) \/ ClearRefresh(k, i)
    \/ \E n \in 1..MaxIndex : Increase(n)
    \/ \E l \in Label : RemoveContact(l) \/ \E a \in Address : SetContact(l, a)

RegistrySpec == RegistryInit /\ [][RegistryNext]_registryVars

RegistriesTypeOK ==
    /\ peers \subseteq Peer /\ target \in Peer \cup {NoPeer}
    /\ network \in Networks /\ deltaSync \in BOOLEAN /\ joined \in [Peer -> Networks]
    /\ overtaken \subseteq Peer /\ hidden \subseteq Kind \X Id
    /\ stale \in [Kind -> Seq(Id)]
    /\ \A k \in Kind : Len(stale[k]) = Cardinality(ToSet(stale[k]))
    /\ window \in 0..MaxIndex /\ contacts \in [Label -> Address \cup {Absent}]

-----------------------------------------------------------------------------
Quiet == \A t \in Thread : Free(t)

(* When no call is under way every listed peer was added under the network *)
(* in force, however the calls of set_network, add_peer and remove_peer    *)
(* overlapped (the network is written before the peers are cleared).       *)
PeersOnNetwork == Quiet => \A p \in peers : joined[p] = network

(* "The preferred peer, if one is set and still known" (target): when no   *)
(* call is under way, the target is one of the peers.                      *)
TargetStillKnown == Quiet => target = NoPeer \/ Listed(target)

(* What holds of it: a target that is no peer any more left the list while *)
(* a target_peer call for it was between its two locks.  No other overlap  *)
(* of set_network, remove_peer, add_peer and target_peer leaves one.       *)
TargetKnownUnlessOvertaken ==
    Quiet => target = NoPeer \/ Listed(target) \/ target \in overtaken
=============================================================================
