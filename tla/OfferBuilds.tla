----------------------------- MODULE OfferBuilds -----------------------------
(***************************************************************************)
(* Offers in two calls (engine/offer_state.rs, engine/build_offer.rs).     *)
(*                                                                         *)
(* build_make and build_take park what the second call needs under an id   *)
(* and give the client the id to sign against; assemble_make and           *)
(* finalize_take take it out again.  The id is minted before the map is    *)
(* locked, everything else on the map is done under its lock; calls of     *)
(* several clients interleave, and the clock runs on between any two steps.*)
(*                                                                         *)
(* What the builder computes is external (dig-offers).  A first call that  *)
(* fails does so before the id is minted and leaves nothing behind.        *)
(*                                                                         *)
(* Nothing is persisted: a restart of the process forgets the builds and   *)
(* counts ids from 0 again, while clients keep the ids they were given.    *)
(***************************************************************************)
EXTENDS Integers

CONSTANTS
  Client,      \* callers of the offer builder
  PendingTTL,  \* PENDING_TTL
  MaxBuilds,   \* bound: ids minted
  MaxNow,      \* bound: the clock
  MaxRestarts  \* bound: restarts of the process

ASSUME OfferAssumption == PendingTTL \in Nat \ {0}

VARIABLES
  entries,     \* the parked builds
  counter,     \* the next id
  parking,     \* per client: the id minted and not yet parked, if any
  now,         \* the clock
  life,        \* restarts so far
  handles,     \* ids the clients hold, with what they stand for
  answer,      \* what the last second call got
  taken,       \* history: builds that were taken out by a second call
  swept        \* history: the time of the last access to the map

buildVars == <<entries, counter, parking, now, life, handles, answer, taken, swept>>

OfferKind == {"make", "take"}
OfferBuild == [id : Nat, kind : OfferKind, by : Client, at : Nat, life : Nat]
Minted == [id : Nat, kind : OfferKind]

NotParking == [id |-> 0, kind |-> "none"]
Refusal == [ok |-> FALSE]
Answer == {Refusal} \cup [ok : {TRUE}, kind : OfferKind, build : OfferBuild, at : Nat]
Handed(kind, build, when) == [ok |-> TRUE, kind |-> kind, build |-> build, at |-> when]

BuildsInit ==
  /\ entries = {}
  /\ counter = 0
  /\ parking = [c \in Client |-> NotParking]
  /\ now = 0
  /\ life = 0
  /\ handles = {}
  /\ answer = Refusal
  /\ taken = {}
  /\ swept = 0
-----------------------------------------------------------------------------
(* Mutant: builds are swept a tick early. *)
Unexpired_Early(builds) == {b \in builds : now + 1 < b.at + PendingTTL}

(* Mutant: nothing is swept. *)
Unexpired_All(builds) == builds

(* sweep_expired: now - created_at < PENDING_TTL. *)
Unexpired(builds) == {b \in builds : now < b.at + PendingTTL}

(* Mutant: an id is read, and counted up only if nobody else has one in hand. *)
NextId_Racy == IF \E c \in Client : parking[c] # NotParking THEN counter ELSE counter + 1

(* Mutant: fetch_sub. *)
NextId_Down == counter - 1

(* fetch_add. *)
NextId == counter + 1

(* insert: the id is minted, without the lock. *)
Mint(c, kind) ==
  /\ parking[c] = NotParking
  /\ counter < MaxBuilds
  /\ parking' = [parking EXCEPT ![c] = [id |-> counter, kind |-> kind]]
  /\ counter' = NextId
  /\ UNCHANGED <<entries, now, life, handles, answer, taken, swept>>

(* insert: the build is parked and its id returned. *)
Park(c) ==
  LET build == [id |-> parking[c].id, kind |-> parking[c].kind,
                by |-> c, at |-> now, life |-> life] IN
  /\ parking[c] # NotParking
  /\ entries' = {b \in Unexpired(entries) : b.id # build.id} \cup {build}
  /\ handles' = handles \cup {build}
  /\ parking' = [parking EXCEPT ![c] = NotParking]
  /\ swept' = now
  /\ UNCHANGED <<counter, now, life, answer, taken>>

(* Mutant: the entry is looked up and left where it is. *)
Without_Peek(builds, id) == builds

(* HashMap::remove. *)
Without(builds, id) == {b \in builds : b.id # id}

(* take_make and take_take: whatever stands under the id is removed, even   *)
(* if it is of the other kind.                                              *)
SecondCall(id) ==
  /\ entries' = Without(Unexpired(entries), id)
  /\ taken' = taken \cup {b \in Unexpired(entries) : b.id = id}
  /\ swept' = now
  /\ UNCHANGED <<counter, parking, now, life, handles>>

(* assemble_make, finalize_take: the caller gets what was made of it.       *)
Finish(kind, id) ==
  /\ SecondCall(id)
  /\ \E b \in Unexpired(entries) :
       /\ b.id = id /\ b.kind = kind
       /\ answer' = Handed(kind, b, now)

(* No such build, or one of the other kind, or make_assemble fails on what  *)
(* the client signed; in the last two cases the build is gone all the same. *)
Refuse(kind, id) ==
  /\ SecondCall(id)
  /\ \A b \in Unexpired(entries) : b.id = id => b.kind # kind \/ kind = "make"
  /\ answer' = Refusal

(* len. *)
CountBuilds ==
  /\ entries' = Unexpired(entries)
  /\ swept' = now
  /\ UNCHANGED <<counter, parking, now, life, handles, answer, taken>>

Tick ==
  /\ now < MaxNow
  /\ now' = now + 1
  /\ UNCHANGED <<entries, counter, parking, life, handles, answer, taken, swept>>

(* The builder is new, and whoever was in a call is gone. *)
Restart ==
  /\ life < MaxRestarts
  /\ life' = life + 1
  /\ entries' = {}
  /\ counter' = 0
  /\ parking' = [c \in Client |-> NotParking]
  /\ UNCHANGED <<now, handles, answer, taken, swept>>

(* A client may send any id: ids are guessable, and clients make mistakes. *)
BuildsNext ==
  \/ \E c \in Client : Park(c) \/ \E kind \in OfferKind : Mint(c, kind)
  \/ \E kind \in OfferKind, id \in 0..MaxBuilds : Finish(kind, id) \/ Refuse(kind, id)
  \/ CountBuilds
  \/ Tick
  \/ Restart

BuildsSpec == BuildsInit /\ [][BuildsNext]_buildVars
-----------------------------------------------------------------------------
BuildsTypeOK ==
  /\ entries \subseteq OfferBuild /\ handles \subseteq OfferBuild /\ taken \subseteq OfferBuild
  /\ counter \in Nat /\ now \in Nat /\ life \in Nat /\ swept \in Nat
  /\ parking \in [Client -> {NotParking} \cup Minted]
  /\ answer \in Answer

(* While the process lives an id stands for one build: no client's id leads *)
(* to a build of another client, or to another one of its own, however      *)
(* their first calls interleave.                                            *)
KeptApart ==
  \A b, d \in handles \cup entries \cup taken : b.id = d.id /\ b.life = d.life => b = d

(* A build a client holds the id of is there as long as it is not too old   *)
(* and nobody has taken it out: no sweep and no other call loses it.        *)
FreshKept ==
  \A b \in handles :
    b.life = life /\ now < b.at + PendingTTL /\ b \notin taken => b \in entries

(* "A build is single-use": once taken out it is never there again, so one  *)
(* signature never completes two offers out of one build.                   *)
NeverTwice == taken \cap entries = {}

(* No second call ever gets a build that was too old when it asked, nor one *)
(* of the other kind.                                                       *)
NeverLate ==
  answer # Refusal =>
    answer.build.kind = answer.kind /\ answer.at < answer.build.at + PendingTTL

(* The map holds nothing that was too old at the last access: abandoned     *)
(* builds do not pile up while the map is used.                             *)
Reclaimed == \A b \in entries : swept < b.at + PendingTTL
=============================================================================
