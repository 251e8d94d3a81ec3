-------------------------- MODULE OfferBuilds_proofs --------------------------
(***************************************************************************)
(* Theorems about OfferBuilds, for any clients, any TTL above 0, any       *)
(* number of builds and restarts.                                          *)
(***************************************************************************)
EXTENDS OfferBuilds, TLAPS

LEMMA TypeInit == BuildsInit => BuildsTypeOK
BY DEF BuildsInit, BuildsTypeOK, Answer

LEMMA MintedIsNotIdle == NotParking \notin Minted
BY DEF NotParking, Minted, OfferKind

(* What is parked is a build, and new. *)
LEMMA ParkType ==
  ASSUME BuildsTypeOK, NEW c \in Client, parking[c] # NotParking
  PROVE  /\ parking[c] \in Minted
         /\ [id |-> parking[c].id, kind |-> parking[c].kind,
             by |-> c, at |-> now, life |-> life] \in OfferBuild
BY DEF BuildsTypeOK, Minted, OfferBuild

LEMMA TypeStep == BuildsTypeOK /\ [BuildsNext]_buildVars => BuildsTypeOK'
<1> SUFFICES ASSUME BuildsTypeOK, [BuildsNext]_buildVars
             PROVE  BuildsTypeOK'
  OBVIOUS
<1>0. Unexpired(entries) \subseteq entries
  BY DEF Unexpired
<1>1. ASSUME NEW c \in Client, NEW kind \in OfferKind, Mint(c, kind)
      PROVE  BuildsTypeOK'
  BY <1>1 DEF Mint, NextId, BuildsTypeOK, Minted
<1>2. ASSUME NEW c \in Client, Park(c)
      PROVE  BuildsTypeOK'
  BY <1>0, <1>2, ParkType DEF Park, BuildsTypeOK
<1>3. ASSUME NEW kind \in OfferKind, NEW id \in 0..MaxBuilds, Finish(kind, id)
      PROVE  BuildsTypeOK'
  <2>1. PICK b \in Unexpired(entries) : answer' = Handed(kind, b, now)
    BY <1>3 DEF Finish
  <2>2. answer' \in Answer
    BY <1>0, <2>1 DEF Handed, BuildsTypeOK, Answer
  <2> QED
    BY <1>0, <1>3, <2>2 DEF Finish, SecondCall, Without, BuildsTypeOK
<1>4. ASSUME NEW kind \in OfferKind, NEW id \in 0..MaxBuilds, Refuse(kind, id)
      PROVE  BuildsTypeOK'
  BY <1>0, <1>4 DEF Refuse, SecondCall, Without, BuildsTypeOK, Answer
<1>5. CASE CountBuilds \/ Tick
  BY <1>0, <1>5 DEF CountBuilds, Tick, BuildsTypeOK
<1>6. CASE Restart
  BY <1>6 DEF Restart, BuildsTypeOK
<1>7. CASE UNCHANGED buildVars
  BY <1>7 DEF buildVars, BuildsTypeOK
<1> QED
  BY <1>1, <1>2, <1>3, <1>4, <1>5, <1>6, <1>7 DEF BuildsNext

(* Every variable keeps its type. *)
THEOREM TypeCorrect == BuildsSpec => []BuildsTypeOK
BY TypeInit, TypeStep, PTL DEF BuildsSpec
-----------------------------------------------------------------------------
(* The strengthening: ids in use lie below the counter, and an id that was  *)
(* minted and not yet parked is nobody else's.                              *)

Builds == handles \cup entries \cup taken

MintedOnce ==
  /\ \A c \in Client : parking[c] # NotParking =>
       /\ parking[c].id < counter
       /\ \A d \in Client : parking[d] # NotParking /\ parking[d].id = parking[c].id => c = d
       /\ \A b \in Builds : b.life = life => b.id # parking[c].id
  /\ \A b \in Builds : b.life <= life /\ (b.life = life => b.id < counter)
  /\ \A b \in entries : b.life = life

Inv == MintedOnce /\ KeptApart /\ FreshKept /\ NeverTwice

LEMMA InvInit == BuildsInit => Inv
BY DEF BuildsInit, Inv, MintedOnce, KeptApart, FreshKept, NeverTwice, Builds

(* Removing what is too old or what was asked for loses nothing fresh. *)
LEMMA InvSecondCall ==
  ASSUME BuildsTypeOK, Inv, NEW id \in Nat, SecondCall(id)
  PROVE  Inv'
<1> USE DEF SecondCall
<1>1. /\ entries' \subseteq entries
      /\ taken' \subseteq taken \cup entries
      /\ Builds' \subseteq Builds
  BY DEF Unexpired, Without, Builds
<1>2. MintedOnce'
  BY <1>1 DEF Inv, MintedOnce
<1>3. KeptApart'
  BY <1>1 DEF Inv, KeptApart, Builds
<1>4. FreshKept'
  BY DEF Inv, FreshKept, Unexpired, Without
<1>5. NeverTwice'
  BY DEF Inv, NeverTwice, Unexpired, Without
<1> QED
  BY <1>2, <1>3, <1>4, <1>5 DEF Inv

LEMMA InvPark ==
  ASSUME BuildsTypeOK, Inv, NEW c \in Client, Park(c)
  PROVE  Inv'
<1> DEFINE build == [id |-> parking[c].id, kind |-> parking[c].kind,
                     by |-> c, at |-> now, life |-> life]
<1>1. build \in OfferBuild /\ parking[c] # NotParking
  BY ParkType DEF Park
<1>2. \A b \in Builds : b.life = life => b.id # build.id
  BY <1>1 DEF Inv, MintedOnce
<1>3. /\ entries' \subseteq entries \cup {build} /\ handles' = handles \cup {build}
      /\ taken' = taken /\ life' = life /\ counter' = counter /\ now' = now
      /\ parking' = [parking EXCEPT ![c] = NotParking]
  BY DEF Park, Unexpired
<1>4. Builds' \subseteq Builds \cup {build}
  BY <1>3 DEF Builds
<1>5. /\ build.id < counter /\ build.life = life /\ build.id = parking[c].id
      /\ \A b \in Builds : b.life <= life /\ (b.life = life => b.id < counter)
      /\ life \in Nat
  BY <1>1 DEF Inv, MintedOnce, BuildsTypeOK
<1> HIDE DEF build
<1>6. \A d \in Client : parking'[d] # NotParking => d # c /\ parking'[d] = parking[d]
  BY <1>3 DEF BuildsTypeOK
<1>7. MintedOnce'
  <2>1. ASSUME NEW d \in Client, parking'[d] # NotParking
        PROVE  /\ parking'[d].id < counter'
               /\ \A e \in Client : parking'[e] # NotParking /\ parking'[e].id = parking'[d].id => d = e
               /\ \A b \in Builds' : b.life = life' => b.id # parking'[d].id
    <3>1. parking'[d] = parking[d] /\ d # c /\ parking[d] # NotParking
      BY <1>6, <2>1
    <3>2. parking[d].id # build.id
      BY <1>1, <1>5, <3>1 DEF Inv, MintedOnce
    <3>3. parking[d].id < counter /\ \A b \in Builds : b.life = life => b.id # parking[d].id
      BY <3>1 DEF Inv, MintedOnce
    <3>4. \A e \in Client : parking'[e] # NotParking /\ parking'[e].id = parking'[d].id => d = e
      BY <1>6, <3>1 DEF Inv, MintedOnce
    <3> QED
      BY <1>3, <1>4, <3>1, <3>2, <3>3, <3>4
  <2>2. \A b \in Builds' : b.life <= life' /\ (b.life = life' => b.id < counter')
    BY <1>3, <1>4, <1>5
  <2>3. \A b \in entries' : b.life = life'
    BY <1>3, <1>5 DEF Inv, MintedOnce
  <2> QED
    BY <2>1, <2>2, <2>3 DEF MintedOnce
<1>8. KeptApart'
  <2>1. \A b, d \in Builds' : b.id = d.id /\ b.life = d.life => b = d
    BY <1>2, <1>4, <1>5 DEF Inv, KeptApart, Builds
  <2> QED
    BY <2>1 DEF KeptApart, Builds
<1>9. FreshKept'
  <2>1. entries' = {b \in Unexpired(entries) : b.id # build.id} \cup {build}
    BY DEF Park, build
  <2>2. ASSUME NEW b \in handles, b.life = life, now < b.at + PendingTTL, b \notin taken
        PROVE  b \in entries'
    <3>1. b \in entries
      BY <2>2 DEF Inv, FreshKept
    <3>2. b.id # build.id
      BY <1>2, <2>2 DEF Builds
    <3> QED
      BY <2>1, <2>2, <3>1, <3>2 DEF Unexpired
  <2> QED
    BY <1>3, <2>1, <2>2 DEF FreshKept
<1>10. NeverTwice'
  <2>1. build \notin taken
    BY <1>2, <1>5 DEF Builds
  <2> QED
    BY <1>3, <2>1 DEF Inv, NeverTwice
<1> QED
  BY <1>7, <1>8, <1>9, <1>10 DEF Inv

LEMMA InvMint ==
  ASSUME BuildsTypeOK, Inv, NEW c \in Client, NEW kind \in OfferKind, Mint(c, kind)
  PROVE  Inv'
<1>1. /\ parking' = [parking EXCEPT ![c] = [id |-> counter, kind |-> kind]]
      /\ counter' = counter + 1 /\ Builds' = Builds
      /\ UNCHANGED <<entries, now, life, handles, taken>>
  BY DEF Mint, NextId, Builds
<1>2. counter \in Nat /\ Builds \subseteq OfferBuild
  BY DEF BuildsTypeOK, Builds
<1>3. MintedOnce'
  <2>1. ASSUME NEW d \in Client, parking'[d] # NotParking
        PROVE  /\ parking'[d].id < counter'
               /\ \A e \in Client : parking'[e] # NotParking /\ parking'[e].id = parking'[d].id => d = e
               /\ \A b \in Builds' : b.life = life' => b.id # parking'[d].id
    <3>1. CASE d = c
      <4>1. parking'[d].id = counter
        BY <1>1, <3>1 DEF BuildsTypeOK
      <4>2. \A e \in Client : e # c /\ parking'[e] # NotParking => parking'[e].id < counter
        BY <1>1 DEF Inv, MintedOnce, BuildsTypeOK
      <4>3. \A b \in Builds : b.life = life => b.id < counter
        BY DEF Inv, MintedOnce
      <4> QED
        BY <1>1, <1>2, <3>1, <4>1, <4>2, <4>3 DEF OfferBuild
    <3>2. CASE d # c
      <4>1. parking'[d] = parking[d] /\ parking[d] \in Minted
        BY <1>1, <2>1, <3>2 DEF BuildsTypeOK, Minted
      <4>2. parking[d].id < counter /\ parking[d].id \in Nat
        BY <2>1, <4>1 DEF Inv, MintedOnce, Minted
      <4>3. \A e \in Client : parking'[e] # NotParking /\ parking'[e].id = parking'[d].id => d = e
        BY <1>1, <1>2, <2>1, <3>2, <4>1, <4>2 DEF Inv, MintedOnce, BuildsTypeOK
      <4>4. \A b \in Builds : b.life = life => b.id # parking[d].id
        BY <2>1, <4>1 DEF Inv, MintedOnce
      <4> QED
        BY <1>1, <1>2, <4>1, <4>2, <4>3, <4>4
    <3> QED
      BY <3>1, <3>2
  <2>2. \A b \in Builds' : b.life <= life' /\ (b.life = life' => b.id < counter')
    BY <1>1, <1>2 DEF Inv, MintedOnce, OfferBuild
  <2>3. \A b \in entries' : b.life = life'
    BY <1>1 DEF Inv, MintedOnce
  <2> QED
    BY <2>1, <2>2, <2>3 DEF MintedOnce
<1>4. KeptApart' /\ FreshKept' /\ NeverTwice'
  BY <1>1 DEF Inv, KeptApart, FreshKept, NeverTwice
<1> QED
  BY <1>3, <1>4 DEF Inv

LEMMA InvStep == BuildsTypeOK /\ Inv /\ [BuildsNext]_buildVars => Inv'
<1> SUFFICES ASSUME BuildsTypeOK, Inv, [BuildsNext]_buildVars
             PROVE  Inv'
  OBVIOUS
<1>1. ASSUME NEW kind \in OfferKind, NEW id \in 0..MaxBuilds, Finish(kind, id) \/ Refuse(kind, id)
      PROVE  Inv'
  BY <1>1, InvSecondCall DEF Finish, Refuse
<1>2. CASE CountBuilds
  BY <1>2 DEF CountBuilds, Inv, MintedOnce, KeptApart, FreshKept, NeverTwice, Builds, Unexpired
<1>3. CASE Tick
  <2>1. \A b \in OfferBuild : now' < b.at + PendingTTL => now < b.at + PendingTTL
    BY <1>3, OfferAssumption DEF Tick, BuildsTypeOK, OfferBuild
  <2>2. FreshKept'
    BY <1>3, <2>1 DEF Tick, BuildsTypeOK, Inv, FreshKept
  <2> QED
    BY <1>3, <2>2 DEF Tick, Inv, MintedOnce, KeptApart, NeverTwice, Builds
<1>4. CASE Restart
  <2>1. \A b \in Builds : b.life <= life /\ b.life \in Nat
    BY DEF Inv, MintedOnce, BuildsTypeOK, Builds, OfferBuild
  <2>2. \A b \in Builds' : b \in Builds /\ b.life <= life' /\ b.life # life'
    BY <1>4, <2>1 DEF Restart, Builds, BuildsTypeOK
  <2>3. MintedOnce'
    BY <1>4, <2>2 DEF Restart, MintedOnce
  <2>4. FreshKept'
    BY <1>4, <2>2 DEF FreshKept, Builds
  <2> QED
    BY <1>4, <2>3, <2>4 DEF Restart, Inv, KeptApart, NeverTwice, Builds
<1>5. CASE UNCHANGED buildVars
  BY <1>5 DEF buildVars, Inv, MintedOnce, KeptApart, FreshKept, NeverTwice, Builds
<1> QED
  BY <1>1, <1>2, <1>3, <1>4, <1>5, InvPark, InvMint DEF BuildsNext

LEMMA InvCorrect == BuildsSpec => []Inv
BY InvInit, InvStep, TypeInit, TypeStep, PTL DEF BuildsSpec

(* While the process lives an id stands for one build, for any number of    *)
(* clients whose calls interleave.                                          *)
THEOREM IdsStandForOneBuild == BuildsSpec => []KeptApart
BY InvCorrect, PTL DEF Inv

(* A fresh build a client holds the id of is there until it is taken out. *)
THEOREM FreshBuildsAreKept == BuildsSpec => []FreshKept
BY InvCorrect, PTL DEF Inv

(* A build that was taken out is never there again. *)
THEOREM BuildsAreSingleUse == BuildsSpec => []NeverTwice
BY InvCorrect, PTL DEF Inv
-----------------------------------------------------------------------------
(* Nothing too old is left at an access, or handed out.                     *)

LEMMA AgeStep == BuildsTypeOK /\ Reclaimed /\ NeverLate /\ [BuildsNext]_buildVars => Reclaimed' /\ NeverLate'
<1> SUFFICES ASSUME BuildsTypeOK, Reclaimed, NeverLate, [BuildsNext]_buildVars
             PROVE  Reclaimed' /\ NeverLate'
  OBVIOUS
<1>1. ASSUME NEW c \in Client, Park(c)
      PROVE  Reclaimed' /\ NeverLate'
  <2> DEFINE build == [id |-> parking[c].id, kind |-> parking[c].kind,
                       by |-> c, at |-> now, life |-> life]
  <2>1. now < build.at + PendingTTL
    BY OfferAssumption DEF BuildsTypeOK
  <2>2. entries' \subseteq Unexpired(entries) \cup {build} /\ swept' = now /\ answer' = answer
    BY <1>1 DEF Park
  <2> HIDE DEF build
  <2> QED
    BY <2>1, <2>2 DEF Reclaimed, NeverLate, Unexpired
<1>2. ASSUME NEW kind \in OfferKind, NEW id \in 0..MaxBuilds, Finish(kind, id)
      PROVE  Reclaimed' /\ NeverLate'
  <2>1. PICK b \in Unexpired(entries) : b.kind = kind /\ answer' = Handed(kind, b, now)
    BY <1>2 DEF Finish
  <2>2. NeverLate'
    BY <2>1 DEF NeverLate, Handed, Unexpired
  <2> QED
    BY <1>2, <2>2 DEF Finish, SecondCall, Without, Reclaimed, Unexpired
<1>3. ASSUME NEW kind \in OfferKind, NEW id \in 0..MaxBuilds, Refuse(kind, id)
      PROVE  Reclaimed' /\ NeverLate'
  BY <1>3 DEF Refuse, SecondCall, Without, Reclaimed, NeverLate, Unexpired
<1>4. ASSUME NEW c \in Client, NEW kind \in OfferKind, Mint(c, kind)
      PROVE  Reclaimed' /\ NeverLate'
  BY <1>4 DEF Mint, Reclaimed, NeverLate
<1>5. CASE CountBuilds \/ Tick \/ Restart \/ UNCHANGED buildVars
  BY <1>5 DEF CountBuilds, Tick, Restart, buildVars, Reclaimed, NeverLate, Unexpired
<1> QED
  BY <1>1, <1>2, <1>3, <1>4, <1>5 DEF BuildsNext

LEMMA AgeCorrect == BuildsSpec => [](Reclaimed /\ NeverLate)
<1>1. BuildsInit => Reclaimed /\ NeverLate
  BY DEF BuildsInit, Reclaimed, NeverLate
<1> QED
  BY <1>1, AgeStep, TypeInit, TypeStep, PTL DEF BuildsSpec

(* No second call gets a build that was too old when it asked, or one of    *)
(* the other kind.                                                          *)
THEOREM NothingLate == BuildsSpec => []NeverLate
BY AgeCorrect, PTL

(* No access to the map leaves a build that was too old. *)
THEOREM AbandonedAreReclaimed == BuildsSpec => []Reclaimed
BY AgeCorrect, PTL
=============================================================================
