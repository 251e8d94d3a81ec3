------------------------- MODULE WalletRecords_proofs -------------------------
(***************************************************************************)
(* The two directions of the hint index hold the same relation, and it is  *)
(* what was announced: for any coins, hints, heights and answers of peers. *)
(***************************************************************************)
EXTENDS WalletRecords, Registries, TLAPS

(* What was told of a coin is what each direction holds, a bucket by hint  *)
(* is there only with a coin in it, and the running pass is over spends    *)
(* the peer may answer with.                                               *)
ToldTyped   == told \in [CoinId -> SUBSET Hint]
BornTyped   == DOMAIN born \subseteq CoinId
CoinsAgree  == \A c \in CoinId : At(byCoin, c) = told[c]
HintsAgree  == \A h \in Hint : At(byHint, h) = {c \in CoinId : h \in told[c]}
NoneEmpty   == \A h \in DOMAIN byHint : byHint[h] # {}
BatchTyped  == batch \in Seq(Answers)
RecordsInv  == ToldTyped /\ BornTyped /\ CoinsAgree /\ HintsAgree /\ NoneEmpty /\ BatchTyped

-----------------------------------------------------------------------------
(* What the operators of the index do, key by key.                         *)

LEMMA IndexedCoin ==
    ASSUME NEW idx, NEW entries, NEW c
    PROVE  At(Indexed(idx, entries).byCoin, c) = At(idx.byCoin, c) \cup HintsIn(entries, c)
<1> DEFINE new == Indexed(idx, entries)
<1>1. new.byCoin = [d \in DOMAIN idx.byCoin \cup {e.coin : e \in entries} |->
                       At(idx.byCoin, d) \cup HintsIn(entries, d)]
  BY DEF Indexed
<1>2. c \notin {e.coin : e \in entries} => HintsIn(entries, c) = {}
  BY DEF HintsIn
<1>3. At(new.byCoin, c) = At(idx.byCoin, c) \cup HintsIn(entries, c)
  <2> HIDE DEF new
  <2> QED BY <1>1, <1>2 DEF At
<1> QED BY <1>3

LEMMA IndexedHint ==
    ASSUME NEW idx, NEW entries, NEW h
    PROVE  At(Indexed(idx, entries).byHint, h) = At(idx.byHint, h) \cup CoinsIn(entries, h)
<1> DEFINE new == Indexed(idx, entries)
<1>1. new.byHint = [g \in DOMAIN idx.byHint \cup UNION {e.hints : e \in entries} |->
                       At(idx.byHint, g) \cup CoinsIn(entries, g)]
  BY DEF Indexed
<1>2. h \notin UNION {e.hints : e \in entries} => CoinsIn(entries, h) = {}
  BY DEF CoinsIn
<1>3. At(new.byHint, h) = At(idx.byHint, h) \cup CoinsIn(entries, h)
  <2> HIDE DEF new
  <2> QED BY <1>1, <1>2 DEF At
<1> QED BY <1>3

LEMMA IndexedNoneEmpty ==
    ASSUME NEW idx, NEW entries, \A g \in DOMAIN idx.byHint : idx.byHint[g] # {},
           NEW h \in DOMAIN Indexed(idx, entries).byHint
    PROVE  Indexed(idx, entries).byHint[h] # {}
<1>1. Indexed(idx, entries).byHint =
         [g \in DOMAIN idx.byHint \cup UNION {e.hints : e \in entries} |->
            At(idx.byHint, g) \cup CoinsIn(entries, g)]
  BY DEF Indexed
<1>2. CASE h \in DOMAIN idx.byHint
  BY <1>1, <1>2 DEF At
<1>3. CASE h \in UNION {e.hints : e \in entries}
  <2>1. PICK e \in entries : h \in e.hints
    BY <1>3
  <2>2. e.coin \in CoinsIn(entries, h)
    BY <2>1 DEF CoinsIn
  <2> QED BY <1>1, <1>3, <2>2
<1> QED BY <1>1, <1>2, <1>3

LEMMA ForgottenCoin ==
    ASSUME NEW idx, NEW coins, NEW c
    PROVE  At(Forgotten(idx, coins).byCoin, c) = IF c \in coins THEN {} ELSE At(idx.byCoin, c)
<1> DEFINE new == Forgotten(idx, coins)
<1>1. new.byCoin = [d \in DOMAIN idx.byCoin \ coins |-> idx.byCoin[d]]
  BY DEF Forgotten, Restrict
<1>2. At(new.byCoin, c) = IF c \in coins THEN {} ELSE At(idx.byCoin, c)
  <2> HIDE DEF new
  <2> QED BY <1>1 DEF At
<1> QED BY <1>2

(* The coins of a set that an index has under a hint.                      *)
Leaving(idx, coins, g) == {d \in coins : g \in At(idx.byCoin, d)}

LEMMA ForgottenHint ==
    ASSUME NEW idx, NEW coins, NEW h
    PROVE  At(Forgotten(idx, coins).byHint, h) = At(idx.byHint, h) \ Leaving(idx, coins, h)
<1> DEFINE emptied(g) == /\ Leaving(idx, coins, g) # {}
                         /\ idx.byHint[g] \subseteq Leaving(idx, coins, g)
           new == Forgotten(idx, coins)
<1>1. new.byHint = [k \in {g \in DOMAIN idx.byHint : ~emptied(g)} |->
                       idx.byHint[k] \ Leaving(idx, coins, k)]
  BY DEF Forgotten, Leaving
<1>2. At(new.byHint, h) = At(idx.byHint, h) \ Leaving(idx, coins, h)
  <2> HIDE DEF new
  <2> QED BY <1>1 DEF At
<1> QED BY <1>2

LEMMA ForgottenNoneEmpty ==
    ASSUME NEW idx, NEW coins, \A g \in DOMAIN idx.byHint : idx.byHint[g] # {},
           NEW h \in DOMAIN Forgotten(idx, coins).byHint
    PROVE  Forgotten(idx, coins).byHint[h] # {}
<1> DEFINE emptied(g) == /\ Leaving(idx, coins, g) # {}
                         /\ idx.byHint[g] \subseteq Leaving(idx, coins, g)
<1>1. Forgotten(idx, coins).byHint =
         [k \in {g \in DOMAIN idx.byHint : ~emptied(g)} |-> idx.byHint[k] \ Leaving(idx, coins, k)]
  BY DEF Forgotten, Leaving
<1> QED BY <1>1

-----------------------------------------------------------------------------
(* One step of the index: entries added, or coins forgotten.               *)

LEMMA IndexingKeeps ==
    ASSUME RecordsInv, NEW entries \in SUBSET Entry,
           SetIndex(Indexed(Index, entries)),
           told' = [c \in CoinId |-> told[c] \cup HintsIn(entries, c)]
    PROVE  ToldTyped' /\ CoinsAgree' /\ HintsAgree' /\ NoneEmpty'
<1>1. /\ byCoin' = Indexed(Index, entries).byCoin /\ byHint' = Indexed(Index, entries).byHint
      /\ Index.byCoin = byCoin /\ Index.byHint = byHint
  BY DEF SetIndex, Index
<1>2. \A c \in CoinId : HintsIn(entries, c) \subseteq Hint
  BY DEF HintsIn, Entry
<1>3. \A h \in Hint : CoinsIn(entries, h) = {c \in CoinId : h \in HintsIn(entries, c)}
  BY DEF CoinsIn, HintsIn, Entry
<1>4. ToldTyped'
  BY <1>2 DEF RecordsInv, ToldTyped
<1>5. CoinsAgree'
  <2> SUFFICES ASSUME NEW c \in CoinId
               PROVE  At(byCoin', c) = told'[c]
    BY DEF CoinsAgree
  <2>1. At(byCoin', c) = At(byCoin, c) \cup HintsIn(entries, c)
    BY <1>1, IndexedCoin
  <2> QED BY <2>1 DEF RecordsInv, CoinsAgree
<1>6. HintsAgree'
  <2> SUFFICES ASSUME NEW h \in Hint
               PROVE  At(byHint', h) = {c \in CoinId : h \in told'[c]}
    BY DEF HintsAgree
  <2>1. At(byHint', h) = At(byHint, h) \cup CoinsIn(entries, h)
    BY <1>1, IndexedHint
  <2>2. At(byHint, h) = {c \in CoinId : h \in told[c]}
    BY DEF RecordsInv, HintsAgree
  <2> QED BY <2>1, <2>2, <1>3
<1>7. NoneEmpty'
  <2> SUFFICES ASSUME NEW h \in DOMAIN byHint'
               PROVE  byHint'[h] # {}
    BY DEF NoneEmpty
  <2> QED BY <1>1, IndexedNoneEmpty DEF RecordsInv, NoneEmpty
<1> QED BY <1>4, <1>5, <1>6, <1>7

LEMMA ForgettingKeeps ==
    ASSUME RecordsInv, NEW gone \in SUBSET CoinId,
           SetIndex(Forgotten(Index, gone)),
           told' = [c \in CoinId |-> IF c \in gone THEN {} ELSE told[c]]
    PROVE  ToldTyped' /\ CoinsAgree' /\ HintsAgree' /\ NoneEmpty'
<1>1. /\ byCoin' = Forgotten(Index, gone).byCoin /\ byHint' = Forgotten(Index, gone).byHint
      /\ Index.byCoin = byCoin /\ Index.byHint = byHint
  BY DEF SetIndex, Index
<1>2. ToldTyped'
  BY DEF RecordsInv, ToldTyped
<1>3. CoinsAgree'
  <2> SUFFICES ASSUME NEW c \in CoinId
               PROVE  At(byCoin', c) = told'[c]
    BY DEF CoinsAgree
  <2>1. At(byCoin', c) = IF c \in gone THEN {} ELSE At(byCoin, c)
    BY <1>1, ForgottenCoin
  <2> QED BY <2>1 DEF RecordsInv, CoinsAgree
<1>4. HintsAgree'
  <2> SUFFICES ASSUME NEW h \in Hint
               PROVE  At(byHint', h) = {c \in CoinId : h \in told'[c]}
    BY DEF HintsAgree
  <2>1. At(byHint', h) = At(byHint, h) \ Leaving(Index, gone, h)
    BY <1>1, ForgottenHint
  <2>2. At(byHint, h) = {c \in CoinId : h \in told[c]}
    BY DEF RecordsInv, HintsAgree
  <2>3. \A c \in gone : At(byCoin, c) = told[c]
    BY DEF RecordsInv, CoinsAgree
  <2>4. Leaving(Index, gone, h) = {c \in gone : h \in told[c]}
    BY <1>1, <2>3 DEF Leaving
  <2> QED BY <2>1, <2>2, <2>4
<1>5. NoneEmpty'
  <2> SUFFICES ASSUME NEW h \in DOMAIN byHint'
               PROVE  byHint'[h] # {}
    BY DEF NoneEmpty
  <2> QED BY <1>1, ForgottenNoneEmpty DEF RecordsInv, NoneEmpty
<1> QED BY <1>2, <1>3, <1>4, <1>5

LEMMA IndexUntouched ==
    ASSUME RecordsInv, UNCHANGED <<byHint, byCoin, told>>
    PROVE  ToldTyped' /\ CoinsAgree' /\ HintsAgree' /\ NoneEmpty'
BY DEF RecordsInv, ToldTyped, CoinsAgree, HintsAgree, NoneEmpty, At

-----------------------------------------------------------------------------
LEMMA RecordsInvInit == RecordsInit => RecordsInv
<1> SUFFICES ASSUME RecordsInit
             PROVE  RecordsInv
  OBVIOUS
<1>1. ToldTyped /\ BornTyped
  BY DEF RecordsInit, ToldTyped, BornTyped, NoRecords
<1>2. CoinsAgree /\ HintsAgree /\ NoneEmpty
  BY DEF RecordsInit, CoinsAgree, HintsAgree, NoneEmpty, At, NoRecords
<1>3. BatchTyped
  BY DEF RecordsInit, BatchTyped
<1> QED BY <1>1, <1>2, <1>3 DEF RecordsInv

LEMMA RecordsInvStep == RecordsInv /\ [RecordsNext]_recordVars => RecordsInv'
<1> SUFFICES ASSUME RecordsInv, [RecordsNext]_recordVars
             PROVE  RecordsInv'
  OBVIOUS
<1>1. ASSUME NEW c \in CoinId, NEW h \in Heights, ApplyCoin(c, h)
      PROVE  RecordsInv'
  <2>1. BornTyped'
    BY <1>1 DEF ApplyCoin, With, RecordsInv, BornTyped
  <2>2. BatchTyped'
    BY <1>1 DEF ApplyCoin, RecordsInv, BatchTyped
  <2>3. ToldTyped' /\ CoinsAgree' /\ HintsAgree' /\ NoneEmpty'
    BY <1>1, IndexUntouched DEF ApplyCoin
  <2> QED BY <2>1, <2>2, <2>3 DEF RecordsInv
<1>2. ASSUME NEW c \in CoinId, NEW hints \in SUBSET Hint, IndexCoinHints(c, hints)
      PROVE  RecordsInv'
  <2> DEFINE entries == {[coin |-> c, hints |-> hints]}
  <2>1. entries \in SUBSET Entry
    BY DEF Entry
  <2>2. told' = [d \in CoinId |-> told[d] \cup HintsIn(entries, d)]
    <3>1. \A d \in CoinId : HintsIn(entries, d) = IF d = c THEN hints ELSE {}
      <4> TAKE d \in CoinId
      <4>1. {x \in entries : x.coin = d} = IF d = c THEN entries ELSE {}
        OBVIOUS
      <4>2. {e.hints : e \in entries} = {hints}
        OBVIOUS
      <4> QED BY <4>1, <4>2 DEF HintsIn
    <3>2. told' = [told EXCEPT ![c] = @ \cup hints] /\ told \in [CoinId -> SUBSET Hint]
      BY <1>2 DEF IndexCoinHints, RecordsInv, ToldTyped
    <3> HIDE DEF entries
    <3> QED BY <3>1, <3>2
  <2>3. ToldTyped' /\ CoinsAgree' /\ HintsAgree' /\ NoneEmpty'
    BY <1>2, <2>1, <2>2, IndexingKeeps DEF IndexCoinHints
  <2>4. BornTyped' /\ BatchTyped'
    BY <1>2 DEF IndexCoinHints, RecordsInv, BornTyped, BatchTyped
  <2> QED BY <2>3, <2>4 DEF RecordsInv
<1>3. ASSUME NEW fork \in Heights, RollbackRecords(fork)
      PROVE  RecordsInv'
  <2> DEFINE gone == {c \in DOMAIN born : born[c] > fork}
  <2>1. gone \in SUBSET CoinId
    BY DEF RecordsInv, BornTyped
  <2>2. ToldTyped' /\ CoinsAgree' /\ HintsAgree' /\ NoneEmpty'
    BY <1>3, <2>1, ForgettingKeeps DEF RollbackRecords
  <2>3. BornTyped' /\ BatchTyped'
    BY <1>3 DEF RollbackRecords, RecordsInv, BornTyped, BatchTyped
  <2> QED BY <2>2, <2>3 DEF RecordsInv
<1>4. ASSUME SyncSpends
      PROVE  RecordsInv'
  <2>1. BatchTyped'
    BY <1>4, BatchesAssumption DEF SyncSpends, BatchTyped
  <2>2. ToldTyped' /\ CoinsAgree' /\ HintsAgree' /\ NoneEmpty'
    BY <1>4, IndexUntouched DEF SyncSpends
  <2>3. BornTyped'
    BY <1>4 DEF SyncSpends, RecordsInv, BornTyped
  <2> QED BY <2>1, <2>2, <2>3 DEF RecordsInv
<1>5. ASSUME TakeSpend
      PROVE  RecordsInv'
  <2> DEFINE s == Head(batch)
  <2>1. batch \in Seq(Answers) /\ batch # <<>>
    BY <1>5 DEF TakeSpend, RecordsInv, BatchTyped
  <2>2. s \in Answers /\ Tail(batch) \in Seq(Answers)
    BY <2>1
  <2>3. BornTyped' /\ BatchTyped'
    BY <1>5, <2>2 DEF TakeSpend, RecordsInv, BornTyped, BatchTyped
  <2>4. CASE s.runs
    <3>1. ToSet(s.hinted) \in SUBSET Entry
      BY <2>2, <2>4, BatchesAssumption
    <3>2. /\ SetIndex(Indexed(Index, ToSet(s.hinted)))
          /\ told' = [c \in CoinId |-> told[c] \cup HintsIn(ToSet(s.hinted), c)]
      BY <1>5, <2>4 DEF TakeSpend
    <3>3. ToldTyped' /\ CoinsAgree' /\ HintsAgree' /\ NoneEmpty'
      BY <3>1, <3>2, IndexingKeeps
    <3> QED BY <2>3, <3>3 DEF RecordsInv
  <2>5. CASE ~s.runs
    <3>1. UNCHANGED <<byHint, byCoin, told>>
      BY <1>5, <2>5 DEF TakeSpend
    <3> QED BY <2>3, <3>1, IndexUntouched DEF RecordsInv
  <2> QED BY <2>4, <2>5
<1>6. ASSUME Absorb
      PROVE  RecordsInv'
  <2>1. UNCHANGED <<byHint, byCoin, told, born, batch>>
    BY <1>6 DEF Absorb
  <2> QED BY <2>1, IndexUntouched DEF RecordsInv, BornTyped, BatchTyped
<1>7. ASSUME UNCHANGED recordVars
      PROVE  RecordsInv'
  <2>1. UNCHANGED <<byHint, byCoin, told, born, batch>>
    BY <1>7 DEF recordVars
  <2> QED BY <2>1, IndexUntouched DEF RecordsInv, BornTyped, BatchTyped
<1> QED BY <1>1, <1>2, <1>3, <1>4, <1>5, <1>6, <1>7 DEF RecordsNext

LEMMA RecordsInvSuffices == RecordsInv => FoundAsAnnounced
<1> SUFFICES ASSUME RecordsInv
             PROVE  FoundAsAnnounced
  OBVIOUS
<1>1. \A h \in Hint : At(byHint, h) = {c \in CoinId : h \in told[c]}
  BY DEF RecordsInv, HintsAgree
<1>2. \A h \in Hint : Resolved(Hinted(h)) = {c \in DOMAIN born : h \in told[c]}
  BY <1>1 DEF Resolved, Hinted, RecordsInv, BornTyped
<1>3. ASSUME NEW g \in Hint, NEW h \in Hint
      PROVE  Resolved(HintedByAll(<<g, h>>)) = {c \in DOMAIN born : {g, h} \subseteq told[c]}
  <2>1. HintedByAll(<<g, h>>) =
          IF g \notin DOMAIN byHint \/ h \notin DOMAIN byHint THEN {}
          ELSE {c \in byHint[g] : c \in byHint[g] /\ c \in byHint[h]}
    <3>1. DOMAIN <<g, h>> = {1, 2} /\ <<g, h>>[1] = g /\ <<g, h>>[2] = h /\ <<g, h>> # <<>>
      OBVIOUS
    <3> QED BY <3>1, Zenon DEF HintedByAll
  <2>2. HintedByAll(<<g, h>>) = At(byHint, g) \cap At(byHint, h)
    BY <2>1 DEF At
  <2> QED BY <2>2, <1>1 DEF Resolved, RecordsInv, BornTyped
<1>4. ASSUME NEW g \in Hint, NEW h \in Hint
      PROVE  Resolved(HintedByAny(<<g, h>>)) = {c \in DOMAIN born : {g, h} \cap told[c] # {}}
  <2>1. HintedByAny(<<g, h>>) = At(byHint, g) \cup At(byHint, h)
    BY DEF HintedByAny
  <2>2. \A c \in DOMAIN born : c \in CoinId
    BY DEF RecordsInv, BornTyped
  <2> QED BY <2>1, <2>2, <1>1 DEF Resolved
<1>5. HintedByAll(<<>>) = {}
  BY DEF HintedByAll
<1>6. \A c \in CoinId : HintsFor(c) = told[c]
  BY DEF RecordsInv, CoinsAgree, HintsFor
<1>7. {} \notin Range(byHint)
  BY DEF RecordsInv, NoneEmpty, Range
<1> QED BY <1>2, <1>3, <1>4, <1>5, <1>6, <1>7 DEF FoundAsAnnounced

(* Whatever is synchronised, announced and rolled back, in whatever order, *)
(* every query by hint answers the coins of the store announced under it   *)
(* since the store last forgot them, and both directions agree.            *)
THEOREM HintsFindAnnounced == RecordsSpec => []FoundAsAnnounced
<1>1. RecordsSpec => []RecordsInv
  BY RecordsInvInit, RecordsInvStep, PTL DEF RecordsSpec
<1> QED BY <1>1, RecordsInvSuffices, PTL

-----------------------------------------------------------------------------
(***************************************************************************)
(* The NetworkBook of Registries, for any number of threads, peers and     *)
(* networks.                                                               *)
(***************************************************************************)

(* A call between two of its locks.                                        *)
Targeting(p) == [op |-> "target", peer |-> p]
Clearing     == <<"peers", "target">>
Untargeting  == <<"target">>
Call ==
    {NoCall} \cup {Targeting(p) : p \in Peer}
    \cup [op : {"set_network"}, network : Networks,
          left : {SetNetworkOrder, Clearing, Untargeting}]

Left(t, rest) == call[t].op = "set_network" /\ call[t].left = rest

(* The strengthening.  A peer of another network is listed only between    *)
(* the write of the network and the clearing of the peers; a target that   *)
(* is not listed is about to be reset, or overtaken; and a target_peer call  *)
(* whose peer is listed no more was overtaken.                             *)
CallsTyped    == call \in [Thread -> Call]
OfThisNetwork == \/ \A p \in peers : joined[p] = network
                 \/ \E t \in Thread : Left(t, Clearing)
TargetListed  == \/ target = NoPeer \/ Listed(target) \/ target \in overtaken
                 \/ \E t \in Thread : Left(t, Untargeting)
AimedListed   == \A t \in Thread, p \in Peer : call[t] = Targeting(p) => Listed(p) \/ p \in overtaken

BookInv ==
    /\ CallsTyped /\ peers \subseteq Peer /\ joined \in [Peer -> Networks] /\ network \in Networks
    /\ overtaken \subseteq Peer
    /\ OfThisNetwork /\ TargetListed /\ AimedListed

LEMMA OrdersDiffer ==
  /\ SetNetworkOrder # Clearing /\ SetNetworkOrder # Untargeting /\ Clearing # Untargeting
  /\ Head(SetNetworkOrder) = "network" /\ Tail(SetNetworkOrder) = Clearing
  /\ Head(Clearing) = "peers" /\ Tail(Clearing) = Untargeting /\ Head(Untargeting) = "target"
  /\ Len(SetNetworkOrder) = 3 /\ Len(Clearing) = 2 /\ Len(Untargeting) = 1
BY DEF SetNetworkOrder, Clearing, Untargeting

LEMMA FreeIsNoSetter == ASSUME NEW t \in Thread, Free(t), NEW rest PROVE ~Left(t, rest)
BY DEF Free, NoCall, Left

LEMMA BookInvInit == BookInit => BookInv
<1> SUFFICES ASSUME BookInit
             PROVE  BookInv
  OBVIOUS
<1>1. CallsTyped
  BY DEF BookInit, CallsTyped, Call
<1>2. OfThisNetwork /\ TargetListed
  BY DEF BookInit, OfThisNetwork, TargetListed
<1>3. AimedListed
  BY DEF BookInit, AimedListed, NoCall, Targeting
<1> QED
  BY <1>1, <1>2, <1>3 DEF BookInit, BookInv

LEMMA BookInvStep == BookInv /\ [BookNext]_bookVars => BookInv'
<1> SUFFICES ASSUME BookInv, [BookNext]_bookVars
             PROVE  BookInv'
  OBVIOUS
<1> USE DEF BookInv
<1>1. ASSUME NEW t \in Thread, NEW p \in Peer, AddPeer(t, p)
      PROVE  BookInv'
  BY <1>1 DEF AddPeer, Listed, CallsTyped, OfThisNetwork, TargetListed, AimedListed, Left
<1>2. ASSUME NEW t \in Thread, NEW p \in Peer, RemovePeer(t, p)
      PROVE  BookInv'
  <2>1. TargetListed'
    BY <1>2 DEF RemovePeer, Listed, TargetListed, Left
  <2>2. AimedListed'
    BY <1>2 DEF RemovePeer, Listed, AimedListed, Aiming, Overtaken, Targeting
  <2> QED
    BY <1>2, <2>1, <2>2 DEF RemovePeer, Overtaken, CallsTyped, OfThisNetwork, Left
<1>3. ASSUME NEW t \in Thread, NEW p \in Peer, LookUpTarget(t, p)
      PROVE  BookInv'
  <2>1. call' = [call EXCEPT ![t] = Targeting(p)]
    BY <1>3 DEF LookUpTarget, Goes, Targeting
  <2>2. \A u \in Thread, rest \in {Clearing, Untargeting} : Left(u, rest) => Left(u, rest)'
    BY <1>3, <2>1, FreeIsNoSetter DEF LookUpTarget, Left, CallsTyped
  <2>3. AimedListed'
    BY <1>3, <2>1 DEF LookUpTarget, Listed, AimedListed, Targeting, CallsTyped
  <2> QED
    BY <1>3, <2>1, <2>2, <2>3
    DEF LookUpTarget, Listed, CallsTyped, Call, OfThisNetwork, TargetListed
<1>4. ASSUME NEW t \in Thread, WriteTarget(t)
      PROVE  BookInv'
  <2>1. PICK p \in Peer : call[t] = Targeting(p)
    BY <1>4 DEF WriteTarget, CallsTyped, Call, NoCall
  <2>2. call' = [call EXCEPT ![t] = NoCall] /\ target' = p
    BY <1>4, <2>1 DEF WriteTarget, Ends, Targeting
  <2>3. \A u \in Thread, rest \in {Clearing, Untargeting} : Left(u, rest) => Left(u, rest)'
    BY <1>4, <2>2 DEF WriteTarget, Left, CallsTyped
  <2>4. TargetListed'
    BY <1>4, <2>1, <2>2 DEF WriteTarget, TargetListed, AimedListed, Listed
  <2>5. AimedListed'
    BY <1>4, <2>2 DEF WriteTarget, AimedListed, Listed, CallsTyped, NoCall, Targeting
  <2> QED
    BY <1>4, <2>2, <2>3, <2>4, <2>5 DEF WriteTarget, CallsTyped, Call, OfThisNetwork
<1>5. ASSUME NEW t \in Thread, NEW n \in Networks, SetNetwork(t, n)
      PROVE  BookInv'
  <2>1. call' = [call EXCEPT ![t] = [op |-> "set_network", network |-> n, left |-> SetNetworkOrder]]
    BY <1>5 DEF SetNetwork, Goes
  <2>2. \A u \in Thread, rest \in {Clearing, Untargeting} : Left(u, rest) => Left(u, rest)'
    BY <1>5, <2>1, FreeIsNoSetter DEF SetNetwork, Left, CallsTyped
  <2>3. CallsTyped'
    BY <2>1 DEF CallsTyped, Call
  <2>4. AimedListed'
    BY <1>5, <2>1 DEF SetNetwork, AimedListed, Listed, CallsTyped, Targeting
  <2> QED
    BY <1>5, <2>2, <2>3, <2>4 DEF SetNetwork, Listed, OfThisNetwork, TargetListed
<1>6. ASSUME NEW t \in Thread, WriteField(t)
      PROVE  BookInv'
  <2>1. /\ call[t] \in [op : {"set_network"}, network : Networks,
                        left : {SetNetworkOrder, Clearing, Untargeting}]
        /\ call[t].op = "set_network"
    BY <1>6 DEF WriteField, CallsTyped, Call, NoCall, Targeting
  <2>2. CASE call[t].left = SetNetworkOrder
    <3>0. Head(call[t].left) = "network" /\ Tail(call[t].left) = Clearing /\ Len(call[t].left) # 1
      BY <2>2, OrdersDiffer
    <3>1. /\ network' = call[t].network /\ UNCHANGED <<peers, target, joined, overtaken>>
          /\ call' = [call EXCEPT ![t] = [call[t] EXCEPT !.left = Clearing]]
      BY <1>6, <3>0 DEF WriteField, Goes
    <3>2. Left(t, Clearing)' /\ CallsTyped'
      BY <2>1, <3>1 DEF Left, CallsTyped, Call
    <3>3. \A u \in Thread : Left(u, Untargeting) => Left(u, Untargeting)'
      BY <2>1, <2>2, <3>1, OrdersDiffer DEF Left, CallsTyped
    <3>4. AimedListed'
      BY <2>1, <3>1 DEF AimedListed, Listed, CallsTyped, Targeting
    <3> QED
      BY <2>1, <3>1, <3>2, <3>3, <3>4 DEF OfThisNetwork, TargetListed, Listed
  <2>3. CASE call[t].left = Clearing
    <3>0. Head(call[t].left) = "peers" /\ Tail(call[t].left) = Untargeting /\ Len(call[t].left) # 1
      BY <2>3, OrdersDiffer
    <3>1. /\ peers' = {} /\ UNCHANGED <<network, target, joined>>
          /\ overtaken' = overtaken \cup Overtaken(peers)
          /\ call' = [call EXCEPT ![t] = [call[t] EXCEPT !.left = Untargeting]]
      BY <1>6, <3>0 DEF WriteField, Goes
    <3>2. Left(t, Untargeting)' /\ CallsTyped'
      BY <2>1, <3>1 DEF Left, CallsTyped, Call
    <3>3. AimedListed'
      BY <2>1, <3>1 DEF AimedListed, Listed, CallsTyped, Targeting, Aiming, Overtaken
    <3>4. (overtaken \subseteq Peer)'
      BY <3>1 DEF Overtaken
    <3> QED
      BY <3>1, <3>2, <3>3, <3>4 DEF OfThisNetwork, TargetListed
  <2>4. CASE call[t].left = Untargeting
    <3>0. Head(call[t].left) = "target" /\ Len(call[t].left) = 1
      BY <2>4, OrdersDiffer
    <3>1. /\ target' = NoPeer /\ UNCHANGED <<network, peers, joined, overtaken>>
          /\ call' = [call EXCEPT ![t] = NoCall]
      BY <1>6, <3>0 DEF WriteField, Ends
    <3>2. \A u \in Thread : Left(u, Clearing) => Left(u, Clearing)'
      BY <2>4, <3>1, OrdersDiffer DEF Left, CallsTyped
    <3>3. AimedListed'
      BY <3>1 DEF AimedListed, Listed, CallsTyped, NoCall, Targeting
    <3> QED
      BY <3>1, <3>2, <3>3 DEF CallsTyped, Call, OfThisNetwork, TargetListed
  <2> QED
    BY <2>1, <2>2, <2>3, <2>4
<1>7. ASSUME NEW t \in Thread, NEW b \in BOOLEAN, SetDeltaSync(t, b)
      PROVE  BookInv'
  BY <1>7 DEF SetDeltaSync, CallsTyped, OfThisNetwork, TargetListed, AimedListed, Left, Listed
<1>8. CASE UNCHANGED bookVars
  BY <1>8 DEF bookVars, CallsTyped, OfThisNetwork, TargetListed, AimedListed, Left, Listed
<1> QED
  BY <1>1, <1>2, <1>3, <1>4, <1>5, <1>6, <1>7, <1>8 DEF BookNext

LEMMA BookInvSuffices == BookInv => PeersOnNetwork /\ TargetKnownUnlessOvertaken
BY FreeIsNoSetter
DEF BookInv, PeersOnNetwork, TargetKnownUnlessOvertaken, Quiet, OfThisNetwork, TargetListed

LEMMA BookInvAlways == BookSpec => []BookInv
BY BookInvInit, BookInvStep, PTL DEF BookSpec

(* However many threads call the book at once: whenever none of them is    *)
(* inside a call, the listed peers are of the network in force             *)
(* (NetworkBook::set_network, add_peer, remove_peer).                      *)
THEOREM BookPeersOnNetwork == BookSpec => []PeersOnNetwork
BY BookInvAlways, BookInvSuffices, PTL

(* However many threads call the book at once, only one overlap leaves a   *)
(* target that is no peer: the removal of its peer between the two locks   *)
(* of target_peer.                                                         *)
THEOREM BookTargetKnown == BookSpec => []TargetKnownUnlessOvertaken
BY BookInvAlways, BookInvSuffices, PTL

(* With one thread nothing overtakes target_peer, so NetworkBook::target   *)
(* keeps its promise: it is a peer "still known".                          *)
THEOREM SoloTargetStillKnown ==
  ASSUME \A t, u \in Thread : t = u
  PROVE  BookSpec => []TargetStillKnown
<1> DEFINE Solo == BookInv /\ overtaken = {}
<1>1. BookInit => Solo
  BY BookInvInit DEF BookInit
<1>2. Solo /\ [BookNext]_bookVars => Solo'
  <2> SUFFICES ASSUME Solo, [BookNext]_bookVars
               PROVE  overtaken' = {}
    BY BookInvStep
  <2>1. \A t \in Thread, p \in Peer : Aiming(p) => call[t].op = "target"
    BY DEF Aiming
  <2>2. ASSUME NEW t \in Thread, NEW p \in Peer, RemovePeer(t, p)
        PROVE  overtaken' = {}
    <3>1. call[t].op # "target"
      BY <2>2 DEF RemovePeer, Free, NoCall
    <3>2. ~Aiming(p)
      BY <2>1, <3>1
    <3> QED
      BY <2>2, <3>2 DEF RemovePeer, Overtaken
  <2>3. ASSUME NEW t \in Thread, WriteField(t)
        PROVE  overtaken' = {}
    <3>1. call[t].op # "target"
      BY <2>3 DEF WriteField
    <3>2. \A p \in Peer : ~Aiming(p)
      BY <2>1, <3>1
    <3>3. Overtaken(peers) = {}
      BY <3>2 DEF Overtaken, BookInv
    <3> QED
      BY <2>3, <3>3 DEF WriteField
  <2> QED
    BY <2>2, <2>3 DEF BookNext, AddPeer, LookUpTarget, WriteTarget, SetNetwork, SetDeltaSync, bookVars
<1>3. Solo => TargetStillKnown
  BY FreeIsNoSetter DEF BookInv, TargetStillKnown, Quiet, TargetListed
<1> QED
  BY <1>1, <1>2, <1>3, PTL DEF BookSpec
=============================================================================
