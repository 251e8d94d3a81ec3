---------------------------- MODULE WalletRecords ----------------------------
(***************************************************************************)
(* What the in-memory store keeps of a wallet beside heights and peak: the *)
(* hint index (engine::hints), the asset tables (engine::state) and the    *)
(* pass over a batch of spends that fills both (sync_spends_from_peer,     *)
(* engine::singleton).  Every store call holds the one mutex, so each is a *)
(* step; a reorg may fall between any two of a pass.                       *)
(*                                                                         *)
(* A spend is [runs, hinted : sequence of [coin, hints], dids, nfts, cats, *)
(* bad].  runs says whether its puzzle runs at all, hinted what its        *)
(* CREATE_COINs announce (no memos: no hints), cats its CAT children as    *)
(* [asset, amount], bad the children that do not parse.                    *)
(***************************************************************************)
EXTENDS Naturals, Sequences, FiniteSets, SequencesExt, Functions

CONSTANTS
    CoinId, Hint,
    Heights,      \* the heights a coin may be created at
    Batches       \* what the peer may answer: sequences of spends

Answers  == UNION {ToSet(b) : b \in Batches}
Entry    == [coin : CoinId, hints : SUBSET Hint]
ASSUME BatchesAssumption ==
    /\ Batches \subseteq Seq(Answers)
    /\ \A s \in Answers : s.runs => ToSet(s.hinted) \subseteq Entry

VARIABLES
    born,         \* the coins of the store, with their created height
    byHint,       \* HintIndex::by_hint
    byCoin,       \* HintIndex::by_coin
    assets,       \* the dids, nfts and cats tables
    batch,        \* spends of the running pass not looked at yet
    writes,       \* what absorb has still to upsert
    outcome,      \* SpendSyncOutcome
    told          \* history: what was said of a coin since the store forgot it

recordVars == <<born, byHint, byCoin, assets, batch, writes, outcome, told>>

With(f, key, val) == [k \in DOMAIN f \cup {key} |-> IF k = key THEN val ELSE f[k]]
At(f, key)        == IF key \in DOMAIN f THEN f[key] ELSE {}

NoRecords == [k \in {} |-> 0]
NoOutcome == [spends |-> 0, hinted |-> 0, assets |-> 0, skipped |-> 0]

RecordsInit ==
    /\ born = NoRecords /\ byHint = NoRecords /\ byCoin = NoRecords
    /\ assets = [did |-> NoRecords, nft |-> NoRecords, cat |-> NoRecords]
    /\ batch = <<>> /\ writes = <<>> /\ outcome = NoOutcome
    /\ told = [c \in CoinId |-> {}]

-----------------------------------------------------------------------------
(* HintIndex.                                                              *)

(* index, for each of a set of entries [coin, hints]: the coin gets a set  *)
(* of hints even when none comes with it.                                  *)
HintsIn(entries, coin) == UNION {e.hints : e \in {x \in entries : x.coin = coin}}
CoinsIn(entries, hint) == {e.coin : e \in {x \in entries : hint \in x.hints}}
Indexed(idx, entries) ==
    [byCoin |-> [c \in DOMAIN idx.byCoin \cup {e.coin : e \in entries} |->
                   At(idx.byCoin, c) \cup HintsIn(entries, c)],
     byHint |-> [h \in DOMAIN idx.byHint \cup UNION {e.hints : e \in entries} |->
                   At(idx.byHint, h) \cup CoinsIn(entries, h)]]

(* Mutant: only one direction forgets the coins.                           *)
Forgotten_OneWay(idx, coins) ==
    [idx EXCEPT !.byCoin = Restrict(@, DOMAIN @ \ coins)]

(* forget, for each of a set of coins: an emptied bucket is dropped.       *)
Forgotten(idx, coins) ==
    LET leaving(h) == {c \in coins : h \in At(idx.byCoin, c)}
        emptied(h) == leaving(h) # {} /\ idx.byHint[h] \subseteq leaving(h)
    IN  [byCoin |-> Restrict(idx.byCoin, DOMAIN idx.byCoin \ coins),
         byHint |-> [h \in {g \in DOMAIN idx.byHint : ~emptied(g)} |->
                       idx.byHint[h] \ leaving(h)]]

Hinted(h)         == At(byHint, h)
HintedByAny(list) == UNION {At(byHint, list[i]) : i \in DOMAIN list}
HintedByAll(list) ==
    IF list = <<>> \/ \E i \in DOMAIN list : list[i] \notin DOMAIN byHint THEN {}
    ELSE {c \in byHint[list[1]] : \A i \in DOMAIN list : c \in byHint[list[i]]}
HintsFor(coin)    == At(byCoin, coin)

(* resolve: an id the store holds no record of is passed over.             *)
Resolved(ids) == ids \cap DOMAIN born

-----------------------------------------------------------------------------
(* The store's calls.                                                      *)

Index == [byCoin |-> byCoin, byHint |-> byHint]
SetIndex(idx) == byCoin' = idx.byCoin /\ byHint' = idx.byHint

ApplyCoin(coin, height) ==
    /\ born' = With(born, coin, height)
    /\ UNCHANGED <<byHint, byCoin, assets, batch, writes, outcome, told>>

IndexCoinHints(coin, hints) ==
    /\ SetIndex(Indexed(Index, {[coin |-> coin, hints |-> hints]}))
    /\ told' = [told EXCEPT ![coin] = @ \cup hints]
    /\ UNCHANGED <<born, assets, batch, writes, outcome>>

(* rollback_to: the coins created after the fork leave the index with the  *)
(* store; the asset tables stay as they are.                               *)
RollbackRecords(fork) ==
    LET gone == {c \in DOMAIN born : born[c] > fork}
    IN  /\ born' = [c \in DOMAIN born \ gone |-> born[c]]
        /\ SetIndex(Forgotten(Index, gone))
        /\ told' = [c \in CoinId |-> IF c \in gone THEN {} ELSE told[c]]
        /\ UNCHANGED <<assets, batch, writes, outcome>>

-----------------------------------------------------------------------------
(* The pass.                                                               *)

Passing == batch # <<>> \/ writes # <<>>

SyncSpends ==
    /\ ~Passing
    /\ \E b \in Batches : batch' = b /\ outcome' = [NoOutcome EXCEPT !.spends = Len(b)]
    /\ UNCHANGED <<born, byHint, byCoin, assets, writes, told>>

(* hydrate_cats: one line per asset, the amounts of its children summed.   *)
CatLines(cats) ==
    LET sum(a) == FoldSeq(LAMBDA c, n : IF c.asset = a THEN c.amount + n ELSE n, 0, cats)
        lines  == {a \in {cats[i].asset : i \in DOMAIN cats} : TRUE}
    IN  SetToSeq({<<"cat", a, sum(a)>> : a \in lines})

(* reconstruct_from_parent_spend, absorb: DIDs, then NFTs, then CATs.      *)
Hydrated(spend) ==
    [i \in DOMAIN spend.dids |-> <<"did", spend.dids[i], 0>>]
    \o [i \in DOMAIN spend.nfts |-> <<"nft", spend.nfts[i].launcher, spend.nfts[i].uri>>]
    \o CatLines(spend.cats)

(* index_hints_from_spend and the hydration that follows it.               *)
TakeSpend ==
    /\ writes = <<>> /\ batch # <<>>
    /\ LET s == Head(batch)
       IN  IF s.runs
           THEN /\ SetIndex(Indexed(Index, ToSet(s.hinted)))
                /\ told' = [c \in CoinId |-> told[c] \cup HintsIn(ToSet(s.hinted), c)]
                /\ writes' = Hydrated(s)
                /\ outcome' = [outcome EXCEPT !.hinted = @ + Len(s.hinted), !.skipped = @ + s.bad,
                                              !.assets = @ + Len(Hydrated(s))]
           ELSE /\ outcome' = [outcome EXCEPT !.skipped = @ + 2]
                /\ UNCHANGED <<byHint, byCoin, told, writes>>
    /\ batch' = Tail(batch)
    /\ UNCHANGED <<born, assets>>

(* upsert_did, upsert_nft, upsert_cat: the later record stands.            *)
Absorb ==
    /\ writes # <<>>
    /\ LET w == Head(writes) IN assets' = [assets EXCEPT ![w[1]] = With(@, w[2], w[3])]
    /\ writes' = Tail(writes)
    /\ UNCHANGED <<born, byHint, byCoin, batch, outcome, told>>

RecordsNext ==
    \/ \E c \in CoinId, h \in Heights : ApplyCoin(c, h)
    \/ \E c \in CoinId, hints \in SUBSET Hint : IndexCoinHints(c, hints)
    \/ \E fork \in Heights : RollbackRecords(fork)
    \/ SyncSpends \/ TakeSpend \/ Absorb

RecordsSpec == RecordsInit /\ [][RecordsNext]_recordVars

RecordsTypeOK ==
    /\ DOMAIN born \subseteq CoinId /\ Range(born) \subseteq Heights
    /\ DOMAIN byHint \subseteq Hint /\ Range(byHint) \subseteq SUBSET CoinId
    /\ DOMAIN byCoin \subseteq CoinId /\ Range(byCoin) \subseteq SUBSET Hint
    /\ outcome \in [spends : Nat, hinted : Nat, assets : Nat, skipped : Nat]
    /\ told \in [CoinId -> SUBSET Hint]

-----------------------------------------------------------------------------
(* A query by hint answers the coins of the store that were announced      *)
(* under it since the store last forgot them, all of them, whichever of    *)
(* the two directions of the index it reads: a reorg between two steps of  *)
(* a pass leaves no trace of a coin it takes back (HintIndex::forget), and *)
(* a query for no hint at all finds nothing.                               *)
FoundAsAnnounced ==
    /\ \A h \in Hint : Resolved(Hinted(h)) = {c \in DOMAIN born : h \in told[c]}
    /\ \A g, h \in Hint :
          /\ Resolved(HintedByAll(<<g, h>>)) = {c \in DOMAIN born : {g, h} \subseteq told[c]}
          /\ Resolved(HintedByAny(<<g, h>>)) = {c \in DOMAIN born : {g, h} \cap told[c] # {}}
    /\ HintedByAll(<<>>) = {}
    /\ \A c \in CoinId : HintsFor(c) = told[c]
    /\ {} \notin Range(byHint)
=============================================================================
