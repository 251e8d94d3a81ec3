----------------------------- MODULE SpendGate -----------------------------
(***************************************************************************)
(* The gate between an unsigned spend and a signature (client::signer and  *)
(* client::verify): verify::analyze accounts the coin spends one by one    *)
(* into a ledger, its epilogue judges the bundle as a whole, the outcome   *)
(* is shown for consent (decode_verified), and sign_unsigned accounts all  *)
(* of it again, compares it with the summary the engine claims, derives    *)
(* the required signatures and signs.  One action per account_* handler.   *)
(***************************************************************************)
EXTENDS Spends

CONSTANTS
    SignerKeys,      \* the keys LocalSigner derives within its address gap
    SignerNetwork,   \* the network its AGG_SIG_ME additional data names
    Assets           \* the CAT asset ids

ASSUME AssetsAssumption == XCH \notin Assets

VARIABLES
    unsigned,   \* the UnsignedSpend under consideration
    phase,      \* where the calls on it stand
    pos,        \* the coin spend analyze looks at next
    ledger,     \* SpendLedger
    shown       \* the summary on the screen, and is it an ownership-verified one

gateVars == <<unsigned, phase, pos, ledger, shown>>

Nothing == [spends |-> <<>>, outputs |-> <<>>, fee |-> 0, melted |-> <<>>,
            nfts |-> <<>>, required |-> <<>>]
Unseen  == [outputs |-> <<>>, fee |-> 0, melted |-> <<>>, nfts |-> <<>>, verified |-> FALSE]

(* TransactionSummary marks a protocol sink by an empty address.           *)
NoAddress == <<"none", 0>>
Output(ph, amount, asset) == [ph |-> ph, amount |-> amount, asset |-> asset]

EmptyLedger ==
    [outputs |-> <<>>, sinks |-> <<>>, fee |-> 0, melted |-> 0, melts |-> <<>>,
     in  |-> [a \in Assets \cup {XCH} |-> 0],
     out |-> [a \in Assets \cup {XCH} |-> 0],
     nfts |-> <<>>, launches |-> {}, eveParents |-> {}, asserted |-> {}, bindings |-> {}]

Working == {"reviewing", "displaying", "signing"}
Spend   == unsigned.spends[pos]

-----------------------------------------------------------------------------
(* What the handlers ask of a spend.                                       *)

Sigs(conds)     == Where(conds, LAMBDA c : c.op = "agg_sig_me")
Only(ops, conds) == \A i \in DOMAIN conds : conds[i].op \in ops

(* QuotedConditions::prove: no solution can change the conditions.         *)
Quoted(s) == s.quote

(* sole_agg_sig_me_message, enforce_sole_agg_sig_me                        *)
SoleSig(conds) == Len(Sigs(conds)) = 1
SoleSigIs(conds, message) == SoleSig(conds) /\ Sigs(conds)[1].message = message

(* committed_standard_spend: the one signature commits to a quote.         *)
Committed(s, conds) == Quoted(s) /\ SoleSigIs(conds, Message(s))

(* find_subtree_by_tree_hash, committed_melt_conditions: under layers it   *)
(* does not know the signed quote is looked for in the solution.           *)
InSolution(s, message) == message = Message(s)
MeltCommitted(s) ==
    SoleSig(Run(s)) /\ InSolution(s, Sigs(Run(s))[1].message) /\ Quoted(s)

(* is_non_me_agg_sig, reject_unexpected_agg_sig, reject_any_agg_sig        *)
NonMeSig(c)         == c.op = "agg_sig_other"
NoForeignSig(conds) == \A i \in DOMAIN conds : ~NonMeSig(conds[i])
NoSig(conds)        == NoForeignSig(conds) /\ Sigs(conds) = <<>>

Benign == {"assert_coin_ann", "assert_puzzle_ann", "concurrent_spend",
           "concurrent_puzzle", "assert_self"}
TransferOps   == Benign \cup {"create_coin", "agg_sig_me"}
MeltOps(list) == Benign \cup {"melt_singleton"}
                        \cup (IF list = "presented" THEN {"agg_sig_me"} ELSE {})
RehomeOps(class) == Benign \cup {"create_coin"}
                           \cup (IF class = "nft" THEN {"agg_sig_me"} ELSE {})
                           \cup (IF class = "launcher" THEN {"create_coin_ann"} ELSE {})

OneOdd(conds) == Len(Creates(conds)) = 1 /\ Creates(conds)[1].amount % 2 = 1

(* inner_rehome_destination: who gets the singleton, if it is one the      *)
(* quoted conditions may name.                                             *)
Rehomes(s) == Quoted(s) /\ OneOdd(s.conds) /\ ~IsProtocolSink(Creates(s.conds)[1].ph)
Destination(s) == Creates(s.conds)[1].ph
NftOperation(act, s) == <<act, s.launcher, Destination(s)>>

-----------------------------------------------------------------------------
(* The ledger.                                                             *)

Enters(l, asset, amount) == [l EXCEPT !.in[asset] = @ + amount]

(* route_output: a protocol sink or an ordinary output.                    *)
Routed(l, made) ==
    [l EXCEPT !.outputs = @ \o Where(made, LAMBDA o : ~IsProtocolSink(o.ph)),
              !.sinks   = @ \o Where(made, LAMBDA o : IsProtocolSink(o.ph))]

(* What every handler does for each CREATE_COIN.                           *)
Leaves(l, asset, conds) ==
    LET made == [i \in DOMAIN Creates(conds) |->
                   Output(Creates(conds)[i].ph, Creates(conds)[i].amount, asset)]
    IN  [Routed(l, made) EXCEPT !.out[asset] = @ + Paid(conds)]

ReservesFee(l, conds) == [l EXCEPT !.fee = @ + Reserved(conds)]

(* has_offer_binding_assertion, coin_binding                               *)
AssertsAnnouncement(conds) ==
    \E c \in ToSet(conds) : c.op \in {"assert_coin_ann", "assert_puzzle_ann"}
Binding(s, conds) ==
    [coin |-> s.coin, ph |-> PuzzleHashOf(s.coin),
     sink     |-> \E c \in ToSet(conds) : c.op = "create_coin" /\ IsProtocolSink(c.ph),
     announce |-> AssertsAnnouncement(conds),
     coins |-> {c.coin : c \in {d \in ToSet(conds) : d.op = "concurrent_spend"}},
     phs   |-> {c.ph   : c \in {d \in ToSet(conds) : d.op = "concurrent_puzzle"}}]
Binds(l, s, conds) == [l EXCEPT !.bindings = @ \cup {Binding(s, conds)}]

Asserts(l, conds) ==
    [l EXCEPT !.asserted = @ \cup
        {<<c.coin, c.what>> : c \in {d \in ToSet(conds) : d.op = "assert_coin_ann"}}]

(* accumulate: every total stays a u64, or the spend is refused.           *)
Representable(l) ==
    /\ \A a \in DOMAIN l.in : l.in[a] <= Max64 /\ l.out[a] <= Max64
    /\ l.fee <= Max64 /\ l.melted <= Max64

-----------------------------------------------------------------------------
(* The epilogue of analyze.                                                *)

(* enforce_bundle_nft_mint_binding                                         *)
MintsBound(l, spends) ==
    LET spent == {spends[i].coin : i \in DOMAIN spends}
    IN  /\ l.launches # {} => \E i \in DOMAIN l.sinks : l.sinks[i].ph = SingletonLauncher
        /\ \A x \in l.launches : ParentOf(x.coin) \in spent
        /\ l.eveParents = {x.coin : x \in l.launches}
        /\ \A x \in l.launches : \E w \in x.announced : <<x.coin, w>> \in l.asserted

(* tied_to_announcement: what following the concurrency ring from the      *)
(* bindings in tied comes to, step by step.                                *)
CoSpent(b, all) == {c \in all : c.coin \in b.coins \/ c.ph \in b.phs}
Reached(b, all) ==
    LET step[n \in 0..Cardinality(all)] ==
            IF n = 0 THEN {b}
            ELSE step[n - 1] \cup UNION {CoSpent(c, all) : c \in step[n - 1]}
    IN  step[Cardinality(all)]

(* Mutant: one announcement anywhere in the bundle is enough.              *)
SinksBound_Anywhere(l) ==
    (\E b \in l.bindings : b.sink) => \E b \in l.bindings : b.announce

(* Mutant: every coin that pays a settlement must announce by itself.      *)
SinksBound_PerCoin(l) == \A b \in l.bindings : b.sink => b.announce

(* enforce_bundle_settlement_binding                                       *)
SinksBound(l) ==
    \A b \in l.bindings : b.sink => \E c \in Reached(b, l.bindings) : c.announce

(* is_option_bundle                                                        *)
OptionMode(spends) == \E i \in DOMAIN spends : spends[i].kind \in {"option", "one_of_many"}

(* Mutant: CATs are not balanced.                                          *)
Conserved_XchOnly(l, spends) ==
    IF OptionMode(spends) THEN l.melted = 0 /\ l.in[XCH] >= l.out[XCH]
    ELSE l.in[XCH] = l.out[XCH] + l.fee + l.melted

Conserved(l, spends) ==
    /\ IF OptionMode(spends)
       THEN l.melted = 0 /\ l.in[XCH] >= l.out[XCH]
       ELSE /\ l.out[XCH] + l.fee + l.melted <= Max64
            /\ l.in[XCH] = l.out[XCH] + l.fee + l.melted
    /\ \A a \in Assets : l.in[a] = l.out[a]

Judged(l, spends) == MintsBound(l, spends) /\ SinksBound(l) /\ Conserved(l, spends)

EffectiveFee(l, spends) ==
    IF OptionMode(spends) THEN l.in[XCH] - l.out[XCH] ELSE l.fee + l.melted

(* summarize_egress: a sink of amount 0 only carries an announcement.      *)
Summarized(outputs, l, spends) ==
    [outputs |-> outputs
                 \o LET paid == Where(l.sinks, LAMBDA o : o.amount > 0)
                    IN  [i \in DOMAIN paid |-> Output(NoAddress, paid[i].amount, paid[i].asset)],
     fee |-> EffectiveFee(l, spends), melted |-> l.melts, nfts |-> l.nfts]

(* find_key, owns_puzzle_hash, reclassify_by_ownership: what the signer    *)
(* has a key for does not leave.                                           *)
HoldsKey(k) == k \in SignerKeys
Owned(ph)   == \E k \in SignerKeys : ph = P2(k)
Recipients(outputs) == Where(outputs, LAMBDA o : ~Owned(o.ph))

(* reviewable_summary                                                      *)
Egress(l, spends) == Summarized(Recipients(l.outputs), l, spends)

(* derive_summary: without a key every output counts as leaving.           *)
KeyFree(l, spends) == Summarized(l.outputs, l, spends)

(* render: the screen, and whether ownership was verified for it.          *)
Rendered(summary, verified) ==
    [outputs |-> summary.outputs, fee |-> summary.fee, melted |-> summary.melted,
     nfts |-> summary.nfts, verified |-> verified]

(* Mutant: the outputs are compared as sets.                               *)
MatchesClaim_AsSets(e, u) ==
    /\ e.fee = u.fee /\ SameBag(e.melted, u.melted) /\ SameBag(e.nfts, u.nfts)
    /\ ToSet(e.outputs) = ToSet(u.outputs)

(* assert_reviewed_summary_matches                                         *)
MatchesClaim(e, u) ==
    /\ e.fee = u.fee
    /\ SameBag(e.melted, u.melted)
    /\ SameBag(e.nfts, u.nfts)
    /\ SameBag(e.outputs, u.outputs)

(* required_signatures_from: every AGG_SIG condition consensus will see,   *)
(* none of them of another kind than AGG_SIG_ME.                           *)
Authoritative(spends) ==
    FlattenSeq([i \in DOMAIN spends |->
        LET sigs == Sigs(Run(spends[i]))
        IN  [j \in DOMAIN sigs |-> [key |-> sigs[j].key, message |-> sigs[j].message,
                                    coin |-> spends[i].coin, network |-> SignerNetwork]]])
Extractable(spends) == \A i \in DOMAIN spends : NoForeignSig(Run(spends[i]))

(* assert_required_signatures_match                                        *)
RequiredMatch(u) == SameBag(u.required, Authoritative(u.spends))

(* produce_signatures                                                      *)
Producible(required) == \A i \in DOMAIN required : HoldsKey(required[i].key)

Signable(u) ==
    Extractable(u.spends) /\ RequiredMatch(u) /\ Producible(Authoritative(u.spends))

-----------------------------------------------------------------------------
(* account_coin: the class of the spend, and what its handler demands.     *)

IsCatClaim(s) == s.kind = "cat" /\ s.inner = "settlement" /\ NoSig(InnerRun(s))
IsCatSend(s)  == /\ s.kind = "cat" /\ s.inner = "standard"
                 /\ Committed(s, InnerRun(s)) /\ NoForeignSig(InnerRun(s))
IsOptionTransfer(s) ==
    LET conds == InnerRun(s)
    IN  /\ s.kind = "option" /\ s.inner = "standard"
        /\ Committed(s, conds) /\ NoForeignSig(conds)
        /\ Only(TransferOps, conds)
        /\ OneOdd(conds) /\ ~IsProtocolSink(Creates(conds)[1].ph)
IsLaunch(s) ==
    /\ s.kind = "launcher" /\ NoSig(s.conds)
    /\ Only(RehomeOps("launcher"), s.conds) /\ OneOdd(s.conds)
IsNftTransfer(s) ==
    /\ s.kind = "nft" /\ ~s.eve /\ s.inner = "standard"
    /\ NoForeignSig(s.conds) /\ Only(RehomeOps("nft_signed"), s.conds) /\ Rehomes(s)
    /\ Committed(s, Run(s)) /\ NoForeignSig(Run(s))
    /\ Only(RehomeOps("nft"), Run(s)) /\ OneOdd(Run(s))
IsNftEveMint(s) ==
    /\ s.kind = "nft" /\ s.eve
    /\ NoSig(s.conds) /\ Only(RehomeOps("nft_eve"), s.conds) /\ Rehomes(s)
    /\ NoSig(Run(s)) /\ Only(RehomeOps("nft_eve"), Run(s)) /\ OneOdd(Run(s))
IsMelt(s) ==
    /\ s.kind = "singleton"
    /\ NoForeignSig(Run(s)) /\ Only(MeltOps("presented"), Run(s))
    /\ MeltCommitted(s)
    /\ Only(MeltOps("signed"), s.conds)
    /\ Cardinality({i \in DOMAIN s.conds : s.conds[i].op = "melt_singleton"}) = 1
IsStandardSend(s) ==
    /\ s.kind = "standard"
    /\ Committed(s, InnerRun(s)) /\ NoForeignSig(InnerRun(s))
IsSettlementClaim(s) == s.kind = "settlement" /\ NoSig(s.conds)

Admissible(s) ==
    /\ s.genuine
    /\ \/ IsCatClaim(s) \/ IsCatSend(s) \/ IsOptionTransfer(s) \/ IsLaunch(s)
       \/ IsNftTransfer(s) \/ IsNftEveMint(s) \/ IsMelt(s)
       \/ IsStandardSend(s) \/ IsSettlementClaim(s)

-----------------------------------------------------------------------------
(* Every handler accounts the spend at pos or, when a total overflows,     *)
(* refuses the bundle.                                                     *)

Start(p) == phase' = p /\ pos' = 1 /\ ledger' = EmptyLedger

(* decode shows the engine's claim when the spend cannot be analysed, the  *)
(* other two return the error.                                             *)
Refused ==
    /\ UNCHANGED unsigned
    /\ \/ phase = "displaying" /\ Start("shown") /\ shown' = Rendered(unsigned, FALSE)
       \/ phase # "displaying" /\ Start("refused") /\ UNCHANGED shown

Looking == phase \in Working /\ pos <= Len(unsigned.spends)

(* Mutant: the totals are not checked.                                     *)
Accounts_Unchecked(l) == ledger' = l /\ pos' = pos + 1 /\ UNCHANGED <<unsigned, phase, shown>>

Accounts(l) ==
    IF Representable(l)
    THEN ledger' = l /\ pos' = pos + 1 /\ UNCHANGED <<unsigned, phase, shown>>
    ELSE Refused

XchIn(s) == Enters(ledger, XCH, AmountOf(s.coin))
CatIn(s) == Enters(ledger, s.asset, AmountOf(s.coin))

AccountCatClaim ==
    /\ Looking /\ Spend.genuine /\ IsCatClaim(Spend)
    /\ Accounts(Leaves(CatIn(Spend), Spend.asset, InnerRun(Spend)))

AccountCatSend ==
    /\ Looking /\ Spend.genuine /\ IsCatSend(Spend)
    /\ Accounts(Binds(Leaves(CatIn(Spend), Spend.asset, InnerRun(Spend)),
                      Spend, InnerRun(Spend)))

AccountOptionTransfer ==
    /\ Looking /\ Spend.genuine /\ IsOptionTransfer(Spend)
    /\ Accounts(Leaves(XchIn(Spend), XCH, InnerRun(Spend)))

AccountSingletonLaunch ==
    /\ Looking /\ Spend.genuine /\ IsLaunch(Spend)
    /\ LET announced == {c.what : c \in {d \in ToSet(Spend.conds) : d.op = "create_coin_ann"}}
       IN  Accounts([Leaves(XchIn(Spend), XCH, Spend.conds) EXCEPT
                       !.launches = @ \cup {[coin |-> Spend.coin, announced |-> announced]}])

(* account_nft_spend takes one of two arms, by the proof of the lineage.   *)
AccountNftTransfer ==
    /\ Looking /\ Spend.genuine /\ IsNftTransfer(Spend)
    /\ Accounts([Leaves(XchIn(Spend), XCH, Run(Spend)) EXCEPT
                   !.nfts = Append(@, NftOperation("transfer", Spend))])

AccountNftEveMint ==
    /\ Looking /\ Spend.genuine /\ IsNftEveMint(Spend)
    /\ Accounts([Leaves(XchIn(Spend), XCH, Run(Spend)) EXCEPT
                   !.eveParents = @ \cup {ParentOf(Spend.coin)},
                   !.nfts = Append(@, NftOperation("mint", Spend))])

AccountNft == AccountNftTransfer \/ AccountNftEveMint

AccountSingletonMelt ==
    /\ Looking /\ Spend.genuine /\ IsMelt(Spend)
    /\ Accounts([XchIn(Spend) EXCEPT !.melted = @ + AmountOf(Spend.coin),
                                     !.melts  = Append(@, Spend.coin)])

AccountStandardSend ==
    /\ Looking /\ Spend.genuine /\ IsStandardSend(Spend)
    /\ LET conds == InnerRun(Spend)
       IN  Accounts(ReservesFee(Asserts(Binds(Leaves(XchIn(Spend), XCH, conds),
                                              Spend, conds), conds), conds))

AccountSettlementClaim ==
    /\ Looking /\ Spend.genuine /\ IsSettlementClaim(Spend)
    /\ Accounts(Leaves(XchIn(Spend), XCH, Spend.conds))

(* A substituted puzzle, a class without a handler, or a spend its handler *)
(* does not admit.                                                         *)
RefuseSpend == Looking /\ ~Admissible(Spend) /\ Refused

-----------------------------------------------------------------------------
(* decode_verified, decode and sign_unsigned, each from call to answer.    *)

Review  == phase = "received" /\ Start("reviewing") /\ UNCHANGED <<unsigned, shown>>
Display == phase = "received" /\ Start("displaying") /\ UNCHANGED <<unsigned, shown>>
Sign    == phase \in {"received", "shown"} /\ Start("signing") /\ UNCHANGED <<unsigned, shown>>

Analyzed == phase \in Working /\ pos > Len(unsigned.spends)
Passes   == unsigned.spends # <<>> /\ Judged(ledger, unsigned.spends)

Show ==
    /\ Analyzed /\ phase = "reviewing" /\ Passes
    /\ shown' = Rendered(Egress(ledger, unsigned.spends), TRUE)
    /\ Start("shown")
    /\ UNCHANGED unsigned

ShowKeyFree ==
    /\ Analyzed /\ phase = "displaying" /\ Passes
    /\ shown' = Rendered(KeyFree(ledger, unsigned.spends), FALSE)
    /\ Start("shown")
    /\ UNCHANGED unsigned

SignBundle ==
    /\ Analyzed /\ phase = "signing" /\ Passes
    /\ MatchesClaim(Egress(ledger, unsigned.spends), unsigned)
    /\ Signable(unsigned)
    /\ Start("signed")
    /\ UNCHANGED <<unsigned, shown>>

RefuseBundle ==
    /\ Analyzed
    /\ \/ ~Passes
       \/ /\ phase = "signing"
          /\ \/ ~MatchesClaim(Egress(ledger, unsigned.spends), unsigned)
             \/ ~Signable(unsigned)
    /\ Refused

GateInit ==
    /\ unsigned = Nothing /\ phase = "idle" /\ pos = 1
    /\ ledger = EmptyLedger /\ shown = Unseen

Receive(u) ==
    /\ phase = "idle"
    /\ unsigned' = u
    /\ phase'    = "received"
    /\ UNCHANGED <<pos, ledger, shown>>

(* The caller is done with the spend: signed, refused, or declined.        *)
Done ==
    /\ phase \in {"shown", "signed", "refused"}
    /\ unsigned' = Nothing /\ shown' = Unseen
    /\ Start("idle")

GateStep ==
    \/ Review \/ Display \/ Sign
    \/ AccountCatClaim \/ AccountCatSend \/ AccountOptionTransfer
    \/ AccountSingletonLaunch \/ AccountNft
    \/ AccountSingletonMelt \/ AccountStandardSend \/ AccountSettlementClaim
    \/ RefuseSpend
    \/ Show \/ ShowKeyFree \/ SignBundle \/ RefuseBundle

(* The gate alone, whatever of Inputs it is handed.                        *)
GateNext(Inputs) == GateStep \/ Done \/ \E u \in Inputs : Receive(u)
GateSpec(Inputs) == GateInit /\ [][GateNext(Inputs)]_gateVars

(* The ledger's totals are u64s, and analyze never looks past the bundle.  *)
GateTypeOK ==
    /\ phase \in {"idle", "received", "shown", "signed", "refused"} \cup Working
    /\ pos \in 1..(Len(unsigned.spends) + 1)
    /\ Representable(ledger)
    /\ phase \notin Working => pos = 1 /\ ledger = EmptyLedger
    /\ phase = "idle" => unsigned = Nothing /\ shown = Unseen

-----------------------------------------------------------------------------
(* What a signature promises.  Every formula is stated on the coin spends  *)
(* themselves, on the conditions the network sees (Run), never on the      *)
(* ledger.                                                                 *)

Signed == phase = "signed"
Each(f(_), spends) == FlattenSeq([i \in DOMAIN spends |-> f(spends[i])])

(* What a coin spend pays, as a reader of the summary knows it: an option   *)
(* goes to its new owner, an NFT to the coin it becomes.                   *)
Payee(s, ph) == IF s.kind = "option" /\ ph[1] = "singleton" THEN ph[2] ELSE ph
Made(s) == [i \in DOMAIN Creates(Run(s)) |->
              Output(Payee(s, Creates(Run(s))[i].ph), Creates(Run(s))[i].amount, s.asset)]

(* The outputs that leave the wallet, protocol sinks among them.           *)
Leaving(o) == ~Owned(o.ph) /\ (IsProtocolSink(o.ph) => o.amount > 0)
Masked(o)  == IF IsProtocolSink(o.ph) THEN [o EXCEPT !.ph = NoAddress] ELSE o
Left(spends) ==
    LET left == Where(Each(Made, spends), Leaving)
    IN  [i \in DOMAIN left |-> Masked(left[i])]

Melted(s) == IF s.kind = "singleton" /\ \E c \in ToSet(s.conds) : c.op = "melt_singleton"
             THEN <<s.coin>> ELSE <<>>
Moved(s)  == IF s.kind # "nft" THEN <<>>
             ELSE [i \in DOMAIN Creates(s.conds) |->
                     <<IF s.eve THEN "mint" ELSE "transfer", s.launcher,
                       Creates(s.conds)[i].ph>>]
Melts(spends)   == Each(Melted, spends)
NftActs(spends) == Each(Moved, spends)

Tells(summary, spends) ==
    /\ SameBag(Left(spends), summary.outputs)
    /\ SameBag(Melts(spends), summary.melted)
    /\ SameBag(NftActs(spends), summary.nfts)

(* Nothing is missing, though more may be listed.                          *)
Lists(summary, spends) ==
    /\ \A o \in ToSet(Left(spends)) :
          Occurrences(o, Left(spends)) <= Occurrences(o, summary.outputs)
    /\ SameBag(Melts(spends), summary.melted)
    /\ SameBag(NftActs(spends), summary.nfts)

(* A bundle is signed only if the summary that came with it, and the one   *)
(* the user was shown for consent, name every coin that leaves the wallet, *)
(* everything committed to a settlement or a launcher, every singleton     *)
(* melted and every NFT moved: no more and no less.  The key-free screen   *)
(* may list change on top, but hides nothing (decode_verified,             *)
(* review::decode, sign_unsigned).                                         *)
NothingUnseen ==
    Signed => /\ Tells(unsigned, unsigned.spends)
              /\ shown # Unseen => /\ Lists(shown, unsigned.spends)
                                   /\ shown.fee = unsigned.fee
              /\ shown.verified => Tells(shown, unsigned.spends)

TotalIn(asset, spends) ==
    SumOver(LAMBDA s : IF s.asset = asset THEN AmountOf(s.coin) ELSE 0, spends)
TotalOut(asset, spends) ==
    SumOver(LAMBDA s : IF s.asset = asset THEN Paid(Run(s)) ELSE 0, spends)

(* A signed bundle leaves to the network exactly the fee its summary names *)
(* and not one unit of a CAT, as natural numbers: however the totals of    *)
(* analyze are made up (the checked additions, the class of each spend).   *)
ConservesValue ==
    Signed => LET spends == unsigned.spends
              IN  /\ TotalIn(XCH, spends) = TotalOut(XCH, spends) + unsigned.fee
                  /\ \A a \in Assets : TotalIn(a, spends) = TotalOut(a, spends)

SignedLegs(spends) == {s \in ToSet(spends) : s.kind # "option" /\ AsksSignature(s)}
Concurs(s, legs) ==
    \A c \in ToSet(s.conds) :
        /\ c.op = "concurrent_spend"  => \E t \in legs : t.coin = c.coin
        /\ c.op = "concurrent_puzzle" => \E t \in legs : PuzzleHashOf(t.coin) = c.ph
PaysSink(s)  == \E c \in ToSet(Creates(s.conds)) : IsProtocolSink(c.ph)
Announces(s) == \E c \in ToSet(s.conds) : c.op \in {"assert_coin_ann", "assert_puzzle_ann"}

(* No coin is spent twice, which no block would take, and no concurrent    *)
(* puzzle hash is one that two of the coins have: the code follows it to   *)
(* both, where on chain one suffices.                                      *)
Unambiguous(legs) ==
    \A s, t \in legs : s # t =>
        /\ s.coin # t.coin
        /\ PuzzleHashOf(s.coin) = PuzzleHashOf(t.coin)
              => \A r \in legs : \A c \in ToSet(r.conds) :
                    c.op = "concurrent_puzzle" => c.ph # PuzzleHashOf(s.coin)

Tied(legs) ==
    \A part \in SUBSET legs :
        (\A s \in part : Concurs(s, part)) /\ (\E s \in part : PaysSink(s))
            => \E s \in part : Announces(s)

(* The signed legs that commit value to a settlement cannot be used        *)
(* without a leg that asserts an announcement: every part of the bundle    *)
(* the network would take by itself, its concurrency conditions met, holds *)
(* one as soon as it pays a settlement (enforce_bundle_settlement_binding).*)
SettlementTied ==
    Signed => LET legs == SignedLegs(unsigned.spends) IN Unambiguous(legs) => Tied(legs)
=============================================================================
