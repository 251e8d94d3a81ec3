------------------------------ MODULE MCSpends ------------------------------
(* The spends, wallets and requests SpendPipeline is checked on.           *)
EXTENDS SpendPipeline

CONSTANT Wallets   \* which of the wallets below a run takes

Me == P2("w1")
Other == P2("other")

Genesis(n) == <<[ph |-> <<"genesis", n>>, amount |-> 0]>>
Xch(n, key, amount) == Unspent(XCH, Coin(Genesis(n), P2(key), amount))
Cat(n, key, amount) == Unspent("cat", Coin(Genesis(n), P2(key), amount))

x0 == Xch(0, "w1", 1)     \* what an NFT or a DID is launched from
x1 == Xch(1, "w1", 5)
x2 == Xch(2, "w2", 5)
x3 == Xch(3, "w1", 2)
x4 == Xch(4, "w3", 9)     \* its key lies beyond the signer's address gap
y1 == Xch(8, "w1", 9)     \* two coins whose sum is no u64
y2 == Xch(9, "w2", 9)
k1 == Cat(5, "w1", 4)
k2 == Cat(6, "w2", 4)

Launcher    == Coin(Coin(Genesis(7), Other, 1), SingletonLauncher, 1)
OptionNow   == [coin |-> Coin(Launcher, SingletonOf(P2("w2")), 1), launcher |-> Launcher,
                owner |-> P2("w2")]
NftNow      == [coin |-> Coin(Launcher, SingletonOf(P2("w1")), 1), launcher |-> Launcher,
                owner |-> P2("w1")]
Handle(l)   == [launcher |-> l, strike |-> 4, creator |-> Other]

-----------------------------------------------------------------------------
(* Requests.                                                               *)

Leg(to, amount) == [to |-> to, amount |-> amount]
Side(xch, cats) == [xch |-> xch, cats |-> cats]
CatPart(amount) == [asset |-> "cat", amount |-> amount]

(* An offer somebody else made of a coin of theirs.                        *)
Theirs(asset) ==
    [spends |-> <<>>, payee |-> Other,
     coins  |-> <<[asset |-> asset, coin |-> Coin(Genesis(8), SettlementPayment, 3)]>>,
     requested |-> IF asset = XCH THEN Side(0, <<CatPart(3)>>) ELSE Side(4, <<>>)]
(* One the wallet made of x1.                                              *)
Mine == [spends |-> MakeSpends([change |-> Me], Side(5, <<>>), 0, <<x1.coin>>, <<>>),
         payee |-> Me, coins |-> <<>>, requested |-> Side(0, <<CatPart(3)>>)]

Policy == [enabled |-> TRUE, manual |-> FALSE, threshold |-> 3, maxTips |-> 1, maxAmount |-> 4,
           asset |-> "cat", leg |-> Leg(Other, 3)]
Today(n, amount) == [tips |-> n, amount |-> amount]

Requests ==
    {[kind |-> "send_xch", leg |-> Leg(to, n), fee |-> fee] :
        to \in {Me, Other}, n \in {0, 3, 5, 6}, fee \in {0, 2}}
    \cup {[kind |-> "send_cat", asset |-> "cat", leg |-> Leg(Other, n), fee |-> fee] :
            n \in {4, 6}, fee \in {0, 2}}
    \cup {[kind |-> "multi_send_xch", legs |-> legs, fee |-> 1] :
            legs \in {<<Leg(Other, 2), Leg(Other, 2)>>, <<Leg(Other, 2), Leg(Other, 3)>>,
                      <<Leg(Other, 4), Leg(P2("w9"), 4)>>}}
    \cup {[kind |-> "multi_send_cat", asset |-> "cat", legs |-> legs, fee |-> 1] :
            legs \in {<<Leg(Other, 2), Leg(Other, 2)>>, <<Leg(Other, 2), Leg(P2("w9"), 3)>>}}
    \cup {[kind |-> "combine", fee |-> fee] : fee \in {0, 2}}
    \cup {[kind |-> "split", parts |-> n, fee |-> fee] : n \in {2, 3}, fee \in {0, 2}}
    \cup {[kind |-> "tip", asset |-> "cat", leg |-> Leg(Other, n)] : n \in {3, 8}}
    \cup {[kind |-> "auto_tip", policy |-> Policy, sent |-> sent, today |-> today] :
            sent \in {2, 3}, today \in {Today(0, 0), Today(0, 2), Today(1, 0)}}
    \cup {[kind |-> "make", offered |-> o, requested |-> Side(1, <<>>), fee |-> 0] :
            o \in {Side(4, <<CatPart(3)>>), Side(6, <<>>), Side(0, <<CatPart(6)>>)}}
    \cup {[kind |-> "take", offer |-> Theirs(asset), fee |-> 1] : asset \in {XCH, "cat"}}
    \cup {[kind |-> "cancel", offer |-> Mine, fee |-> fee] : fee \in {0, 6}}
    \cup {[kind |-> "mint_option", underlying |-> 3, owner |-> Other, fee |-> 2],
          [kind |-> "exercise_option", handle |-> Handle(Launcher), on |-> OptionNow, fee |-> 2]}
    \cup {[kind |-> "transfer_option", handle |-> Handle(l), on |-> OptionNow, to |-> to, fee |-> 2] :
            l \in {Launcher, <<>>}, to \in {Me, Other}}

-----------------------------------------------------------------------------
(* What is on chain, and where change goes.                                *)

Coins(w) ==
    CASE w = "small"  -> {x1, x2, x3, k1, k2, Unspent(XCH, OptionNow.coin)}
      [] w = "large"  -> {x1, x4, k1}
      [] w = "beyond" -> {x1, x2, k1}
      [] w = "rich"   -> {y1, y2, k1}
ChangeOf(w) == IF w = "beyond" THEN P2("w3") ELSE Me

(* The hypotheses of the theorems, for the instance.                       *)
ASSUME InstanceOK ==
    /\ \A r \in Requests : RequestOK(r)
    /\ \A w \in Wallets : ChainOK(Coins(w))

FlowPartInit == \E w \in Wallets : FlowInit(Coins(w), ChangeOf(w))
Again == {r \in Requests : r.kind = "send_xch" /\ r.fee = 0 /\ r.leg = Leg(Other, 5)}
FlowPartNext == FlowNext(IF round = 0 THEN Requests ELSE Again)

-----------------------------------------------------------------------------
(* Bundles the gate is handed: what the builders make, and what differs    *)
(* from it in one place, under the builder's summary and under a true one. *)

Small == Holdings(Coins("small"), Me)

(* The true summary of coin spends: an option is named by its new owner,   *)
(* an NFT by the coin it becomes.                                          *)
Told(spends) ==
    LET in == TotalIn(XCH, spends) out == TotalOut(XCH, spends)
    IN  [spends |-> spends,
         outputs |-> Left(spends),
         fee |-> IF in < out THEN 0 ELSE in - out,
         melted |-> Melts(spends), nfts |-> NftActs(spends), required |-> RequiredSignatures(spends)]

FeeCoin(fee, lead) == StandardSpend(x3.coin, <<ReserveFee(fee), ConcurrentSpend(lead),
                                               CreateCoin(Me, AmountOf(x3.coin) - fee)>>)
Bases ==
    UNION {Built(r, Small) : r \in {q \in Requests :
        \/ q.kind = "send_xch" /\ q.fee = 2 /\ q.leg = Leg(Other, 6)
        \/ q.kind = "send_cat" /\ q.fee = 2 /\ q.leg = Leg(Other, 6)
        \/ q.kind = "make" /\ q.offered.cats # <<>> /\ q.offered.xch > 0
        \/ q.kind \in {"take", "transfer_option", "exercise_option", "mint_option"}}}
    \cup {Told(spends) : spends \in
        {MintNft(x0.coin, Other), TransferNft(NftNow, Other), UpdateNftMetadata(NftNow),
         LaunchDid(x0.coin), TransferDid(NftNow, Other),
         <<DidSpend(NftNow, <<MeltSingleton>>), FeeCoin(1, NftNow.coin)>>,
         TransferNft(NftNow, Other) \o <<FeeCoin(1, NftNow.coin)>>,
         <<StandardSpend(y1.coin, <<CreateCoin(Other, 9)>>),
           StandardSpend(y2.coin, <<CreateCoin(Other, 8)>>)>>,
         <<StandardSpend(x1.coin, <<CreateCoin(Other, 5)>>),
           StandardSpend(x2.coin, <<CreateCoin(Other, 5)>>)>>}}

Extra == {CreateCoin(Other, 1), CreateCoin(Me, 2), CreateCoin(SettlementPayment, 1),
          ReserveFee(1), AggSigMe("w1", Elsewhere), AggSigOther, MeltSingleton,
          ConcurrentSpend(x1.coin), ConcurrentPuzzle(P2("w1")), AssertPuzzleAnn, OtherCondition}

Less(s, j) == SubSeq(s, 1, j - 1) \o SubSeq(s, j + 1, Len(s))
SpendEdits(s) ==
    {[s EXCEPT !.quote = FALSE], [s EXCEPT !.genuine = FALSE], [s EXCEPT !.inner = "other"],
     [s EXCEPT !.key = "w1"], [s EXCEPT !.eve = ~@]}
    \cup {[s EXCEPT !.conds = Append(@, c)] : c \in Extra}
    \cup {[s EXCEPT !.conds = Less(@, j)] : j \in DOMAIN s.conds}
    \cup {[s EXCEPT !.conds[j].amount = @ + 1] :
             j \in {i \in DOMAIN s.conds : s.conds[i].op = "create_coin"}}
    \cup {[s EXCEPT !.conds[j].ph = SettlementPayment] :
             j \in {i \in DOMAIN s.conds : s.conds[i].op = "create_coin"}}
Edits(spends) ==
    {Less(spends, i) : i \in DOMAIN spends}
    \cup UNION {{[spends EXCEPT ![i] = s] : s \in SpendEdits(spends[i])} : i \in DOMAIN spends}
ClaimEdits(u) ==
    {[u EXCEPT !.fee = @ + 1], [u EXCEPT !.melted = <<>>], [u EXCEPT !.nfts = <<>>],
     [u EXCEPT !.required = <<>>]}
    \cup {[u EXCEPT !.outputs = Less(@, i)] : i \in DOMAIN u.outputs}
    \cup {[u EXCEPT !.outputs[i].amount = @ + 1] : i \in DOMAIN u.outputs}
    \cup {[u EXCEPT !.outputs[i].ph = Me] : i \in DOMAIN u.outputs}
    \cup {[u EXCEPT !.required[i].network = "other"] : i \in DOMAIN u.required}
    \cup {[u EXCEPT !.required = Less(@, i)] : i \in DOMAIN u.required}

GateInputs ==
    Bases \cup UNION {ClaimEdits(u) : u \in Bases}
    \cup UNION {UNION {{[u EXCEPT !.spends = e], Told(e)} : e \in Edits(u.spends)} : u \in Bases}

GatePartInit == FlowInit({}, Me)
GatePartNext ==
    \/ phase = "idle" /\ UNCHANGED flowVars /\ \E u \in GateInputs : Receive(u)
    \/ (GateStep \/ Done) /\ UNCHANGED flowVars

-----------------------------------------------------------------------------
(* Wallets to select from: any few coins.                                  *)

SelectPartInit == FlowInit({}, Me)
SelectPartNext ==
    /\ Cardinality(wallet.xch) < 4
    /\ \E n \in {1, 2, 4, 7} : wallet' = [wallet EXCEPT !.xch = @ \cup
                                    {Coin(Genesis(Cardinality(@)), Me, n)}]
    /\ UNCHANGED <<gateVars, request, chain, mempool, submits, confirmed, round>>
=============================================================================
