----------------------------- MODULE AssetBuild -----------------------------
(***************************************************************************)
(* What the engine builds around offers (engine::build_offer), options     *)
(* (engine::build_options), NFTs and DIDs (engine::nft, engine::did).  The *)
(* coin spends themselves come from dig-offers, dig-options, dig-nft and   *)
(* dig-did: their shape is modelled from what the engine, the verifier and *)
(* the tests say of them; choosing the funds, the keys and the summary is  *)
(* the engine's own.                                                       *)
(***************************************************************************)
EXTENDS SpendBuild

NoAddr == <<"none", 0>>   \* an empty address: a protocol sink

-----------------------------------------------------------------------------
(* Offers.  offered and requested are [xch, cats : sequence of             *)
(* [asset, amount]]; an offer o to take or cancel is [spends, coins :      *)
(* sequence of [asset, coin], payee, requested].                           *)

NonEmpty(side) == side.xch > 0 \/ side.cats # <<>>
NonZero(side)  == \A i \in DOMAIN side.cats : side.cats[i].amount > 0

(* make_summary lists what is offered, taker_summary what is paid.         *)
SideOutputs(side, ph) ==
    (IF side.xch > 0 THEN <<SpendOutput(ph, side.xch, XCH)>> ELSE <<>>)
    \o [i \in DOMAIN side.cats |-> SpendOutput(ph, side.cats[i].amount, side.cats[i].asset)]

MakeOutputs(offered) == SideOutputs(offered, NoAddr)
TakerOutputs(o)      == SideOutputs(o.requested, o.payee)

(* owner_keys_for, resolve_offered_side, resolve_requested_side            *)
OwnerKeys(xchCoins, catCoins) ==
    /\ \A c \in xchCoins : KeyKnown(PuzzleHashOf(c))
    /\ \A i \in DOMAIN catCoins : KeysKnown(catCoins[i])
OfferedResolves(w, offered, fee) ==
    /\ NonEmpty(offered) /\ NonZero(offered)
    /\ OwnerKeys(IF offered.xch + fee > 0 THEN w.xch ELSE {},
                 [i \in DOMAIN offered.cats |-> CatsOf(w, offered.cats[i].asset)])
RequestedResolves(requested) == NonEmpty(requested) /\ NonZero(requested)

(* dig-offers spends the leads in a ring; the first one asserts the        *)
(* announcement of the requested payment (external).                       *)
MakeSpends(w, offered, fee, xchCoins, catCoins) ==
    LET leads == (IF xchCoins = <<>> THEN <<>> ELSE <<xchCoins[1]>>)
                 \o [i \in DOMAIN catCoins |-> catCoins[i][1]]
        tie(i) == (IF i = 1 THEN <<AssertPuzzleAnn>> ELSE <<>>)
                  \o (IF Len(leads) = 1 THEN <<>>
                      ELSE <<ConcurrentSpend(leads[1 + (i % Len(leads))])>>)
        first  == IF xchCoins = <<>> THEN 0 ELSE 1
        xch    == IF xchCoins = <<>> THEN <<>>
                  ELSE Linked(xchCoins,
                         (IF offered.xch > 0 THEN <<CreateCoin(SettlementPayment, offered.xch)>>
                          ELSE <<>>)
                         \o Change(w.change, U64Sum(xchCoins) - offered.xch - fee)
                         \o Fee(fee) \o tie(1))
    IN  xch \o FlattenSeq([i \in DOMAIN catCoins |->
                 CatRing(offered.cats[i].asset, catCoins[i],
                         <<CreateCoin(SettlementPayment, offered.cats[i].amount)>>
                         \o Change(w.change, U64Sum(catCoins[i]) - offered.cats[i].amount)
                         \o tie(first + i))])

(* build_make: resolve_offered_side hands dig-offers every coin of the     *)
(* wallet, with a key for each; dig-offers takes the largest it needs.     *)
BuildMake(w, offered, requested, fee) ==
    LET cats(i) == CatsOf(w, offered.cats[i].asset)
        need    == offered.xch + fee
        fund(coins, n) == {c \in {Reaching(HighValueFirst(coins), n)} : U64Sum(c) >= n}
        xchs    == IF need = 0 THEN {<<>>} ELSE fund(w.xch, need)
        funds   == {f \in [DOMAIN offered.cats ->
                             UNION {fund(ToSet(cats(i)), offered.cats[i].amount)
                                      : i \in DOMAIN offered.cats}] :
                      \A i \in DOMAIN f : f[i] \in fund(ToSet(cats(i)), offered.cats[i].amount)}
    IN  {UnsignedSpend(MakeSpends(w, offered, fee, x[1], x[2]), MakeOutputs(offered), fee)
           : x \in {y \in xchs \X funds :
                      OfferedResolves(w, offered, fee) /\ RequestedResolves(requested)}}

(* resolve_taker_funds, select_cats: what a take costs, from the wallet's  *)
(* own selection, the XCH target saturating.                               *)
TakerXch(w, o, fee) ==
    LET target == Smaller(Max64, o.requested.xch + fee)
    IN  IF target = 0 THEN {<<>>} ELSE SelectOrFail(w.xch, target, CoinCap)
TakerCats(w, c) == SelectOrFail(ToSet(CatsOf(w, c.asset)), c.amount, CoinCap)

(* take_build of dig-offers (external): the payment goes through a         *)
(* settlement coin of amount 0 that carries the announcement, and the      *)
(* offered settlement coins are claimed to the taker's change address.     *)
SettlementSpend(asset, coin, conds) ==
    [CoinSpend(IF asset = XCH THEN "settlement" ELSE "cat", coin, "nobody", conds)
        EXCEPT !.asset = asset, !.inner = "settlement"]
PaidVia(asset, lead, legs) ==
    SettlementSpend(asset, Coin(lead, SettlementPayment, 0), PayLegs(legs))
Carrier == <<CreateCoin(SettlementPayment, 0), AssertPuzzleAnn>>

TakeSpends(w, o, fee, xchCoins, catCoins) ==
    LET claim == [i \in DOMAIN o.coins |->
                     SettlementSpend(o.coins[i].asset, o.coins[i].coin,
                                     <<CreateCoin(w.change, AmountOf(o.coins[i].coin))>>)]
        pays  == o.requested.xch > 0
        xch   == IF xchCoins = <<>> THEN <<>>
                 ELSE Linked(xchCoins, (IF pays THEN Carrier ELSE <<>>)
                        \o Change(w.change, U64Sum(xchCoins) - o.requested.xch - fee)
                        \o Fee(fee))
                      \o (IF pays THEN <<PaidVia(XCH, xchCoins[1],
                                           <<[to |-> o.payee, amount |-> o.requested.xch]>>)>>
                          ELSE <<>>)
        cat(i) == LET c == o.requested.cats[i]
                  IN  CatRing(c.asset, catCoins[i],
                              Carrier \o Change(w.change, U64Sum(catCoins[i]) - c.amount))
                      \o <<PaidVia(c.asset, catCoins[i][1],
                                   <<[to |-> o.payee, amount |-> c.amount]>>)>>
    IN  xch \o FlattenSeq([i \in DOMAIN catCoins |-> cat(i)]) \o claim

TakerFunds(w, o, fee) ==
    LET funds == {f \in [DOMAIN o.requested.cats ->
                           UNION {TakerCats(w, o.requested.cats[i]) : i \in DOMAIN o.requested.cats}] :
                    \A i \in DOMAIN f : f[i] \in TakerCats(w, o.requested.cats[i])}
    IN  {x \in TakerXch(w, o, fee) \X funds : OwnerKeys(ToSet(x[1]), x[2])}

BuildTake(w, o, fee) ==
    {UnsignedSpend(TakeSpends(w, o, fee, x[1], x[2]), TakerOutputs(o), fee)
       : x \in TakerFunds(w, o, fee)}

(* owner_keys_for_offer: only a standard coin has a puzzle hash the wallet *)
(* knows a key of.                                                         *)
Reclaimable(o) ==
    LET mine == Where(o.spends, LAMBDA s : s.kind = "standard" /\ KeyKnown(PuzzleHashOf(s.coin)))
    IN  [i \in DOMAIN mine |-> mine[i].coin]

(* The fee of a cancel comes out of the reclaimed coins.                   *)
BuildCancel(w, o, fee) ==
    LET coins == Reclaimable(o)
    IN  IF coins = <<>> \/ U64Sum(coins) < fee THEN {}
        ELSE {UnsignedSpend(Linked(coins, Change(w.change, U64Sum(coins) - fee) \o Fee(fee)),
                            <<>>, fee)}

-----------------------------------------------------------------------------
(* Options.  A handle h is [launcher, strike, creator]; on is what the     *)
(* chain shows: [coin, launcher, owner].                                   *)

SingletonSpend(kind, coin, launcher, key, conds) ==
    [CoinSpend(kind, coin, key, conds) EXCEPT !.launcher = launcher]

(* The launcher coin a funding coin creates and the spend that launches    *)
(* the singleton owned by ph: the launcher announces its solution.         *)
LauncherCoin(funding) == Coin(funding, SingletonLauncher, 1)
EvePuzzle(ph)         == <<"eve", ph>>
LauncherSpend(funding, ph) ==
    CoinSpend("launcher", LauncherCoin(funding), "nobody",
              <<CreateCoin(EvePuzzle(ph), 1), CreateCoinAnn(EvePuzzle(ph))>>)
EveCoin(funding, ph) == Coin(LauncherCoin(funding), EvePuzzle(ph), 1)
Funds(funding, ph)   == <<CreateCoin(SingletonLauncher, 1),
                          AssertCoinAnn(LauncherCoin(funding), EvePuzzle(ph))>>

(* pick_funding_coin, pick_strike_coin: the smallest coin that covers the  *)
(* need, and only if what it is over fits the fee.                         *)
SmallestCovering(coins, need) ==
    LET covering == {c \in coins : AmountOf(c) >= need}
    IN  IF covering = {} THEN {}
        ELSE {CHOOSE c \in covering : \A d \in covering : AmountOf(c) <= AmountOf(d)}
PickCoin(coins, need, fee) ==
    {c \in SmallestCovering(coins, need) : AmountOf(c) <= need + fee}
PickFundingCoin(w, need, fee) == PickCoin(w.xch, need, fee)
PickStrikeCoin(w, ph, strike, fee) ==
    PickCoin({c \in w.xch : PuzzleHashOf(c) = ph}, strike, fee)

BuildMintOption(w, underlying, owner, fee) ==
    {UnsignedSpend(<<StandardSpend(c, <<CreateCoin(OptionLock, underlying)>> \o Funds(c, owner)),
                     LauncherSpend(c, owner),
                     [SingletonSpend("option", EveCoin(c, owner), LauncherCoin(c), "nobody",
                                     <<CreateCoin(owner, 1)>>) EXCEPT !.inner = "eve"]>>,
                   <<SpendOutput(owner, underlying, XCH)>>, AmountOf(c) - (underlying + 1))
       : c \in {d \in PickFundingCoin(w, underlying + 1, fee) :
                  /\ underlying > 0 /\ underlying + 1 + fee <= Max64
                  /\ KeyKnown(PuzzleHashOf(d))}}

(* rehydrate_option: the chain shows the option the handle names, and the  *)
(* wallet holds the key of its owner.                                      *)
Rehydrates(h, on) == on.launcher = h.launcher /\ KeyKnown(on.owner)

BuildTransferOption(w, h, on, to, fee) ==
    {UnsignedSpend(<<SingletonSpend("option", on.coin, on.launcher, on.owner[2],
                                    <<CreateCoin(to, AmountOf(on.coin))>>)>> \o fees,
                   <<SpendOutput(to, AmountOf(on.coin), XCH)>>, fee)
       : fees \in {f \in FeeSpends(w, fee, on.coin) : Rehydrates(h, on)}}

BuildExerciseOption(w, h, on, fee) ==
    {UnsignedSpend(<<SingletonSpend("option", on.coin, on.launcher, on.owner[2],
                                    <<OtherCondition, MeltSingleton>>),
                     SingletonSpend("one_of_many", Coin(on.launcher, OptionLock, 2),
                                    on.launcher, "nobody", <<CreateCoin(SettlementPayment, 2)>>),
                     StandardSpend(c, <<CreateCoin(SettlementPayment, h.strike)>>)>>,
                   <<SpendOutput(h.creator, h.strike, XCH)>>, AmountOf(c) - h.strike)
       : c \in {d \in PickStrikeCoin(w, on.owner, h.strike, fee) :
                  h.strike + fee <= Max64 /\ Rehydrates(h, on)}}

-----------------------------------------------------------------------------
(* NFTs and DIDs: the engine hands back coin spends without a summary.     *)

NftSpend(n, conds) == SingletonSpend("nft", n.coin, n.launcher, n.owner[2], conds)
MintNft(funding, owner) ==
    <<StandardSpend(funding, Funds(funding, owner)),
      LauncherSpend(funding, owner),
      [SingletonSpend("nft", EveCoin(funding, owner), LauncherCoin(funding), "nobody",
                      <<CreateCoin(owner, 1)>>) EXCEPT !.eve = TRUE]>>
TransferNft(n, to) == <<NftSpend(n, <<CreateCoin(to, AmountOf(n.coin))>>)>>
UpdateNftMetadata(n) ==
    <<NftSpend(n, <<UpdateMetadata, CreateCoin(n.owner, AmountOf(n.coin))>>)>>

DidSpend(d, conds) == SingletonSpend("singleton", d.coin, d.launcher, d.owner[2], conds)
LaunchDid(funding) ==
    LET owner == PuzzleHashOf(funding)
    IN  <<StandardSpend(funding, Funds(funding, owner)), LauncherSpend(funding, owner),
          SingletonSpend("singleton", EveCoin(funding, owner), LauncherCoin(funding), owner[2],
                         <<CreateCoin(owner, 1)>>)>>
TransferDid(d, to) == <<DidSpend(d, <<CreateCoin(to, AmountOf(d.coin))>>)>>
=============================================================================
