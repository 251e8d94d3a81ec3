# dig-wallet-backend in TLA+

Models of the wallet engine of `dig-wallet-backend`, model-checked with TLC and,
for the results that matter most, proved with TLAPS. Paths are relative to the
repository root; `events.rs:105` is short for `src/engine/events.rs` line 105.

1. [The system](#the-system)
2. [The modules](#the-modules)
3. [Event bus](#event-bus)
4. [Wallet sync](#wallet-sync)
5. [Durable store](#durable-store)
6. [Offer builds](#offer-builds)
7. [Spends, from request to block](#spends-from-request-to-block)
8. [Wallet records](#wallet-records)
9. [Registries](#registries)
10. [The Wallet run](#the-wallet-run)
11. [What is proved](#what-is-proved)
12. [What the models disagree with](#what-the-models-disagree-with)
13. [Not modelled](#not-modelled)
14. [Plan](#plan)
15. [Running it](#running-it)

## The system

One process runs the *engine* seam (dig-node): it keeps the wallet's state, syncs it
from peers, builds unsigned spends, emits events and broadcasts signed bundles. The
*client* seam (dig-app) subscribes to events, reviews and signs. The two share the
`types` layer. The engine never signs; the client never syncs.

| Component | State | Operations | Hard part |
|---|---|---|---|
| Event emitter (`events.rs`) | cursor counter, ring of recent events, broadcast channel | `publish`, `subscribe`, `catch_up` | `publish` is four separate steps, and every subsystem holds a clone of the sink |
| Durable delta log (`persist.rs`) | table of events by cursor | `append`, `catch_up` | outlives the process, the cursor counter does not; appends may fail |
| Subscription (`client/subscribe.rs`) | receiver position, last cursor, filter | `next`, then `catch_up` on a lag | lag, reconnection, overlap of live and caught-up events |
| Wallet state (`state.rs`) | coins, CATs, NFTs, DIDs, hints, history, peak, target, lifecycle | `apply_coin_state`, `rollback_to`, `set_peak`, `set_sync_status`, upserts | boundaries of the rollback, what it forgets to roll back |
| Sync engine (`sync.rs`) | none of its own | `sync_from_peer`, `sync_with_fallback`, `resolve_coin`, `handle_reorg`, `sync_spends_from_peer`, three publications | answers awaited while the chain reorganises; store and stream updated in separate steps |
| Durable wallet store (`persist.rs`) | the same tables in SQLite | the same as wallet state | several statements per call, no transaction; migrations |
| Pending offers (`offer_state.rs`, `build_offer.rs`) | builds parked by id | insert, take, TTL sweep | two calls with a signature in between |
| Registries (`actions.rs`) | visibility, refresh requests, derivation index, peers, target, network | setters and queries | one lock per field, operations over several |
| Coin selection (`selection.rs`) | none | `select_for_spend`, `select_for_consolidation` | sums, the cap, ties |
| Spend builders (`build*.rs`) | none (tips: the ledger the caller persists) | one per kind of spend | value conservation, distinct coin ids |
| Hint index (`hints.rs`) | hint to coins and coin to hints | `index`, `forget`, queries | two directions kept in step |
| Broadcaster (`broadcast.rs`) | none | `submit` | duplicates count as success, retries |
| Signer, verification, review (`client/`) | the key | `sign`, `analyze`, `decode` | what is reviewed must be what is signed |
| Address book (`client/`) | labels | set, remove | none |
| HD keys, identity, IPC client | keys | derivation, marshalling | none a model checker reaches |

How they interact. `SyncEngine` writes the shared `InMemoryWalletStore` (an `Arc`) and
publishes to an `EventSink`. Nothing makes a store call and its publication one step, and
the methods take `&self`: the engine itself does not keep two of them from running at
once. `EventSink` writes its ring, the durable log and the Tokio channel. Subscribers read
the channel and, on a gap, the ring or the durable log. Builders read coins and hand
unsigned spends to the client, whose signature comes back to the broadcaster.

What makes each of them correct:

- *Emitter and logs*: cursors are unique and grow; what is sent live can be caught up;
  the ring is bounded; `catch_up` answers everything in the window, in order; the durable
  log keeps what it accepted.
- *Subscription*: no gap and no invention, only the kinds asked for, new events in order,
  everything in the end.
- *Wallet state*: after a rollback only coins of the winning chain are left, the peak is
  at the fork.
- *Sync engine*: events tell exactly what happened to the store; value is announced once;
  Synced means synced; after the last reorganisation the store is the chain.

- *Durable store*: each call keeps and answers what the in-memory store would; what an
  error or a crash leaves behind can be repaired by repeating the call.

- *Pending offers*: an id stands for one build; a build is there while it is fresh and not
  taken out, and neither twice nor too late.
- *Selection and builders*: a choice of coins is as short as the wallet allows; a spend pays
  what its summary says, creates no coin twice, and is one the wallet's own signer accepts.
- *Signer, verification, review*: what is signed is what the summary and the screen name,
  unit by unit; value committed to a settlement cannot be taken without its counterpart.
- *Broadcaster*: a request is paid at most once, whatever answers are lost.
- *Hint index*: a query finds what was announced and is still held, in both directions,
  across rollbacks.
- *Registries*: the listed peers belong to the network in force, the target is one of them.

The full list of hazards, each with its line and the properties that cover it, is
`hazards` in `PROJECT.json`.

## The modules

| Module | What it is |
|---|---|
| `EventStream` | abstract: one numbered log, each subscriber's view a filtered prefix of it |
| `EventBus` | `EventSink`, `DeltaLog`, `SqliteDeltaLog`, `Subscription`, in the code's own steps; implements `EventStream` |
| `EventBus_proofs` | theorems about `EventBus` |
| `MCEventBus` | instances for TLC |
| `WalletStore` | the coin table and what one store call makes of it |
| `WalletSync` | `SyncEngine` over the store and the chain |
| `WalletSync_proofs` | theorems about `WalletSync` |
| `MCWalletSync` | instances for TLC |
| `CoinStore` | abstract: a store every call of which is one step, except a rollback torn by a fault |
| `DurableStore` | `SqliteWalletStore`, statement by statement, with failing statements and crashes; implements `CoinStore` |
| `DurableStore_proofs` | theorems about `DurableStore` and `DurableSchema` |
| `MCDurableStore` | instances for TLC |
| `DurableSchema` | opening the database file: `Db::open`, `migrate` |
| `OfferBuilds` | `PendingOffers` and the two-call flows of `OfferBuilder` |
| `OfferBuilds_proofs` | theorems about `OfferBuilds` |
| `Spends` | coins, conditions and coin spends, as far as builders and verifier tell them apart |
| `SpendBuild` | coin selection and the builders of sends, multi-sends, combine, split and tips |
| `AssetBuild` | the builders of offers, options, NFT and DID spends |
| `SpendGate` | `verify::analyze`, the two screens, `sign_unsigned` |
| `SpendGate_proofs` | theorems about `SpendGate` |
| `SpendPipeline` | builders, gate, broadcaster and network together, over requests |
| `SpendBuild_proofs` | lemmas about selection and about what every builder hands out |
| `SpendPipeline_proofs` | theorems about `SpendPipeline` |
| `MCSpends` | wallets, requests and gate inputs for TLC |
| `WalletRecords` | hint index, asset tables, `sync_spends_from_peer` |
| `WalletRecords_proofs` | theorems about `WalletRecords` and `Registries` |
| `Registries` | `NetworkBook` lock by lock, `AssetActions`, `DerivationWindow`, address book |
| `MCNetworkBook` | the network book by itself, for TLC |
| `MCWallet` | one instance of the pipeline, the offer builds, the records, the registries and the schema for TLC |

Operators named `X_Something` right before an operator `X` are *mutants*: the same
definition with a plausible bug. No specification uses them; each shows that some property
would notice the bug (`mutants` in `PROJECT.json`).

## Event bus

`publish` (`events.rs:105`) is not atomic. It takes a cursor (`Stamp`), appends to the
durable log and drops the error (`AppendDurable`), pushes into the ring under its mutex
(`PushHistory`) and sends on the channel (`Send`). Each is an action of a publisher
`p`; publishers interleave. With no durable log wired, `AppendDurable` always takes its
failing branch, so that case is covered by `StorageReliable = FALSE`.

A subscriber follows SPEC.md 5.3. `Subscribe` opens a receiver and owes a catch-up;
`Receive` is one turn of `Subscription::next`'s loop; `Lag` is the lag signal; `CatchUp`
asks the log it was given, ring or durable, once. Its `last` moves only with events it is
handed, so a filtered event does not move it.

`Restart` ends the process: counter, ring, channel and receivers are new, the durable log
and what clients remember stay.

*External.* The Tokio channel: a sequence of which the last `BufferCapacity` events are
retained, a receiver behind it is told once and moved to the oldest retained event. (Tokio
rounds a capacity up to a power of two; only the retained number matters here.)

*History variables*: `seen`, `aged` (what the ring had already dropped when a subscriber
caught up), `recorded`, `appended`. They guard nothing.

*Abstracted*: an event is its cursor, its kind and the process lifetime it came from; the
payload is not looked at by this code. `seen` is a set, so a second delivery of the same
event (catch-up and live stream overlap) is visible in `last`, not in `seen`: delivery is
at least once.

| Run | Instance | Shows |
|---|---|---|
| `EventBusSolo` | 1 publisher, 2 subscribers (ring / durable), 2 kinds, buffer 2, ring 3, 4 cursors | `GapFree`, `FirstSeenInOrder`, `CatchUpInCursorOrder`, `DurableRetainsAll`, `Delivered` and the implementation of `EventStream` |
| `EventBusShared` | 2 publishers, failing appends, a restart, 1 subscriber on the ring | `TypeOK`, `RingBounded`, `UniqueCursors`, `RecordedBeforeSent`, `FilteredView` |
| `EventBusOrder` | 2 publishers | `CatchUpInCursorOrder` fails |
| `EventBusRestart` | 1 publisher, 1 restart | `DurableRetainsAll` fails |

*Bounds.* `MaxCursor` limits the cursors handed out (in `Stamp`), `MaxRestarts` the
restarts. `EventBusSolo` has a buffer of 2, a ring of 3 and 4 cursors: three events behind
is a lag, and the fourth event ages the first out of the ring. The other runs have a buffer
of 1, where every second event is a lag, and 3 cursors: the ring of 2 in `EventBusShared` drops
the first, the ring of 3 in the two that must fail never drops one, so age is not the reason.
Two publishers suffice for every order of two publications; two kinds let a filter matter.

*Fairness* (`Delivered` only). A publication that was begun is finished, because no step of
`publish` blocks; a connected subscriber polls its receiver and answers a lag. Nobody has to
publish, subscribe or reconnect.

## Wallet sync

`WalletStore` holds the pure part of `state.rs`. A coin is its two heights, 0 for none.
`WalletSync` runs *tasks*: a task is one caller of the sync engine. Each call is cut where
other tasks or the chain can get in between, that is between store calls (each under the
store's mutex), publications, and at every await:

- `FetchFromPeer`, `Apply` (one record of `ingest`), `Emit` (one publication), `SetPeak`,
  `MarkSynced` (reads the peak), `SetSyncStatus`, `PublishProgress`: `sync_from_peer`, and
  `sync_with_fallback` when the peer answers.
- `StartFallback`, `StartResolve`, `PointRead`, `EndFallback`: `sync_with_fallback` when the
  peer is out of reach, `resolve_coin`. `EndFallback` may come early: `?` returns on the
  first failed read and leaves what was ingested.
- `HandleReorg`, `AnnounceAffected`, `EndAffected`: `handle_reorg`. The affected coins are
  read again one by one.

*External.* The chain (`Block`, `Fork`): blocks create and spend the wallet's coins, a
reorganisation takes the blocks above the fork away. A peer or a point read answers with
the state at the moment of the answer; a coin the chain does not have is not answered.
Every reorganisation is reported to the engine, once, in order, at any later time.

*History variables.* `told` and `told_sync` fold the events as a subscriber would;
`received`, `sent` count the `Funds` events; `undone` counts rollbacks per coin.

*Abstracted*: amounts, puzzle hashes and assets; one wallet (the store keeps a slice per
wallet and no call touches two). `order_dial_candidates` and the configuration.

| Run | Instance | Shows |
|---|---|---|
| `WalletSyncOne` | 1 task, 2 coins, height 2, 1 reorganisation | `TypeOK`, `StoreOnChain`, `PeakOnChain`, `EventsMatchStore`, `SyncedAtTarget`, `BookedOnce`, `Converges` |
| `WalletSyncTwo` | 2 tasks, 1 coin | `ReceivedOnce` |
| `WalletSyncStale` | 2 tasks, 1 coin | `StoreOnChain` fails |
| `WalletSyncPeak` | 1 task, 2 coins, no reorganisation | `PeakIsProcessed` fails |

*Bounds.* `MaxHeight` and `MaxReorgs` limit the chain. Height 2 lets a coin be created in
one block and spent in the next; one reorganisation to any fork then forgets it, un-spends
it, or leaves it, and the chain can create and spend it again in the same or another block.
Coins do not interact but through the peak and the batch, so two suffice.

*Fairness* (`Converges` only). A call that was begun runs to its end. The caller keeps
syncing from the peer and keeps reporting reorganisations, neither for ever instead of the
other: strong fairness of `FetchFromPeer` and `HandleReorg`, since the one disables the
other while it runs. The chain has no fairness; it stops by its bounds.

What does *not* hold, and why it is not stated: a coin can be announced as sent more often
than it was rolled back. A reorganisation seen through the peer un-spends a coin by a plain
update before `handle_reorg` is called, and the spend is then announced a second and, after
the rollback, a third time. `BookedOnce` states what is true: each `Funds` event comes after
a `CoinStateChanged` that said the coin was gone, or not spent.

## Durable store

`SqliteWalletStore` is to be a drop-in for the in-memory store (`persist.rs:235`), whose
every call is one step. `CoinStore` says what that promises: one step per call, with the
answer the step gives; `DurableStore` says what the SQLite store does. A call holds the
connection's mutex from beginning to end (`Db::with`, `persist.rs:163`), so calls do not
interleave, but its statements are separate: nothing opens a transaction. `call` is the
call under way, the next statement and its locals:

- `ApplyCoinState` (SELECT and classify), `Upsert`;
- `RollbackTo` (SELECT), `DeleteCreated`, `SelectSpent`, `UnspendSpent`, `ResetPeak`;
- `SetPeak` (SELECT), `WritePeak`; `SetSyncStatus`, one statement;
- `Return`: the mutex is released and the caller has the answer.

`Fail` is a statement that returns an error, which `?` passes on at once, the first of a
call included. `Crash` is the end of the process at any moment of a call, even after its
last statement; the store is opened again on what was written.

The refinement reads the tables as callers can: `Seen` is what they were when the call
began, until it ends. Then a call that returns has done exactly what the in-memory store
would, and one that fails did that, or nothing, or is `TornRollback`: some coins rolled
back, the rest not, the peak kept. That is all the code gives, and it is weaker than the
module's promise of atomic writes (`DurableCrash`).

*External.* SQLite: a statement takes effect as a whole or not at all, and what it wrote
survives a crash. *History variables*: `before` (the tables when the call began) and
`broken` (the rollback that broke off, kept while only that rollback is repeated); they
guard nothing. *Abstracted*: amounts and puzzle hashes; a missing `sync_state` row reads as
the default row and is one with it; one wallet.

| Run | Instance | Shows |
|---|---|---|
| `DurableStore` | 2 coins, heights up to 2, 2 faults | `TypeOK`, `RetryCompletes`, `PeakFallsLast`, the implementation of `CoinStore` |
| `DurableCrash` | the same, 1 fault | `AllOrNothing` fails |

*Bounds.* `MaxHeight` and `MaxFaults`. Statements treat coins independently: two suffice
for one to be forgotten and one un-spent in the same rollback. Height 2 over a fork at 1
puts a height on each side of the boundary, and at it. Two faults break off a rollback and
its first repetition. The run checks for deadlock: a store can always be called.

*Opening the file* (`DurableSchema`). `BeginProcess`, `EndProcess`: processes of different
builds, one after the other; a build knows the first so many migrations. `OpenFile`,
`ReadVersion`, `RunMigration`, `CloseFile`: `Db::init` and `migrate` up to where another
connection can get in between. The wallet store and the event log open a connection each, and
nothing keeps two of them from reading the version before either has migrated. A migration and
its number are one transaction (`persist.rs:200`); a newer file is refused. `version` and
`applied` survive a process, `at` and `todo` do not.

`UpgradedOnce`: the version never promises tables that are not there, an open store has all
its build asks for, and every migration ran once, unless two openers migrated at the same
time (`overlapped`, a history variable). Then both run what is pending, and with more than
one pending the version can fall back in between; the one migration of this repository can be
repeated (`IF NOT EXISTS`, `persist.rs:58`), a later one would have to be repeatable as well.

## Offer builds

Making and taking an offer are two calls each. The first parks what the second needs under
an id; the client signs in between. `insert` mints the id from an atomic counter (`Mint`)
before it locks the map (`Park`), so first calls of several clients interleave there.
Everything else is one step under the lock, and begins with a sweep: `Finish` and `Refuse`
are the two outcomes of `assemble_make` and `finalize_take`, `CountBuilds` of `len`. `Tick` may run
between any two steps, also while a client signs.

A second call comes with any id and either kind; what stands under the id is removed before
its kind is looked at, and before `make_assemble` can fail. `Refuse` has both, as the code
does. A first call that fails does so before the id is minted: no action.

`Restart` makes a new builder: the map is empty and ids start at 0 again, while clients keep
the ids they have. An old id then names somebody's new build. `KeptApart` and `FreshKept`
are about the ids of one process life.

*External.* dig-offers, the clock. *Abstracted*: a build is its id, kind, client and time of
parking. *History variables*: `handles` (what clients were given; the code's clients hold
it), `taken`, `swept`, and the `by` and `life` of a build; they guard nothing.

`KeptApart`, `FreshKept`, `NeverTwice`, `NeverLate` and `Reclaimed` are checked by part `offers` of
[the Wallet run](#the-wallet-run), and proved for all constants.

*Not stated.* A build that `make_assemble` refuses, or that a call of the wrong kind removed, is
lost to its client. The model loses it as the code does; no doc says it stays.

*Bounds.* `MaxBuilds` limits the counter, `MaxNow` the clock, `MaxRestarts` the restarts. With
TTL 2 and a clock up to 2, builds are below the limit and at it, where the comparison matters.

## Spends, from request to block

**Values.** A hash stands for what it commits to: a coin id commits to the parent's id, the
puzzle hash and the amount, so it is the coin's lineage, a sequence with one entry more than the
parent's; the tree hash of a delegated puzzle is the puzzle; a puzzle hash is a layer and what it
wraps. Hashes are then equal exactly when their preimages are, which is the one
thing the code asks of them. A coin spend is its class (what `account_coin` tells apart),
its inner puzzle, whether the signed conditions are a quote, and the conditions.

**Builders** (`SpendBuild`, `AssetBuild`). An operator per request kind yields the set of
results: empty for an error, otherwise the one `UnsignedSpend`, with the choice of coins,
the created coins, change, fee, links between the spends, required signatures and the
summary. Sums taken with a plain `sum()` are taken modulo 2^64, as a release build does.
`HighValueFirst` breaks ties by one fixed order; in the code it is the order of coin ids.
The self-checks `assert_conserved` and `ensure_signed_offline` are left out: no build
modelled fails them. dig-offers, dig-tips and the NFT and DID drivers are external crates;
the shape of what they return is modelled from how it is used and checked.

**Gate** (`SpendGate`). `analyze` looks at the coin spends one by one: `Account*`, one action
per `account_*` handler, or `RefuseSpend`. Each handler's conditions are a predicate `Is*`.
Its additions are checked, so a total beyond u64 refuses the bundle (`Accounts`). Then the
epilogue judges the whole (`Judged`): NFT launches bound to their eve spends, settlement
payments bound to an announcement through the concurrency ring, conservation per asset.
Three calls run this analysis from the start:

- `decode_verified` (`Review`, `Show`): outputs the signer holds a key for are change.
- `review::decode` (`Display`, `ShowKeyFree`): no key, so every output is listed; when
  the analysis fails it shows the engine's claim, marked unverified.
- `sign_unsigned` (`Sign`, `SignBundle`, `RefuseBundle`): analyses again, compares with the
  engine's summary as multisets, derives the required signatures, compares, signs.

**Pipeline** (`SpendPipeline`). `Ask`, `Build`, then the gate, then `SubmitAccepted`,
`SubmitRejected` or `SubmitLost` (a transport error: the network may have the bundle or
not), `Confirm` (a block), `Sync`. After a lost answer the caller may submit again, give up,
or have the request built again from the coins it last heard of. Retries are the caller's
policy; the code has none.

*External.* `SpendInputs`, the mempool and blocks (`Consistent` says what the network asks of
a bundle apart from its inputs' presence), the caller.

Properties, each stated on the coin spends as the network sees them, never on the ledger:

- `NothingUnseen`: the summary that is signed, and the screen before it, name every coin
  that leaves, everything committed to a settlement or launcher, every singleton melted and
  NFT moved, no more and no less. An option is known by its new owner, whose key the screen names, so one
  moved to the wallet itself is named as well. The key-free screen may list change on top.
- `ConservesValue`: what a signed bundle leaves to the network is the named fee.
- `SettlementTied`: no part of the signed legs that pays a settlement is valid on its own
  without a leg that asserts an announcement. Bundles where a concurrent puzzle hash belongs
  to two coins are left out: the code follows it to both, on chain one is enough. So are
  bundles that spend a coin twice, which no block takes.
- `EngineBuiltSigns`: every spend the builders hand out is signed, but for four kinds that
  never are: an option minted or exercised (`account_coin` has no handler), a payment to the
  wallet's own address (the builder lists it, the gate counts it as change), a coin or change
  under a key beyond the signer's address gap, and inputs whose sum is no u64.
- `SignedIsValid`: a signed bundle creates no coin twice, meets its assertions and pays what
  it reserves.
- `PaidAtMostOnce`: of all bundles built for one request over the coins of one
  synchronisation, blocks take at most one. It rests on selection being deterministic. A
  `SpendInputs` that hid coins in flight would select others, and the property would fail.
- `SelectionSound`: selection, consolidation and the staggered split against a search over
  all choices.

What the gate refuses though it is no fraud: a DID launch or transfer, an NFT metadata
update. NFT and DID spends come from the builders without a summary.
`RESERVE_FEE` inside a CAT's inner puzzle is not added to the fee; the network would ask for
it, so such a bundle signed is one no block takes, not one that loses value.

## Wallet records

The hint index and the asset tables live under the store's mutex, one step per call.
`SyncSpends` takes a peer's answer; `TakeSpend` indexes one spend's hints and hydrates it;
`Absorb` writes one record. A rollback or a coin update may fall between any two. The
rollback withdraws the hints of the coins it forgets (`Forgotten`) and leaves the asset
tables alone, as the code does. An asset row is overwritten by the next: a CAT row holds the
sum of the children of the last spend. `types/value.rs:51` calls it the spendable balance;
nothing in the repository reads it, so no property says what it should be.

`FoundAsAnnounced` relates the two directions of the index to each other, to the coin table
and to `told`, a history variable: the hints said of a coin since the store last forgot it.

*Abstracted*: an NFT is its launcher and one URI; which memos count as hints is left to the
answer's `hinted`. *External*: recognising a child in a spend (CLVM and its drivers).

## Registries

`NetworkBook` has a lock per field. `target_peer` gives the peers' lock back before it takes
the target's (`LookUpTarget`, `WriteTarget`); `set_network` takes three in turn (`SetNetwork`,
then `WriteField` for each). Threads interleave between them. The other registries take one
lock per call.

`PeersOnNetwork`: with no call under way, every listed peer was added under the network in force.

`TargetStillKnown`: with no call under way, the target is a listed peer. `target()` promises a
peer "still known" (`actions.rs:272`) and returns what is stored, unfiltered. It fails:

| Run | Instance | Shows |
|---|---|---|
| `NetworkBook` | 2 threads, 2 peers, 2 networks | `TargetStillKnown` violated: `remove_peer` between the two locks of `target_peer` |

What is left of it is `TargetKnownUnlessOvertaken`: an unlisted target is one whose peer was
dropped while a `target_peer` for it was between its locks; no other overlap of the four calls
leaves one. `overtaken` has just those peers, and a peer that is added again is no longer
among them. *History variables*: `joined`, `overtaken`; they guard nothing.

## The Wallet run

| Run | Instance | Shows |
|---|---|---|
| `Wallet` | see below | `TypeOK`, `NothingUnseen`, `ConservesValue`, `SettlementTied`, `EngineBuiltSigns`, `SignedIsValid`, `PaidAtMostOnce`, `SelectionSound`, `FoundAsAnnounced`, `PeersOnNetwork`, `TargetKnownUnlessOvertaken`, `UpgradedOnce`, `KeptApart`, `FreshKept`, `NeverTwice`, `NeverLate`, `Reclaimed` |

One instance of eight independent parts; `part` picks one at the start and the rest stands
still, so the state count is the sum and not the product.

- `flow`: the pipeline, for every request of `MCSpends` over four wallets: `small` (ties, two
  CAT coins, an option), `large` (one coin pays, a coin beyond the signer's gap), `beyond`
  (change to such a key), `rich` (9 + 9 is no u64 when `Max64` is 15). `CoinCap` is 2, so some
  requests need a consolidation first. `MaxSubmits` 2 and `MaxRounds` 2: a lost answer and a
  repetition, then a second request against what the first left behind.
- `gate`: some 1600 bundles the gate may be handed: 17 genuine ones, and each of them with one
  place changed, in its spends (under the old summary or the true one for the changed spends)
  or in its summary. Every condition of a handler is broken by some of them.
- `select`: up to 4 coins of 1, 2, 4 or 7, every target, caps 0 to 3.
- `records`: 2 coins, 2 hints, 2 heights, answers of up to 2 spends, one of them with a
  puzzle that does not run. Two hints let a query for several differ from a query for one.
- `book`: 2 threads, 2 peers, 2 networks. `tables`: 2 kinds, ids and labels.
- `schema`: 2 openers, up to 3 migrations, 3 processes of any builds, so that an older build can
  follow a newer one and a third repair what the first left.
- `offers`: 2 clients, 2 ids a life, TTL 2, clock up to 2, 1 restart. The clients are symmetric,
  and no other part knows of them.

No fairness: all are invariants. Deadlock is not checked, since the caller stops at its bounds.

## What is proved

`EventBus_proofs`, for any sets of publishers and subscribers, any capacities, any number
of cursors and restarts:

- `TypeCorrect`: `TypeOK`, with the fact that a publisher under way holds an event.
- `RingIsBounded`: needs `HistoryCapacity > 0`; a ring of capacity 0 grows without bound.
- `CursorsAreUnique`: inductive invariant `CursorInv`: every cursor in use lies below the
  counter, and no two in use are equal.
- `SentIsRecorded`, `ViewsAreFiltered`: inductive invariant `RecordInv`, which relates
  ring, channel and views to what was recorded.
- `DurableGrows`: an action property, no step removes or changes a row of the durable log.
- `SoloCatchUpIsOrdered`: with one publisher, the ring's cursors increase and lie below the
  cursor under way.

For one process life, as `EventBusRestart` shows to be necessary:

- `DurableRetainsUntilRestart`: `DurableRetainsAll`, for any publishers. Inductive
  invariant `RetainInv`: no row has a cursor that is still to be given out or to be appended, so
  no insert meets a row with its cursor.

and with one publisher besides (`EventBusOrder`):

- `SoloGapFree`: `GapFree`, where storage is reliable for whoever catches up from the durable
  log. Inductive invariants `Line`, which puts channel, durable log and the publication under way
  on one line of cursors, and `Closed`: below whatever it was handed a subscriber lacks nothing
  it asked for but what the ring had dropped, nor, while it is live, of what its receiver passed.
- `SoloFirstSeenInOrder`: new events come in cursor order. It needs a ring longer than
  the channel's buffer, which `EventSink::new` gives it for every buffer below 4096 (`events.rs:60`).
  A ring of just the buffer's size is one event too small: between the push and the send of an
  event a catch-up misses the oldest event of the buffer, which the receiver then delivers
  late. `RingIsTail` says the ring is the end of the line, `AgedOut` that what left it stays out.
- `SoloImplementsEventStream`: the initial states and each step map to those of `EventStream`.
  It is about the subscribers that catch up from the durable log, on a reliable disk. Inductive
  invariants `NumberedLog`: the rows are the numbered events without a gap, and `Prefixed`: a view
  is the filtered part of the log up to some number.

`WalletSync_proofs`, for any coins and heights:

- `TypeCorrect`: `TypeOK`, for any number of tasks.
- `InboundAnnouncedOnce`: `ReceivedOnce`, for any number of tasks. Inductive invariant
  `Counted`: the announcements of a coin that were made and those that tasks still have queued are
  together at most the times it was rolled back, and one more if the store holds it.
- `SoloSyncedAtTarget`, for one task. Inductive invariant `Reporting`: between calls the
  status is told as recorded; within one, the lifecycle and height about to be recorded belong
  together.
- `SoloStoreOnChain`, for one task. `StoreOnChain` only speaks of moments when no call runs and
  every reorganisation was handled. Inductive invariant `OnChain`: every record held, and every
  record of an answer under way, is `Explained`: what no pending rollback can take from it
  (heights that are `Lasting`) is on the chain. With two tasks an answer outlives the rollback that
  would have corrected it (`WalletSyncStale`).
- `SoloPeakOnChain`, for one task. Inductive invariant `PeakSeen`: with no reorganisation pending, the
  peak and every height of an answer under way are at most the tip (`OnTip`); the chain's records
  and its last fork are, too (`ChainEnds`).
- `SoloEventsMatchStore` and `SoloBookedOnce`, for one task. Inductive invariant
  `Informed`: each coin is told as it is in the store, unless the task still owes the
  stream a word about it (it is in the list of affected coins, or its events are queued);
  and what is queued is the truth, after at most one `Funds` event warranted by what was
  told before. `EventsMatchStore` alone is not inductive: it says nothing while a call runs.

`DurableStore_proofs`, for any coins, heights and number of faults: every property of the
run, so the run's bounds do not limit what it shows.

- `TypeCorrect`: `TypeOK`.
- `PeakNeverFallsEarly`, `Implementation`: inductive invariant `Staged`, which says at each
  statement how the tables differ from what they were when the call began. The properties
  alone say nothing of a call halfway.
- `RetriesComplete`: with it `Torn`: rolling back what a broken rollback left gives what
  rolling back the original tables gives, whichever statement it broke off at. It rests on
  three lemmas about tables: `SweptRollsBack`, `UnspendingRollsBack`, `RolledBackAgain`.
- `SchemaIsSound`, for any openers, any number of migrations and processes: `UpgradedOnce`.
  Inductive invariant `SchemaInv`: whatever migration a connection at work has passed over or
  run is there, and a connection that works alone is at the migration after the file's.

`OfferBuilds_proofs`, for any clients, any TTL above 0, any number of builds and restarts:
again every property of the run.

- `IdsStandForOneBuild`, `FreshBuildsAreKept`, `BuildsAreSingleUse`: inductive invariant
  `MintedOnce`: ids in use lie below the counter, and an id minted and not yet parked is
  nobody else's. Without it parking could overwrite another build.
- `NothingLate`, `AbandonedAreReclaimed`, `TypeCorrect`: inductive with `TypeOK`. They need
  the assumption that the TTL is above 0.

`SpendGate_proofs`, for any set of bundles the gate may be handed, of any length, any keys and
any `Max64`. The set is a parameter, `GateSpec(Inputs)`; the assumption is that each bundle is a
sequence of spends.

- `GateTypeCorrect`: the ledger's totals stay u64 and the analysis stays within the bundle.
- `GateSignsCommitted`: `SignsOnlyCommitted`: in a signed bundle every puzzle is the one its
  coin commits to, every spend that asks for a signature has its conditions quoted in the
  signed puzzle, and every key asked for is the signer's. Inductive invariant `GateInv`:
  what lies before `pos` was admitted by a handler, and a signed bundle was looked at to the
  end. The property alone says nothing of an analysis halfway.
- `GateConservesValue`, `GateNothingUnseen`, `GateSettlementTied`: `ConservesValue`,
  `NothingUnseen`, `SettlementTied`. They assume besides that the spends are well formed (`Sound`):
  amounts are naturals and exactly CAT coins have an asset id. Inductive
  invariant `BooksInv`: the ledger is at every moment what the spends before `pos` come to, asset by
  asset and entry by entry (`Tallied`: `Balances`, `Records`, `Ties`); a screen shows what the
  whole bundle comes to (`Screened`), and so does a signature (`SignedTells`).

  The ledger is built up spend by spend and the properties sum over the bundle at once, so the proof
  takes three kinds of lemmas: what the recursive functions of `Spends` (`Total`, `Picked`,
  `Where`) come to for a sequence and one more element; what each handler adds to the ledger; and
  counting, that two sequences with the same occurrences are one bag. Induction over
  the length of a sequence is by the least element of the set of lengths that fail, as no
  theorem with an operator parameter can be used. For `SettlementTied`, `ReachedWithin` says that
  what the code reaches along the concurrency ring stays within any set of legs closed under it,
  so that the announcing spend it found is one of them.

`SpendPipeline_proofs`, for any requests, any coins on chain, any keys, any `Max64`, any cap on the
coins of a spend, any number of submissions and rounds. The requests and the coins are
parameters, `FlowSpec(asked, coins, change)`. The assumptions: a request's amounts, fees and
strikes are naturals and its CATs have asset ids; an offer that is taken or cancelled spends no coin
twice and requests no CAT in the amount of 0; an option's coin pays its owner's singleton
(`RequestOK`); the chain starts with finitely many coins none of which descends from another (`ChainOK`:
an ancestor was spent). TLC evaluates both for the run's instance (`InstanceOK` of `MCSpends`).

- `FlowTypeCorrect`: the gate's and the pipeline's types.
- `FlowConservesValue`, `FlowNothingUnseen`, `FlowSettlementTied`: what the gate promises of
  well-formed bundles holds of all the pipeline hands it. Inductive invariant `FlowSound`: the
  wallet is made of coins the chain has, and a bundle at the gate is one a builder handed out;
  `BuiltProposed`, with one lemma per builder, says that such a bundle is well formed.
- `FlowPaidAtMostOnce`: `PaidAtMostOnce`. Builders are functions of the request and the wallet
  (`BuiltOnlyOne`; selection breaks ties by one order), and the wallet changes only when a request is
  over, so all bundles of an open request spend the same coins. Inductive invariant `OnceInv`:
  no unspent coin descends from another one (`Antichain`), so a coin that a block spent never comes
  back, and once a bundle of the request was confirmed its coins are gone for good (`Dead`).
- `FlowSelectionSound`: `SelectionSound`, of every wallet the pipeline comes to. The first coins of the
  order are worth as much as any choice of equally many (`SelectionLeads`), which makes the shortest
  sufficient prefix the shortest sufficient choice. A split exists exactly when the coin is worth
  the least sum of that many different amounts, by the arithmetic of `StaggeredAmounts`.
- `FlowSignedIsValid`: `SignedIsValid`. A bundle *agrees* with itself when its coins differ, it
  asserts nothing but the spends of coins of its own, no spend creates a coin twice, and what its
  spends reserve is the named fee (`Fair`, `Agrees`); one lemma per builder proves it. Creating no
  coin twice has two reasons in the code, and so in the proof: with several payments the builder
  checks its outputs (`ensure_distinct_created_coins`); with one, payment and change could only be
  the same if the payee were the wallet's own change address, and then the gate would have found no
  output to leave, against the summary's one (`OnePayment`). That the sums suffice comes from
  `ConservesValue`. Inductive invariant `ValidInv`, which adds `PlainWallet` to the ones above:
  the wallet's CAT coins differ from each other and from its XCH coins. No bundle that mints or
  exercises an option is signed (`MintRefused`, `ExerciseRefused`).

`WalletRecords_proofs`, for any coins, hints, heights and answers:

- `HintsFindAnnounced`: `FoundAsAnnounced`. Inductive invariant `RecordsInv`: each direction
  of the index is, bucket by bucket, what `told` says, and no bucket is empty. That a pass
  and a rollback keep it rests on lemmas about `Indexed` and `Forgotten`, one per direction.
- `BookPeersOnNetwork`, `BookTargetKnown`, for any threads, peers and networks: `PeersOnNetwork`,
  `TargetKnownUnlessOvertaken`. Inductive invariant `BookInv`, about calls halfway: a peer of
  another network is listed only while some `set_network` has still to clear the peers; a target
  not listed is one that some call has still to reset, or was overtaken; and so was a
  `target_peer` call whose peer is listed no more.
- `SoloTargetStillKnown`: with one thread, `TargetStillKnown`.

Model-checked only:

- The liveness properties `Delivered` and `Converges`: fairness and ENABLED are out of reach.
- `EngineBuiltSigns`. That the gate refuses nothing else asks, builder by builder, that every condition
  of a handler and every comparison comes out true; what is proved of the builders (`Proper`, `Agrees`)
  says what their bundles cannot do, and is too little for that.
- `TypeOK` of `MCWallet`, which joins the types of its parts. The pipeline's and the gate's are
  theorems (`FlowTypeCorrect`, `GateTypeCorrect`), the schema's is part of `SchemaInv`; of the records
  and the registries the inductive invariants hold what the proofs above need and no more.

## What the models disagree with

Each is a run that must fail; the trace TLC prints is the scenario.

- `EventBusOrder`: two publishers push out of cursor order, so `catch_up` is not
  "in cursor order" (`events.rs:171`, `events.rs:176`). A subscriber that stops at the
  higher cursor never asks for the lower one again.
- `EventBusRestart`: the counter starts at 1 again (`events.rs:92`) over a log that has
  those cursors; `ON CONFLICT DO NOTHING` drops the new events and returns `Ok`, against
  "retains EVERY appended event across restarts" (`persist.rs:657`).
- `WalletSyncStale`: an answer fetched before a reorganisation is ingested after
  `handle_reorg`; the forgotten coin is back, and no later sync removes it.
- `WalletSyncPeak`: a point read of one coin raises `peak_height` past blocks nobody read,
  against "The height the wallet has processed up to" (`state.rs:87`).
- `DurableCrash`: one error or crash inside `rollback_to` leaves some coins rolled back and
  the peak where it was (`persist.rs:308`), against "WAL journaling gives crash-safe atomic
  writes + rollback" (`persist.rs:25`). `RetriesComplete` says repeating the call repairs
  the tables; the coins the first attempt deleted are reported by neither.
- `NetworkBook`: a peer removed between the two locks of `target_peer` (`actions.rs:260`) becomes
  the target, against "The preferred peer, if one is set and still known" (`actions.rs:272`) and
  "a preference must not survive the peer it points at" (`actions.rs:430`). `remove_peer`, called
  again, does not clear it: the peer is not listed.

## Not modelled

`PROJECT.json` lists every component with its status. Left out for good: HD derivation,
identity, the IPC client (SPEC.md section 6: no live implementation), the signer seam trait,
the value types, sealing and opening of messages in the signer. The CLVM with its singleton,
DID, NFT and offer drivers, BLS, SQLite's inside and Tokio's inside are external.

The map covers about three fifths of the code under `src/`, without tests, comments and blank
lines. What is left is mostly type declarations and their serialisation, conversions to and from
the external crates, SQL reads, error texts and constructors; no state changes there but in the parts below.

Smaller parts of modelled components:

- `SqliteWalletStore`: asset tables and history, one statement a call.
- `SyncEngine`: the three calls that only publish, the order of dial candidates.
- Balance and history reads; the receive lines of a summary (declared by the engine, verified
  by nobody); all formatting.

## Plan

In this order, most important behaviour first:

1. `EventStream`, `EventBus` and their theorems. *Done.*
2. `WalletStore`, `WalletSync` and their theorems. *Done for coins and sync status.*
3. `CoinStore`, `DurableStore` and their theorems. *Done for coins and sync status.*
4. `OfferBuilds` and its theorems. *Done.*
5. `Registries` and its theorems. *Done.*
6. `Spends`, `SpendBuild`, `AssetBuild`, `SpendGate`, `SpendPipeline`: selection, builders, the
   gate, the broadcaster. *Done; proved for the gate: admission, conservation, nothing unseen,
   settlements tied; for the pipeline those, payment at most once, selection, validity.*
7. `WalletRecords` and its theorem. *Done.*
8. `DurableSchema` and its theorem. *Done.*
9. Open: the asset tables in `DurableStore`; `EngineBuiltSigns` as a theorem.

Abstract specifications: `EventStream`, `CoinStore`, both implemented by their detailed modules.

## Running it

`tlasany M.tla` parses, `tlc -workers 2 -config R.cfg M` runs a configuration (run `R` of
`PROJECT.json` names its module), `tlapm M_proofs.tla` checks the proofs. Deadlock is
checked only for `DurableStore`: every other instance stops once its bounds
are used up, and `DurableCrash` asks one question of an invariant.
