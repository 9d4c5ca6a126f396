# Verification of the Solana arbitrage bot

TLA+ modules for the bot in `src/bin/arb`, the TLC configurations that check
them on small instances, and TLAPS proofs of what matters most for every
instance. Paths below are relative to `src/bin/arb/src/` unless they begin with
`src/`.

- [1. The system](#1-the-system)
- [2. Modules](#2-modules)
- [3. Runs and bounds](#3-runs-and-bounds)
- [4. Fairness](#4-fairness)
- [5. Proofs](#5-proofs)
- [6. Where code and comments disagree](#6-where-code-and-comments-disagree)
- [7. What is not modelled](#7-what-is-not-modelled)
- [8. Plan](#8-plan)

## 1. The system

The bot follows swaps on seven decentralised exchanges (DEXes), looks for a
two-hop cycle through the pool that was swapped in, and sends a bundle with the
cycle to Jito when it pays. One process, a tokio runtime and a rayon pool:

```
 dex json ─► init_program: snapshot (RPC) ─► caches, relations, graph, wallet, executor
                                   │
 gRPC node ─► subscriber ─(unbounded channel)─► processors ─(bounded channel)─► Arbs
                                                  │ update_cache        │ balance changes
                                                  ▼                     ▼
                                           dynamic cache ──quotes──► two-hop search (rayon)
                                                                        │ best path
 refreshers: wallet map (60 s), blockhash, Jito tips ──────────────► bundle ─► regions ─► chain
```

| Component | State | Operations | Interacts by |
|---|---|---|---|
| start (`arb_bot.rs`, `dex_data.rs`) | dex json, about a dozen `OnceCell`s | load json, slice rules, snapshot, caches, metadata, relations, graph, executor, tasks | sets the cells every later task unwraps |
| snapshot loaders (`dex/snapshot.rs`, `dex/*/snapshot_loader.rs`) | dex json, accounts found | RPC calls, removal of unusable pools | fill the cache |
| subscriber (`grpc_subscribe.rs`, `dex/subscriber.rs`) | stream, set of subscribed accounts | connect, forward, end | unbounded channel |
| processors (`grpc_processor.rs`) | message held, retries left | receive, update the cache, send, evict the oldest, retry | both channels, dynamic cache |
| account relations (`dex/account_relation.rs`, `dex/*/relation.rs`) | account → pool, DEX → array type | build, classify an account | read by processors and Arbs |
| slicing (`dex/data_slice.rs`, `dex/*/data_slice.rs`) | byte intervals per type | slice an account | writers of the cache |
| global cache (`dex/global_cache.rs`) | static and dynamic accounts, lookup tables | get, insert | shared by all |
| Arbs (`arb.rs`, `BalanceChangeInfo` of `grpc_processor.rs`) | transaction in work | collect balance changes, search, execute | bounded channel |
| two-hop search (`graph/two_hop.rs`, `graph/hop_path.rs`) | graph of paths | quote candidates, choose the best | reads the cache while it changes |
| quoters (`dex/*/quote.rs` and below) | none | amount out of a swap | read the cache, account by account |
| bundle and executor (`executor/jito/mod.rs`, `jupiter/mod.rs`) | tip, url counter | price, build, sign, post to all regions | wallet map, blockhash, tip, network |
| wallet metadata (`metadata.rs`) | wallet map, blockhash, key | refresh | RPC |

What is hard here, and what would make each part correct:

- **Queues.** The bounded channel drops its oldest transaction to make room;
  several processors and Arbs do so at once. No transaction may be in two places
  or vanish unexplained; the retry loop must end; the end of the stream must end
  every task.
- **Cache and trigger.** Updates and transactions reach an Arb by different
  ways. An Arb must not search over data older than its trigger, and cached data
  must not move backwards.
- **Meaning of messages.** Updates are classified by a map and else by their
  owner; balance lists are matched by position. Every account a quote reads must
  be in the layout it is read in and kept fresh if it is subscribed to, and
  changes must be those of the transaction.
- **Search over moving data.** Hops are quoted at different moments. The route
  returned must be a best one for data the pools had during the search.
- **Money.** Tip, wallet map, blockhash and amounts are read at different
  moments, while other Arbs spend from the same wallet. A bundle that lands must
  not lose money; a bundle sent must have its token accounts, and its amount must
  stay within the share of the wallet that was checked.
- **Partial failure.** RPC calls fail, accounts are missing, regions answer late
  or with errors. A pool is removed exactly when it cannot be used, no cell is
  read before it is set, an acceptance is not reported as a refusal.

`PROJECT.json` lists every component, and every hazard with the line where it
bites and the properties that cover it.

## 2. Modules

| Module | Models | Proofs |
|---|---|---|
| `LossyFeed` | what the pipeline promises to Arbs (abstract) | |
| `Pipeline` | subscriber, processors, Arbs' queues, supervision | `PipelineProofs` |
| `AccountFeed` | relations, classification, slicing, cache, balance changes, trigger | `AccountFeedProofs` |
| `Routes` | edges, paths, profit (no state) | |
| `BestRoute` | what a search promises (abstract) | |
| `TwoHop` | `trigger_quote` / `find_best_hop_path` / `normal_quote` quote by quote | `TwoHopProofs` |
| `Bundle` | refreshers, `create_jito_bundle`, `execute`, regions, the chain | `BundleProofs` |
| `Startup` | `init_program`, the seven loaders, first transaction | `StartupProofs` |
| `ConstantProduct` | quotes of Raydium AMM and CPMM and PumpFun (no state) | |
| `PoolQuote` | the hops of a path quoted account by account | `PoolQuoteProofs` |
| `FixedPoint` | widths and roundings of the fixed point numbers (no state) | |
| `TickBitmap`, `ClmmSwap` | Raydium CLMM: search for initialized tick arrays, swap step, swap loop (no state) | |
| `WhirlpoolSwap` | Orca: tick sequence, swap step, adaptive fee, swap loop (no state) | |
| `MeteoraFees`, `BinSwap`, `DammSwap` | Meteora: fees of both programs; DLMM's bitmaps, bins and walk; DAMM v2's curve (no state) | |
| `PoolsOnChain` | pools of these four DEXes on chain, their accounts, and what a swap of them gives (abstract) | |
| `ConcentratedQuote` | a quote of one of the four: reads, walk, and the accounts listed for the swap | `SearchProofs`, `ConcentratedQuoteProofs` |
| `MC*` | values of the constants for TLC | |

`Pipeline` is refined against `LossyFeed` and `TwoHop` against `BestRoute`;
`TwoHop` and `BestRoute` extend `Routes`. The modules share no variables: each
takes from its neighbours what they promise. `Pipeline` keeps of a message only
its position on the stream; `AccountFeed` handles one message after the other,
since their order is `Pipeline`'s subject; `TwoHop` begins with the pool
`AccountFeed` triggers; `Bundle` begins with the route `TwoHop` returns.

**Pipeline.** A message is its position on the stream, which is also the version
of the data an update carries. A processor's receive, cache insert, first
`try_send`, each evicting `try_recv` and each retried `try_send` are actions of
their own, because other tasks can act between them. `retryCount` is
`retry_count`; when it is used up the loop goes on without a way out (`Spin`,
`grpc_processor.rs:84-108`). `SubscriberEnd` drops the sender, after which
processors and then Arbs see their channels disconnected, and `Exit` is the join
of all tasks. A message with a missing part makes the code unwrap a `None`; with
`panic = "abort"` that ends the process (`status = "aborted"`). Processors hold
receivers of the bounded channel themselves, so its `Disconnected` on sending
(`grpc_processor.rs:100`) cannot happen while they run; the model has no such
step.

**AccountFeed.** Accounts are pairs of a role and a pool, plus the clock. The
chain's version of an account goes up with each write, and the cached entry
records version and layout. An entry of the json may name the vault of another
pool; the properties about quotes are of entries that name their own
(`Truthful`). `QuoteReads` lists for each DEX what its quoter gets from the
dynamic cache. `SliceEnds` has for each type a slicer accepts the end of the last
interval it copies and `Sizes` how long the accounts are (`dex/*/old_state`):
`retain_intervals_unsafe` skips an interval that ends beyond the account and
leaves the end of the slice uninitialised, which an entry records as not `whole`.
Such entries there are: the fee configuration of a CLMM pool, if it is listed, is
sliced by its owner as a tick array of 9 992 bytes. No quote reads it.

What the DEXes list for the subscription is withheld at this commit
(`get_subscription_accounts` returns `None`). `RoleLists` holds what one may
list of an entry (its pool, vaults, configuration, extension or oracle, arrays,
and the clock), each entry takes any of these lists, and together they are
`subscribed` (`GRPC_SUBSCRIBED_ACCOUNTS`). An update of another account ends at
the filter of `grpc_subscribe.rs:58` (`Forwarded`), so the cache keeps the
snapshot's version of it for ever; the same set filters the transactions. A
subscriber also names the owners the node filters by; the model takes them to
let through what is listed, and vaults to belong to the classic token program,
the only one the vault filter asks for (`dex/subscriber.rs:137`). A write and
the handling of its update are one step, `Pipeline` being about the delay.
Amounts are numbers of which those in one `Grain` share their f64 `ui_amount`.

**Routes, TwoHop.** A quote is a constant operator of the pool's cached data, the
direction and the amount. The paths that start in the triggering pool share one
quote of their first hop; the others are quoted hop by hop, in any order, since
rayon runs them. `window` is the history of the data each pool had since the
search began, and is what the properties and `BestRoute` compare with. Which of
two equal profits `max_by_key` returns depends on the rayon split, so any may.
`build_graph` and `EdgeIdentifier::new` are withheld; the graph is modelled from
how the search uses it and from `Path::new`.

**Bundle.** Each value an Arb reads (wallet map, tip, quoted output and
instructions, blockhash) is read in an action of its own. `Land` is the external
chain: the swap program refuses less than the quoted output, the runtime refuses
an expired blockhash, missing accounts and insufficient balances, and a bundle
lands as a whole. Token accounts are created and never closed, since nothing in the
repository closes one: the wallet map is stale in that direction only. A bundle
that cannot be built, compiled or signed is reported as failed. Amounts are
lamports, because the mint traded is wrapped SOL, the default.

**Startup.** The table of `Calls` is the loaders': what each RPC call asks for
and what a missing account does. The later steps are reads and sets of cells.
`InitFails` and `RpcPanic` are the `?` and `unwrap`s.

**ConstantProduct, PoolQuote.** A pool is two sides, each with a vault and what
the pool owes out of it. The quotes are operators on integers: the pnl
subtraction of Raydium AMM wraps at `U64`, the one of the CPMM and a division by
zero panic (`Abort`), which ends the process. u128 is not bounded, because its
operands are below `U64` and the fees subtracted are within the amounts, which
`PoolQuoteProofs` proves (`CeilDivWithin`, `TradingFeeWithin`, `PumpFeesWithin`).
`CheckedCeilDiv` follows `dex/utils.rs:14-41`: for a quotient of zero it rounds to
the nearest, not up, although its comment says ceiling; the proofs show that this
costs no product. `PoolQuote` gives each `get_account_data` of a quote an action
of its own and each account of a pool its own update, so that a quote may be torn
(`~Untorn`): read from no state the pool had on chain. PumpFun has all it needs of
its pool account in the static data and reads the two vaults only.

**FixedPoint to ConcentratedQuote.** The walks of the four DEXes whose liquidity
lies between ticks or in bins. `TickBitmap` is the search for the next
initialized array in the bitmap of the pool and those of its extension;
`ClmmSwap`, `WhirlpoolSwap` and `BinSwap` have the arithmetic of one step and one
iteration of the loop as operators on a record `walk`; `DammSwap` has one step
only. The bitmap is a set of positions, the square root prices are a table
(`SqrtPrice`), the two widths `U64` and `Q64` are constants of their own, so that
amounts and prices stay small. What the code answers with `None` or an error is
`none`; an `unwrap` or an index out of range is `panic`, which ends the process.
`ConcentratedQuote` reads pool, extension, arrays and oracle in actions of their
own, walks what it read, and then lists the accounts of the swap from the cache
again, as `convert_to_instruction_material` does. Raydium's and DLMM's arrays are
listed in the order they are found; Orca's converter takes its three keys off the
end of the list (`orca_whirlpools/instruction.rs:67-94`), so they are listed
farthest first. In which order the Orca program accepts them is not in the
repository, so no claim is made of it. Between any two reads the pool
may move on chain (`Follows`: liquidity is added or removed or a swap moves price
and tick) and accounts are updated one by one.

`PoolsOnChain` is the specification of it: a pool is its positions or its bins,
`Accounts` are the accounts a program keeps of it, and `Takes` is what a swap of
that state gives, defined on positions and bins without arrays, bitmaps or
sequences (`QuoteIsTheSwap` compares the two). It shares the fee formulas and the
arithmetic of a single stretch with the quoters: a change of a formula both use
is not told apart by that comparison. Those of DAMM v2 and of the bins are judged
by what a swap may give at most, `Keeps` and `AtItsPrice`, instead.

`PROJECT.json` maps every definition to the lines it stands for.

## 3. Runs and bounds

| Run | Shows | Bounds |
|---|---|---|
| `pipeline_single` | with one processor (the default): types, the retry finds room, an Arb's cache reflects all that preceded its trigger, cached data moves forward, the pipeline implements `LossyFeed`, everything settles, the end of the stream stops the process | 2 Arbs, capacity 2, 2 accounts of which 1 is subscribed, 4 messages |
| `pipeline_double` | with two processors: no transaction is lost unexplained or duplicated, nothing is left at exit | capacity 1, 5 messages |
| `pipeline_retry_spin` | violation: with two processors the retry loop may never end | as above |
| `account_feed` | relations serve truthful pools whatever others claim; what quotes read is in its layout, and fresh if it is subscribed to; balance changes are the transaction's; the right pool is searched | 2 pools, 9 deployments (each DEX beside another, two DEXes beside themselves), all accounts of an entry subscribed to or the clock alone, 2 messages of any kind, transactions over 2 lists of 2 or 3 accounts and 5 kinds of balances |
| `search` | profits were real, the minimum profit is earned, the search implements `BestRoute` | 3 pools of one pair, one of them reversed, and one beside it; 3 values of data per pool, one cache write during a search |
| `bundle_money` | a landed bundle never makes the wallet poorer, bundles have their token accounts, the share of the wallet that was checked still covers the amount of every bundle on its way | wallets of 1, 2 or 4 tokens, one of them short of the share without its rent; 2 Arbs, 2 token accounts, 2 tips, 2 bundles, 1 failed call |
| `bundle_live` | acceptances are reported, Arbs return, wallet map and blockhash recover | 2 url groups of 2 and 1 regions, 3 bundles, 2 blocks, 2 failed calls |
| `wallet_amount` | violation: the cached wallet amount is lamports and includes the rent | as above |
| `startup` | kept pools are complete, removed ones missed something, cells are set before use, the start ends | 2 pools of any DEX, one configuration shared, any account missing, any call failing |
| `pool_quote` | quotes that are not torn keep the product of the reserves, panic only on an empty reserve, and give a profit only between different prices | 2 pools of any of 3 DEXes, u64 of 16 values, sides empty, indebted or rich, 2 amounts, 1 transaction that changes any of the accounts of a pool |
| `concentrated_quote` | a quote that is not torn is what a swap of the pool gives: no array, tick or bin is missed or taken twice; a panic needs a torn read or an emptied DAMM v2 pool; an adaptive fee is charged by tick group; the arrays listed for the swap are the ones it may use, in the order of each DEX, and those of the quote if it read the same state | 7 pools of the 4 DEXes, 5 to 9 states each, ticks -18 to 18 with spacing 2, bins -9 to 9, arrays of 2, bitmaps of 2 and 2 extensions on each side, a loop limit of 2, u64 of 48 values, prices scaled by 64 and linear in the tick, 4 amounts, 1 transaction |
| `startup_invalid_pool` | violation: two loaders keep pools whose account does not exist | as above |

Why the bounds are enough for what they are meant to show. *Pipeline*: a stream
of `Capacity + 2` transactions fills the channel while one is being sent and
another is behind it, so that eviction, retry and give-up all happen; a second
processor at capacity 1 makes every race for the room. *Account feed*: one pool
cannot disturb another with fewer than two; two messages make one follow the
other; three keys of two pools, and a list that begins with an account that is
no vault, are the least in which matching by position could pair strangers.
*Search*: three pools give a positive and a reverse candidate for every trigger,
and a reversed pool tells the directions apart; a write between any two quotes
is one write. *Bundle*: two bundles of two Arbs are the least that could
overdraw; two failures reach a second attempt. *Startup*: two pools of one DEX
share its configuration, two of different DEXes show that a loader leaves the
others alone. *Pool quote*: a torn read needs one transaction and two of its
updates; amounts up to 7 against a fee of an eighth or a quarter meet every case
of the rounding (quotient zero below and above one half, with and without
remainder), and a quote of the first hop may be 0. *Concentrated quote*: the
states have liquidity in one range, in islands with empty arrays between, in
more arrays than a quote reads, across the border between the pool's bitmap and
the extension, and up to the last array; amounts from 1 to 36 stay within a
tick, cross several and exhaust what there is; the oracle and the volatility of
a pool are at rest, within and after the filter period and ahead of the local
clock. A torn read needs one transaction. The tick group size divides the tick
spacing, as Orca's program, which is not in the repository, demands of a pool;
exponents have 4 bits, enough for every bin id and period of the states.

Deadlock is checked except where the system may really stop: `Startup` ends in
`failed`, and `AccountFeed` in a failed start or after the bounded number of
messages, `PoolQuote` and `ConcentratedQuote` follow one path or quote to its end
or to a panic. `Pipeline` has an explicit `Stopped` step for its end.

`bundle_money` uses symmetry of Arbs and `pool_quote` symmetry of pools; both
check safety only.

Each property has a mutant in `PROJECT.json`: a definition of the code changed the
way a plausible bug would change it, under which TLC finds the property violated.

## 4. Fairness

- `Pipeline`: weak fairness of each processor's and each Arb's steps: they are
  tasks of a multi-threaded runtime and never wait for anything but their
  channels; and of `Exit`, the main task's join. Nothing is assumed of the node:
  the stream may go silent.
- `TwoHop`: weak fairness of the search, a synchronous computation.
- `Bundle`: weak fairness of the two refreshers, which loop for ever and log
  errors, and of the Arb's own steps, the regions' answers included, because a
  request ends after 250 ms. Nothing is assumed of chain, prices or searches. The
  number of failed calls is bounded: after it the RPC node answers.
- `Startup`: weak fairness of the main task: its calls are answered or time out.

## 5. Proofs

Every theorem is for all values of the constants, from the assumptions named in
the modules.

| Theorem | Says | Argument |
|---|---|---|
| `PipelineProofs!TypeCorrect` | types; a processor holds a message exactly where the code has one | `TypeOK` is inductive |
| `RetryEnds` | one processor: a retry finds room | with the room left after an eviction (`RoomStays`) no one else can send |
| `FreshSearch`, `CacheMovesForward` | one processor: an Arb's cache is not older than its trigger; cached data moves forward | `OrderedInv = TypeOK ∧ OrderInv ∧ UpdatesInv`: positions only move on (queued > held > passed), and each update is queued, held or cached |
| `PipelineProofs!OnePlaceEach` | any number of processors: each transaction of the stream is in exactly one place | `PlaceInv`: the places, the two channels included, hold no transaction twice, are apart and cover the stream; each eviction, retry and give-up moves one transaction from one place to another (`AppendOnce`, `TailOnce`, `ConcatOnce`) |
| `PipelineProofs!ExitLeavesNothing` | with at least one Arb nothing is left in a channel or a task at exit | `EndInv`: tasks end in the order subscriber, processors, Arbs, and each only over the empty channel before it; without an Arb nobody would empty the bounded channel, hence the hypothesis |
| `PipelineProofs!PipelineIsAFeed` | with one processor and at least one Arb each step of the pipeline is a step of `LossyFeed` or a stutter (the safety part of `ImplementsFeed`) | what is in flight is the set of transactions that are queued, held or in the bounded channel; with `FeedInv = OrderedInv ∧ LineInv ∧ PlaceInv ∧ EndInv` (the bounded channel is in stream order, only accounts subscribed are on their way, each transaction is in one place) a receive by an Arb delivers it, an eviction and a give-up lose it, and every other step moves it within the set |
| `TwoHopProofs` (`SearchTypes`, `ProfitsReal`, `RoutesEarn`) | types; profits are of data the pools had; the minimum is earned | `SearchInv = TypeOK ∧ OutReal ∧ PhaseInv ∧ ProfitsWereReal`: the amount of each first hop was quoted on data of the window, and the window only grows |
| `TwoHopProofs!SearchesAreBest` | for finitely many pools each step of the search is a step of `BestRoute` or a stutter (the safety part of `ImplementsBestRoute`) | what the search has quoted are outcomes `BestRoute` allows (`SameOutcomes`, `SameCandidates`); a greatest profit among finitely many exists (`GreatestValue`, by a least counterexample), so `Finish` always has an answer, and it is one `Answer` of `BestRoute` may give |
| `BundleProofs` (`BundleTypes`, `AtasAlwaysReady`, `ShareKeepsCovering`, `WealthIsSafe`, `AcceptanceIsReported`) | types; token accounts are ready; the share checked still covers the amount of each bundle, for every share; wealth never falls; an acceptance is not reported as a refusal | `MoneyInv = TypeOK ∧ MapInv ∧ JobInv`: the map lists only accounts that exist and its amount is at most tokens plus rent; each job's quoted output covers amount, its own tip and fee, and tokens never fall, so the share of them keeps covering the amount. An Arb waits for regions only while it posts, so what it reports is settled by the answers it has |
| `StartupProofs` (`TypeCorrect`, `KeptPoolsAreComplete`, `RemovedForACause`, `CellsAreSet`) | types; kept pools are complete; pools are removed for a cause; cells before use | `LoadInv = TypeOK ∧ CachedInv ∧ HeldInv ∧ AskedInv`, `MarkedInv`, `CellsInv`: what a loader holds for an unmarked pool is what it asked for and wants |
| `AccountFeedProofs!VaultsAreFollowed`, `QuotesReadTheSubscribed` | vaults of truthful pools are followed; what quotes read is in its layout and whole, current if it is subscribed to and the snapshot's if it is not, for any lists | `FeedInv = JsonInv ∧ RelationInv ∧ CacheInv`: relations are exactly those of the json and unique, and any two reads of an account agree on its type; `Slices` and `ReadsAreWhole`: no slice a quote reads ends beyond its account |
| `AccountFeedProofs!TypesAreKept`, `ChangesAreRight`, `SearchesAreForTouchedPools` | types; balance changes are those of the transaction, also where accounts are opened or closed; with truthful entries a search starts for a touched pool and only for one | the two balance lists of a transaction are `InOrder`, each the list of indices of the accounts that have a balance: an index found in one is the account of the same index in the other, whatever the other leaves out |
| `PoolQuoteProofs` (`QuoteTypes`, `ProductNeverFalls`, `PanicsHaveACause`, `NoPhantoms`) | types; the product is kept; panics have a cause; profits need a price gap | `HopInv = TypeOK ∧ QuotedInv`: each hop was quoted with what it read and what the hop before returned. `SwappedPays` bounds one swap, `LegalGood` the quotes of the three DEXes, `GainNeedsGap` two of them |
| `ConcentratedQuoteProofs` (`CurveKeepsTheProduct`, `BinTradesAtItsPrice`, `DammQuotesKeepThePool`) | the curve of DAMM v2 keeps the product of what the pool holds; a bin takes no more than it is given, gives no more than it holds and never better than its price; no amount quoted for a DAMM v2 pool is more than a state it had allows | one inequality per rounding (`DownKeeps`, `UpKeeps`, `DownPrice`, `AllAtItsPrice`, `BoughtAtItsPrice`); `QuoteInv = Given ∧ StretchInv ∧ DammKeeps`: the pool account in the cache, and the one read, are those of a state of `past`, which only grows |
| `ConcentratedQuoteProofs!RatesAreByGroup` | every stretch of prices of a Whirlpool with an adaptive fee is charged at the rate of the tick group it lies in, also where a step skips groups, whatever tears the reads | `WhirlInv = CacheHolds ∧ HeldHolds ∧ WalkHolds`, see below |
| `SearchProofs!SwapArraysAreListed` | the arrays listed for a swap of any of the four DEXes are those a swap of the state listed from may use, each once and in the order of the DEX, and those the quote read if it read the same state | `ListInv ∧ ReadInv`: what is listed and what is read is what bitmaps or Orca's pool name; the code's search, bitmap after bitmap, names the least (greatest) array ahead that has liquidity, or none when there is none, see below |
| `ConcentratedQuoteProofs!BinQuotesAreTheSwap` | an amount quoted for a DLMM pool from reads that are not torn is what a swap of that state gives | `BinInv`: what the walk has still to give, from its bin on, plus what it gave is what the reference swap gives, see below |
| `ConcentratedQuoteProofs!QuotesKeepTheirTypes` | types of the quotes of all four DEXes, torn or not: a walk stays within ticks, prices and bins, takes no more than goes in, and the amount out fits a u64 | `WhirlInv`, `BinInv`, `TickInv` and `PlainInv`: every operator of a walk stays in its domain, see below for the walk of Raydium |
| `ConcentratedQuoteProofs!PoolsPanicOnlyIfEmpty` | quotes over Orca and DLMM pools never panic, those over DAMM v2 pools only over a pool read without liquidity | the walks of the same invariants end in an amount or in none, and the one assertion of DAMM v2 is about the liquidity |

Strengthenings are needed because the properties speak of a moment that comes
late: that a search sees an update says nothing of where the update was when it
was still queued, so `UpdatesInv` follows it from the stream to the cache; that a
kept pool is complete is decided when the snapshot ends, so `HeldInv` says what a
loader holds at each call.

`ChargedByGroup` is far from inductive. What a step charges depends on the group
the step before left, and that group was computed back from the tick the price
ended in, which lies on the edge of two groups when a step skips. `WalkHolds` has
what holds at each of the two places the loop may be at. Inside the inner loop
(`Ready`, `Placed`) the price lies within the bounds of the group and the tick
the walk is on its way to lies ahead of where the group begins, and is a multiple
of the spacing or the end of the arrays. Between two inner loops (`Faces`,
`Stands`) price and tick agree on the direction's side. The group size divides the
spacing, so an initialized tick is never inside a group. A skip is right because
the rate of all groups it crosses is the same: there is no liquidity or no
adaptive part, or the groups lie beyond those in which the volatility still grows
(`CoreRange`), where it is at its maximum. `CacheHolds` and `HeldHolds` follow
pool, arrays and oracle from the chain into the cache and the quote; they ask for
nothing that binds an array to a state of the pool, so the theorem covers torn
reads.

`ArraysAreListed` and `BinQuotesAreTheSwap` rest on the searches through the
bitmaps, which are recursive functions with as many calls as there are bitmaps.
The library's induction theorems cannot be instantiated here, so each induction is
by a least counterexample, and that a recursive function exists is proved before
its equation is used. A bitmap knows the nearest array on its side of where the
search begins; the next one is asked only when there is none, from its first or
last bit on, so the array found is the nearest of all (`SearchFinds`). Listing
then takes three in a row: each search begins right behind the array the one
before found (`Leads`, `LeadsInOrder`). What is listed is compared with each state
whose pool and extension accounts are the ones that were read for it, and with
what the quote read if it was of that state; a pool written between the two is
listed as it then is, and the code does not compare it with the quote. Orca's
arrays are compared with the current one and the next two, counted in ticks
(`RowIsUsable`); the code counts by the spacing and then by the size of an array
(`DividedTwice`).

For DLMM the walk is compared with the reference swap bin by bin: the arrays read
hold the bins of the pool (`CacheOfBins`, `HeldOfBins`), the search that leaves an
array finds the next one that has a bin, so no bin lies between, and each
iteration of the walk is one call of the reference's recursion on the bins ahead
(`WalkOfRead`). The search is of the bitmap read at the quote's begin, which a
read that is not torn has from the same state.

That the walk of a Raydium pool keeps its types is not local to a step either:
the price it reaches is the one of a tick it found in an array, and which array
that is comes from the searches. `TickInv` has, between two steps, the price at
the walk's tick (`AtItsTick`: not below the tick's price, not above the next
one's) and the array at or ahead of the walk (`InItsArray`); where no array is
left the walk ends. A step goes to the price of the next initialized tick or of
the limit, whichever comes first, and stops between (`ClmmStepIs`,
`StepTargetIs`); the array that the code's search names next lies beyond the one
it leaves (`NextArrayKeeps`, with the facts about searches of `SearchProofs`), so
the walk never turns back, and what it has left never grows (`WalksOn`). The
arrays may be of other states than the pool: nothing is asked of them but that
each is an array of some state.

What `ShareStillCovers` leaves open. The share is taken of lamports that count the
account's rent in, so a bundle may be built whose amount the tokens alone cannot
pay, if `AmountIn * (Denominator - Numerator) < Rent * Numerator`: for the default
70/100 and a rent of 2 039 280 lamports, below an `--arb-amount-in` of about
4 760 000. Nothing in the code excludes that; `bundle_money` has such a wallet (2
tokens, amount 3), and `Land` refuses its bundle. Nor does the code check that the
native balance pays tip, fee and the rent of new accounts. What each of these
costs is a bundle that does not land, never money (`WealthNeverFalls`).

Assumptions on constants. `FeeAssumption` has the fees of Raydium within the
whole amount and those of PumpFun within half of it: their programs allow far
less, and with more the quoter's unchecked u128 subtraction could wrap.
`RoutesAssumption` has the two mints of a pool differ. `StretchAssumption` has
the amounts, prices and fees of the DAMM v2 pools be numbers, `TermsAssumption`
the program of a pool be one of the four, `WidthAssumption`, `BitmapAssumption`,
`SwapAssumption` and `BinAssumption` the widths positive, the prices increasing
and the extension of DLMM wide enough for every array. `RaydiumAssumption` and
`BinPoolAssumption` have ticks and bins of a pool within the ones there are and
the ones the bitmaps reach, the numbers of bins, volatility and fees be numbers
of no negative sign, and transfer fees at most the whole. `ClmmAssumption` is
what Raydium's program, which is not in the repository, keeps of its pools: the
price is within its bounds and at the current tick, liquidity is no negative
number, and a fee rate is below the whole amount. `WhirlpoolAssumption` is what
Orca's program, which is not in the repository, keeps of its accounts: ticks are
initialized at multiples of the spacing, the price is within its bounds and at
the current tick, the tick group size divides the spacing, the oracle's
reference is a group of ticks and its volatility within the maximum, and a fee
rate is below the whole amount. `FeeRateAssumption` is about constants of the
code (`accounts/oracle.rs:11-24`, `swap.rs:15` of `dex/orca_whirlpools`): no
denominator is 0, and the hard limit of a rate, 10%, is below the whole amount.
`StartupAssumption` and `FeedAssumption` only keep values apart or give types.

Model-checked only:

- liveness (`StreamEndStops`, `EveryTransactionSettles`, `ArbReturns`,
  `WalletRecovers`, `HashCatchesUp`, `StartupEnds`), which the prover does not do,
  as it does not do `ENABLED`, and with it the fairness of `ImplementsBestRoute` and
  `ImplementsFeed`, whose steps `SearchesAreBest` and `PipelineIsAFeed` prove;
- `QuoteIsTheSwap` beyond the amounts of DLMM. A quote of `none` is not right for
  every constant: what overflows in the walk, or needs a power the table has not,
  makes it `none` where the reference swap, which is of unbounded numbers, gives
  an amount. TLC's instance keeps the numbers small enough for both. For Orca and
  Raydium the walk adds up the net liquidity of the ticks it crosses, where
  `Takes` sums over positions and folds over the ticks that it sorts first; that
  the two agree is an induction over sorted data that is not done;
- `PanicsOnlyIfTornOrEmpty` for Raydium CLMM: for some widths an amount out beyond
  u64 panics in an untorn quote as well.

No module uses a `RECURSIVE` operator.

## 6. Where code and comments disagree

1. `pipeline_retry_spin`: with `--processor-size` above 1 two processors can take
   the room each made from the other until one of them has used up its retries; its
   loop then has no exit (`grpc_processor.rs:84-108`) and the processor spins.
2. `wallet_amount`: what the wallet map calls the amount of the token account is
   the account's lamports, rent included (`metadata.rs`).
3. `startup_invalid_pool`: `arb_bot.rs:92` and `:164` promise that the snapshot
   removes invalid pools; the loaders of Raydium AMM and PumpFun drop the data
   but keep the entry.

All are quoted with their lines in `PROJECT.json`. The default of one processor
is free of the first, as the theorem `RetryEnds` proves; with more than one an Arb
may also search over data older than the transaction that triggered it, which
`FreshSearch` excludes for one.

Met while modelling, without a run of their own:

- The instruction builder of DAMM v2 names the account of token a as the input
  account of a swap in either direction
  (`dex/meteora_damm_v2/instruction.rs:29-50`).
- `collect_fee_mode` is 0, 1 or 2 in the comment of the pool (`both`, `a`, `b`) and
  has two values in the enum the quoter uses.
- DLMM's quoter gives no amount when an array between two others is missing from
  the cache, although liquidity lies beyond it.
- `update_references` of DAMM v2 changes a copy nobody charges from; all it can do
  to a quote is to fail for a pool that was written after the local clock.

## 7. What is not modelled

- `TwoHop` takes a quote as a constant operator of one state of its pool;
  `PoolQuote` and `ConcentratedQuote` show what a torn read within a quote adds: a
  wrong amount, a wrapped one or a panic. A torn quote is no quote of any state,
  and what `TwoHop` shows does not extend to it.
- Of the quotes: fees of Token-2022 mints that the CLMM quoter does not apply and
  DAMM v2's applies to the amount in only, so that both quote too much for such
  mints; the status of DLMM and DAMM v2 pools, which is sliced once or never read,
  so that a pool disabled later goes on being quoted; the wrap of squared
  volatilities in u128.
- The contents of slices: which interval becomes which field. The tests of the
  repository compare them with whole accounts; the static slices are cut once.
- What is withheld at this commit: the subscription lists, `build_graph`,
  `EdgeIdentifier::new`. They are modelled from their use.
- Instruction builders beyond the arrays they list, and Jupiter types (no state,
  partly generated), the key
  file's encryption, command line, logging, allocator: no behaviour the
  properties could tell apart.
- Fee configurations that change on chain (their readers use the static cache, so
  the bot keeps the old fees until it restarts), accounts that are closed, vaults
  of Token-2022 mints (the subscription filters do not deliver them).
- What a pool changes between the snapshot, read at finalized commitment, and the
  begin of the stream: `AccountFeed` starts the stream in the state the snapshot
  read, and what it shows of fresh reads is under that assumption.
- Reconnection: there is none; the end of the stream ends the bot, and that is
  modelled.

## 8. Plan

Done: `Pipeline`, `TwoHop`, `Bundle`, `Startup`, `AccountFeed`, with their
abstract specifications and proofs, those of the steps from `TwoHop` to
`BestRoute` and from `Pipeline` to `LossyFeed` included; the quoters in
`ConstantProduct` with `PoolQuote` and in the modules under `ConcentratedQuote`;
lengths of slices; adaptive fees by group for every pool; searches through the
bitmaps, and with them the arrays listed, the amounts of DLMM quotes and the
types of all quotes. What remains, in the order of importance:

1. `QuoteIsTheSwap` as a theorem for the two DEXes with ticks.
2. The price a Raydium or Orca step may give at most, as a theorem like
   `BinTradesAtItsPrice`.
3. A route over two concentrated pools, with both quotes torn.
