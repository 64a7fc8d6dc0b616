# Formal models of conflux-analytics

TLA+ models of the collection pipeline of this repository, the TLC runs that
model-check them on small instances, and proofs checked by TLAPS. The reference
is the source: every definition names, in `PROJECT.json` under `map`, the lines
it was translated from. Source paths below are relative to
`src/src/conflux_analytics/`.

## The system

`conflux-analytics` is a command line tool (`cli.py`) and a REST API
(`api/app.py`) around one SQLite file. The commands `discover`, `collect`,
`analyze` and `benchmark` are processes that may run at the same time, by hand
or from a scheduler; each opens the database, applies pending migrations, reads
the chain over JSON-RPC and writes rows. `serve` and `report` only read.

| Component | State it keeps | Operations | Hard behaviour |
|---|---|---|---|
| Log scanning, `chain/logs.py` | cursor, chunk size, shrinks, failed chunks of one scan | `LogFetcher.fetch` | a provider that refuses ranges; progress; what a partial scan leaves behind |
| RPC provider, `rpc/` | request ids, error count | `call`, `health`, retry with backoff | which failures are retried, how often |
| DEX adapters, `dex/` | timestamp and metadata caches | pool discovery, state, quotes, events | several calls that should see one block |
| Collectors, `collectors/` | per-adapter counters | state, events, discovery | per-pool failures, statements that fail in the middle of a batch |
| Pipeline, `pipeline.py` | `PipelineResult` in memory, the row in `collection_runs` | `run_collection`, `discover` | counters against rows, what an exception skips, status |
| Storage, `storage/` | the database; one implicit transaction per connection | repositories, `connect` | commits without rollback, the write lock, stale snapshots |
| Migrations, `storage/migrations.py` | `schema_migrations`, the schema | `migrate` | DDL that commits by itself, crashes, concurrent openings |
| Checkpoints, `collectors/checkpoints.py` | `collection_checkpoints` | `save`, `get` | none: nothing calls it |
| Analytics, `analytics/`, `chain/units.py`, `chain/blocks.py` | none | prices, impact, fees, ranges | exact integer arithmetic at its boundaries |
| API and dashboard, `api/` | none | reads by run id | several statements per answer; no successful run yet |
| Reports and benchmark, `reporting/` | the rows read so far; the measured result | `write_report`, `run_benchmark` | eight statements that should be one snapshot; a run measured by reading it back |
| Capability probes, `rpc/capabilities.py` | none | `probe_capabilities` | none: nothing calls it |
| Models, configuration, CLI, logging, errors | none | formatting and parsing | none |

They interact by calls within a process (pipeline to collectors to adapters to
the provider; collectors to repositories) and through the database between
processes.

What makes each part correct:

* a log scan settles every block of its range once and returns;
* a batch of events is complete outside failed chunks, in chain order, and no event of
  it is there twice;
* a collection run is registered before it stores anything, ends, and its stored
  status and counts agree with its rows, whatever failed under way;
* processes that share the database never write in each other's transactions, and
  an event row belongs to the run that stored it first;
* what a request of the API says of the latest run is final and complete, and a later
  request never goes back to an older run;
* a report adds up although it is read table by table while runs go on, and a benchmark
  measures the run it performed;
* a discovery ends, its summary accounts for every pool and token it came past, and
  whatever fails in it costs nothing but the row that failed;
* a migration can be repeated after any crash, loses no run, recorded versions
  are really in the schema, and a connection that is handed out enforces foreign keys;
* a stored observation compares values of one pool state, is made up of nothing that
  was not read, and a call that fails costs the pool its observation and no more.

## Modules

| Module | Models | Depends on |
|---|---|---|
| `RangeScan` | what a log scan promises its caller (abstract) | |
| `LogFetcher` | `chain/logs.py`: the loop of `LogFetcher.fetch` | `RangeScan` (refines it) |
| `LogFetcherProofs` | theorems about `LogFetcher` | `LogFetcher`, `RangeScan` |
| `RpcCall` | `rpc/`: what a POST may bring back and which failures are retried (operators) | |
| `BlockRanges` | `chain/blocks.py`: `resolve_block_range` (operators) | |
| `EventScan` | a log scan from the command line's range down to single POSTs | `LogFetcher` (refines it), `RpcCall`, `BlockRanges` |
| `EventBatch` | `get_swap_events` and `get_liquidity_events` of both adapters: their fetches, `sort_logs`, decoding and dating | `EventScan` (refines it) |
| `EventScanProofs` | theorems about `EventScan` and `EventBatch` | `EventBatch`, `LogFetcherProofs` |
| `Connections` | SQLite connections as `storage/` uses them | |
| `RunRecords` | what the database promises about runs (abstract) | |
| `CollectionRun` | `run_collection` with its collectors and repositories | `Connections`, `RunRecords` (refines it) |
| `CollectionRunProofs` | theorems about `CollectionRun` | `CollectionRun` |
| `RunReaders` | requests of the API beside `CollectionRun` | `CollectionRun` |
| `Reports` | reports and benchmarks beside `CollectionRun` | `CollectionRun` |
| `RunReadersProofs` | theorems about `RunReaders` and `Reports` | `RunReaders`, `Reports`, `CollectionRunProofs` |
| `Catalog` | what the pools and tokens tables promise (abstract) | |
| `Discovery` | `discover` with `_register_dex`, `discover_for_adapter` and the catalog writes | `Connections`, `Catalog` (refines it) |
| `DiscoveryProofs` | theorems about `Discovery` | `Discovery`, `Catalog` |
| `MarketRead` | one adapter's state and execution passes against a moving chain | |
| `MarketReadProofs` | theorems about `MarketRead` | `MarketRead` |
| `ExecutionMath` | units, fees, reference prices and price impact (operators) | |
| `ObservedImpact` | the numbers of the observations that `MarketRead` stores | `MarketRead`, `ExecutionMath` |
| `ObservedImpactProofs` | theorems about `ObservedImpact` | `ObservedImpact`, `MarketReadProofs` |
| `Migrations` | `migrate()` statement by statement | |
| `MigrationsProofs` | theorems about `Migrations` | `Migrations` |
| `MCEventScan`, `MCCollectionRun`, `MCRunReaders`, `MCReports`, `MCDiscovery`, `MCMarketRead`, `MCMigrations` | constants for TLC | |

Operators in the modules whose comment calls them mutants are never used by a
specification: each is a slip that a programmer could make in the definition it
stands for, and shows that a property would notice it.

### LogFetcher

One `Request` is one iteration of the `while` loop: the call, its answer and what
the loop body does with it. `cursor`, `chunk`, `shrinks`, `failed`, `requests`
and `effective` are the variables of `fetch` and of `LogFetchResult`; `taken[b]`
counts how often the logs of block `b` were added to `result.logs`. The text of
an `RpcError` matters only in whether it contains one of
`RANGE_TOO_LARGE_MARKERS`, so answers are `"logs"`, the two kinds that contain one
(a refused range, and a rate limit: "limit" is a marker) and `"error"`. A caller
may ask for an empty range (`from > to`). Adapters build a new fetcher per call
and run one scan after another, so the module runs a sequence of scans. `Raise` is
`get_logs` raising what `fetch` does not catch: the scan ends without a result. A provider
with a limit that refuses nothing else answers a wider range with a refusal of its width
only; that is what the guarantee of `AdaptsToLimit` is about, and the provider of any reply is
the other one. `effective` is read by no step, as no code reads `effective_chunk_size`.

### RpcCall, BlockRanges and EventScan

`LogFetcher` takes an answer as a choice of the environment, `EventScan` opens the call
up and puts the scan under the range it is asked for. A `Reply` of `RpcCall` is what one
POST may bring back: a list, something else, a time-out, a broken connection, an HTTP
status, an error object with a code and the groups of marker words in its message.
`Class` is the exception `_post` and `call` make of it, `Transient` is `classify`,
`Retries` one round of `run_with_retries`, and `AsAnswer` what `fetch` sees when the
call ends with it. `RetryPost` is an attempt that is tried again, `EndCall` the attempt
that ends the call, with what `LogFetcher` does about it; the sleep in between is left
out. `BlockRanges` computes the range of a run from its options, and `Wanted` says
which blocks these options mean without that arithmetic.

Reading the two files showed three things that are worth knowing and that no run
contradicts. Every HTTP status of 400 and above becomes an `RpcTransportError` and is
retried (`provider.py:138-139`), although `RETRYABLE_HTTP_STATUS` is there to tell "retried
rather than surfaced as permanent" apart. A range refused with code -32005 or by an HTTP
status is retried `max_retries` times before each halving. And no caller reports the truncation of a
range, which `blocks.py:118-121` leaves to "the caller".

### EventBatch

One call of an adapter for the events of a pool, from its first fetch to the batch it
returns. `Fetches` are the topics of its fetches: Swappi looks for mints and burns one
after the other (`swappi_v2.py:501`), VSwap with one filter. `StartFetch`, `Fetching` and
`FetchDone` put each of them on `EventScan`; `found` are the logs returned and still to
decode, `lost` those of `failed_chunks`, which no adapter reads. `Sort` is `sort_logs`, which
converts the numbers of every log before anything is decoded; `Discard` and `Decode` are one
turn of the decoding loop, `Deliver` its end. `DateCached` is Swappi's `block_timestamp` with
its cache, `DateEach` VSwap's without. A log is a place in the chain, a topic, and whether
its data and its numbers can be decoded. The call has one of three ends: `returned`,
`failed` (an `RpcError` the collector expects) and `died` (anything else).

Reading these files showed two differences that nothing in the repository denies.
Swappi lets the `RpcError` of a timestamp through, and with it goes the whole batch;
VSwap returns `None` and keeps the event (`vswap_v3.py`'s `block_timestamp`). And
`sort_logs` runs outside of any `try`, so one malformed `blockNumber` ends the process, where
a malformed `data` costs one event.

### Connections

Each process has one connection. `auto` is a connection without a transaction;
a data statement opens one (`open`) and only `commit()` ends it, because no code
under `storage/` calls `rollback()`. A read inside a transaction pins a snapshot,
somebody else's commit makes it `stale`, and a stale transaction can never write
again. `writer` is the holder of SQLite's one write lock. These rules are SQLite's and the
`sqlite3` module's (isolation level `""`, WAL); they were confirmed by running
both, and are marked external in the map. A statement on a held lock waits for
the busy timeout and then fails: `LockedOut`. Failing at once is the shortest such
wait, and the models never let a process wait for ever on a lock.

### CollectionRun

`pc[r]` is the place of run `r` in `run_collection`; the phases follow the code:

    check -> start -> configure -> adapter -> states -> execution <-> observe
      adapter <- events <-> fetch_swap, insert_swap, fetch_liquidity, insert_liquidity
      adapter -> complete -> returned
      refused, raised, crashed: the other ways to end

| Action | Code |
|---|---|
| `CheckNetwork` | `check_network` and the health test, `pipeline.py:105-146` |
| `StartRun`, `Configure` | `pipeline.py:147-178` |
| `LoadPools`, `AdaptersDone`, `StatesDone`, `ExecutionDone`, `EventsDone` | `_run_adapter` and the loop around it |
| `CollectState` | one pool of `collect_states_for_adapter` |
| `Analyze`, `Observe`, `PoolObserved` | one pool, one case of `_run_execution` |
| `NextPool`, `FetchEvents` | `collect_events_for_adapter` and the adapter's log scan |
| `InsertEvent`, `CommitEvents` | `insert_swap_events`, `insert_liquidity_events`, row by row |
| `CompleteRun` | status and `complete_run` |
| `Crash` | the process dies, or a raw `sqlite3.Error` from `commit()` ends it |
| `DiscoveryWrites`, `DiscoveryCommits`, `DiscoveryEnds` | the discover process, reduced to its lock |

`stateRows`, `obsRows`, `owner` and `row` are the committed tables; `unsaved` is
what an open transaction has inserted; `result` is the `PipelineResult`, with
`error_count` reduced to whether it is zero, the only thing its readers test.
Pools are visited in any order (the code uses the catalog's), so the model
has every order. A statement that fails does one of three things
(`StorageError`): it was locked out; it failed with its transaction left open and the
lock taken (a violated `UNIQUE`); or SQLite rolled the transaction back (disk full).

`RunRecords` is what a reader may rely on, without processes, locks or
counters. `CollectionRun` implements it under the mapping `Records`: one commit of
the code is one step of `RunRecords`, everything else stutters.

### RunReaders

The API reads while the processes of `CollectionRun` write. A request that shows the
latest run calls `latest_run` (`Ask`) and then reads, statement by statement, the record
and the rows of the run it was told, until its answer is complete (`Answered`). Nothing
is locked in between, so `Answer(latest)`, all that these statements can say, must be
final from the moment of `Ask`. `Age` is the order of `started_at` and `rowid`; it is any
order, because `start_run` takes the time before its `INSERT` waits for the lock.

All worker threads share one connection, and `_execute` holds its lock for the
statement but not for `fetchall` (`repositories.py:128-130`), although `QueryResult` says "The
rows are read while the connection lock is held" (`repositories.py:90`). An unfinished cursor
of another thread therefore keeps SQLite's snapshot, and every statement until it is
fetched is answered from it (confirmed with `sqlite3`; a cursor without rows holds
nothing). `held` is the latest run of that snapshot. It is the only thing of a snapshot
that is kept: a snapshot that shows a run as completed shows all of its rows, as they are
committed before its record is, and they are final.

What reading this code showed besides:

* before any run has completed `run_id` is `None`, the filter disappears
  (`repositories.py:433`), and `/api/markets`, `/api/pools/{pool}`, `/api/liquidity` and the dashboard show rows of
  running or failed runs as latest, although `latest_run` says that rows are "current" only
  when their `run_id` matches the latest completed run. Only `/api/status` and the
  dashboard's execution page guard against it;
* the dashboard's first page asks for the latest run three times (`dashboard.py:110`, `158`,
  `222`), so the markets of one run may stand under the record of a later one;
* an older run that completes after a newer one is never shown as latest.

### Reports

A report (`reporting/dataset.py`, `report.py`) and a benchmark (`reporting/benchmark.py`) are
processes of their own beside those of `CollectionRun`. `load_dataset` calls what it returns
"One reproducible snapshot" (`dataset.py:19`), but its statements run in autocommit mode
and each sees what is committed by then. The tables of observations and the runs are the
`Sections`, read in the order of the code, the runs last; `shown`, `named` and `listed`
are what the report has of them so far, and `settled`, which the code does not keep, the
runs that had completed when it began. `BeginReport`, `ReadStates`, `ReadExecutions`,
`ReadEvents`, `ListRuns` and `EndReport` are its steps; a report may be written again and again.
`ReportAddsUp` says what is left of the snapshot, and is weaker: a run that had completed when
the report began is shown in full, of one that completes meanwhile some rows may be missing.
It depends on the runs being read after their rows.

`Measure(r)` counts the quotes of the run that the benchmark has performed, in the
database, among rows that other processes go on storing (its own connection is in no
transaction by then, as `complete_run` commits); `CheckAgain(r)` is the second `check_network`, whose health row is a write: when
it fails, the measured result is lost with it. `NothingToMeasure(r)` is the
handler for a run that raised.

The statements' limits (20000 rows, 200 runs), the catalog tables, which no property
relates to the runs, the statistics over the rows and the rendering are left out.

### Discovery

One process per `discover` command, on the same connections. `Selected[d]` are its
enabled adapters (those `--dex` names). `RegisterDex` is `_register_dex`: the checks,
then `upsert_dex`; discovery goes on whatever the checks said, although
`swappi_v2.py:590` says a failed check disables the adapter. The two adapters check
different things: Swappi the code of its contracts and what factory and router say of
each other (`PairChecks`, of which there are none when `get_code` itself fails), VSwap
the code at four addresses, each of which may be missing from the configuration
(`CodeChecks`). `Verdict` is the code's: some checks and none of them failed. `DiscoverPools` and
`DiscoverFails` are the two ways `discover_pools` may end that the collector expects;
Swappi raises when a lookup fails, VSwap drops the pool without a word (`ByPair`,
`ByTier`), and neither calls `get_pool_metadata`, although `swappi_v2.py:172` says every
pool is re-verified with it. `UpsertPool` is one iteration of the outer loop up to its
commit, `UpsertToken` one of the inner loop: `token_metadata` and `upsert_token`, which
does not commit. So `unsaved[d]`, the tokens of the open transaction, wait for the next
`upsert_dex` or `upsert_pool` (`Store`), and are gone if `Return` or `Fail` comes first.
`summary[d]` is what `discover` returns, as sets. `CollectionRun` sees of all this only a
process that takes and releases the write lock.

`Catalog` is what a reader of the two tables may rely on: rows are only added, and a
token only after a pool it belongs to.

### Migrations

A database is its committed `objects` (tables, indexes, added columns), the
`rows` of `collection_runs`, the rows copied into `collection_runs_new`, and the
recorded `versions`; `kids` are the runs that rows of other tables refer to. `work[p]` is
the view of a process inside its transaction, `fk[p]` whether its connection enforces foreign
keys: `migrate` suspends them before a script and enforces them again after it
(`migrations.py:460`), and the order matters, as the pragma is a no-op inside a transaction
and `DROP TABLE` of the rebuild is refused while rows refer to the table (`Enforced`,
`Fails`).
`Execute` runs one statement: outside a transaction DDL commits by itself, and
`INSERT` (copying the runs, or recording the version) opens the transaction that
the end of the `with conn:` block commits. One object stands for the tables and
indexes of a script that are created with `IF NOT EXISTS`. `Collect` is a
collector, of this release or the one before it, that stores a run meanwhile.
Creating `schema_migrations` itself, idempotent and before everything else, is part of `Open`.

### MarketRead

`CollectionRun` takes what a read or a quote returns as a choice of the environment;
`MarketRead` opens these calls up and leaves storage out. The chain is a `head` and
`value[b][p]`, the last block up to `b` that changed pool `p`: the state of a pool is
identified with the block that produced it. `get_pool_state` is
three actions, because a block may be mined between its calls: `ResolveBlock`
(`eth_blockNumber`), `ReadMain` (`getReserves` or `slot0`), `ReadExtra` (`totalSupply`
or `liquidity`), and one `ReadToken` per token that `TokenReader` has not cached;
`main` and `extra` are the blocks the two reads were answered from. `StoreState` files
them under `label`. `Analyze` starts a pool of the execution pass, `QuoteCase` is one
quote with its gas estimate, kept in `pending` until `StoreObservations`. The module is one
adapter: a token that Swappi and VSwap share is read by each, with a cache of its own.

The head never moves back. An endpoint that balances its load over nodes at different
heights, or a chain that reorganises, could answer a later call from an earlier block, and
`LabelNotAhead` and `SuccessHasImpact` would not hold there: nothing in the code compares
the blocks of two calls. The code does not mention such endpoints.

A call is answered, fails with an `RpcError` (`Faults`), or answers something that
cannot be decoded (`Malformed`). `Escape` is an exception that no caller expects: the
process dies. The two adapters differ in what they tolerate, hence `concentrated`.
The optional `fee()` and `tickSpacing()` reads of VSwap change nothing here and are
left out.

### ExecutionMath and ObservedImpact

`ObservedImpact` gives each pool a `Curve`, its reserves or its price and liquidity after
each block that changes it, and computes from an observation of `MarketRead` what the code
stores: `Output` (the quote in the block it was asked for, if it is routable), `Reference`
(`reference_price_from_state`), `Impact` (`compute_price_impact`) and `Success`. The
operators it uses are in `ExecutionMath`. What the pool contracts do is external: a Swappi
pair trades by the constant product formula, which `ConstantProductMath` restates, and a
VSwap pool by the same formula on its virtual reserves, as long as no tick is crossed.
`ImpactIsSizeOnly` compares the result with a reference definition of its own, `SizeShare`:
without fee and rounding, the impact of a trade is the share the input makes up of the
reserve it is added to. The stored impact is at least that, and exceeds it by less than
what one raw unit of output is worth (`RawUnit`).

What is abstracted: a `Decimal` is an exact fraction, so its rounding at 80 digits is left
out while the flooring to raw units is not; `Unit[t]` stands for `10^decimals`, `FeeBase` for
10000 and `Q96` for `2^96`, small in the run because TLC's integers have 32 bits, and
arbitrary in the proofs. The fee of a pool is known, below 100 % (`fee_bps` 10000 would
divide by zero at `execution.py:133`) and a whole number of basis points: the tiers
VSwap is configured with are multiples of 100, so that `tier // 100` (`vswap_v3.py:346`)
loses nothing. Gas estimates are left out.

Reading this code showed some small things no run is about. `safe_div` returns nothing
when the *denominator* is zero, so the answer "output reserve is zero"
(`pricing.py:87-88`) is never given and the price is 0 instead. `rate_to_bps` says
"rounded down" (`fees.py:47`) and rounds half to even. `fee_amount_on_input` floors the fee,
which makes the retained amount larger, and calls that "conservative" (`fees.py:64`). An
output of 0 is a failed quote of VSwap (`vswap_v3.py:551`) and a successful, not routable
one of Swappi. `rate_to_bps`, `input_after_fee`, `ConstantProductMath` and
`liquidity_metrics` are called by tests only.

## Runs

| Run | Instance | Shows |
|---|---|---|
| `fetch` | swaps of Swappi, or mints and burns of either adapter; blocks 0..5, two chains (mints and burns that interleave with a malformed log between them; a log without a block number); chunk 8, two shrinks, two retries, two scans, seven combinations of options; a provider with limit 4 and any reply, or one whose only refusals are ranges wider than 4, 2 or 1 (one halving is enough; the whole shrink budget is; it is not) | the wanted blocks settled once, POSTs bounded, errors accounted for, the call returns, halving loses no block it can save, refines `RangeScan`; batches complete and in order, one time per block |
| `run_faults` | one run, three adapters (the second without pools), two pools, one case, three events, all faults; a report, and a benchmark that performs the run | counts, status, termination, refinement; the report adds up, the benchmark measures what is stored |
| `run_two` | two runs and discovery, one pool, one case, one event; requests over a shared connection | lock discipline and ownership between runs, refinement, final answers, a latest run that moves on |
| `run_running` (violation) | a command line naming a bad DEX or range | a run left `running` for good |
| `run_gap` (violation) | three events | a `completed` run with missing events |
| `run_stale` (violation) | two adapters | an insert failure aborts the run later, with the lock free |
| `market` | either adapter, two pools sharing a token, a token without decimals, one case per direction, two blocks, a pool initialised late and one drained, a fee of 1/5, all faults | labels, impacts of the size alone for quiet pools, every success has one, one answer per token, nothing guessed, a state for every pool that was read, the passes end |
| `market_moving` (violation) | no faults, one block | an impact over two different pool states |
| `discover` | two commands over three DEXs (two pools sharing a token, one pool, none), all faults | the summary is complete, failures stay local, the loss is bounded, both end, refines `Catalog` |
| `discover_tokens` (violation) | one command, one pool | counted tokens are not in the database |
| `migrate` | two processes, two opens each, two runs; calm, or crashes and lock timeouts at every statement | recorded versions are there, no run is lost, a calm process gets through, foreign keys are enforced at the end |
| `migrate_restart` (violation) | one process, one crash | the database cannot be opened any more |

Deadlock is not checked: every system here may legitimately stop (all runs over,
the bound on scans or openings reached).

**Bounds.** `MaxBlock`, `MaxFetches` and `MaxRequests` bound `LogFetcher`; six blocks
allow a full chunk, a refused one, one halved twice and a last partial one, and two
scans show that nothing of the first leaks into the second and are the two fetches of
Swappi's mints and burns. `MaxRequests` exceeds
what a scan ever issues (`RequestsBounded`), so it cuts nothing off. Two retries make a
first, a middle and a last attempt; `Lookback` and `MaxBlocksPerRun` are such that either
may be the one that cuts a range. In
`CollectionRun` counters grow with pools and cases only. Two pools are enough for a
failure after a success inside one loop, one case for what a report may see of a run between its
states and its executions, and three adapters for one before, at and
after an empty catalog; two runs for every pairwise race; a third process holding
the lock is the discovery process. `MaxHead` is two blocks in `MarketRead`: one
between the label and the first read, one between the reads, each touching any of the
pools; two pools with a common token show what the cache carries over, and their curves
hold every kind of state a price may meet: usable, not initialised yet, drained. In `Discovery` nothing is unbounded; two pools that share a token exercise `seen_tokens`
and the commit of one pool's tokens by the next, the DEX without pools a commit by
`upsert_dex` alone, and the second command the lock. `MaxOpens` bounds `Migrations`: twice is
one crash and one retry per process.

**Fairness.** `EventScan`: the loops of `fetch` and `run_with_retries` never wait but for
a POST, which the HTTP client times out, and a bounded sleep, so a scan in progress goes on.
`EventBatch`: likewise, and sorting and decoding go on (`BatchStep`); nobody has to begin another
fetch. `CollectionRun`: every call a run makes returns, by an answer, an error or a
timeout (HTTP timeouts and bounded retries in `rpc/`, the busy timeout in
SQLite), so `Step(r)` is weakly fair; nothing is assumed of the discovery process,
and `Crash` is never forced. `Reports` adds none: a report or a benchmark may stop anywhere, and
a run ends all the same. `MarketRead`: likewise for `Step`; nothing is assumed of
`NewBlock`. `Discovery`: likewise for `Step(d)`; `Fail` is never forced. `Migrations`: a process inside `migrate` goes on, and
when `calm`, lock holders release the lock within the busy timeout and nobody dies
(`SomeProcessGetsReady` speaks of calm behaviours only).

**Violations.** Each of the violation runs refutes a sentence of the repository
that is quoted in the comment of its property and under `findings`: a bad range leaves a run `running`; chunks that
failed are dropped and the run is `completed`; a failed insert that was recorded
per pool aborts the run later because its transaction was never rolled back; a
crash inside a migration that began with DDL blocks every later start; a trade between
two reads mixes two pool states in one impact; the tokens of the last
pool discovered are counted and then lost, as nothing commits them.

**What reading showed and no run refutes.** Four more sentences of the repository are not
what the code does. Three can be seen in the lines themselves, the fourth is how far
`ReportAddsUp` falls short of it:

* `logs.py:5-7` records the effective chunk size "so the next run starts from a value that is
  known to work", and nothing under `src/conflux_analytics` reads it: each fetch starts with the configured size
  (`swappi_v2.py:429`, `500`, `vswap_v3.py:580`, `658`) and pays for its shrinks again, which
  `PostsBounded` bounds;
* `vswap_v3.py:323-325` catches `ValueError` and `IndexError` in a handler that reads
  `exc.rpc_message`, which neither has: a state read that cannot be decoded ends the process
  with an `AttributeError`, where `base.py:290-291` has the record state that data is unavailable;
* a gas estimate that is no hex number (`provider.py:282`) is a `ValueError`, which neither
  `gas.py:54` nor the execution pass expects, whose failures "never abort the run"
  (`pipeline.py:376-377`): that ends the process as well;
* a report lists a run that completes while it is read without all of its rows, and is
  not the "snapshot" of `dataset.py:19`.

`MarketRead` contains the two deaths, as `DiesOfGarbage`. `FailedReadLeavesState` and `PassEnds`
admit them and nothing else: Swappi leaves a state whatever its calls answer, VSwap
unless it is garbage, and the execution pass comes to its regular end but for that.

## Proofs

Beside the invariants, action properties and refinements of the runs, the proofs
settle two questions that a run cannot:

* *How far do the refuted promises hold?* Each is broken by a run, in the way its finding
  says. The theorems give the condition under which it holds, or show that it fails in
  no other way:

| promise a run refutes | what is proved instead |
|---|---|
| `NoRunLeftRunning` | `UndisturbedRunsRecorded`: true where no process meets a held lock, the disk works and the command line is sound |
| `CompletedHasAllEvents` | `CompletedButForGaps`: true while no completed run has a gap in its own log scans |
| `AbortsOnlyWhenLockedOut` | `OneAdapterAborts`: true with one adapter and a working disk; `FailuresHaveReasons`: with more, the one other reason is a failed insert of an earlier adapter, which was recorded |
| `LoneProcessSucceeds` | `LoneProcessIfCalm`: true while no process dies or gives up on the lock |
| `ImpactAtOneBlock` | `OneBlockApart`: false only for a pool traded in a block after the state's, up to the one it was read in |
| `CountedTokensStored` | `BoundedLoss`: the tokens that are lost are those of one pool |

* *Why do the loops end?* Liveness itself needs fairness and `ENABLED` and stays with TLC.
  What the code contributes to it is a measure that each step lowers, and that is an action
  property: `FetchGoesForward` and `PostsGoForward` (blocks ahead, shrinks and attempts of
  calls, as numbers), `RunsGoForward`, `ReadsGoForward` and `DiscoveriesGoForward` (phases,
  and in each the pools, tokens, cases and events left, as sets that shrink), for
  `FetchReturns`, `RunsEnd`, `PassEnds` and `DiscoveryEnds`. `SomeProcessGoesOn` is the
  counterpart for `SomeProcessGetsReady`: whatever the race, not everybody fails. In each
  case fairness only has to see to it that a step is taken.

`LogFetcherProofs` proves, for every value of the constants that satisfies
`FetchAssumption`:

* `TypeCorrect`: `Spec => []TypeOK`;
* `SettledOnce`: `Spec => []EveryBlockSettledOnce`;
* `BoundedRequests`: `Spec => []RequestsBounded`;
* `Adapts`: `Spec => []AdaptsToLimit`;
* `Refinement`: `Spec => Scan!Spec`.

The inductive invariant adds to these that the cursor lies between `from` and
`to + 1` while scanning (or at `from` for an empty range), because a step only
shows where the cursor goes relative to itself, and that no failed chunk reaches
past it. The refinement follows from the same invariant: an accepted or abandoned
chunk is `RangeScan!Settle` of its last block, a shrink is a stutter, an exception is
`RangeScan!Abandon`.

`FetchGoesForward` adds that every iteration of the loop leaves fewer blocks or fewer
shrinks (`Left`), and that `MaxRequests`, the bound of the model, never stops one.

`Adapts` says that no chunk is given up while a halving within the budget would
satisfy the provider. Its invariant is that `chunk * 2^shrinks <= ChunkSize`
(`ChunkHalved`), which `ShrinkHalves` keeps and which makes the chunk small enough once the
budget is spent (`NeverGivesUp`). The prover knows nothing of powers, so
`PowersOfTwo` states the two laws of arithmetic it needs; it demands nothing of the code,
and TLC evaluates it with the other assumptions.

`EventScanProofs` proves, for every retry budget, limit and combination of options:

* `Refines`: `ScanSpec => Spec` of `LogFetcher`, so that `SettledOnceDespiteRetries`
  follows from `SettledOnce` without a second proof;
* `ScanTypeCorrect`, `BoundedPosts`, `ErrorsAreAccounted`, `RangeIsHonoured`: `[]` of
  `ScanTypeOK`, `PostsBounded`, `ErrorsAccounted`, `RangeHonoured`.

The invariant `SInv` puts on top of `LogFetcher`'s: a call is in progress only inside the
range (`CallInv`); the POSTs so far are at most all attempts of the requests that
ended and of the one in progress (`PostInv`), which gives `PostsBounded` with
`RequestsBounded`; the failed chunks lie behind the cursor (`FailedInv`), so that giving
up adds one to their number; and the scan is over the resolved range (`RangeInv`).
`RangeIsWanted`, a theorem about the operators alone, shows that the arithmetic of
`resolve_block_range` picks the blocks of `Wanted`. `PostsGoForward` multiplies `Left` by
the attempts of a call: each POST, retried or not, leaves fewer. `AdaptsDespiteRetries` follows from
`Refines` like `SettledOnceDespiteRetries`.

About `EventBatch` the same module proves, for any chains and calls:

* `BatchRefines`: `BatchSpec => ScanSpec`, so that all of the above holds of a call;
* `BatchTypeCorrect`, `BatchIsComplete`, `OneTime`: `[]` of `BatchTypeOK`, `BatchComplete`,
  `OneTimePerBlock`;
* `FullBatchWithinReach`: `[]FullBatch`, that nothing is missing where the halvings reach the
  provider's limit: `AdaptsToLimit` seen from the batch.

`BInv` relates the logs of the chain to the fetches that are over: each of their topics,
in a wanted block, is either to decode exactly once, or lost with its chunk, or
an event, or did not decode. That it is once rests on `EveryBlockSettledOnce` of the fetch at
work and on no two fetches having a topic in common; that the events are in order on
all that is left to decode coming after them.

`CollectionRunProofs` proves, for any number of runs beside discovery, any catalog,
cases and events, and any of the faults:

* `TypeCorrect`: `Spec => []TypeOK`;
* `OneWriter`: `Spec => []LockDiscipline`;
* `ObservationsAreAccounted`, `CompletedRunIsClean`: `[]` of `ObservationsAccounted`,
  `CompletedIsClean`;
* `RecordsImplemented`: `Spec => Records!Spec`, the refinement of `RunRecords`;
* `NothingIsTakenBack`, `RunsGoForward`, `FailuresHaveReasons`: the action properties
  `RecordsOnlyGrow`, `NoWayBack`, `FailsForAReason`;
* `CompletedButForGaps`, `OneAdapterAborts`, `UndisturbedRun`, `UndisturbedRunsRecorded`: the
  promises on their conditions.

Types alone are not inductive: `list_pools` is indexed by the adapter at work and the
event sets by the pool at work, so the invariant adds that inside the loops the
adapter is an enabled one and the pool an active one (`Placed`). `LockDiscipline`
rests on one fact about every step, `Disciplined`: a step of a run leaves the
transactions of the other runs open or closed as they were (a commit may make a
snapshot stale, never a writer of an idle connection), and a step that ends the run
closes its connection. `StepDisciplined` shows it action by action from one lemma per
way of using the connection (`StoreKeeps`, `WriteKeeps`, `StorageErrorKeeps`, ...).

The counts need an invariant of their own, `AInv`, the `Account` of each run. Neither
counter equals its rows in every state: those of the state pass join the result when the
adapter's pass is over, so `Counts` adds the pools read in the meantime. A counter and a
number of rows grow together only if every insert is of a new row, which is `Fresh`:
the pools and adapters still to come have no rows yet, and two adapters share no pool.
`CleanSoFar` says what a run without errors has stored of the pools it is past, up to
`CompletedIsClean`, and `Recorded` what its record says once it is closed. The steps
of the others leave the account alone (`Stays`). The refinement needs in addition that an
open transaction holds only events nobody has recorded, and none before its run is
registered (`OpenInv`); then each commit is the one step of `RunRecords` that its lemma names.

The account of the events, `EventsInv`, is one of ownership: of each pool and kind that a run
without gap and without errors is past, every event has an owner or is in its open
transaction, which the commit of the batch empties. A second run that finds an event there (`INSERT OR IGNORE`)
may rely on it, as nothing recorded is taken back (`RecordsOnlyGrow`). `SpoilInv` follows
a connection: without recorded failure it is never in a snapshot; with one, the
transaction that stayed open goes stale only where the next adapter's pools are
listed, which takes two adapters. All failures of runs are traced to that (`StaleForGood`), to the
lock, to the disk or to the command line, step by step (`StepFails`, `StepRaises`).

`RunReadersProofs` proves, for any number of runs on top of `CollectionRunProofs`' invariant:

* `RequestsAgree`, `LatestOnlyMovesOn`: `AnswersAgree` and `LatestMovesOn`, two action
  properties.

Both rest on what a step leaves alone (`Own`): every row and record of the other runs, and,
once a run is over, its own. With `ClosedIsOver`, that a run stored as completed is over,
completed runs are final (`ClosedIsFinal`) and complete one by one, which lets `NewestGrows`
show that the newest of them exists and moves on without induction over sets. `RInv` adds
that a snapshot is never ahead of the database.

And for any reports and benchmarks beside the processes:

* `ReportsTypeCorrect`, `ReportsAddUp`, `BenchmarksMeasure`: `[]` of `ReportsTypeOK`,
  `ReportAddsUp`, `BenchmarkMeasuresItsRun`.

`ProcessStep` sums up what `AInv` and `OpenInv` give a reader: rows and records are only
added, a row belongs to a registered run, and a run that is over changes no more. So what
a report has seen of a run stays true while the next sections are read (`Shows`), the rows
of a completed run are those its account allows (`Lists`), and what a benchmark counted
stays what its run has stored (`BenchInv`).

`MarketReadProofs` proves, for any pools, tokens, cases, chains and faults:

* `TypeCorrect`, `LabelsAreEarly`, `OneAnswer`, `NoGuess`, `ReadsLeaveStates`: `[]` of
  `TypeOK`, `LabelNotAhead`, `OneAnswerPerToken`, `NothingGuessed`, `FailedReadLeavesState`;
* `EachQuotedOnce`: `[]QuotedOnce`; `ReadsGoForward`: the action property `ReadsAdvance`.

`IInv` is a conjunction of four groups, each proved to be kept from the ones before it:
types with `PoolsKnown` (the execution pass visits pools that have a state, so
`StateOf` denotes one); the order of the reads, during the read (`ReadInOrder`) and in
the store; `CacheHonest`, which ties every stored state to the cache, as
`OneAnswerPerToken` relates two states that were stored at different times; and
`ObservationsGrounded`, that a quote is of the label's block and a reference price of the
block its state was read in.

`QuotedOnce` says that each pool has one state and each case of it one observation, filed
as that state is, and that none is missing at the end. Its invariant `OnceInv` has a part
for each: the pools left have no state (`OneState`); a pool is quoted in its own turn
and a case only while it is to do (`OneObservation`); a pool whose turn is over has
all of its cases (`TurnsComplete`). That the state is the only one of its pool is what makes
`StateOf`, a choice, the state the observations are of.

`ObservedImpactProofs` proves, for any curves, units, fees, sizes and cases on top of that:

* `SizeAlone`, `ImpactOfSuccess`: `[]` of `ImpactIsSizeOnly`, `SuccessHasImpact`;
* `SuccessesLose`, `OneBlockApart`: `[]` of `ImpactIsALoss`, `OneBlockUnlessTraded`;
* `History`, `Told`: `[]` of `HistoryInOrder`, `HistoryTold`: the last change of a pool never
  goes back, and two blocks that disagree about it have that change between them.

The properties are about stored observations, so they follow from `MarketReadProofs`'
`IInv` and from arithmetic. `Spot` shows that both reference formulas give the ratio of the
reserves, in either direction; `TradeImpact` that a trade at such a price has the
impact `SizeShare` up to `RawUnit`; `SizeOnly` and `Bounds` are the two inequalities behind
it, with the products named so that each step is linear in them. `SuccessHasImpact` needs
the order of the blocks as well: a pool that could be traded in the quote's block is
initialised in the later one the price is of. `SuccessForm` gives the impact of
every success as `1 - e/m` with both positive, so it is below one; that it is positive
follows from `SizeAlone`.

`DiscoveryProofs` proves, for any number of commands, DEXs, pools and tokens, any
selection of adapters and any faults:

* `TypeCorrect`, `FailuresContained`, `NothingHidden`, `BoundedLoss`: `[]` of `TypeOK`,
  `FailuresDoNotSpread`, `SummaryComplete`, `LossIsOnePools`;
* `Refinement`: `Spec => TheCatalog!Spec`;
* `NoNewsIsGoodNews`: `[]QuietMeansAll`; `DiscoveriesGoForward`: the action property
  `DiscoveryAdvances`.

`ConnInv` is about the connections alone and is kept by each way of using one
(`StoreConn`, `WriteConn`, `EndConn`, `ErrorConn`). The rest is a predicate of one
process, `Good(d)`: as the tables only grow, `GoodStays` shows it survives the steps of
all others, and each step lemma has only its own process to look at. Its part
`Recent`, that a transaction holds tokens of the last persisted pool only, is what both
`LossIsOnePools` and the refinement rest on: neither is inductive without it.
`QuietMeansAll`, that a discovery without errors has missed nothing of an adapter which
raises for failed lookups, needs what `discover_pools` has listed (`ListedAll`) and that a
run that returned is past its last adapter (`AtTheEnd`).

`MigrationsProofs` proves, for any number of processes, runs and openings:

* `TypeCorrect`, `SchemaTruth`, `ReadyIsCurrent`: `[]` of `TypeOK`, `SchemaFollowsVersions`,
  `ReadyMeansCurrent`;
* `NoRunLost`, `SchemaGrows`: `RunsSurvive` and `SchemaOnlyGrows`, two action properties;
* `SomeProcessGoesOn`: `[]NotAllFail`, and `LoneProcessIfCalm`: `LoneProcessSucceeds` while
  `calm`.

`Inv` says of each process in a script (`InScript`) how far it is: outside a transaction
what its statements have built is committed (`Built`), so that recording the version tells
the truth; inside, its view holds all that is committed, but for the table it rebuilds
(`Rebuilding`, `Recorded`), whose rows are all copied. Both outlive the steps of the others
because only one process is in a transaction (`Alone`) and what is committed only grows. That foreign
keys are suspended only inside a script is part of it, as `connect` must not hand
out a connection without them.

Why a migration fails is another matter: what versions 5 to 7 make can be made only
once (`Once`), so a process fails when it is there already. `TidyInv` says when that may be: not before
the scripts below are recorded (`InTurn`); that the copy of `collection_runs` is empty
but inside the transaction that fills it; and that a process in a script has suspended
foreign keys. `FrontInv` is that while `calm` nobody has opened the database yet (`Untouched`), or
there is a process whose statements nothing can refuse (`Front`): it knows all recorded
versions, and what its script makes is not there or its own work. Others fail only beside it,
which is `NotAllFail`, and `LoneProcessSucceeds` while nobody dies.

The proofs assume nothing but the constants' assumptions and `PowersOfTwo`. Every safety
invariant, action property and refinement of the passing runs is proved. Only model-checked
are the liveness properties (`FetchReturns`, `RunsEnd`, `PassEnds`, `DiscoveryEnds`,
`SomeProcessGetsReady`): they rest on fairness and need `ENABLED`, which the prover does not reach.

## Not modelled, and the plan

What could still be modelled, in this order, and what it would add:

1. the parts of which only the outcome is modelled, as a choice of the environment: the
   answers of `health()` in `check_network`, the numbers of a gas estimate;
2. the limits and filters of the statements that list rows of any run (`list_runs`,
   `swap_events`, `liquidity_events`), which `Reports` reads without them;
3. the columns of a token row, of which `Discovery` keeps only that it is there.

Left out for good: formatting (the rendering of reports and of the dashboard, logging),
parsing (configuration, command line, ABI encodings), and the immutable records under
`models/`, which have no steps. The probes of `rpc/capabilities.py`, the checkpoints,
`ensure_tokens_persisted`, `BlockRange.chunks` and the liquidity metrics have no caller under
`src/conflux_analytics`, so there is no behaviour to check until something calls them. Three hazards stay without a
property: the effective chunk size that nobody reads (see Runs); a token whose later read fails has its decimals overwritten with `NULL`
(`repositories.py:278`), as `Discovery` has no columns; and the filter that
disappears before the first completed run (`repositories.py:433`, see `RunReaders`).
