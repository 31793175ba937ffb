# A TLA+ model of the Polymarket tracker

The tracker ingests Polymarket trades, keeps what every wallet holds and has
earned, settles positions when markets resolve, scores wallets and sends
Telegram alerts. It is a handful of asyncio processes that share one PostgreSQL
database (READ COMMITTED, almost no row locks) and one Redis. This directory
models the parts whose correctness depends on the order in which those processes
act, checks the models with TLC and proves what matters most with TLAPS.

Paths below are relative to the repository's root (`src/`).

## 1. The system

### Processes

| process | code | what it does |
|---|---|---|
| ingestor (`app`) | `app/tasks/run_ws_ingestor.py` | one task handles stream events one after the other (normalise, attribute a wallet, store, book, alert); a second task refreshes subscriptions and checks the worker's heartbeat every 5 minutes; `main` restarts a failed ingestor with back-off |
| worker | `app/tasks/run_worker.py` | APScheduler with about 20 jobs; one instance per job, missed runs coalesced |
| API (`api`) | `app/main.py`, `app/ui/views.py` | read-only queries and HTML, flags of wallets, price-level rows |
| book log | `pathfinder/booklog/daemon.py` | order-book snapshots at an interval |
| by hand | `app/tasks/poll_watched_wallets.py`, backfills and fixes, `pathfinder/` | polling of watched wallets, rebuilding of derived tables, research |

### Components, their state and what makes them correct

| component | state | operations | what must hold |
|---|---|---|---|
| **Position ledger** | `wallet_cost_basis` (open shares and their cost), `wallet_positions` (totals, status, P&L), `wallet_closed_positions` (WCP: one row per exit, what scoring reads) | BUY and SELL of stream and poller; resolution job (30 min), market resolver (6 h), epsilon close (daily), stranded check (6 h) | a purchase is booked as closed once; the totals cover sold and remaining shares; status and shares agree; the P&L of a position is that of its WCP rows; a position on a resolved market is closed in the end |
| **Rebuilding tasks** | the ledger's tables, recomputed from `trades` | positions backfill, late-BUY recovery, scoring backfill, status and cost-basis fix | the replay writes what the handlers had booked; the recovery leaves nothing unbooked |
| **Outcome stamping** | `markets.resolution`, `.outcome_result_stamped_resolution`, `tokens.outcome`, `trades.outcome(_result)`, `.trade_type` | three writers of resolutions, corrections, label upserts, farming tags, the restamp | no result is invented; one that disagrees with the resolution does not stay |
| **Watched-wallet poller** | offset, list of trades, captured keys, batch; `trades` | pages, trim and sort, dedup, batched commits, abort, re-run | no recent trade is skipped; oldest first; no doubles but races; everything arrives in the end |
| **Retention** | `trades`, `trades_archive` | two passes of select, copy, verify, delete | a trade is in exactly one of the two; what is due is archived in the end |
| **Live ingestion** | asset and wallet maps, ids, subscription, the event in hand | two refreshing tasks, reconnect, attribution, verification | no trade of an unknown market is handled; only watched and trusted wallets are stored; open markets are subscribed to in the end |
| **Market discovery** | `markets`, `tokens` | three jobs and a lookup upserting ageing lists, rollback of a batch | resolved stays resolved; one bad market costs only itself |
| **Scheduler liveness** | Redis `scheduler:heartbeat`, module globals of the ingestor | heartbeat, check, escalation | a dead scheduler and a lasting outage are paged in time and once; nothing healthy is |
| **Trade alerts** | Redis dedupe marks, `alerts` | engine, cluster and unwind detectors: check, send, persist, flag, mark | one message per key and cooldown; `sent` tells the truth |
| **Price-level alerts** | `price_level_alerts.last_price`, `.last_fired_at` | crossing test on every print, message, commit | one message per crossing and cooldown |
| **Digests, system alerts** | Redis warning queue; `alerts` rows of digest wallets | push; read, delete, send; cutoff, then one SELECT per wallet | a warning is in one digest at most; an alert is in one, but for the minutes around a digest |
| **Data-quality watchdogs, scheduling** | interval and cron triggers in memory | freshness watchdog, consistency check, Gamma canary | lasting trouble a check can report is paged within an interval |
| **Price snapshots** | `market_price_snapshots` | two capture jobs, settling by two jobs, retroactive rows, clean-up | rows of a resolved market are settled once and kept |
| **Event clusters** | `event_clusters` | chunked seeding, assignment by hand | a group's markets share a cluster, two events do not; a person's word stays |
| **Point-in-time scores** | `wallet_scores_pit` | scoring a universe at a date | a score reads nothing later than its date |
| Daily scores, reports, API, research, book log, stubs | none that others rely on | - | - |

They interact through tables only, with three exceptions: the Redis keys (marks,
heartbeat, warning queue), direct calls inside the ingestor's event handler, and
the Telegram messages. Every job reads in one session, talks to an API for
seconds or minutes, and writes in another session, and few of them look again.
That is where the hard behaviour is: stale answers, jobs meeting the same row,
crashes between two commits, pages that shift, marks that expire, checks that
die. `PROJECT.json` lists the hazards with their lines.

## 2. Modules

| module | models | state it keeps | refines / used by |
|---|---|---|---|
| `ShareAccounts` | what the ledger promises about shares | bought, open, closed | abstract specification |
| `PositionLedger` | all writers of the three ledger tables | the tables, market and labels, each job's fetched state | implements `ShareAccounts` |
| `LedgerRebuild` | the tasks that rewrite the ledger from the trades | `PositionLedger`'s state, the trades, the running task | extends `PositionLedger` |
| `OutcomeStamp` | resolution, corrections, restamp | one market, its tokens and trades, three jobs | - |
| `WalletPoll` | the poller beside stream and API | the wallet's history, `trades`, the poller's variables | - |
| `TradeRetention` | the purge beside poll and seed | ages, `trades`, `trades_archive`, purge, poll | - |
| `LiveIngest` | the ingestor's two tasks | open markets, watch list, maps, subscription, event | - |
| `MarketCatalog` | discovery, lookup and status refresh | Gamma, `markets`, `tokens`, each job's list and transaction | - |
| `SchedulerLiveness` | heartbeat and its check | ages and timers of worker, Redis, ingestor | - |
| `AlertDispatch` | what a stored trade sends | Redis marks, `alerts`, the ingestor's step | composed in `MCSideJobs` |
| `PriceLevels` | price-level alerts | rows, last price and firing, the last message | " |
| `WorkerChecks` | the worker's checks and their clock | triggers, silence of the sources, what is broken | " |
| `AlertDigests` | both daily digests | queue, flush, ages of the alerts | " |
| `PriceSnapshots` | the snapshots of one market | clock, market row, rows, passes and jobs | " |
| `EventClusters` | `event_clusters` | market fields, rows, the seeding | " |
| `PointInTimeScores` | `wallet_scores_pit` of one wallet | closed positions, flag, rows per date | " |
| `MC*` | the instances for TLC | - | - |
| `*Proofs` | theorems, one module per specification; those of `LedgerRebuild` in `PositionLedgerProofs`, those of the side jobs in `SideJobsProofs` | - | - |

Helper operators carry the names of the functions they stand for
(`AfterBuy` is `update_position_on_buy`, `CloseIfResolved` is
`close_cost_basis_if_resolved`, ...); `PROJECT.json` maps each definition to its
lines. Operators marked *Mutant of* in a comment are deliberately wrong
variants; nothing refers to them in a specification. Variables marked
*observer* or *history* do not exist in the code, and no action is enabled or
disabled by them. (Counters that guards do read, `faults` and `changes`, only
bound failures and inputs.)

### PositionLedger

One market, keys `(wallet, asset)`. An action is one committed transaction.
`WsBuy`, `PollBuy` and `Sell` are the two ingest paths (the poller does not call
`close_cost_basis_if_resolved`; SELLs book alike). Jobs that scan in one session
and write in others are split accordingly: `FindMarkets`/`ProcessMarket`;
`ResolverFetch`/`ResolverApply`, `ResolverGivesUp`, `ResolverLeaves`;
`EpsilonScan`/`EpsilonClose`, `EpsilonSkip`; `StrandedScan`/`StrandedClose`/
`OrphanScan`/`OrphanClose`/`StrandedDone`. Between any two of these every other
writer may run, so answers and scans go stale exactly as they do in the code.
`Jobs` selects the writers of a run.

Abstractions. Shares and prices are small integers; the code's tolerances
(0.001, 0.01) are smaller than one unit. All BUYs of a key have one price, so
that the average entry prices of the two tables agree. WCP rows are
kept as the sums they add up to plus the sizes of the resolved ones, which is
what the dedup tests read. Outcome labels stand for themselves after `upper()`.
The stale age of a market (24 h, 7 days past its end) is `phase`. One transaction
is atomic: lost updates inside one are outside this model (section 6).

### LedgerRebuild

The live writers of `PositionLedger`, each with the `trades` row it leaves
(`hist`, ordered by `ts`; stream and poller deliver late, so a row may be
inserted anywhere), and the tasks: a scan in one session (`BackfillScan`,
`RecoveryScan`, ...), then one transaction per key (`RebuildKey`, `RecoverKey`,
`StatusFix`, `BasisFix`). `Replayed` folds the trades in `ts` order and clips
SELLs at zero as the script does; `Unclosed`, `Settled`, `SettledPnl` are its
settlement arithmetic. `Truncate` is its DELETE of all rows, `Killed` the
operator's Ctrl-C, `Archive` a purge. One task runs at a time, and a trade of a
key the backfill has deleted but not yet rebuilt makes its INSERT fail, which
skips that key.

### OutcomeStamp

One market with its BUY trades. `Sync` is the resolution job's sync, which looks
at `resolved` again; `Scan`, `Fetch`, `Apply` are the market resolver and the
status refresh, which do not. Gamma publishes an outcome and may correct it, and
the operator then corrects `markets.resolution`. The restamp is `JobScan`,
`JobRead` (re-reads the market), `JobCommit`; an exception (`JobFails`) loses
everything uncommitted. The three UPDATEs of `_process_market_resolution` and its
commit are one step: another transaction that commits between them either
touches none of the rows they wrote, and may as well come after, or waits for
them.

### WalletPoll

Fills are numbered in the order they happened; a page at an offset is what the
API serves of them newest first at that moment, so fills made between two
requests shift the next page. `LoadKeys` reads the known keys once; `IsNext` is
the order of the sorted list (by second; Python's sort is stable, so newest
first within one second). `Conflicts` is the unique `external_trade_id`.
`Fails`, `FetchFails` and `Unresolved` are the faults, bounded by `MaxFaults`.
Assumed: one poll runs at a time; the stream delivers a trade at most once; the
API's order is that of the fills; retries after HTTP 429 end in success or in
`FetchFails`.

### TradeRetention

Time is the age of each trade. `PurgeSelect`, `PurgeCopy` and `PurgeCommit` are
the statements of `_archive_then_delete`, with everything else in between;
`PurgeCommit` deletes by the selected ids after comparing counts, `PurgeFails`
rolls a pass back. The poll is reduced to what meets the purge: fetch, load the
captured keys from `trades` alone, insert, or stop. Rows that the one-time seed
copied are in both tables until the purge takes them.
`WindowAssumption` (`Lookback + PollTime <= Retention`) is what keeps the poll
from storing archived trades again: the defaults are 7 and 30 days, but nothing
in the code ties the poller's `--days` to the retention.

### LiveIngest

Two tasks. A refresh (`main` when starting or without ids, `loop` every few
minutes) reads the markets, extends the maps, reads the watch list and then
replaces the ids; `Connect` subscribes to the ids of that moment. An event waits
for its market's look-up, for attribution and for the verification of the
wallet, and during each wait the other task and other processes go on. A fault
in the loop ends the loop, one in the main task the ingestor, which starts again
knowing nothing.

### MarketCatalog

A job fetches a list and upserts it market by market in one transaction; a row it
has written is held until it commits. Gamma's answer ages in the list. The merge
of `_upsert_market` keeps what a resolved row says; the table's check refuses a
resolved row that is not closed; a failing statement rolls back the whole open
transaction, after which the job goes on with the markets behind it. Four kinds
of job differ in what they list and whether they insert tokens.

### SchedulerLiveness

Discrete time in ticks. `RecordHeartbeat` and `HeartbeatMisfires` are due every
`Beat` ticks; the refresh loop wakes `Check` ticks after it went to sleep and
takes up to `Slack`. Redis may lose its key when it returns. `RefreshFails` ends
the loop task while the stream lives on; `IngestorRestarts` starts a new one and
keeps the module globals, `ProcessRestarts` resets them. Assumed: no more than
`MaxMisses` heartbeats misfire in a row; a refresh including its Telegram calls
takes at most `Slack`.

### AlertDispatch

One wallet and market. The ingestor handles one trade at a time, so there is one
`at` and one list `todo` of kinds of alert. The engine sends, then writes, then
marks; the detectors write, send, look their row up again to flag it, and mark.
`DedupeKey` is kind and time bucket of the *trade's* timestamp, while a mark's
life starts when `Mark` runs. Time may pass between any two steps. Every Redis
or database call may fail (`Fault`), Telegram may refuse any message, Redis may
restart empty, the process may die. Which kinds a trade calls for is left open,
which covers every threshold the rules may have.

### The side jobs

`PriceLevels`: a print evaluates all rows of its asset in one transaction; the
message precedes the commit, and `PrintFails` is a commit that does not happen.
Cooldowns run in the prints' own timestamps, which may lag.

`WorkerChecks`: interval jobs live in memory, so `StartWorker` sets every
interval anew (the canary and discovery run at once); a run more than a second
late is dropped (`Misfire`). On an item of another shape the canary raises
before it reports anything, and its job only logs that (`CanarySeverity`).

`AlertDigests`: the warn digest reads, deletes and sends in three steps; a worker
that dies in between has lost what it had read. The wallet digest takes its
cutoff when it starts (`WalletStart`) and reads a wallet's alerts, from the cutoff
on and without an upper bound, when it gets to the wallet (`WalletSelect`), having
awaited Telegram for the wallets before; the ingestor stores alerts all the while
(`NewAlert`), each `AlertLag` ticks at most after the `created_at` its transaction
gave it. A start may be late by the grace time, a run takes `Longest` at most, and
may be dropped, fail or die. Cron jobs missed while the worker is down are lost.

`PriceSnapshots`: one market, two buckets. A capture reads its candidates,
prices them over HTTP and inserts; sync and resolver read, ask, and write. Both
resolving jobs change the market's attributes before they query its snapshots, so
SQLAlchemy's autoflush takes the row lock first (`CanFlush`), and that is the
only thing that keeps the two from settling the same rows. A capture takes less
than a day.

`EventClusters`: reads, plan and chunked upserts of a seeding; `ON CONFLICT ...
WHERE source <> 'manual'` is `Overwritable`. One seeding runs at a time; people
assign, and discovery changes fields, between any two of its steps. Rows are
never deleted, so three history variables tell what a row stands for: whether a
seeding has ended, which markets have changed since it read, and what a market
said when it was last written.

`PointInTimeScores`: one wallet; positions are booked at any time with a closing
date that may lie in the past. Means, rates and shares are compared without
division.

## 3. What TLC checks

| run | instance | shows |
|---|---|---|
| `ledger_all` | 1 key, 2 labels, sizes 1-2, 2 trades, all five jobs; fair | `StatusMatchesShares`, `NeverOversold`, and `EventuallySettled`: with the resolution job and the stranded check running, every position on a resolved market with known labels is closed |
| `ledger_books` | 2 keys, 3 trades, resolution and unknown closing | `PnlReconciles`, `NoDoubleClose`, and `ImplementsAccounts`: every step is one of `ShareAccounts` |
| `rebuild_replay` | 1 key, 2 labels, sizes 1-2, 2 trades, resolution job, all tasks | `RebuiltAsBooked`, `RebuiltReconciles`: the replay is the handlers' equal; `NothingUnbooked` |
| `stamp_restamp` | 2 trades on 2 tokens, 1 correction, all writers; fair | `NoFrozenInversion`, `NeverFabricated`, `EventuallyStamped` |
| `poll_safe` | 6 fills, pages of 2, 3 pages, 2 faults | `NeverSkips`, `OldestFirst` |
| `poll_live` | 3 fills, 4 pages of 1, stream, 2 faults; fair | `EventuallyIngested`, `RepeatsOnlyRaces` |
| `poll_conflict` | 2 fills of one transaction on 2 tokens; fair | **violated**: `EventuallyIngested` (the finding below) |
| `retention_once` | 3 trades (old and seeded, new, anonymous); fair | `StoredOnce`, `NeverLost`, `EventuallyPurged` |
| `live_stream` | 2 markets, 1 wallet, ranked subscription of 1, 2 faults; fair | `KnownMarket`, `TrustedOnly`, `Resubscribed` |
| `catalog_upserts` | 2 markets, listing and look-up, 2 faults; fair | `ResolvedStays`, `EventuallyCatalogued` |
| `liveness_pages` | the code's times in ticks of 2.5 min | `DeathPagedInTime`, `BlindnessEscalates`, `OneBlindPage`, `NoFalseAlarm` |
| `side_jobs` | seven components that share no state, one per behaviour | `SentMeansDelivered`, `EngineCooldown`; `OneMessagePerCrossing`; `PagedInTime`; `InOneDigest`, `CountedOnce`; `OnlyLateRowsOpen`, `SettledRowsKept`; `EventsApart`, `ManualWins`; `Reproducible`; `SideTypes`, their types in one |

`side_jobs` joins components that never meet into one run: `part` is chosen once
and the others rest, so each is explored as if alone. The types of the other
modules are theorems (section 4) and no property of a run.

Why the bounds are enough. *Ledger*: the interesting cases need a BUY before and
one after a settlement, an oversized SELL and a repeat of a size: two to three
trades of sizes 1 and 2; two keys only matter for steps that treat several at
once. *Rebuild*: late delivery needs two trades in both orders, one of them
beyond a settlement; three trades (with one label) have been run and show
nothing else. *Stamp*: a correction overtaken by a stale write needs two writers
and one correction; two trades tell a mixed market from a uniform one. *Poll*:
three pages shift by at least one row within one fetch; six fills overflow them,
so truncation happens; two fills share a second and a transaction. *Retention*:
ages saturate past the last one compared with; one trade of each kind (seeded,
attributed, anonymous), since trades meet only through sets of ids. *Stream*: two
markets of which one is subscribed to, so that rank changes matter. *Catalogue*:
two markets make a batch whose second failure rolls back the first.
*Liveness*: no bound but the code's own times; counters saturate past the last
value anything compares them with. *Alerts*: three ticks are one more than a
mark's life, two rows are what the detectors stumble over. *Levels*: a level, a
price on each side of it, lag within the cooldown. *Digests*: a day of six ticks, of which
a start may be one late and a run two long: then some alerts lie well away from
the digest, some within its minutes and some just before; two warnings; one alert,
since alerts do not act on one another. *Snapshots*: two days past the close, beyond the T24
window. *Clusters*: four markets: a group, two games under one title, single markets;
one change or assignment; chunks of one, so that anything may come between two of them. *Scores*: three dates, three
positions.

`ledger_books`, `rebuild_replay` and `side_jobs` switch the deadlock check off:
they run out of trades, clock or rows, which are bounds and not states of the
program. Every other run checks for deadlock.

`NoDoubleClose`, `PnlReconciles` and `ImplementsAccounts` are checked with a
subset of the jobs, because with the others they do not hold. Epsilon close
breaks the first: it closes the positions row and writes a WCP row but keeps the
cost basis (`epsilon_close.py:187`), and the resolution job then books the same
shares again. So does pass 2 of the stranded check: when the
market resolves, or a purchase arrives, between its passes, it books an orphan
whose cost basis is still carried and will be booked again
(`run_stranded_positions_check.py:212`). The resolver adds a settlement's P&L to the positions row even when it
skips the WCP row (`run_market_resolver.py:402-463`), and the stranded check's
pass 1 writes a WCP row that only pass 2 carries over, so that the second is
theirs to break. And the resolver books the *positions row's* remaining shares,
which need not equal the cost basis it deletes: no share is booked twice, but the
step is none that the share accounts allow.

`RebuiltAsBooked` and `RebuiltReconciles` name the cases in which replay and
handlers are meant to agree: the trades are all there, in order and fully booked,
and the deleted row told the truth. Outside them the backfill differs by design
(it clips at zero, estimates SELLs that left no WCP row) or by what it cannot know
(archived trades).

### Fairness

`PositionLedger` and `OutcomeStamp`: the scheduler starts its jobs for ever, so
steps of the resolution job and the stranded check are weakly fair once the
market is resolved; nothing is assumed of traders, Gamma, the operator, or time.
The restamp's read and commit are strongly fair, because a run may fail and
the next run starts over, but does not fail for ever. `WalletPoll`: the task is
run again and again and works through all watched wallets (strong fairness per
wallet, since runs for other wallets disable the start); its own steps are
weakly fair; faults are finite. `EventuallyIngested` also needs pages enough for
the history, which `poll_live` gives it. `TradeRetention`: the daily job starts
again and again and does not fail for ever, so the steps of a pass are strongly
fair; nothing is assumed of polls. `LiveIngest`: the steps of both tasks are
fair while they run, faults are finite, and a lasting connection is the premise
of `Resubscribed`, not an assumption. `MarketCatalog`: discovery is scheduled for
ever and its steps are fair; failures are finite, so a job gets through its list
in the end. `SchedulerLiveness` and the side jobs state their promises as
safety, with explicit time.

### Finding

**A two-token transaction blocks its wallet.** `poll_watched_wallets.py:479`
derives the unique `external_trade_id` from the transaction alone; the second
asset's insert fails and rolls its batch back, in this and every later run.

### Met while modelling

No run shows these; each is visible in a definition that models the code as it
is.

*Ledger.* Dust is closed twice (`epsilon_close.py:187`, against
`wallet_closed_position.py:13`). A correction of a resolution restamps trades
but not the WCP rows booked with it (`resolution.py:376`, against the
repository's README, lines 41-52). A cost basis whose label is unknown is
deleted without a WCP row (`resolution.py:389`). Rows are read, computed on in
Python and written back as absolute values without a lock
(`poll_watched_wallets.py:480`), so two writers of one key lose one update.

*Rebuild.* The recovery books a key twice when it carries two resolved rows of
other sizes; it stamps a BUY without an outcome as a loss
(`run_late_buy_recovery.py:225`), unlike the restamp. A trade between the
backfill's truncation and its replay makes its unique insert fail, and a kill
midway leaves rows out until it is run again. The replay reads `trades` and not
the archive. The status fix closes rows with shares left; the cost-basis fix may
lower `total_shares_bought`; the scoring backfill stamps only the first run's
rows of a key.

*Poller, retention.* A second fill of the same transaction and asset is dropped
as a repeat (`poll_watched_wallets.py:578`). `--days` beyond the retention would
store archived trades again. Trades archived before a correction are never
restamped (`retention.py:152`). The stream's insert does not deduplicate.

*Ingestor.* A database error ends the refresh loop (`run_ws_ingestor.py:102`)
while the stream lives on: from then on nobody checks the worker's heartbeat
(against `run_scheduler_liveness_check.py:15-17`) and no new market is subscribed
to until the ingestor crashes. Refreshed ids take effect at the next reconnect
only. Verification fails open (against the words of `normalizer.py:482`) and
looks at neither asset nor time.

*Alerts.* `clustering.py:213` and `unwind.py:208` look their row up by a key
that several rows may carry; `scalar_one_or_none` then raises before the key is
marked again, and every further trade of the bucket repeats the alert (against
`clustering.py:15`). `unwind.py:79` and `clustering.py:84` upper-case the outcome
and compare it with stored labels of mixed case. A warning pushed between the
digest's read and delete, or one Telegram refuses, is lost; a digest retried after
a timeout may be delivered twice. A crossing inside a cooldown is never told. A
worker that restarts more often than hourly never runs a watchdog. The canary,
which "never raises" and is to report CRIT "on any failure"
(`run_gamma_canary.py:102`, `:25`), raises on an item that is no dict or a field
that is no list, and `jobs.py:194-195` logs that: such a drift is never paged. The
wallet digest, which "wants every qualifying trade counted" (`engine.py:154`),
counts an alert of the minutes it runs in twice. It misses one that came right
after a digest when the next one starts late, and one created before a start and
committed after the SELECT.

*Snapshots, clusters, scores.* A market that discovery's upsert resolves first
never has its snapshots settled, and rows captured from a stale list stay open
for ever. The resolver's database fallback takes a last print of 0.99 for a
result. `market_price_snapshot.py` says that rows are never deleted, the clean-up
deletes some. The seeding
deletes nothing (`heuristics.py:98-146`): a market that left its group is not
"left unclustered" (`heuristics.py:15-20`) but keeps the former group's id, and
two lone markets of different events may share one. `EventsApart` says so: such a
row stands for what it was written with.
`wallet_score_pit.py` says that rows are never updated in place, scoring a date
again does; positions booked late change what a past date would score; a wallet
without rows keeps its old score, and the sybil flag has no history.

## 4. What is proved

Every theorem holds for all values of the constants that satisfy the module's
`ASSUME` and is checked by TLAPS from nothing. Each follows the same three
steps: `Init => IInv`, `IInv /\ [Next]_vars => IInv'`, `IInv => Inv`.

| theorem | property | inductive invariant and why it is needed |
|---|---|---|
| `LedgerTypes`, `StatusAgrees`, `Covered` | types, `StatusMatchesShares`, `NeverOversold` | `LedgerInv`: types and, per positions row, `Sound` (status matches shares, totals cover). One lemma per row operation keeps `Sound`, one per action cites them |
| `ClosedOnce` | `NoDoubleClose`, for `Jobs` without epsilon and stranded | `OnceInv = LedgerInv /\ NoDoubleClose` and, per key, `Unbooked`: while no resolution row exists the remaining shares have not been booked either. The last part is needed because the resolver books remaining shares, not the cost basis |
| `PnlAgrees` | `PnlReconciles`, for resolution and unknown closing | `PnlInv`: per key `Even`, both P&Ls agree and a key without a positions row has neither P&L nor cost basis; without the second part a settlement could book what no row receives |
| `LedgerImplementsAccounts` | `ImplementsAccounts`, for resolution and unknown closing | the invariant of `ClosedOnce`; each action is a `ShareAccounts` step or a stutter |
| `RebuildTypes`, `NothingUnbookedHolds`, `RebuiltReconcilesHolds`, `RebuiltAsBookedHolds` | types, `NothingUnbooked`, `RebuiltReconciles`, `RebuiltAsBooked` | `RebuildInv`: the types and, per key, `KeyOK`, which ties the three tables a task reads: what the resolved closed-position rows hold lies beyond what SELLs booked, and without one the SELLs' rows are all there is (`Booked`); the trades tell no more closings than were booked, and the same P&L if they tell all (`Told`); a recovered key's rows cover its purchases. The properties speak of one step and of sums over `trades`, and no step can be judged without knowing how those sums and the rows came to agree |
| `StampTypes`, `NothingFabricated`, `NeverFrozen` | types, `NeverFabricated`, `NoFrozenInversion` | `StampInv`: besides types, that a result exists only on a resolved market and that no stale answer is empty |
| `PollTypes`, `DriftNeverSkips`, `InsertsOldestFirst` | types, `NeverSkips`, `OldestFirst` | `PollInv`: what lies above the offset has been fetched, however far it drifted (`Fetching`), and a list entry is a recent, fetched fill (`Listed`) |
| `RepeatsAreRaces` | `RepeatsOnlyRaces` | `RaceInv`: while ingesting, each row of the wallet was among the loaded keys, seen by the run or streamed (`Origin`), and what waits in the batch has the key of no loaded row (`Waiting`) |
| `RetentionTypes`, `NothingDoubled`, `NothingLost` | types, `StoredOnce`, `NeverLost` | `RetentionInv`: what is archived is old (`ArchivedOld`), what a pass has read is still so when it commits (`PurgeInv`), what a poll holds is too young for the archive (`PollInv`); the last needs `WindowAssumption` |
| `CatalogTypes`, `ResolvedForGood` | types, `ResolvedStays` | `Typed` and `Locked`: a row has one writer at a time, and what an open transaction wrote of a resolved row says resolved |
| `IngestTypes`, `MarketsKnown`, `WalletsTrusted` | types, `KnownMarket`, `TrustedOnly` | `Quiet` (no event without a connection), `Maps` (ids and subscription lie within the maps), `Trusted` (what an event carries was watched when it came in) |
| `LivenessTypes` | types | itself |
| `DeathIsPaged` | `DeathPagedInTime` | `DeadInv`: while nothing is paged, the time since the death is bounded by the key's age and the loop's timer |
| `BlindnessIsPaged`, `BlindPageOnce` | `BlindnessEscalates`, `OneBlindPage` | `BlindInv`, `OnceInv`: the outage clock lags by at most two checks; the latch is set when a page went out |
| `AlarmIsTrue` | `NoFalseAlarm` | `HealthInv`: the key is no older than the beats since the last one that ran; needs `Beat * (MaxMisses + 1) < Stale` |
| `AlertTypes`, `SentIsDelivered`, `EngineKeepsCooldown` | types, `SentMeansDelivered`, `EngineCooldown` | `AlertInv`: the steps a kind can be at (`Stages`), that after a message either its mark lives on or something failed or it is about to be marked (`CoolInv`), that the last row is the current one (`SentInv`) |
| `CrossingsToldOnce` | `OneMessagePerCrossing` | `LevelInv`: a row that remembers its last message fired no earlier than that, and while its last price is on the near side such a price came since (`Remembered`) |
| `TroubleIsPaged` | `PagedInTime` | `ChecksInv`: the time unheard and the time to the next run fit into the intervals of the runs dropped since the last one (`Patience`); trouble that the check dies of is none it can report |
| `OneDigest`, `WindowsTile` | `InOneDigest`, `CountedOnce` | `DigestInv`: what waits in list or batch was in no digest (`Unsent`); a digest is late and long within its bounds (`Timely`); an alert is of today, of yesterday or older, and each kind has been counted so often, by whether today's SELECT is still ahead (`Tiled`). The property compares an age with a time of birth, which says nothing of the digests between without these three stages |
| `OpenRowsAreLate`, `SettledStays` | `OnlyLateRowsOpen`, `SettledRowsKept` | `SnapInv`: one job at most is between flush and commit, and what it has read holds until then (`Holding`): its rows are open, T24 is free if it makes one up, every other open row is late |
| `EventsKeptApart`, `HandsWin` | `EventsApart`, `ManualWins` | `ClusterInv`: every heuristic row has the id of what it was written with (`RowsLabelled`); a seeding has read the fields as they are but for the altered markets (`ReadSoFar`); each market of a group is left to write or written as it is (`Planned`). The first is what speaks of leftovers, the others turn "last written" into "now" for groups |
| `NoLookAhead` | `Reproducible` | `ScoresInv`: types and the property; the verdict is a function of the flag and the gains in the window (`SameVerdict`), so no arithmetic is needed |
| `LevelsTyped`, `ChecksTyped`, `DigestsTyped`, `SnapshotsTyped` | each part's types | `LevelInv` and `ChecksInv` with `Watched`; `AgesTyped` (the alerts and their ages); `SnapInv` with the types of passes (`CapturesTyped`) and rows (`RowsTyped`) and `Quiet`, a resolved market is not active. That one resolving job at most holds the row is `SnapInv`'s |
| `SideTypesHold` | `SideTypes` | none of its own: a behaviour of the side jobs is one of each part (`EveryPart`) |

`DigestAssumption` says that a digest has started and ended, and an alert is
committed, within a day. `ClusterAssumption` says that NULL is no cluster id and no
row, besides that chunks are not empty; cluster ids are injective functions of the group by construction of the
model, which `EventsKeptApart` relies on.

The replay is a fold over the trades of a key, in a history of any length. No
induction theorem is used: `FoldExists` takes the least index at which a fold
over the first *n* trades would have no next value and contradicts it
(well-founded order of the naturals), and so do the lemmas built on it. `TotalAdds`
and `ReplayCourse` give a sum and a replay their course, one value per trade;
`TotalInsert` and `TotalTail` say how a sum changes when a trade is stored, late or
not, and when the oldest is archived; `ReplayedColumns` says what a replay
computes: bought, sold and P&L are the sums over BUYs and closings, and where no
SELL precedes its BUYs nothing is clipped.

Left to TLC: liveness (every `Eventually...` and `Resubscribed`), which needs
fairness and `ENABLED`, out of the prover's reach; and the violation. Every
other property a run checks is a theorem.

## 5. Plan

Everything planned so far is done except these, in order of worth:

1. `LedgerRace`: two transactions with separate reads and writes on one ledger
   row; which updates may be lost. It needs the row operations of
   `PositionLedger` split, and a promise of the repository to check it against,
   which there is none yet.
2. Closed-position rows that remember the resolution they were booked with, once
   the code does, and the corrections that should follow.

## 6. Not modelled

The daily score, statistics and research code (real arithmetic over fixed data,
no shared state); the API and dashboard (read-only but for rows other modules
take as inputs); reports, seeds and the one-off repairs of `position_fraction`
and of a counter; the status fix's rows without shares and the scoring
backfill's SELLs, which restate what other modules have; the continuity check and
the order-book log; message wording; the Dune and Alchemy stubs. Lost updates
inside one transaction (`poll_watched_wallets.py:480`) and trades a stream
delivers twice are outside the models' assumptions. Assumed of the environment:
PostgreSQL commits are atomic and durable, Redis commands are atomic, and clocks
of the processes agree.

## 7. Running it

`tlc -workers 2 -config <run>.cfg <module>` checks a run (`PROJECT.json` names
its module); `tlapm <module>Proofs.tla` checks a module's proofs. The longest
run (`side_jobs`) takes about a minute and a half, as do the longest proofs.
