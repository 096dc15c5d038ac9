# QuantPilot-AI-Next: TLA+ models and proofs

This directory is a verification development of QuantPilot-AI-Next, an A-share paper
trading and research system. It models the parts of the program that keep state or
whose result depends on an order: what may be interrupted, repeated, overlapped,
reordered, or decided on data that must not be known yet. Models are checked with TLC
on small instances; for eight of them TLAPS proves the main properties for every value of
the constants. Paths are relative to the repository.

- [The system](#the-system)
- [Modules](#modules)
- [How the models correspond to the code](#how-the-models-correspond-to-the-code)
- [What the runs check](#what-the-runs-check)
- [What is proved](#what-is-proved)
- [What is only model-checked, and what is not modelled](#what-is-only-model-checked)
- [Plan](#plan)

## The system

The package is `src/quantpilot_core` (about 400 files) with command line entry points
in `scripts/`. A day runs like this: market rows come from a provider chain or a
snapshot; a strategy ranks symbols and a production manifest freezes its parameters;
the real candidate pipeline turns the ranking into a request of the daily paper loop;
the loop decides at session D, executes at D+1 under A-share rules on the account in
`state.json`, and writes a report; the continuous service stores the report's facts in
PostgreSQL and may ask advisory models about it; signals for a TDX terminal are exported
from state and report; fills made at a broker are booked by hand into the same state.
Beside this run a Level-1 market data collector, a read-only exporter inside a QMT
terminal, and the research that produces the strategies (snapshots, walk-forward
windows, sweeps, announcement studies, information agents, a simulated firm).

| component | state | operations | meets |
|---|---|---|---|
| daily paper loop (`daily_paper_loop/`) | `state.json`: account, lots, applied sessions, dates, hashes; `report.json` | `run_daily_paper_loop`, `load_daily_state`, `save_daily_state_atomic`, `write_report_atomic` | execution (call), manual fill (same file), pipeline and service (callers) |
| A-share execution (`a_share_market_reality_execution/`, `paper_trading/loop.py`) | account, settlement lots, seen order ids | `execute_a_share_reality_proposal`: one order after the other on a working copy | daily loop |
| manual fill (`scripts/record_manual_fill_v1.py`) | none of its own | books one fill into `state.json` | daily loop, through the file only |
| candidate pipeline, sizing (`real_candidate_pipeline/`, `daily_paper_loop/runner.py`) | the stored request of a session | candidates, decision, sizing rows, replay or conflict of a request | loop, providers, manifest |
| production manifest (`production_candidate/`, `continuous_paper/manifest_bridge.py`) | one published file | build, publish, read again at each attempt | pipeline, operator |
| continuous paper (`continuous_paper/`) | reporting database | one cycle: pipeline, report, shadow, one transaction; Prefect retries | pipeline, database, scheduler |
| active shadow (`continuous_paper/active_shadow.py`) | answer files, budget of a run | asks each role once per evidence | service, model API |
| market reality, paper replay (`market_reality/`, `multi_day_paper_replay/`) | account of a replay | reviews of an order; instructions day after day | callers |
| TDX signal export (`tdx_manual_signal_bridge/`) | `latest.json`, `latest.csv` | read state and report, write the pair | loop, TDX terminal |
| daily evaluation (`daily_evaluation/`) | manifest, states, reports of many sessions | resumed evaluation | pipeline |
| Level-1 collector (`real_data_provider/level1_collector.py`) | dedup keys, events, stop flag, lock | `start`, `run`, `poll`, callback, `shutdown` | TDX adapter (callbacks), store |
| TDX adapter (`real_data_provider/tdx_level1_adapter.py`) | process-wide path, callbacks, diagnostics | load, subscribe, snapshots, history, close | TDX runtime |
| QMT exporter and reader (`scripts/qmt_builtin_readonly_exporter_v1.py`, `qmt_builtin_bridge/`) | writer lock, snapshot file, sequence | QMT callbacks, query cycle, publication; read and track | QMT terminal, runtime |
| provider chain, all-A snapshot (`real_data_provider/`, `all_a_share_snapshot/`) | partitions and manifest on disk | fallback from provider to provider; resumable download | network, pipeline |
| research (`walk_forward/`, `evaluation/`) | snapshot file; accounts of runs | windows, folds, sweeps, rebalancing, audit | snapshot |
| announcements (`announcement_intelligence/`) | body cache, artifacts, assessment cache | ingestion, assessment, event study | providers, model API |
| agents and firm (`information_agents/`, `research_committee/`, `quant_firm/`) | firm parameters between cycles | scores, signals, reports, decisions, learning | one another |

### What is hard in it

* **Crashes between two saves**: state, then report; state file, then database;
  partition files, then manifest; answer, then budget.
* **Repeats.** A session, a cycle, a paid question or a download is run again and must
  be recognised as the same one, however its request is spelled.
* **Several writers of one file with a fixed temporary name**: loop and manual fill,
  two exporters, two manifest builders, two shadows.
* **Lost acknowledgements** of a transaction, and a retry whose report differs.
* **Two books of the same shares**: positions and settlement lots, first-in first-out,
  through partial fills and aborted sessions.
* **Threads and callbacks**: the collector's polls and notifications, the exporter's
  timer inside a query, the adapter's registrations.
* **Time**: no decision may use a row, a label or an announcement that was not
  available; availability meets the close, weekends and holidays.

The full list, with lines, is in `PROJECT.json` under `hazards`.

## Modules

| module | models | kind |
|---|---|---|
| `PaperLedger` | the state file as data: a history of sessions and fills, the checks of both | operators |
| `SessionLedger` | what the file promises: one append-only ledger of legal entries | abstract specification |
| `DailyPaperLoop` | sessions and fills as processes on `state.json` and `report.json`, three system calls per save, crashes anywhere, replays | refines `SessionLedger` |
| `AShareExecution` | cash, positions, lots, order ids through sessions, partial fills, aborts, manual fills | state machine |
| `Level1Collector` | main thread and notification threads over the adapter: lock, deduplication, sink, shutdown, Ctrl-C | state machine |
| `ReportingArchive` | what the store promises: per session nothing, or one whole bundle that never changes | abstract specification |
| `ContinuousPaper` | cycles of several drivers over pipeline, state file and database, retries, lost connections | refines `ReportingArchive` |
| `QmtExporter` | exporters on one bridge root: callbacks, lock in two modes, query cycle, publication, restart; the reader's tracker | state machine |
| `QmtRecords` | a broker's record through normalisation, protocol check, and a second writing | state machine |
| `TdxAdapter`, `TdxRows` | loading, subscriptions and diagnostics of the adapter; its snapshots, times and history | state machines |
| `ProviderFallback` | calendar and bar chains of one session's market input | state machine |
| `SnapshotBuild` | builds of the all-A snapshot: partitions taken over or fetched, damage, crashes | state machine, with its theorems |
| `PipelineRequest` | identity of a pipeline call: replay, conflict, what a report says | state machine |
| `ProductionBinding` | the manifest: builders, edits, rebuilds, attempts of a session | state machine |
| `CandidateDecision`, `SizingRows` | from ranking to orders; the sizing rows that explain them | state machines |
| `MarketReality` | the two reviews of an order and the caller's account | state machine |
| `PaperReplay` | the multi-day replay and its dry run | state machine |
| `SignalBridge` | the two signal files among sessions, replays and fills | state machine |
| `ActiveShadow` | roles, budget, answer files of overlapping shadows | state machine, with its theorems |
| `DailyEvaluation` | an interrupted and resumed evaluation with its certificate | state machine |
| `CanonicalSnapshot`, `WalkForward` | the fixed snapshot; windows, leakage guard and the runner | state machines |
| `RebalanceWindows`, `RealityAudit` | orders of a sequence of windows; plain against A-share execution | state machines |
| `FoldTraining`, `ParameterSweep` | labels, splits, purge, fit; sweeps and their rankings | state machines |
| `AnnouncementTimes` | availability and reference session of an announcement | operators, with lemmas |
| `AnnouncementIngestion`, `AnnouncementAssessment`, `EventStudy` | fetch with caches; assessments; labels | state machines |
| `SignalScores`, `InformationAgents`, `ResearchDesk`, `FirmCycle` | scores; tables to signals; reports to candidates; cycles of the firm | operators, state machines |
| `MCDailyPaperLoop` | instances of the loop | MC |
| `MCMarketData`, `MCPaper`, `MCResearch`, `MCAgents` | suites: instances of the components above | MC |
| `DailyPaperLoop_proofs`, `AShareExecution_proofs`, `Level1Collector_proofs`, `QmtExporter_proofs`, `ContinuousPaper_proofs` | theorems | proofs |

`DailyPaperLoop` EXTENDS `PaperLedger`; `AShareExecution` is the account behind one
ledger entry: where the loop takes any holdings a proposal can leave
(`HoldingsAfter`), `AShareExecution` computes them. `ContinuousPaper` sees the same
state file as an atomic history, which is what `SerialLoopIsLedger` justifies, and adds
the database. `EventStudy` and `AnnouncementIngestion` share `AnnouncementTimes`.

## How the models correspond to the code

**PaperLedger.** `state_hash` covers the account, all applied sessions and the dates,
so a hash names one whole history. The model represents a state by that history, a
sequence of entries, and a hash is the sequence itself. `LegalSession` has the
checks of `run_daily_paper_loop` in order: the decision day has a successor in the
calendar, the session is not in `applied_sessions`, the market bundle covers the
holdings, chronology. `LegalFill` has the chronology guard of the manual fill and its
position check; the script compares date arguments as strings, and the model's days are
the YYYY-MM-DD dates it asks for. Symbols in a candidate report and symbols with market rows are
functions of the input digest.

**DailyPaperLoop.** A process is one command. `ApplySession`, `ReplaySession` and
`RecordFill` are everything a command does up to its first write: load, check,
compute. What it is going to save is in `next` and `draft`. Then `OpenTemp` (the
temporary file is created or truncated), `WriteTemp` (write, flush, fsync, close) and
`ReplaceTemp` (rename) run once for the state and once for the report; a manual fill
writes no report, and a replay saves no state. `handle` says where the inode a
process has open is reachable from: under the temporary name, under the visible
name after somebody's rename, or nowhere. `Crash` ends a process before any of its
system calls; `OSError` from a rename whose source has gone is the same step. A run
that is rejected writes nothing and is a stuttering step. File contents are abstract:
absent, emptied, garbled (bytes that do not decode or do not match the hash) or whole.
File semantics are POSIX: on Windows a rename over a file that is open fails instead,
which the `Crash` step covers.

**AShareExecution.** `work` is the working copy of the running session, `book` the
account in the state file. `StartSession` picks any proposal `_build_order_proposal`
can build: whole-lot buys, each affordable on its own at some decision price, then a
sell of all whole lots for every exit candidate, never both sides of one symbol.
`ExecuteOrder` is one turn of the loop in `execute_a_share_reality_proposal` with the
price and the volume the symbol meets that day: reject or defer, or reserve, fill
(limited by volume), update the account, assert consistency, update the lots.
`EndSession` is the reconciliation and the save. Any exception is `ThrowAway`.
`ManualBuy` and `ManualSell` are the script. Left out: average costs and PnL,
slippage and transfer fees (part of the price), `frozen_cash` (nothing sets it to
anything but zero), the position index inside an order id (the ids of one session
differ by symbol already). Fees round down; the code rounds to 4 or 6 decimals.

**Level1Collector.** `Main` runs `start`, the loop of `run` and `shutdown`;
`Callbacks` are threads of the TDX runtime. `pc` is the place of a thread between two
moments at which others can see or change something: before and after each call of
the adapter or the sink, and at each look at the stop event. A refresh is `Acquire`
(the lock), `Fetch` (`get_market_snapshot`: the quotes as they are now, or an error),
`Take` (the loop over the events: key, deduplication, aggregator) and `Store` (the
sink, all or nothing). `Shutdown` has the four steps of the method in their order and
takes no lock. `Subscribe` registers the callback before TDX is called, so
notifications can arrive before `start` has returned. `Interrupt` is Ctrl-C at any
step of the main thread, after which the script calls `shutdown` again. A quote is a
number that grows with its timestamp. Taken for granted: the timestamps of a symbol
come from one source and the exchange's own do not go back. Left out: bars (the
aggregator is its last timestamp and its refusal of an older event), the counters of
the report, the partial effect of a Ctrl-C inside `Take`, payload parsing.

**ContinuousPaper.** A driver is the served deployment, whose task Prefect retries, or
the script, which is not retried. `Initialize` connects; `Replay`, `Decide`,
`SaveState` and `WriteReport` are the pipeline, with the state file as an atomic
history; `Advise` is the shadow, `Extract` the facts, and `Check`, `Insert`, `Commit`
are `_check_and_insert` table by table inside one transaction, where an insert waits
for an uncommitted row of the same key and fails on a committed one. `Disconnect`,
`CommitUnacknowledged` and `Crash` may come at any step; only connection errors are
retried. The digest of a row is what the row is made from: a session's and a report's
rows carry the whole report, a learning row also the advice, a fact only the session
record, so that a replay's report conflicts where the code's digests conflict. The
five fact tables are one.

**QmtExporter.** `Load` is `init` with the lock and `_load_last_sequence`,
`LoadRefused` and `LoadFails` its failures, `AfterInit`, `Timer`, `HandlebarStarts`,
`HandlebarWaits` and `Stop` the callbacks, `Query` one section of the cycle, and
`OpenTemporary`, `FillTemporary`, `Replace` the publication. `G[e]` is the module's
global state of exporter `e`; `asked` numbers the latest request and is not part of the
code. A record has the version of the broker's book it was read from. `ReadLatest`,
`Accept` and `Refuse` are the reader with its `SequenceTracker`. With `OsLock` the
operating system gives the lock back when its owner dies; without it the lock is the
exclusively created file, which stays.

**ActiveShadow.** A process asks the roles of the committee in the order of the code;
the committee itself comes last, and only when the runtime allows it (`Order`). `Start`
is the start of a cycle, `FromCache` the cached answer, `NotAsked` the role no call is
made for, `Ask` the request under its budget, `Answered` and `Fails` its ends; an answer
is written in three system calls (`Open`, `Fill`, `Move`), so that two processes with the
same evidence can meet in the temporary file. Files are numbered and `content` says
what each holds, because a rename moves a name and leaves a file another process may
still be writing.

**SnapshotBuild.** `Plan` is the order of `build_snapshot`'s calls and `k` the place of
the running build in it. At each place a partition is taken over from the manifest that
was there at the start (`TakeOver`), or fetched (`FetchMaster`, `FetchDaily`,
`FetchOptional`), or its call fails after its retries (`FetchFails`); `Combine` makes
the table of names from its shards, `WriteManifest` and `Validate` are the end of the
function. `Crash` ends a build anywhere and `Damage` changes a file between builds. A
file is its content, since the code compares hashes.

**The suites' components.** Their module headers say what is kept and what is left
out; in short: what the network, the broker, a model or an operator may answer or do is
chosen freely from a small set (`Markets`, `Answers`, `Outputs`, `Days`, `Requests`,
`Edits`); the order of the code's checks is kept as the order of conditions; numbers are
small integers in the code's own arithmetic with percentages as integer quotients;
texts are the features the code looks for in them. Every definition is mapped to its
lines in `PROJECT.json` under `map`; a helper whose lines lie inside an operation's row
is covered by that row and has none of its own.

## What the runs check

| run | instance | checks |
|---|---|---|
| `daily` | 1 loop and 1 clerk, one at a time; 3 days, 2 symbols, 2 inputs, 3 entries | `TypeOK`, `LedgersSound`, `StateReadable`, `ReportFaithful`, `LostReportRecoverable`, the refinement `LedgerSpec` |
| `execution` | 2 symbols, lots of 2, prices 2 and 3, volume 0, 1 or 4, minimum fee 3, cash 14, 3 days, 2 manual fills | `TypeOK`, `BooksAgree`, `CashNeverNegative`, `OldestFirst`, `NoSameDaySale` |
| `collector` | main and 2 notification threads, 1 symbol, 2 quotes, fairness | `TypeOK`, `NeverOutOfOrder`, `LossLeavesError`, `StopEnds` |
| `exporter_lock` | 2 exporters on one root, 1 section, 2 snapshots, 1 crash, 1 failure, a reader; the exporters are symmetric | `TypeOK`, `OneWriter`, `RequestKept`, `SequenceAdvances` |
| `exporter_records` | 1 exporter, 2 sections, a broker that changes once, 1 failure, fairness | `RecordsAdvance`, `ExportsContinue` |
| `cycles` | served deployment (1 retry) and script, 1 day, 2 requests, 1 manual fill, 1 fault, fairness | `TypeOK`, `ReturnedIsStored`, the refinement `ArchiveSpec`, `CyclesEnd` |
| `data` | suite `MCMarketData` | `TypesOK`, `DataIsAttributed`, `NothingIsOrphaned`, `CompleteIsWhole` |
| `paper` | suite `MCPaper` | `TypesOK`, `RepeatsAgree`, `AccountsAreHonest`, `StepsAreHonest` |
| `research` | suite `MCResearch` | `TypesOK`, `NothingIsSeenEarly`, `ResultsAreExplained`, `StepsAreHonest` |
| `agents` | suite `MCAgents` | `TypesOK`, `PublicWhenUsed`, `JudgementsAreSteady` |
| `shared` | 1 loop and 1 clerk that overlap | expects `StateReadable` violated |
| `cycles_equity` | `cycles` with the equity the daily loop writes | expects `AppliedIsStored` violated |

**Suites.** The smaller components share no state with one another, so one run checks
several of them: a suite module INSTANCEs each with small constants, the variable
`active`, chosen at the start, says which is at work, and the variables of the others
stay idle. The states of a suite are the disjoint union of those of its instances, and
its properties are conjunctions `active = x => Instance!Property`. A component appears
under several names where its questions need different instances:

| suite | instances |
|---|---|
| `MCMarketData` | `loading`, `subscribing`, `notices` (TdxAdapter: three providers that import; two whose subscriptions may share symbols; callbacks on two threads); `forms`, `times`, `history` (TdxRows: every form of a time; two symbols; bars); `values`, `sections` (QmtRecords); `bridge` (QmtExporter, with values the reader refuses); `provider` (ProviderFallback); `renamed`, `whole` (SnapshotBuild) |
| `MCPaper` | `symbols`, `bars`, `signals`, `sessions` (PipelineRequest: requests that differ in spelling, in bars with other prices and providers, in signals with other sizing parameters, in days and capitals); `attempts`, `edited`, `rival` (ProductionBinding: one builder, an edited file, two builders that overlap); `account`, `strategy` (CandidateDecision: in both account modes); `sizing` (SizingRows); `orders`, `assumptions` (MarketReality); `replay`, `repeated` (PaperReplay: up to three instructions a day on one symbol, so that it may be sold twice); `bridge`, `states` (SignalBridge: without and with the state file); `repeats`, `overlap` (ActiveShadow); `evaluation` (DailyEvaluation) |
| `MCResearch` | `builds` (CanonicalSnapshot); `calendar`, `frame`, `caller`, `overlapping` (WalkForward: rows with and without a date; two windows of a caller in any order); `plain`, `controls`, `withheld`, `holding` (RebalanceWindows; in `withheld` the turnover controls remove sells whose proceeds were spent); `folds`, `single` (FoldTraining: histories with late listings, early ends and suspensions); `cached`, `refused` (ParameterSweep); `costs`, `frozen`, `free` (RealityAudit) |
| `MCAgents` | `ingestion` (artifacts torn by a crash), `assessment` (rows of a title alone, with a source or none), `study` (notices that share a content hash); `learning`, `models` (FirmCycle: any model names in the environment, deprecated ones included); `news`, `concepts`, `northbound`, `funds`, `liquidity`, `holders` (InformationAgents); `reports`, `candidates` (ResearchDesk) |

No run checks for deadlock: calendars end, runs end, calls and days are bounded, and a
stopped exporter or a collected run has nothing left to do.

**Bounds.** In `daily`, three entries are a session, something after it and something
after that: enough for a replay of an old session, a session between two fills and a
fill between two sessions. One of the two inputs has no row for one symbol, so a
holding can make it unusable. Two processes are enough for every file hazard, each of
which is about one process between two system calls of another. In `execution` a volume
of one share leaves an odd lot out of a board lot of two; the minimum fee exceeds the
price of one share, so that a small partial sell lowers the cash; cash 14 buys one or
two lots, so that a second buy meets a lower balance. The instance keeps one relation of
the real numbers on purpose (`LotsPayTheirFees`): a board lot never sells for less than
its fees (100 shares, a commission of 5 yuan), which is why a manual sell, which does
not check its cash, cannot make it negative. In `collector` two quotes are the one that
is seen and the one that comes between a fetch and its processing; three threads are
one inside the lock, one that waits and one that reports a failure. In `exporter_lock`
one crash and one failure suffice for a lock left behind, a temporary file left half
written, and a failed write inside a cycle with a request; the second snapshot is the
first whose number is read from the file. Two sections are the least for a snapshot with
records of different times. In `cycles` two drivers can overlap in every step of one
transaction, and one fault is one lost acknowledgement, after which the retry meets its
own rows. Each suite instance names its bounds beside its INSTANCE; two or three of
everything that can meet: two sales of a symbol, two builders, two subscriptions, two
windows, two notices of one hash. The canonical snapshot is built once in `builds`, from
any file that was there before, so two builds that share a temporary name are not met.

**Fairness.** None for the loop and the execution: commands are started by an operator
and nothing there retries. `FairSpec` of `Level1Collector` has weak fairness of the
main thread and of each notification thread: threads are scheduled, the wait of the
loop has a timeout, calls return or raise, and a free lock is granted; nothing is
assumed of quotes, notifications, the end of the duration or Ctrl-C. `FairSpec` of
`QmtExporter` has weak fairness of time, of the steps of a callback that began, and of
`handlebar`, which the host keeps calling on the last bar; not of the timer, which may
not have registered. `FairSpec` of `ContinuousPaper` has weak fairness of the steps of
a cycle, and of starting cycles, since the deployment has a schedule; `CyclesEnd` uses
only the first, and `cycles_equity` shows that even with both a session can stay
without rows. In the suites `TdxAdapter`, `FirmCycle` and `DailyEvaluation` state
fairness of steps that began, which no suite property uses.

### What the runs found

1. `shared`: the "atomic state persistence" of the manual fill
   (`scripts/record_manual_fill_v1.py:13`) is atomic only when nothing else saves: the
   temporary file's name is fixed and there is no lock (`daily_paper_loop/state.py:68`),
   so an overlapping save can rename a truncated file over the state.
2. `cycles_equity`: `extract_daily_report_facts` iterates over the report's `equity`
   (`continuous_paper/facts.py:21`), which the daily loop writes as one number
   (`total_equity`, `runner.py:1511`). The TypeError is not retried, so with the shipped
   pipeline a session is applied in `state.json` and no row of it is ever stored, although
   `service.py:44` has it that the "advisory never loses production facts".

What they confirm: with one process at a time no crash and no repeat can be seen in the
state file, and even overlapping processes never save a history that is out of order or
has a session twice. No overlap of polls and notifications brings a stale quote to the
aggregator, and an event is lost only together with an error the collector knows of.
Whatever is lost between service and database, a session has no rows or the whole rows
of one report. Two exporters never write at once, and their snapshots are numbered and
aged in one order.

Behaviour the models describe and no property names:

* the `hash_after` of a replayed session is computed from the current state, so after a
  manual fill it is the state after the fill (`daily_paper_loop/runner.py:1555-1567`);
* a lost report cannot be had again once later sessions hold symbols its input has no
  rows for, since the evidence check precedes the replay check;
* a manual fill entered twice is booked twice; one dated in the future stops sessions
  until that date; an odd lot left by a partial fill cannot be sold through the loop;
* an event whose sink failed is not fetched again, since its key is recorded first; and
  when a refresh fails in a notification thread, `run` may end normally, because its
  loop sees the stop event before it looks at the stored error
  (`level1_collector.py:167-171, 317-318`);
* a retry after a lost acknowledgement runs as a replay, whose report differs from the
  stored one, and ends as a conflict although its session is stored;
* without `msvcrt` the exporter's lock file survives a crash and every later start is
  refused until it is removed by hand.

In the instances of the suites the models also do what the code does in these cases; the
properties name the exceptions, and say what still holds:

* *Replay.* The dry run bounds every SELL by the sellable shares of the morning and
  subtracts nothing for an earlier sale (`paper_ledger_dry_run/dry_run.py:46-50`), so two
  sales of a symbol on one day can take shares bought on that day, against
  `docs/MULTI_DAY_PAPER_REPLAY.md:36`, and leave more sellable than held. One sale cannot
  (`SoldWasSellable`); `SellableIsHeld` is about symbols that were never oversold. A sale
  whose fees exceed its proceeds may overdraw the cash (`OnlyFeesOverdraw`: nothing else).
* *Pipeline request.* The digest has the names, closes, signals, strategy, day and
  capital, and leaves out the sizing parameters, the price a bar can be bought at and its
  provider (`pipeline.py:1168-1217`): a call that differs in these only is answered with
  the stored session. `ReplaysSaidTheSame` says what is equal.
* *Manifest.* Two builders share `.name.tmp` (`production_candidate/contracts.py:156-162`)
  and can publish a torn file; an attempt then raises. `PublishedIsWhole` is about builders
  that do not overlap, while `RunsAsBuilt` and `ArchivedAsRun` hold with a rival too.
* *Candidates.* An account-aware session never exits a position by rank: only the other
  mode has dropouts (`DropoutsExit` says which, `SoldOnlyDropouts` for both).
* *TDX.* Most times with a trailing Z, several labels of a minute and times without a date
  are read as another moment or another day (`tdx_level1_adapter.py:732-749`); `StampIsSent` says
  for which forms the time of a row is the one that was sent. A subscribe that raises after
  TDX took it, and an unsubscribe that raises, leave the feed on, and giving up one
  subscription stops a shared symbol for both (`FeedIsAccountedFor`, `SubscribedIsFed`);
  the registry of callbacks is right in every case (`NoOrphan`).
* *Walk-forward.* The leakage guard looks at one window, so windows a caller hands over in
  another order decide with an account and parameters from later sessions, and a row
  without a date is in every slice (`KnownWhenDecided` is about dated rows, and about the
  account as long as every window before was over).
* *Folds.* A label counts rows of its symbol and the purge counts dates of the frame, so
  under a suspension a label crosses a boundary, by the sessions missed and no more
  (`NoLabelCrosses`, `TestUnseen`).
* *Rebalancing.* Turnover controls remove sells after the buys were sized on their
  proceeds: the cash then falls below the reserve, or a buy is rejected, by no more than
  the withheld proceeds (`NothingRejected`, `ReserveKept`).
* *Sweeps.* The cached sweep does not validate its configuration, as the other one does
  (`real_data_walk_forward_smoke.py:712-811`); no property depends on it.
* *Announcements.* A row of a title alone and without a content source counts as a live
  attempt although the agent makes no call for it (`AttemptsAreCalls` names it); two such
  notices of one symbol, title and day share their content hash, which is a lineage token,
  so the assessment of one is taken for both (`EventSafe`). The cache of assessments and
  both artifacts of the ingestion are written in place: a crash leaves a torn file, and a
  torn cache file makes every later run over its event raise.
* *Firm.* A deprecated model name that the environment configures is asked for as it is,
  although the policy replaces one in a request (`AsksCurrentModels`).
* *Snapshot build.* A historical look-up that failed is kept in the manifest and not tried
  again, in that build or in a later one (`snapshot.py:269-270, 289-294, 324`), which shows
  in the `renamed` instance; `CleanBuildCompletes` is about builds whose answers have no such codes.

## What is proved

TLAPS checks 46 listed theorems and the lemmas they rest on, for all values of the
constants under the named assumptions of the modules, which are the types of the
constants and the following facts: loops and clerks are different processes
(`LoopAssumption`); the main thread is not a notification thread
(`CollectorAssumption`); a whole lot pays for the fees of its sale
(`LotsPayTheirFees`, used for cash only); there is a section and a heartbeat, and the
markers of no value are no values (`SectionsAssumption`, `BoundsAssumption`,
`HeartbeatAssumption`, `CycleAssumption`); a shadow asks each role once, of finitely
many evidences and processes, and the markers are no answers (`RolesAssumption`,
`FiniteAssumption`, `ValuesAssumption`); sessions are numbered without a gap, a stock has
one place in the order, and a provider's rows are of stocks or of codes it may use
(`SessionsAssumption`, `CodesAssumption`, `ResponsesAssumption`). Two theorems have one
more hypothesis, which their rows name: `Alone` and `CompleteAnswers`. TLC evaluates
these assumptions on the instances of the runs. The bounds of the models (`MaxEntries`,
`MaxCrashes`, ...) are arbitrary numbers in the theorems.

| module | theorem | says |
|---|---|---|
| `DailyPaperLoop_proofs` | `TypeCorrect` | `[]TypeOK` |
| | `LedgersAreSound`, `SessionsAreAppliedOnce` | `[]LedgersSound`, no session twice, under any concurrency |
| | `SerialSavesAreAtomic` | `Serial` implies `[]StateReadable` |
| | `SerialReportsAreFaithful` | `Serial` implies `[]ReportFaithful` |
| | `SerialLoopIsLedger` | `Serial` implies the refinement `LedgerSpec` |
| | `SessionKeepsWellFormed`, `FillKeepsWellFormed`, `WellFormedAppliedOnce` | the checks of the code keep histories of any length well-formed |
| `AShareExecution_proofs` | `TypeCorrect` | `[]TypeOK` |
| | `BooksAlwaysAgree` | `[]BooksAgree`: lots add up to positions |
| | `OldestAreFirst` | `[]OldestFirst`: lots stay in date order |
| | `CashIsNeverNegative` | `[]CashNeverNegative` |
| | `NothingIsSoldSameDay` | `NoSameDaySale`, an action property: T+1 |
| | `OnlySellsThrowSessionsAway` | a buy and the reconciliation never fail |
| | `SellLeaves` | what the FIFO loop leaves of any list of lots |
| `Level1Collector_proofs` | `TypeCorrect` | `[]TypeOK`, with at most one thread inside the lock |
| | `QuotesAreTakenInOrder`, `EventsAreRecordedOnce` | `[]NeverOutOfOrder`, events strictly increase |
| | `LossesLeaveErrors`, `EndedRunsAreClosed` | `[]LossLeavesError`, `[]EndedIsClosed` |
| `QmtExporter_proofs` | `Invariance` | the inductive invariant |
| | `TypeCorrect`, `OneWriterAtATime`, `RequestsAreKept` | `[]TypeOK`, `[]OneWriter`, `[]RequestKept`, with either lock |
| | `NumbersAreConsecutive`, `RecordsNeverGoBack` | the action properties `SequenceAdvances`, `RecordsAdvance` |
| | `LockAlwaysComesBack` | `OsLock` implies `[]LockComesBack` |
| | `ExportsAreReadable`, `ReadersNeverRegress` | `[]ReadableExport`, `[]NeverRegresses` |
| `ContinuousPaper_proofs` | `Invariance`, `TypeCorrect` | the inductive invariant, `[]TypeOK` |
| | `WhatReturnsIsStored` | `[]ReturnedIsStored` |
| | `StoreIsAnArchive` | the refinement `ArchiveSpec` |
| | `StoreIsBacked` | `[]StoredIsApplied`: with cycles one at a time, the store is never ahead of the state file |
| `AnnouncementTimes` | `AvailableNotBefore` | nothing is available before it was published, nor on its own day when only the date is known or it came after the close |
| | `ReferenceIsFirst` | the reference session is the first that closes after it was |
| `ActiveShadow` | `ShadowInvariant`, `TypeCorrect` | the inductive invariant, `[]TypeOK` |
| | `AdviceIsOfItsEvidenceAlways` | `[]AdviceIsOfItsEvidence`: overlapping processes never mix roles or evidences |
| | `BudgetAlwaysKept` | `[]BudgetKept`: requests and cost of a run within its budget |
| | `OutcomesAlwaysExplained` | `[]OutcomesExplained`: an outcome for every role; hits and calls explain the advice |
| | `PaidOnceAlways` | `Alone` implies `[]PaidOnce`, through any crashes |
| `SnapshotBuild` | `BuildInvariant`, `TypeCorrect` | the inductive invariant, `[]TypeOK` |
| | `RowsAlwaysExplained` | `[]RowsAreExplained`, also for partitions of earlier builds |
| | `CompletedAlwaysCovers` | `[]CompletedCovers`: completed means the files of every session are there |
| | `CleanBuildsComplete` | `CompleteAnswers` implies `[]CleanBuildCompletes`: a resume repairs |

**The loop.** `TypeOK` says more than types: a handle is open exactly when its process
is about to write, and only loops reach the report. `LedgersSound` is inductive together
with it because it speaks of all three places a history can be: the visible file, the
temporary file and the memory of a process; a write moves a history from the last to
the first two, a rename between the first two, and only `ApplySession` and `RecordFill`
make new ones, from a history that was loaded. Since a well-formed history has
non-decreasing dates, comparing with the last entry (all the code stores) is comparing
with every entry. For one process at a time `StateReadable` alone is not inductive: a
rename could bring a truncated temporary file. `SerialInv` adds `Alone` (at most one
process is busy) and `Saving` (what the busy process has open and what the temporary
file holds at each of its steps; at the rename the file holds exactly `next`, and `next`
is the loaded history with one legal entry more, the file not having changed since).
From it every step of the loop is a step of `SessionLedger` or leaves `Durable` alone.
`ReportFaithful` needs `Reporting`: at every step of a save the draft speaks of a
transition that the state file has or is about to have. A report that is faithful to a
history stays faithful when the history grows, because what it says of a session depends
only on the entries up to the next session.

**The account.** `IInv` says of the saved account and of the working copy that cash is
not negative, that the lots of each symbol add up to its position, that no lot is empty
and that lots are in date order, up to the day that is running. The heart is `SellLeaves`:
the FIFO loop over a list of lots takes exactly the sold quantity from the front, leaves
other symbols, order and positivity alone, and does not reach lots of the day when the
settled ones cover the sell. Sums over lots and their consumption are recursive
functions of a position in the list; facts about them are shown for every position by
way of a least counterexample (`UpTo`), and so are the other inductions over lists here.

**The collector.** `NeverOutOfOrder` is not inductive: it needs that what a thread has
fetched is no older than what the aggregator has had since. `Ordered` says so: keys and
aggregator agree and are never ahead of the exchange, a fetched quote is between the
two, and the events are below. It is inductive because fetch and processing are in one
critical section. `EndedIsClosed` needs `Closing`: what each step of the shutdown has
done is not undone before the next, and Ctrl-C begins again at the first step.

**The exporter.** `Locked`: the lock belongs to the exporter that thinks it holds it, so
the files change under one exporter at a time. `Cycle` and `Counted`: its cycle builds
the snapshot after the one in the file, and at the replace the temporary file is its
own. `Requests`: a request beyond the cycle under way is noted for the next. `Ahead`:
the records read so far are no older than those shown, which `Seen` bounds by the
broker. `Sound` and `Passed`: what the queries wrote satisfies the reader's cross
checks. `Behind`: the reader has seen no number beyond the file's. The lock's mode
matters only to `LockAlwaysComesBack`.

**The cycles.** A transaction inserts the row of the first table before any other, and
only over a session without rows, so the key of that row keeps every other transaction
of the session from inserting (`OneInserts`); its rows are of its own report, and the
tables it has passed hold what it wants (`Transaction`); therefore what it commits is
one bundle, and one that inserted nothing has found every row it wanted (`Whole`,
`Returned`). `Lengths` bounds the history by the days and fills that made it, which
`TypeOK` needs. For cycles one at a time `SerialInv` relates the store to the state
file: at most one cycle is under way (`Alone`), so what it is about to save is the file
and one session (`Deciding`), and from the save on its report names a state of the file
(`Reported`); a day occurs once in a history (`Unique`), so a report stays backed when
the history grows, and so does what is stored (`Stands`). `StoredIsApplied` is in no
run: those of `ContinuousPaper` let cycles overlap, where it says nothing; it was
checked with `SerialInv` on an instance with `Serial = TRUE` before it was proved.
Without `Serial` it fails: a cycle that overlaps another may save over its session.

**The shadow.** Advice is read from a file under a name that two processes may rename to
at once, so `AdviceIsOfItsEvidence` needs to know what a file can hold. `FilesSound`:
a file is reached from one key only, by its name, its temporary name, or a process that
still writes it after somebody's rename, and an answer in it is of that key. A free file
for the next temporary name must exist, which is a count: two per key and one per process
are more than can be in use. `OutcomesSound` relates the answers on disk to the place of
the run that got them: an answer of the current run is of a role before the current one,
so that what a run reads there is not its own unless it counted a call for it, and hits
and calls are the two parts of the advice. `FiledSound` is for one process: what was paid
for is in a file that a crash cannot take back, and the write under way is the process's
own. With two processes `PaidOnce` fails, which is why `Alone` is its hypothesis.

**The snapshot build.** The manifest, the manifest of the start and the build's own are
each `PartsSound` under resolutions that only grow (`Lookups` never looks a code up
twice), so a row explained once stays explained when its partition is taken over.
What a build lists is on disk as listed, because nothing else writes while it runs.
`PlaceSound` says that the daily partitions at the places before `k` are listed, for the
calendar as it was read; `PlanFacts` says what is at each place of the plan, for any
number of sessions and shards, and `EndSound` that a build comes to its end by a failure
or through all of them. `CleanInv` is the second invariant, for complete answers: every
daily partition any build has ever listed is the listed stocks of its day, so that the
ones a resume takes over satisfy the cross checks with the ones it fetches, and the three
masters a clean build has passed are listed. From these `NoErrors` follows: the validation
of a clean build's own manifest finds nothing that withdraws completed. A wider
calendar left by an earlier build is excluded by `M.sessions <= M.end`: the code keeps it
and then reports sessions beyond the request as errors.

All these invariants were checked with TLC on the instances above, or on smaller ones,
before they were proved.

## What is only model-checked

* Liveness: `StopEnds`, `ExportsContinue`, `CyclesEnd` (fairness is out of the prover's
  reach here), and `LostReportRecoverable`, which contains ENABLED.
* The properties of the suites, as they stand. Those of `ActiveShadow` and
  `SnapshotBuild` are theorems, and the theorems about `AnnouncementTimes` cover what
  is arithmetic in its users; the other components have finite data chosen for the
  questions asked.
* That the rows of the snapshot's optional partitions are complete: `CleanBuildsComplete`
  is about the status, and an optional call that failed shows in the capabilities only.

Not modelled, with the reason in `PROJECT.json`: the DeepSeek runtime router (the budget
concurrent roles share is in `ActiveShadow`); factor evaluation, factor percentiles,
ablation, policy sweeps, incremental value of roles and performance figures (batch
computations without state between calls); adapters to qlib, vectorbt and rqalpha;
preflight, probe and gate modules (static checklists); infrastructure scripts. Minute
bars are modelled only as the order in which quotes reach them.

## Plan

1. Proofs about `PipelineRequest` (equivalent requests replay), `PaperReplay` (one sale is
   of sellable shares) and `TdxAdapter` (no registration is orphaned), which need no induction
   over data beyond what the modules above use.
2. Minute bars: the roll-up and the final flush, which runs without the refresh lock.
