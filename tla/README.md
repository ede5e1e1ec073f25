# Formal models of the Open Energy Data Server (KIT)

This directory keeps TLA+ models of the control logic of the Open Energy Data
Server, the TLC configurations that check them on small instances, and TLAPS
proofs of what matters most for instances of any size. It is written from the
Python, YAML and SQL of the repository; `PROJECT.json` maps every definition
to the lines it stands for.

    tlc -workers 2 -config MCScheduler_dispatch.cfg MCScheduler   # a run
    tlapm SchedulerProofs.tla                                     # the proofs of a module

- [The system](#the-system)
- [Modules and code](#modules-and-code)
- [Runs](#runs)
- [Proofs](#proofs)
- [What is left out](#what-is-left-out)
- [Plan](#plan)

## The system

A server crawls energy data into one PostgreSQL database. Two long-running
Python services work on it, both with restart policy `unless-stopped`
(`compose.yml`): the *scheduler* (`crawler_scheduler.py`) and the *crawler
admin* (`crawler_admin/`, FastAPI handlers on asyncio with a thread per
manual run). They are separate processes. What they share is `CRAWLER_CONFIG.yml`
(bind-mounted as a single file), `crawler/data`, `logs`, and the database.
Scripts run after a crawl (`post_run_scripts`) or by hand. The host itself is
set up, updated, migrated and rolled back by Ansible playbooks.

| part | state | operations | interacts with | what is hard | what makes it correct |
|---|---|---|---|---|---|
| job queue and dispatch (`crawler_scheduler.py:110-271`) | deque of jobs, ids queued and running, lock keys held, all under one lock | `enqueue`, `pop_ready_jobs`, `mark_finished`; a dispatch by the scheduler thread and by every job thread that ends | job threads | several threads pop one queue; a job thread can end before `on_finish` | jobs on the same tables never overlap, no wake-up is lost, nothing is held without a holder, order per key set |
| scheduler life cycle (`:182-271`, `:454-630`) | global `configChanged`, the current `SchedulerThread`, one queue per generation of it | watchdog event, reload, signal, stop | editors of the file, job threads of old generations, restart policy | reload while jobs run, an edit during a reload, a file read while it is truncated, job threads that end before `on_finish`, kills | no edit is lost, one thread enqueues, old queues are worked off, a stop completes |
| scheduler clock (`:70-107`, `:212-259`) | `next_run_time` per job | `advance_after`, wait slices of at most 60 s | queue | slots that pass during a reload or a long wait | at most one queue entry per job |
| config store (`config_service.py:129`, `:810-1016`, `app.py`) | the file, its hash in every open page | open a page, submit, check the hash, replace or truncate and write | scheduler, editors on the host | stale pages, writers between check and write, kill between truncate and write | what a user has not seen is not overwritten |
| config merging, validation and forms (`crawler_scheduler.py:273-570`, `config_service.py:176-950`, `app.py:1160-1367`) | none | merge defaults, crawler and job; job ids; lock keys; take a schedule apart and put it together | scheduler, admin | two implementations that must agree; Sunday is 0 and 7 | both see the same jobs; a saved dialog changes what it says |
| admin manual runs (`runtime_service.py:198-396`, `:1077-1182`) | rows of `runs.sqlite3`, lock per crawler, `sys.stdout`, root logger | start, execute, save, recover after a restart | crawlers, log files | daemon threads that die with the process, process-wide state that several runs change | one active run per crawler, table and lock agree, a final status is final, logging is restored |
| admin actions (`runtime_service.py:398-998`, `:1184-1489`, templates) | none | seven forms, validation, the call | configuration, crawlers, scripts | a configuration edited between page and call; a form shown again after it was refused | what is reported as succeeded is what was asked for |
| ENTSO-E FMS ingest (`crawler/entsoe_fms.py`) | one table per data item, its largest `UpdateTime`, files in `crawler/data` | package refresh, incremental run, backfill | scheduler and admin both run it; gap filling reads the table | two writers, one directory, failures in the middle of a package, a watermark moved by half a package, a table without its key | a package is loaded whole, everything arrives in the end |
| daily crawlers (`crawler/*.py`) | tables of time series, status tables | choose a window, request, replace or upsert, report | scheduler, services that publish late and revise | a window chosen from the newest row, several transactions per run, tables without a key | nothing is doubled or deleted without replacement, what is missing stays within reach, reports are true |
| gap filling, one table (`gapfiller/db.py:161-698`) | target schema, `gapfill_tracking` | choose a window, fill it, replace it, move the watermark | FMS ingest, admin | revisions while a run works, a kill between two transactions, two runs at once | what the watermark covers is in the target; no duplicates |
| gap filling, a run (`gapfiller/db.py:60-158`, `gapfill_timeseries.py`) | `gapfill_runs`, `gapfill_metrics`, exit code | loop over tables, record errors | scheduler, admin | one table fails, statements that record a failure fail, kills | a success is one; tables do not wait for a broken one |
| filling methods and holdout tests (`gapfiller/core.py`, `holdout.py`, `selftest.py`) | none | infer the distance, build the grid, fill gaps by five methods, remove and compare | tracking, admin | irregular rows, donors that overlap gaps, a value that fills itself | only gaps are filled, from observations; a passed test means something |
| price forecast (`run_price_forecast.py`) | `forecast_runs` and its dependent tables | read inputs, compute, write, complete, supersede, retain | post-run of `entsoe_api`, manual runs | overlapping runs supersede each other, kills between transactions | readers see whole forecasts; the newest is in force |
| alert limiter (`base_crawler.py:20-90`, `oeds_mail.py`) | `email_alert_state.json` | limit a mail, record it, send it | all crawlers of both services, playbooks | a lock of the process around a file of several | at most one mail per key and hour, and not none |
| password rotation (`oeds_ops/password_rotation.py`) | live passwords, `.env`, containers, Bitwarden, backup and pending files | rotate, write, restart, verify, store; roll back | docker, PostgreSQL, Grafana, pgAdmin, Bitwarden | any command fails before or after it took effect, kills, a rollback that fails | nobody is locked out; a reported success or rollback is one |
| playbooks of a host (`playbooks/oeds-*.yml`) | data directories, containers, dumps, checkout, `.env` | install, update, migrate, cut over, roll back | the live stack, rotations | a failure between two moves, any playbook after any other, writes after the dump | committed rows are in some data directory; a success serves |

## Modules and code

Every module has a header that says which class or script it models and what
it abstracts from; comments name the function an action stands for. A
definition called `... mutant` in a comment is a plausible bug of the
definition after it: it is used by no specification, and shows that the
property it breaks depends on that definition.

### Scheduler

**`CrawlerJobQueue`**, the class of that name as a record with its fields and
the three operations on it as functions on the record. A scan of the deque is
described by the set of positions it takes: the only set in which a position is
taken exactly when its keys meet neither the active keys nor those of earlier
positions in the set. (`pop_ready_jobs` is a loop; the description without
recursion is what lets TLAPS reason about it.) Lock keys are any non-empty sets
of keys, as `get_job_lock_keys` returns them.

**`JobDispatch`**, one `SchedulerThread` with its job threads. A critical
section of the queue is a step and so is every start of a thread, since threads
interleave between them. `Wake` lets any set of jobs fall due. `Die` is a job
thread that ends between the crawler and `on_finish`; `leaked` remembers its
job. `Slots` bounds the job threads alive at once.

**`JobAdmission`**, the abstract promise of `docs/source/crawler_config.md`:
sets of waiting and holding jobs, grants that never clash and never leave a job
waiting that could have been granted. `JobDispatch` implements it with
`pendingIds` for `waiting` and `activeIds` for `holding`.

**`SchedulerReload`**, the process around it: `main()`, the watchdog handler,
the signal handler, kills and restarts, and saves of the file by
`os.replace` or, where a bind mount refuses that, by truncating and writing.
Each generation has a queue (the same `CrawlerJobQueue`), a thread, due jobs
and running jobs of its own; a pop and the starts after it are one step here.
An event of the observer is a Boolean that `OnAnyEvent` turns into
`configChanged`. `Die` is here as in `JobDispatch`: the queue of the generation
keeps the id and the keys of the job (`Lost`), and what waits for them is never
dispatched, in a generation that has ended not even after a later slot.
`OldQueueDrains` excepts just these jobs. `Gens` is a pool of places for
generations that are still alive, used again once none of their threads is.

### Configuration and admin

**`ConfigStore`**, the admin side of the file: windows with an editor, a
dashboard or a crawler page, a handler of one request in steps (update the
text, check the hash, replace, or truncate and write), editors on the host and
kills of the service. A text is a function from sections to values, a hash is
the text. Pages are rendered by threads and so may be interrupted
(`OpenDetail`, `HashDetail`); handlers that save are coroutines without an
await after the form has been read, so one runs at a time.

**`ConfigForms`**, what a text means. `ScheduledJobs` is what the scheduler
loads of it (`load_config`, `expand_crawler_job_configs`, `_parse_job_schedule`,
`get_job_lock_keys`), `Valid` and `Shown` what the admin makes of the same text
(`validate_config_text`, `build_dashboard_state`), and `Save` the path of a
schedule from the text through the fields of the dialog and back. A section is
a partial function from keys to values; a schedule is a record of the fields
that the dialog tells apart. A text is one state, and the properties compare
the two readings of it.

**`AdminRuns`**, `CrawlerRunService`: `StartAction` under `_guard`, then
`_execute_run` step by step with all the process-wide state it touches
(`sys.stdout`, root level, root handlers), failures of sqlite and of log files
where the code does not catch them, and `Stop`/`Start` of the service.

**`AdminActions`**, one form of one of the seven actions: what the page shows
selected (`Fill`), what the browser sends of it (`FormToPayload`), what
`prepare_action` accepts (`PrepareAction` with one operator per action), what
the executor calls after the configuration may have changed (`ExecuteRun`), and
a refused form that is corrected and sent again (`Reshown`, `Correct`).

### Ingest

**`FmsIngest`**, one table of `crawler/entsoe_fms.py` with the runs of two
services: package refreshes (`fms_package_write_mode: full_upsert`),
incremental runs and backfills. A package is a month with a few lines; a line
stands for the rows of one chunk and its content is its `UpdateTime`.
`Fetch`/`Store` are the download (the answer is there before the file is opened
and truncated), `Prepare`/`Open` read the state of the table or create it with
its key, `LoadLine` writes a line or filters it out, `Close` is the `finally`
clause that removes the file. `CreateFails` is the creation whose failure is
logged and passed over: the first insert then makes a table without a key,
which later upserts cannot write (`MustFail`). A backfill of a table that has rows
compares times with and without a zone, which raises before anything is written
(`Comparable`). A file that loses its name is
still read by who has it open (`linked`, `held`). Runs of one service take
turns (the lock keys of the scheduler, the lock per crawler of the admin), runs
of the two do not.

**`CrawlerTables`**, what eighteen daily crawlers have in common: cells (a day
of a series) with the revision the service had, transactions that clear cells
and insert rows under a key, and rows of status tables. **`CrawlEpex`,
`CrawlSmard`, `CrawlEntso`** (entsoe_api, entsog), **`CrawlWindows`**
(netztransparenz, gie_agsi_alsi, tradinghub, eia, regelleistung),
**`CrawlWeather`** (open_meteo, weather_forecast, energy_forecast,
copernicus_cds) and **`CrawlSnapshots`** (dwd_cdc, osm_power, ninja,
power_system_data, eurostat) define for each of them the window, the key, the
transactions of an answer and the reaction to failures. **`Crawlers`** runs one
of them day after day: `Begin`, `Ask`, `Commit`, their failures and kills, and
a service that publishes late and revises.

### Gap filling and forecast

**`GapfillTracking`**, `process_table` for one table: the tracking row, the
window, the rows read, the two transactions, and the source that a crawler
loads package by package meanwhile. Any runs overlap. Times are positions on the
grid; a row is its `UpdateTime`, or 0 for one that was created. Two sets record
what is no state of the program: `late`, rows that were loaded with an
`UpdateTime` that a run had passed already, and `mixed`, times that two runs have
replaced at once. A time leaves them when a run brings it in order.

**`GapfillRuns`**, `run_gapfill_job` over several tables with the configuration
and the arguments of `gapfill_timeseries.py`: which tables, the order of the
statements of each, what an error in any of them is recorded as, and the exit
code. What a table holds is the number of the revision it shows.

**`GapfillMethods`**, `fill_group` for one group and column: the inferred
distance, the grid, eligible gaps, the methods `linear`, `previous_period`,
`seasonal_linear`, `donor_match` and `donor_refined`, the removal of artefacts,
the refinement, the fallback, and the two holdout tests. A cell is empty, observed,
or filled with the set of times it was computed from; what depends on numbers
(scores, artefacts) is a free choice.

**`ForecastInputs`**, pure operators: whether a forecast has enough prices to
train on, from the coverage for which the API's history replaces that of the FMS
tables to the rows that each model counts. **`ForecastRuns`** is the life of
processes of `run_price_forecast.py` around it: the row, three transactions of
dependent rows, completion, superseding, backtests, retention; any step fails or
is the last. A result is judged by actual prices or not (`judged`): a day-ahead
forecast without them writes no metrics, and a backtest without them writes an
empty frame, that is no rows, and completes all the same. **`AlertLimiter`**
models the cooldown of alert mails as threads with one file, and the same code of
the playbook callback. A file that cannot be read counts as empty, and what it
held is lost with the next entry.

### Host

**`PasswordRotation`**, `PasswordRotator.run` and `rollback`. The two share
their steps; `phase` and `Target` tell which passwords a step writes. Each step
may succeed, or fail before or after its effect; `Kill` may come anywhere and
starts no rollback, as `KeyboardInterrupt` does not. A password is the number
of the run that made it.

**`HostPlaybooks`**, `oeds-docker-config`, `oeds-update`, `oeds-db-migrate` and
`oeds-db-rollback` as lists of tasks over data directories, staging areas,
dumps, the checkout and `.env`; any task may fail, and operators run any
playbook next. A rotation is one step here, in the terms of the directory's
passwords.

### How the models meet

`SchedulerReload` and `ConfigStore` both model `CRAWLER_CONFIG.yml`; each sees
the other as an editor that saves at any time. `JobDispatch` and
`SchedulerReload` share `CrawlerJobQueue`; `ConfigForms` defines the keys they
take as given (`LocksCover`). The `Load` of `GapfillTracking` is the abstract
form of what `FmsIngest` does to a table; `GapfillRuns` takes one step for what
`GapfillTracking` shows of a table, and `GapfillMethods` what it fills it with.
`AdminActions` ends where `AdminRuns` begins. `ForecastRuns` extends
`ForecastInputs`.

Some MC modules check two models *side by side*: a variable tells which of the
two a behaviour is about, and the steps of either leave the state of the other
alone. This shares a run, not state: the two halves do not influence each
other, and their state counts add up. These are `MCScheduler` (`JobDispatch` in
one run, `SchedulerReload` in the two others), `MCAdminService` (`AdminRuns`
with `AdminActions` in one run, `ConfigStore` with `ConfigForms` in another; the
texts are in `MCConfigTexts`), `MCForecastRuns` (with `AlertLimiter`),
`MCGapfillTracking` (`GapfillMethods`) and `MCPasswordRotation`
(`HostPlaybooks`). The second model is an instance whose constants the MC module
declares and the `.cfg` sets, so that the proofs hold for every value of them.

## Runs

`PROJECT.json` lists the runs with their properties; each property of a
passing run has a mutant that breaks it.

| run | instance | shows |
|---|---|---|
| `dispatch` | 3 jobs whose keys overlap in a chain (`{k1}`, `{k2}`, `{k1,k2}`), 3 job threads, every thread may die | `RunsExclude`, `FifoPerKeys`; `QueuedJobRuns` with fairness; `ImplementsAdmission` |
| `reload` | 2 jobs on the same tables, one of which can lose its thread, 2 versions of the file, 2 generations alive | `NoLostEdit`; `EditTakesEffect`, `OldQueueDrains`, `StopCompletes` with fairness |
| `reload_overlap` | the same | a job runs in two generations at once (`DocumentedExclusion` is violated) |
| `admin` | 3 runs of 2 crawlers, faults of sqlite and log files; and about 150 forms of 7 actions, 6 configurations, 9 slips of a user | `OneActiveRow`, `LevelRestored`; `RunsSettle` with fairness; `ActsAsAsked` |
| `rotation` | 4 secrets, 3 runs of the script, one consumer that is always restarted and one optional; and 3 playbooks with 2 ids, a row written and a rotation between their tasks | `NoLockOut`, `EndsInAgreement`; `NothingLost`, `SuccessServes` |
| `rotation_update` | the same | an update after a rotation leaves services that cannot log in (`UpdateKeepsAccess` is violated) |
| `gapfill` | 3 times in two packages, 2 revisions, a post-run and a manual run that overlap, both can be killed; and every group of up to 6 rows with gaps of up to 2, under every method and option | `NoRevisionLost`, `NoDuplicates`; `RevisionArrives` with fairness; `UnlistedIsUntouched`, `HoldoutHonest` |
| `gapfill_runs` | 3 tables, one of which lacks a column, 2 revisions, 8 ways of calling the script, an error at every statement, kills | `StatusTells`; `OthersGoOn` with fairness |
| `config` | 2 windows, 2 sections with 2 values each; and about a thousand texts | `NoUnseenOverwrite`; `ShownIsLoaded`, `SaveIsExact`, `LocksCover` |
| `fms` | 1 package of 2 lines, 2 revisions, a refresh in the scheduler beside incremental runs and backfills in the admin, all failures | `LoadedWhole`, `NoRevisionUndone`; `Converges` with fairness |
| `forecast` | 2 processes, targets of 2 days, 3 days, retention of 1; and 2 threads in 1 or 2 processes, 2 keys, limits of 1 and 2, 3 hours | `PublishedWhole`, `OneInForce`, `NewestInForce`; `AlertsLimited` |
| `crawlers` | 18 crawlers in 19 ways, 2 series, 3 days, a look-back of 1, 1 failure, 1 late or revised day | `NoDuplicates`, `MissingWithinReach`, `ReportsTrue`, `KeepsWhatItHas`, `LabelsNameHours`; `Converges` with fairness |

What the properties mean, where their names do not say it:

- `FifoPerKeys`: a job is not taken past one ahead of it that needs no more keys.
- `NoLostEdit`: while a thread works with something other than what is in the
  file, an event is on its way or `configChanged` is set.
- `LevelRestored`: when no run is being executed, the root logger has its level.
- `EndsInAgreement`: a reported success or rollback leaves services, `.env` and
  restarted containers with the same passwords.
- `NothingLost`: what was ever committed in a live database is in a data directory.
- `NoRevisionLost`: whatever the watermark covers is in the target as in the
  source, but for what is in `late` or `mixed`.
- `NoDuplicates` (of `gapfill`): two rows of one time only where two runs have
  replaced it at once, and until a run replaces it alone.
- `StatusTells`: a run recorded as success leaves its tables at least as new as
  their sources were when it began; metrics and exit code agree with the status.
- `LoadedWhole`: at the end of a package loaded alone, each selected row is in the
  table, whatever files and rows earlier runs have left.
- `NoRevisionUndone`: a run that is alone from the fetch of a package on takes no
  row of it back to an older revision.
- `MissingWithinReach`: between runs, what is missing lies in the window that the
  next run asks for.
- `NewestInForce`: while the processes of a day take turns, the newest published
  run of it is the completed one.
- `AlertsLimited`: a mail is held back only by a recent one of its key, and a
  recent one holds it back.

**Why the bounds are enough.** `dispatch`: conflicts are between pairs; the
third job makes a blocked job that can be passed, the third thread lets two
threads dispatch while one runs. The proofs cover every size. `reload`: a
further generation meets the same old queues; two versions are enough for an
edit that is undone by a second one. `admin`: two runs can overlap while the
third waits for the lock of one of them, and again after a restart; the forms
cover no, one and several entries of each list, both ends of each range and
each way of being refused. `rotation`: the second run meets whatever the first
has left behind, the third meets what a run over such leftovers leaves; three
playbooks are a migration that fails, one run in its place, and the one that
suffers. `gapfill`: two points and a gap between them need three times; an old
and a new revision need two stamps; the points are one package and the gap is the
other, so either can come late. Six rows hold two gaps with context on both
sides and a donor one period away, and one more missing row than `max_gap`.
`gapfill_runs`: one table before and one after the broken one. `config`: a
conflict needs two writers, one of which may be the host; the texts take every
shape of a section with every shape of the section it is merged with. `fms`:
one line before and one after the point where a run is cut off, two revisions
so that one answer can be older than another. `forecast`: superseding is between
pairs, and three days let one run expire while the other stays; proved for
every size. `crawlers`: two series make a run that fails between them; a
look-back of one day is the least that can reach back over one failed run, and
the expectation is scaled with the failures that are left.

**Fairness.** `JobDispatch`: threads run and crawls end (`WF`); nothing about
the clock. Strong fairness of `StartOne` makes up for the bound on slots, the
code never waits there. `SchedulerReload`: the same, a save that has begun is
completed, the observer delivers its events, and a scheduler thread is not for
ever behind its schedule (`SF` of `Return`): it looks at `configChanged` only
after a wait, and a thread that always finds a job due already never waits.
`AdminRuns`: threads run and the container is restarted. `GapfillTracking` and
`GapfillRuns`: the script is started after every crawl (`SF`, since its run in
progress disables the start), its steps end, and in the end kills stop, and for
`GapfillRuns` also errors other than the missing column and calls by hand.
`FmsIngest`: the scheduler starts each of its jobs again and again (`SF`), runs
go on or fail where they must, and in the end other failures and manual runs
stop. `Crawlers`: the scheduler starts the day's run, requests are answered and
transactions end (`WF`); failures are bounded by a constant. None of these
assumes that editors, users, signals or the publisher do anything. `ConfigStore`,
`ConfigForms`, `ForecastRuns`, `AlertLimiter`, `PasswordRotation`,
`HostPlaybooks`, `AdminActions` and `GapfillMethods` promise no progress: they
are driven by people or end, and are checked for safety.

**Deadlock** is not checked where the system may stop: a model that has used
up its revisions, days, runs or playbooks, or whose process has exited, has
nothing left to do. `gapfill_runs` has no such end and is checked for deadlock.

### Disagreements with documents and between parts

Two have a run of their own:

1. `reload_overlap`: after a reload the new `CrawlerJobQueue` does not know what
   the old generation runs, so a job can run twice and jobs on the same tables
   can overlap, against `docs/source/crawler_config.md:97`.
2. `rotation_update`: `oeds-update` writes `.env` anew without the passwords that
   a rotation has put there, against `playbooks/README.md:11-13`; the services
   are created with the defaults of `compose.yml` and cannot log in.

Others are in the models; the properties except them by name, or no property
speaks of them:

- scheduler and configuration: jobs in the `default` section are loaded, but
  neither validated nor shown (`NoDefaultJobs`); a schedule with padded fields
  loses them when its untouched dialog is saved (`SaveIsExact`).
- crawler pages of the admin take the hash from a second read
  (`app.py:860`), so a save can write over what they have not shown, against
  `docs/source/crawler_admin.md:197`.
- manual runs: `redirect_stdout` is process-wide, so the log file of a run
  (`docs/source/crawler_admin.md:206`) receives lines of others (`Redirect`).
- manual actions (`Excepted` of `AdminActions`): `entsoe_targeted` with an empty
  selection runs the configured items, not all; a location that is disabled is
  passed over; gap filling that is disabled, and a backfill of periods that
  pandas has no dates for (`entsoe_fms.py:1822-1826`),
  end as success; so does a forecast that was skipped for lack of data; a refused
  form is shown without a single selected entry (`app.py:1014-1031` with the
  template), and is then sent for everything.
- FMS ingest: `EntsoeFmsCrawler.run` swallows its exceptions, so post-run scripts
  run after failures as well (`docs/source/crawlers/entsoe_fms.md:154`; `PostRun`);
  a table whose creation failed is made without its key and never repaired; and a
  backfill only loads a table that does not exist or is empty: of any other it
  strips the zone of the watermark (`entsoe_fms.py:1962`) and compares it with times
  that were made aware at 1912, a `TypeError` that ends the backfill (`Comparable`),
  against the comment at 1964 and `docs/source/crawlers/entsoe_fms.md:300`.
- gap filling: with packages loaded one by one, a package with an older
  `UpdateTime` than one before it is never filled, unless another change brings
  its times into a window (`late`; `docs/source/crawlers/entsoe_fms.md:197`); two
  runs that overlap can double rows and put older ones over newer ones, which no
  lock prevents (`mixed`; `docs/source/post_run_scripts.md:80`); created rows at
  the edge of the look-back can be taken away by a later run, of which no property
  speaks (`docs/source/examples/gapfilling.md:150`).
- forecast: of two that overlap, the one that is last to supersede wins, whichever was
  created first, and two can supersede each other (`overlapped`;
  `docs/source/price_forecasting.md:86`).
- netztransparenz: a row of the hour that the clocks repeat is stored without a
  time, and deleted by every later run, whatever its window (`NetzTimed`).
- playbooks: the version check of an update is passed over when the database is
  down; a cutover needs the new `compose.yml` to be put there by hand; a rollback
  cannot run without a live directory; an update from git is blocked by its own
  `.env` backups; and an update after a cutover that failed half-way sets up an
  empty cluster and reports success (the rows are still in the directory moved
  aside: `NothingLost`).
- alerts: an `OSError` while the state file is written leaves `emit` through
  `logger.critical`; a mail that the server refuses counts as sent; and a state
  file that cannot be read once is replaced by one with the new entry alone, which
  ends the cooldown of every other key.

## Proofs

All theorems hold for every value of the constants that satisfies the named
`ASSUME` of the module; TLC evaluates these assumptions in the runs. What is
proved of the second model of an MC module is proved of the instance, whose
names carry a prefix there (`Methods!`, `Alerts!`, `Host!`, `Store!`, `Forms!`,
`Page!`, `Reload!`).

| module | theorems | from |
|---|---|---|
| `SchedulerProofs` | of the queue: what its three operations keep true (`QueueInv`: deque and id set agree, keys are those of the running jobs, running jobs exclude each other), and that a scan takes every job it can | `LockKeysAssumption` |
| | of the dispatch: `DispatchInvariant`, `TypeCorrect`, `Exclusion`, `WakeupKept`, `Accounting`, `FifoOrder`, `Refinement` of `JobAdmission` | `DispatchInv` |
| | of the reload: `ReloadInvariant`, `ReloadTypes`, `EditsKept`, `OneThread`, `GenerationExcludes`, `OldQueueDriven` | `ReloadInv`, with the lemmas about the queue |
| `AdminServiceProofs` | of manual runs: `AdminInvariant`, `OneActive`, `LockAgrees`, `LevelBack`, `TerminalFinal` | `AdminInv` |
| | of actions: `CalledAsAsked` | `FormInv`, `ActionsAssumption` |
| | of the store: `StoreInvariant`, `StoreTypes`, `Unseen` | `StoreInv` |
| | of texts and dialogs: `SharedTables`, `DashboardTells`, `DialogIsExact` | any text, no assumption |
| `HostProofs` | of rotation: `RotationInvariant`, `LockOut`, `Agreement` | `RotationInv` |
| | of the playbooks: `HostInvariant`, `CommittedKept`, `PlaybooksServe` | `HostInv`, no assumption |
| `GapfillTrackingProofs` | of tracking: `TrackingInvariant`, `RevisionsKept`, `NoDoubleRows`, `WatermarkForward` | `GapfillInv`, `GapfillAssumption` |
| | of filling: `CopyKeepsTheRest`, `FillsAreObserved`, `TestsAreHonest` | `FillInv`, `HoldoutInv`, `MethodsAssumption` |
| `CrawlersProofs` | `DailyInvariant`, `StoredOnce`, `ReportsHold`, `RowsKept` | `DailyInv`, `TablesAssumption`, `NamesAssumption` |
| | `WithinReach` | `ReachInv` on top of it |
| | of labels: `LabelsTellHours` | no assumption |
| `FmsIngestProofs` | `IngestInvariant`, `TypeCorrect`, `Whole`, `NewestStays` | `Inv`, `FmsAssumption` |
| `GapfillRunsProofs` | `RunsInvariant`, `RunsTypes`, `RunsAreTold` | `RunsInv`, `GapfillRunsAssumption` |
| `ForecastRunsProofs` | of runs: `ForecastInvariant`, `TypeCorrect`, `Whole`, `InForce`, `Newest` | `Inv`, `RunsAssumption` |
| | of alerts: `OneMailPerLimit` | `AlertInv`, `AlertsAssumption` |

*Dispatch.* `RunsExclude` alone is not inductive: nothing in it connects threads
with the queue. `DispatchInv` adds that every active id is in exactly one place
(about to be started, running, or leaked), that the keys are those of the
active ids, and `NoLostWakeup`, whose step is the interesting one: a pop leaves
only jobs that are blocked by an active one, and `mark_finished` is followed by
a pop of the same thread. Refinement then maps `Enqueue` to `Request`, a pop to
a maximal `Grant` (or a stutter), `mark_finished` to `Release`.

*Reload.* `EditNoticed` says that whatever the current generation has loaded is
what is in the file, unless the flag is set or an event is on its way; it is
inductive because `main` clears the flag before the next generation reads the
file. `MainAgrees` ties the main thread to the thread it watches, `QueuesAgree`
carries `QueueInv` to the queue of every generation and says that its active
ids are the jobs that run and those whose thread died, and `QueueDriven` says
that what waits in a queue waits for one of the two: `OldQueueDriven` is the
part of it about generations without a scheduler thread.

*Config store.* A page that shows a version has the hash of the same read
(`FromOneRead`, crawler pages excepted), and the window that has sent a request
does not change until it is answered (`StaysAsItWas`); so after the comparison
the file is what the page has shown, or what came since (`ComparedOrNewer`).

*Admin runs.* The position of a run's thread determines the status of its row
and the lock it holds; and whenever the root level is raised, some run that
still logs owes the restoration (`LevelOwed`), which is why the order in which
overlapping runs end does not matter.

*Actions.* `FormInv` says of a form on its way that it prepares nothing that the
meant form would not, whatever the configuration, or that it has lost a list in
being shown again; `CalledFor`, with a lemma per action, that what is prepared of
a form is called for what the page says. The configuration may be another one at
each step: what is prepared refers to the one it was prepared with, the script to
the one it finds. `ActionsAssumption` says what a mistake is (its value is refused
or is not looked at; a wrong value that is accepted is what the user has asked
for), and that the two lists of items, in `runtime_service.py` and in
`entsoe_fms.py`, are the same, as they are.

*Rotation.* `SavedFirst` says that before any password is changed the old ones
are in a backup and the new ones in the pending file, and that `.env` is always
one of the two; `StepsDone` that each finished step holds for good. `NoLockOut`
follows by induction because a repeated run begins with a backup of whatever
`.env` holds. The invariant includes that the wallet has what is in force after
a success.

*Playbooks.* The tasks of a playbook come in order, so what an early task has
checked or done holds at the later ones: the place of the live directory is free
before a directory is moved to it, the name of the directory that is moved aside
is free, and the directory that moves in holds every row that was promised. Rows
then move with directories and never leave the last one that has them. A playbook
that reports success has started the services after it has seen that the server
accepts connections (`pg_isready`, which checks no password).

*Texts and dialogs.* The two merges differ in form: one decides key by key, the
other copies a mapping and updates it twice. They agree at every key
(`MergesAgree`), so the scheduler's expansion and the admin's preview of a
section have the same entries, and validation leaves no entry without a schedule
and an `enable`. What a form is made of and what it becomes have the same hours
and weekdays (`FormKeepsDue`), and setting two keys of one section changes the
entry of that section in these two keys (`SetsMerged`, `JobSet`). The proofs do
not look at how a text came about: they hold for every text.

*FMS ingest.* Nothing is ahead of the publisher, in the table, in the files and
in the hands of a run (`NeverAhead`). The conjunct that matters is `AloneHolds`:
a run that nobody has interfered with has in its file what it has fetched, which
is not older than the table, and every line it has passed is in the table. Where a
file is new it needs that a run only keeps a name of a file that is there
(`NamesAreThere`).

*Daily crawlers.* `NoDuplicates` says nothing about what a run is going to
write, so `DailyInv` follows the rows from the answer to the table: what a run
has gathered and what is left of its transactions is not older than what is
stored (`Fresh`), a cell is in one transaction only, and a transaction without a
key empties what it inserts, or comes after the deletion that does
(`TodoFine`). That each crawler writes such transactions is a lemma per way of
writing (`UpsertsFine`, `ReplacesFine`, `GatheredFine`, `EpexFine`,
`EntsogFine`, `WeatherFine`); a replacement must also give back every cell it
empties (`Restores`), which holds because the cells it empties are those of the
window that was asked for, and a stored cell is answered again
(`AnsweredAgain`). The steps of a run then look only at the list that is left.
Reports follow: the report comes after the transaction it is about
(`ReportsFine`), and a request of copernicus that runs is that of the run at
work (`UnderWay`).

`MissingWithinReach` speaks of the time between runs and of one window; while a
run is at work its cells are in the hand of that run, and the windows move.
`ReachInv` says what becomes of a missing cell at every step, by the way a
crawler chooses its start. In a sliding window (`SlideFine`) a failure takes a
day from what the runs are bound to fetch: a missing cell is due in the next
run, whatever failures are left, or in the hand of this one (`InHand`), still to
be asked for, answered, or in a transaction to be written; so a run that ends
well leaves none behind, and one that does not takes a failure from those that
are left (`Due`). A crawler that reads on from its newest row (`FollowFine`)
must not store a row that passes a missing cell: its transactions come with the
oldest day first (`InOrder`), a deletion is followed by the rows that replace
it, and the windows of the series that are not yet asked for are those of the
table as it is. `epex` and `epex_ida` read the `LookBack` days before their
newest row again; that row is of a day before the next run, so they are covered
as sliding windows. For snapshots, `eia` and `regelleistung` the window is the
whole of what is wanted; of the last, only series within `MaxFiles` are wanted
(`Listed`). TLC has checked `ReachInv` as an invariant of the run before it was
proved.

The theorems hold for any number of series, look-back, failures and updates; the
days are those of `Horizon`, three or four, over which the loops over files and
chunks are unfolded.

*Gap filling.* No theorem assumes that runs take turns or that rows are delivered
together. The heart is `Settled`: the target has the row as the source has it, or
two runs were at it, and no run that has read an older one will replace it alone.
Every row up to the watermark is settled, but for the late; so is every row up to
what a run has read as the watermark, and what a run will write as the watermark
covers only rows that are settled or in its window (`WindowCovers`). A commit
settles what is in the window and takes the others' readings of it for old, and a
load unsettles only rows that are newer than all of this, or late. `WatermarkForward`
needs only that a run writes a watermark past the one it has read.

*Gap filling runs.* The watermark of a table is not ahead of its target, nor
the target of the source (`Ordered`), so a table that is skipped for want of
changes shows what the source had when the run began. `RunSoFar` carries this
from table to table: those behind the run are up to date unless they failed,
the number of failures is that of the metrics, and the metrics with the tables
that are left are what was asked for. A call with a window or a dry run promises
nothing of the kind and is exempt.

*Filling.* `FillInv` says of each cell that is not filled that it is that of its
row, and of each that is that it was missing, eligible, and computed from times
whose source has a value; every method, the fallback and the refinement keep it,
since a cell is only ever computed from rows of the grid that are observed.
`FillsFromObservations` says this of one call; it is proved, and no run repeats it. Of
the holdout (`HoldoutInv`): complete data has an inferred distance of one step,
because of all distances only the one over the removed window is not a step, and
a median is not the single greatest of three or more; so the grid restores the
removed rows, the window lies within, and linear interpolation fills it. Hence
no cell is left over, and the reported figures are about what was removed.
`MethodsAssumption` asks for three rows more than the longest gap, and for enough
rows without it; the synthetic data of the self-test have 12 rows with gaps of
at most 6, or 72 and more with gaps of at most 24.

*Forecast.* `PartsSoFar` and `StatusFollowsStep` give `PublishedWhole`: the
status is written last. `OneInForce` holds because whoever completes is at
`supersede` until the others are superseded. For `NewestInForce`, `NewestAtWork`
says that a process at work alone on its target has the newest row of it, or a
row newer than all that are left, and `RowsInOrder` that rows are inserted in
the order of days, so that retention takes the older ones first; then whatever
is superseded has been replaced by something newer (`Replaced`) for as long as
it is kept.

*Alerts.* A thread that has judged holds the lock of its process, so what it has
read of the file still is the file, but for keys whose entry was lost because
another process has written since or the file could not be read (`forgot`); and
the file holds the latest mail of every other key, and no other, unless a process
died between recording and sending (`cut`). A mail that is held back therefore
has a recent predecessor, and a mail that is sent has none.

Every safety invariant of the passing runs has a theorem. Only model-checked are
the liveness properties, which are out of the prover's reach as is whatever
`ENABLED` would be needed for. Type invariants are stated in each module of state machines;
those of `JobDispatch`, `SchedulerReload`, `ConfigStore`, `FmsIngest`,
`ForecastRuns` and `GapfillRuns` are proved as they stand, those of the other
modules with proofs as part of their inductive invariants. No model has a
recursive operator.

## What is left out

Within the models:

- `DELETE` and `INSERT` of PostgreSQL are modelled at the level of the rows a
  statement sees; isolation beyond that, connection loss and disk errors appear
  only as a statement that fails.
- Scheduler clock: slots fall due at any time. When the next one is due, and how
  long a thread waits, is computed by `cron_converter`, whose source is not in
  the repository: whether its `next()` may return the minute it starts from
  decides whether a job can be enqueued twice in one minute, and cannot be read
  off this code. A slot that falls due while a reload is pending is skipped
  (`Return`), as in the code. Whether the watchdog observer sees a file that was
  replaced under a bind mount is left open as well.
- `FmsIngest`: the backfill of `InstalledCapacityProductionUnit`, which writes every
  row without a look at the table, the single retry of a request, duplicate keys within a chunk, the
  calendar (which packages are recent does not change during a behaviour), the
  power plant and metadata steps before the download. Fetching the answer and
  truncating the file are one step, as are reading a chunk and writing it.
- `Crawlers`: columns and parsing, except where they decide on a row's time
  (`LabelsNameHours`, `NetzTimed`); what a service says of its own completeness.
- `GapfillTracking`: several groups per table, rows without an `UpdateTime`.
  `GapfillMethods`: numbers; the three synthetic data sets.
- `ForecastRuns`: the arithmetic of the models, covariates; the coverage check of the
  upstream package; that a row in `writing` of a killed process is never cleaned
  before it expires.
- `AlertLimiter`: a cooldown of 0, log files and their retention.
- `PasswordRotation`: other lines of `.env`, edits of it during a run, services
  that are started later than the list of running ones was taken, two rotations
  at once, file names with a resolution of a second.
- `HostPlaybooks`: extensions, version files, two staging containers at once,
  host preparation, uninstalling, the smoke test, the stand-alone backup (the
  migration writes the same dumps).

Not modelled, because nothing but input and output is there or because nothing
of it can be told from the code in the repository: the generators of Grafana
dashboards, `import_glohydrores`, the SQL of the database set-up, rendering of
the admin pages, and the crawlers `prisma_capacity`, `mastr`, `ecmwf`,
`entsoe_crawler` (replaced by the FMS crawler), `eex`, `eview`, `frequency`, `iwu`,
`nrw`, `vea`, `axxteq`, `enet`, `opsd`, `scigrid`, `windmodel`,
`londondatastore` and `ladesaeulenregister`, most of which replace a table as a
whole from one download; `CrawlSnapshots` has that shape.

## Plan

Done: the scheduler, the configuration, manual runs and actions, both ways of
ingest, gap filling, the forecast, rotation and playbooks. What would come next:

1. **Composition**: `FmsIngest` with `GapfillTracking` over the real order of
   packages, and `ConfigStore` as the editor of `SchedulerReload`; each has the
   other's behaviour as a free choice so far.
2. The remaining crawlers that keep history (`eex`, `prisma_capacity`), as
   further definitions for `Crawlers`.
3. The clock, once the behaviour of `cron_converter` at the reference minute is
   known.
