# A TLA+ development of Adapt

Adapt is a radar pipeline: a source acquires NEXRAD volumes, a processor turns
each into a grid, a segmentation, cell statistics and tracks, and a store on
disk (one object directory and three SQLite databases) keeps the results for
readers that look at them while the pipeline runs. The numerics are ordinary
array code. What is hard is around them: three threads and two signals, a
bounded queue, retries, a shutdown in which every wait has a time limit, commits
spread over a file system and two databases, runs that are resumed after a
crash, and identities that must survive from one scan to the next.

Paths below are relative to `src/adapt/` in the repository.

| Module | What it is |
|---|---|
| `PipelineThreads` | the source, processor, orchestrator and main threads of one `run-nexrad` process |
| `PipelineThreadsMC`, `PipelineThreadsProofs` | its small instances; its theorems |
| `ScanStore` | what those threads write to disk, write by write, with crashes and resumed runs |
| `ScanLedger` | what the store promises a reader; `ScanStore` implements it |
| `ScanStoreMC`, `ScanStoreProofs` | symmetry for the small instance; the theorems and the refinement proof |
| `CellTracks` | frame pairing, tracking and the track tables of one run, over restarts |
| `CellTracksMC`, `CellTracksProofs` | its small instances; its theorems |
| `CellMatching` | how one pair of scans is matched: frame, gates, propagation, assignment |
| `CellMatchingMC` | its small instance; its theorems are in `CellTracksProofs` |
| `StoreSession` | opening a collection, freezing table schemas over two databases, the run registry; several processes |
| `StoreSessionMC`, `StoreSessionProofs` | its small instance; its theorems |
| `RunConfig` | how defaults, file and flags become one configuration |
| `PipelineAssembly` | from a configuration to registered modules, graphs and executed scans; post-processing; uses `RunConfig` |
| `PipelineAssemblyMC`, `PipelineAssemblyProofs` | its small instance; its theorems |
| `PipelineControl` | the PID file, pipeline processes and the dashboard that starts, watches and stops them |
| `PipelineControlMC`, `PipelineControlProofs` | its small instance; its theorems |
| `ScanView` | which scan of which run the dashboard shows, its loop and its cell selection |
| `ScanViewMC`, `ScanViewProofs` | its small instance; its theorems |
| `TargetReplay` | the target selection engine and the tab that replays it |
| `TargetReplayMC`, `TargetReplayProofs` | its small instance; its theorems |

`PROJECT.json` lists the runs, the theorems, the source lines of every
definition, and for every checked property a small change of the model, of a
kind a programmer could make in the code, under which the property fails.

## 1. Inventory

### Orchestrator (`runtime/orchestrator.py`)

*State:* the stop event, the interrupt flag, the source and processor threads,
the queue between them, the store registry. *Operations:* `start` (record the
run, create source and processor, main loop), `_check_historical_complete`,
`_drain_queue`, `request_stop`, `stop`, `_finalize_history`, `close_store`.
*Interaction:* polls `is_alive`, `stopped` and `is_historical_complete` of two
threads, joins both with time limits, is stopped by another thread. *Hard:* every
poll is stale when it is used; each join may time out and the shutdown goes on;
what the run is recorded as depends on a flag set elsewhere. *Correct if:* a stop
ends the process; a historical run ends by itself; a completed run accounts for
every scan; a cancelled run is not recorded completed; databases are not closed
under a working thread.

### Scan sources (`modules/acquisition/module.py`, `runtime/sources.py`)

*State:* the set of queued files, the historical-complete flag, the stop event.
*Operations:* a listing with retries, a pass over it (skip, download or reuse,
put), sleeping between polls; the directory source replays a listing once.
*Interaction:* a blocking put without a time limit on the bounded queue. *Hard:* a
pass that raises is started again from its first scan; a failed listing looks
like an empty one; a source at a full queue cannot be joined. *Correct if:* no
scan is queued twice; order is kept unless a download was retried; nothing is
queued after completion was reported.

### Processor (`runtime/processor.py`)

*State:* the stop event, `_scan_history`, the modules and what they remember.
*Operations:* get, `process_file` (skip a complete scan), `_run_scan` (modules
grouped by the history they need, history append, persistence, enrichment),
failure records. *Hard:* persistence happens after history and tracker have
moved on; a contract violation stops the loop from inside; the history is gone
after a restart although the tables are not. *Correct if:* at most one scan is
begun after a stop; a failure never blocks the next scan; the pair it forms is
the pair the tracker means.

### Command line (`cli.py`)

`run-nexrad`: the orchestrator on a non-daemon thread, SIGTERM handler,
KeyboardInterrupt, a bounded join, `finally`. The PID file is a check followed
by a write, and an unlink at the end. `postprocess` runs chosen modules on the
latest run. The other sub-commands are straight-line.

### Store: objects, catalog, router, acquisition

`persistence/objects.py`, `persistence/collection_catalog.py`,
`persistence/output_router.py`, `runtime/acquire.py`. *State:* staged and
published files; tables `artifacts`, `lineage`, `scans`, `scan_products`; product
tables in another database. *Operations:* begin/commit of an object
(rename, row, edge), `register_scan`, `link_scan_product` (which grants
`complete`), `mark_scan_failed`, reuse of raw volumes across runs. *Hard:* a crash
between any two of these; a scan complete before its last table is written; a
re-run over old links. *Correct if:* a link can always be opened and traced;
complete means readable; a raw volume is cataloged once; runs do not disturb each
other.

### Track store (`persistence/track_store.py`) and tracking (`modules/tracking/`, `execution/nodes/tracking.py`)

*State:* in memory the previous scan's cells, their uids, and the label map for
the registration frames; on disk `cells_by_scan`, `cell_events`, `cell_tracks`.
*Operations:* `track` (start, reset, match, split, merge, end), the two LUTs,
`write_scan`. *Hard:* three notions of "the previous scan": the last one in the
processor's history, the last one tracked, the last one in the tables. *Correct
if:* they are the same scan when they must be; the three tables tell one story;
an ended track stays ended and every end is recorded.

### Schema ledger and table writer (`persistence/products.py`, `persistence/store.py`)

*State:* a product table, its frozen schema in `products.db` and the mirror in
`catalog.db`. *Operations:* freeze, register_external, write, validation when a
collection is opened. *Hard:* two databases, two commits, a `CREATE TABLE` that
commits by itself; two processes that both find a table unfrozen; a process that
opens the collection while another freezes. *Correct if:* a store whose freezes
were not cut stays usable; a refusal has a reason; no row has a column its
table lacks.

### Run registry, execution history (`persistence/store_registry.py`, `persistence/execution_history.py`)

*State:* `runs` with status and configuration, `run_modules`, and the failures a
history object remembers. *Operations:* begin, resume, finalize, record. *Hard:* a
run id is a minute and a radar, so a relaunch within the minute meets its
predecessor; a post-processor works on the run a pipeline may still own.
*Correct if:* what is recorded of a run is what its processes run with and do.

### Configuration (`configuration/schemas/`)

*State:* none between launches but `config.yaml`. *Operations:* load or create the
file, infer the mode, merge, validate. *Hard:* one setting with two homes
(`mode`, `downloader.mode`), defaults that must not count as choices, a generated
file that is read as the user's at the next launch. *Correct if:* flags win, the
mode acquisition reads is that of the run, and the generated file changes nothing.

### Pipeline assembly, execution graph, post-processor (`execution/`, `runtime/processor.py`, `runtime/postprocessor.py`)

*State:* the process-wide registry, the enabled names, one graph per
`required_history`, the context of a scan, the history. *Operations:* import and
register, select, wire, run in rounds, persist, enrich, post-process. *Hard:* an
input may be produced by a disabled module, by one in a later group, by a stale
context, or by the module itself; a failed scan must leave no trace in the
history. *Correct if:* every module runs once, after its producers, or the reason
it cannot is named.

### Dashboard: control, scan view, target selection (`consumers/live/`, `consumers/target_selection/`)

*Control* - *state:* the owned process, timers, the modal question, watcher and
kill threads, the log tail. *Hard:* callbacks posted by a watcher for a process
that is no longer current; nested event loops; a PID file read and then removed.
*Scan view* - *state:* run selector, the scan on the canvas, the cell table, the
loop, selected cells. *Hard:* scan ids and labels repeat between runs; four timers
and a nested event loop write the same fields, and a run may have no table yet.
*Target selection* - *state:* the engine's target, the list of scans and the index
in it, the play timer. *Hard:* the engine depends on its whole past, while the user
seeks, scans arrive late, reads fail, and another collection is selected under it.

### Not modelled

* Detection, ingest, analysis, projection, volume statistics and lightning
  attribution are numerics over arrays without state between calls; what they
  declare and raise is in `PipelineAssembly`.
* The archive client is network I/O: its failures are inputs of
  `PipelineThreads`.
* The reader API beyond `open_scan_raster` and `scan_bundle` is single queries and
  conversions; what a reader may rely on is `ScanLedger`.
* The mask reader folds over artifacts and keeps nothing.
* Rendering, time series, movie frames, the plotter: output of state that
  `ScanView` and `TargetReplay` hold.
* Contracts check the shape of one value (that a violation stops the processor
  is in `PipelineThreads`); telemetry, logging and console output feed nothing
  back; utilities are folded into the definitions that use them.

Each has its entry in `PROJECT.json`.

## 2. PipelineThreads

Each thread has a control variable (`src`, `proc`, `orch`, `cli`) whose values
are the places in its loop where another thread's step can matter: around each
blocking call and between a read of a shared flag and its use. One action is one
such stretch of code. The orchestrator's main loop is three actions
(`OrchLoop`, `OrchCheckComplete`, `OrchCheckAlive`), because between them the
flags it reads may change; `stop()` is seven.

* The queue is a log of all puts with a cursor `taken`: `QSize` is the
  difference, and properties about order need no history variable.
* `conf` chooses the mode and kind of source; both sources share one thread,
  `SrcNext`, with the places where they differ written as such.
* Downloads may fail, acquisitions raise, listings fail, scans raise or violate a
  contract, `start()` raise: all of them together happen at most `MaxFaults`
  times. Time limits of joins and of the drain may expire at any time.
* Left out: sleeping is part of the poll; a second SIGTERM after a stop was
  requested sets flags that are set already; in realtime mode the window of
  `latest_files` is at least one; what is plotted at the end is not modelled.

### Runs

| Run | Question |
|---|---|
| `pipeline_safety` | all four configurations, three scans, a queue of one, one fault: `QueuedOnce`, `ChronologicalUnlessRetried`, `CompletedAccounted`, `CancelRecorded`, `NothingQueuedAfterComplete`, `ClosedWhenQuiet` |
| `pipeline_liveness` | under `StopSpec`, both sources in historical mode: a stop that was asked for ends the process (`StopEnds`), and a historical run whose workers do not hang ends by itself (`HistoricalEnds`) |

*Bounds.* A queue of one is full with one scan on it and one in the processor's
hands, so three scans make the source block, resume and reorder. One fault is
enough for each path of failure alone; pairs of failures are not explored. The
proofs have no bounds on scans, queue or faults.

*Fairness.* `StopSpec` asks only that the orchestrator's and the main thread are
scheduled; their waits all have time limits in the code, or, like the main
thread's first `join()`, wait for the orchestrator. It asks nothing of the
workers: a download may hang and a module may compute for ever, and `StopEnds`
holds all the same. `HistoricalEnds` has the antecedent `WorkersEnd`, that each
download and each scan ends, which the code can only hope for and without which
a historical run cannot end. Signals, faults and new scans are never owed. The
two realtime configurations are not in the liveness run: they have no end of
their own, and a stop meets nothing there but a source that polls for longer.

## 3. ScanStore and ScanLedger

One action is one durable write: the rename into `objects/`, the artifact row,
the lineage edge, the product link, a scan row, a table commit. The acquiring
thread and the processor of one process interleave between them, and
`ProcessEnds` may happen between any two, as a crash or a regular exit. A new
process resumes a run or begins another over the same scans.

* `Plan` is the order in which a scan's products are written, from the
  `persistence` declarations of the modules; `Kinds` are the outcomes of a scan:
  alone (no pair was formed), with a pair and cells, or without cells.
* Registration and the put that follows are one action: the queue does not
  survive the process, so nothing on disk can tell them apart.
* Object ids count publications, which is what the content of a random id is
  good for. Staged files that were never published are seen by nobody and left
  out. Two scans never have the same scan time here. `cell_adjacency` behaves as
  the other tables do and is left out. `mark_scan_failed` may fail in the same
  outage as the write it reports.
* Whether a scan shows cells is a function of its bytes (`Quiet`); whether it has a
  predecessor to pair with depends on the process (`KindsOf`), so a scan without
  products of a pair may get them from a later process.
* A reader opens the raster created last (`OpenedRaster`), not the linked one.
* One process works on a collection at a time.

`ScanLedger` is what a reader may rely on: scans are registered once, products
accumulate, and a scan turns complete exactly when a product is attached and all
the required ones can be read. `ScanStore` implements it under
`phase <- status`, `readable <- ` the products that are linked *and* whose link
can be followed to bytes, rows and a raw volume. Publishing, cataloging and
lineage are stuttering steps; the link is the commit point.

### Runs

`store_safety`: two runs over two scans (interchangeable, hence `RunSymmetry`),
two processes, one raised error; one scan shows cells and the other none, and
either may come first. Two processes suffice for every "written before
the crash, met again after it", two runs for sharing. 600 000 states.
`LinksBacked`, `CompleteExactly`, `OneRawPerScan`, `TracksUnlessCut`,
`RasterIsLinked` and the refinement `LedgerSpec`. `RunIsolation` is proved, as
all of these are (section 10).

## 4. CellTracks

`hist`, `prev` and `lutPrev` are the three memories of "the scan before":
`_scan_history[-1]`, `CellTracker._previous_scan`, and the scan of
`TrackingModule._prev_tracked_cells`. They vanish with the process; `rows`,
`events` and `tracks` are the tables and stay. A uid is the pair of the scan and
label of its birth, which is what the signature hashes, so that a resumed run
gives a cell born in the same scan the same uid, as the code does.

* A scan's number of cells and its time are input: the segmentation is a
  function of the scan's bytes. Which cells match is any one-to-one matching,
  and an unmatched cell may have split from, or merged into, any continuing one:
  gates, costs and the assignment choose among these.
* `RunPair` is projection, analysis, tracking, both LUTs and the history append,
  which run without another thread seeing them. `TrackedThenRaised` is the
  exception that can come between tracker and history; `PersistFails` those of
  the writes, whose transaction is rolled back when the store is closed.
* `LabelTaken` is the second key of `cells_by_scan`, which the upsert does not
  name in its ON CONFLICT clause.
* Links and statuses of a scan are `ScanStore`'s; here only "complete, hence
  skipped" is kept. Ages, areas, adjacency and diagnostics are left out.
* `writes`, `lost` and `slipped` record the past for the properties.

Several properties hold only if nothing was disturbed, and say so:
`Undisturbed` is one process, no scan out of order, no tracked scan whose rows
were lost. `CountsAgree` and `EndsAreFinal` hold over restarts too, for uids
whose birth was not retried; the first part of `EventsAccount` and the second of
`LineageBacked` hold in every run. `PairAgrees` needs
`TrackGap <= PairGap`: the two settings are independent
(`projector.max_time_interval_minutes`, 30 by default, and
`tracker.max_tracking_gap_minutes`, 20), nothing compares them, and with the
larger value on the tracker's side the labels of one scan are matched against
the frames of another.

### Runs

`tracks_safety`: three inputs of four scans (cells that go on, split, merge and
vanish; a storm that dies out; a pause), two processes, two faults, about half a
million states. Four scans give a pair, its successor, and a scan on either side
of a pause; two cells are needed for a split or a merge. `tracks_gap` is a
violation (section 12).

### One pair of scans: CellMatching

`CellTracks` takes the matching of two scans as any one-to-one set of pairs.
`CellMatching` is what `_track_frame_pair` does to get there, from the start of
a pair to its last match: `SelectFrame` (`select_registration_labels`),
`BuildEdges` (`_build_edges`), `Peel` (one turn of the loop of
`ConstraintPropagator.resolve`), `Assign` (`HungarianMatcher.match` on one
component). The geometry is abstracted to its outcome: any set of pairs may pass
the gates, at any costs of a small set. A component is the pair of sorted lists
the code passes on, defined as a least pair closed under the edges; of
assignments with the same total the code's solver may take any.

`match_safety` checks every validated graph between three and three cells with
two costs (19 683 of them): `GlobalOptimum`, which is proved too, like `OneToOne` by
itself, `ForcedHasNoRival` and `OneRoundIsEnough`. Three cells a side are the
fewest with a forced pair beside an ambiguous component, and with a component of
more cells on one side than on the other. `GlobalOptimum` says that the matching
is one-to-one, and that propagation and separate assignments lose nothing
against one assignment over the whole graph, provided the padding is dearer than
what one matching can cost (`PaddingDearest`). That it is "larger than any real
geometric cost", as the code has it, is not enough: two dear pairs may cost more
than a cheap one and the padding. A pair's cost is a geometric mismatch plus a
distance in cell lengths, bounded by the speed gate, so 1e9 is dear enough; nothing
enforces it. TLC evaluates `PaddingDearest` for the costs of the run.

The docstring of `ConstraintPropagator` says that removing forced pairs can make
neighbours unique, and the loop is written for that. A forced pair has no
neighbours; `OneRoundIsEnough` says that the second turn never finds anything.
That is harmless, and not a finding.

Instants are seconds, and `Ticks` the units of a `datetime64` in a second: 1e9 in
the code, 1000 in the runs. All that matters is that the coordinate exceeds the gap in minutes.

## 5. StoreSession

What any process does to a store as a whole: `Open` (read the catalog, compare
its mirror with the declarations, or create `catalog.db`), `Begin` (look the run
up, resume or begin it), `Write` (a frozen table, or a first frame: create the
table, declare it, mirror the declaration), `Record` (module rows, finalize, a
flush that raises). A process is one life of `run-nexrad` or `postprocess`; it
may die between any two durable steps (`Dies`), and any step of a freeze may
raise (`StepRaises`), `MaxFaults` times together.

* sqlite3 commits a `CREATE TABLE` by itself, so a table can exist without its
  `table_schemas` row, although the code writes both before one `commit`.
* `catalog.db` is a file before its script has run: who opens it then finds no
  tables and raises (`script = "partial"`).
* Validation reads one database after the other, so a healthy collection may be
  refused while another process is between the two; `overlapped` names that.
* `cut` is a death or a raise inside a freeze. After it the next open may be
  refused, or every later freeze of the table raise, for good: nothing repairs a
  table without a declaration, or a declaration without its mirror.
* A declaration is identified by who froze it, which stands for its time stamp;
  rows by who wrote which columns. Types and keys are left out.
* A run id is a minute and a radar. `Launch` within the same minute finds the
  earlier run and continues it, without being asked to.

`root_safety`: two processes, one run, two configurations, one fault; a tracker
with two tables, a module with one, and an extension that names the same table.
Processes and configurations are interchangeable (`SessionSymmetry`). Two
processes are what every race named here needs. `UsableUnlessCut`,
`RefusedForReason`, `WritesConform`, `RunRecordHonest`: each states its exception
(a cut, an overlap, two configurations, a shared run), because the code protects
against none of these. All four are proved for any number of processes.

## 6. RunConfig and PipelineAssembly

`RunConfig` has no variables. A source of settings is a partial function, a
merge overrides one by another, and `resolve_config` with its refusals is an
operator over the three sources. `PipelineAssembly` begins with a launch and
follows it to its last scan:

| Actions | Code |
|---|---|
| `LaunchHere`, `LaunchWith`, `Continue`, `LaunchPost` | `init_runtime_config` with the file it finds or is given; `--run-id`; `adapt postprocess` |
| `RecordRun` | `_record_run_start`, before any module is looked at |
| `ImportModules`, `SelectModules`, `BuildGraphs` | the registry, `resolve_enabled_modules`, one graph per `required_history` |
| `BeginScan`, `SkipGroup`, `EnterGroup`, `EndGroup`, `Accumulate` | `_run_scan`: the groups and the history |
| `RunNode`, `LacksInput`, `NodeRaises`, `ContractFails`, `NextRound`, `NoProgress`, `EndGraph` | `GraphExecutor.run`: one module at a time, in rounds |
| `Persist`, `StoreFails`, `EnterEnrichment`, `SkipEnrichment` | what follows the groups |

A module is its declarations: keys needed and given, keys its `run` insists on,
contracts, `required_history`, phase. The core modules' are those of
`execution/nodes/`; extensions are a constant. `assembly_safety` has eight
extensions, one for each way in which wiring is not obvious (listed before its
producer, producer in a later group, giving its own input, history of three,
enriching an enrichment), 18 files and 12 flag sets, two launches and three
scans of `max_history` two: 438 000 states. Three scans are the fewest in which
a history of two loses one. `OnceAfterProducers`, `MissingExplained`,
`StuckOnlyOnCycle`, `HistoryFits`, `LaunchAsAsked`, `BootstrapNeutral`.
`assembly_history` is a violation (section 12).

Checks that the code makes one after the other (`Refusal`, `SelectionError`,
`Fails`, `GraphOf`) are chains of IF, in the order of the code: the first that
applies decides. `registry` gives each module its place in the order of
registration; the later of two that give a key is the producer the validation
knows.

Two properties hold of the shipped modules and of extensions that the validation
of `resolve_enabled_modules` can see through, and not of any extension. What that
takes is said by operators over the declarations, and `MCExtensionsFit` has TLC
evaluate them for the extensions of the run:

* `SelectionContracts`, for `MissingExplained`: an extension's `run` insists only
  on what it declares, it gives no module's configuration, gives a core module its
  input no later than that module's group, gives tracks no earlier than tracking,
  and enriches from what every tracked scan has. The code checks none of these:
  the validation looks at who gives a key and never at when.
* `HistoryContracts`, for `HistoryFits`: an extension that gives the segmentation
  outside the first group reads it, and one that has `scan_history` validated is
  of a later group and reads the segmentation. Otherwise a run without detection
  may have scans in its history that do not pass `check_scan_history`.

*Left out:* field-level validation, numeric parameters, two classes of one name,
`unregister` and `clear`. The "grid missing" RuntimeError of the processor cannot
be reached with the modules there are.

## 7. PipelineControl

`phase` is where each pipeline process is between spawn and exit; `file` the PID
file; `attached` the processes whose open file is the one at the path (a file
that was unlinked and created again is another one). The dashboard's main thread
runs clicks, timers and posted callbacks one at a time; a modal question is a
state (`dialog`) in which timers and callbacks run and clicks do not. Watcher,
kill and tail threads are actions of their own. `control_safety`: two processes,
of which either may be started by the dashboard or elsewhere; two are what
"another one took its place" needs.

`OwnedReachable` and `PidFileHonest` name the windows in which the code does not
keep them (`overtaken`, `crossed`) and say that there are no others, which is
proved for any number of processes.

*Fairness.* `EndNoticed` asks that watchers return from `wait()`, that posted
callbacks are served, and that the main thread finishes a launch or an unlink it
began. `RunPosted` has strong fairness: a callback waits while the main thread is
busy with a launch, which it is again and again; Tk serves its queue in order.

## 8. ScanView

One action per callback of the Tk main thread: what a click, a key or a timer
does from its first line to its last, including what it does when rendering
raises half-way. The overflow question is a state in which timers go on. The
pipeline begins runs, completes scans and writes tracked cells (`CellsTracked`) at
any time, in this order for a run: a scan is complete before its tracks are
written, and a quiet scan has none. `_load_cells_data` drops the table first. A run
with no tracked cells leaves none (`LoadCells`), and so does a read that raises,
which also ends what the caller was about to do (`CellsUnread`): what was on the
canvas stays there without a table.

`PinnedRunOnScreen` is the property that matters: names of scans and labels of cells
repeat between runs, and nothing on the screen would tell. It says that the raster
is of the selected run, and that the cells joined with it, if any are loaded, are
of that run too; its mutant keeps the table of the run shown before when the
new one has no rows.

`view_safety`: two runs of two scans, three cells, two colour slots, one scan
that cannot be opened or table that cannot be read (1.1 million states). Two slots
and three cells make the selection overflow and colours wrap. *Fairness:* Tk fires a
pending timer, and the refresh timer is armed again in a `finally`; that it
refreshes presumes that the Auto-refresh switch is left on, which is its default
(`dashboard.py:284`, `:550`); the user and the pipeline owe nothing. `FollowsNewScans`
says that live refresh catches up; it starts from a scan that was shown live
(section 12 says why). The two safety properties are proved for any number of
runs, scans, cells and colours, and loops of any length.

## 9. TargetReplay

`Select` is the engine's `select`: stop reasons in the order of the rules, then
the best of the candidates beyond `switch_margin`. `Replayed` is a recursive
function of the list of scans a fresh engine is fed, which is what `_seek` and
the movie export do; `EngineIsReplay` is the agreement between this reference and the engine that was fed step by step,
through pauses, seeks in both directions, a list that grows under it, and
failures between an observation and its rendering.

The tab keeps the run it replays and asks the toolbar for the collection anew at
every read. A change of radar or store does not reset it, so that each read may be
of another collection: `home` says whether the one selected is that of the
run, and `CollectionChanged` turns it. Elsewhere the list of scans is empty without
an error (`ListRead`), the status is that of other runs, and a snapshot raises
(`ProcessFails`). The store is the environment: `over` says that no run of the run's
collection is in status running, which is what the dashboard asks for; it becomes
false again when a run is resumed or begun (`RunBegins`), and a scan may be stored
after it became true, by a processor that outlived its grace period.

`DoneShowsAll` says what "Done" is worth: every stored scan was shown, and no run
runs. It holds unless a read behind the message failed or was of another
collection (`misled`), or, after the times were read, a scan was stored or a run
was resumed (`overtaken`); section 12 says which of these are defects.

`targets_safety`: two cells (eleven ways for them to look), three scans stored in any
order, one failing read or rendering, any number of changes of collection (2.8
million states); three scans are what a target that is left and taken up again needs.

## 10. What is proved

The theorems hold for every number of scans, queue size, set of runs, set of
configurations and number of faults or processes. They assume only what the
named assumptions of the modules say of the constants (positive sizes, known
modes and sources), which every run evaluates. Three theorems assume more and say
so in their statement: two of the extensions (section 6), one of the padding
(section 4).

**PipelineThreads.** The inductive invariant `IInv` has six parts:
`Typed`; `QueueInv` (the log holds each scan once, the source's known files are
those in it, and the scan in the source's hands is not yet among them); `PassInv`
(what a historical pass has behind it is in the log or failed to download, so
that a source that reports complete has attempted every scan, and a drained
queue is empty for good); `ProcInv` (what was taken has an outcome, except the
one in hand or after an expired grace period); `StopInv` (how far the shutdown
is, and that a stop request is always accompanied by the interrupt flag);
`LateInv` (a take after the stop is the last). None of the
properties is inductive alone: `CompletedAccounted`, for example, speaks of the
end, and needs to know of every pass and of every take how it got there. From it:
`TypeOK`, `QueuedOnce`, `CompletedAccounted`, `CancelRecorded`,
`OneLateScanAtMost`, `NothingQueuedAfterComplete`. `OrderAndGrace` adds what two
more need. `ChronologicalUnlessRetried` is about pairs of queued scans, and a scan
comes late because of a download that failed or a pass that was cut: so a scan
the current pass has passed over, and that is still to come, must have failed or
been cut. `ClosedWhenQuiet` says that no step closes the store under a working
thread unless a grace period ran out, which is known from how far the shutdown is.

**ScanStore.** `IInv` adds to the properties: `Owned` (only a live process has
threads with something in hand), `InHand` (what is queued or processed has its
row in `scans`), `Staged` (a product in hand has been published, cataloged and
traced as far as its step says), `Fresh` (a raw volume being published is the
first of its scan). That tables only grow and that a link, once backed, stays backed are
lemmas. From it: `TypeOK`, `LinksBacked`, `CompleteExactly`, `OneRawPerScan`,
`RunIsolation`, `RasterIsLinked` (a raster that is newer than the link of its scan
is in somebody's hands, or was cut off from its link), `TracksUnlessCut` (by the
order of `Plan`, what a complete scan lacks is still to be written by the process
that works on it), and `ImplementsLedger`: every initial state of the store is one
of the ledger and every step a ledger step or a stutter, hence
`Spec => LedgerSpec`.

**CellMatching** (in `CellTracksProofs`, which extends both modules of the tracker;
they share no name). For all finite sets of cells, all validated graphs and any
padding: `MatchTypeOK` (a match is always a validated pair), `OneToOne`,
`ForcedHasNoRival`, `OneRoundIsEnough`. The invariant adds that what is decided
shares no cell with what remains (`Settled`), and that the first round sees the
whole graph. `OneRound`, a lemma about any set of pairs, is the heart of it: a rival
that the round removed was itself forced, so it took its neighbours along.

`GlobalOptimum` holds of any costs under `PaddingDearest`. The invariant `Optimum`
says that of the pairs decided so far the matched ones are a best choice; it is
preserved because the best of two parts that share no pair is the best of both
together (`BestOfParts`), and because what the solver returns for a component is a
best choice of its pairs (`OptimalIsBest`). The latter compares totals: any
one-to-one choice is part of a full assignment (`AssignmentExtends`), an assignment
totals its pairs and its padding (`TotalSplits`), and one cell of padding more
outweighs every pair (`SmallMatchingsAreCheap`). The sums are those of the library,
defined by recursion with CHOOSE; that they exist, do not depend on the order and
add up over disjoint sets is proved by induction with a set for the property
(`SubsetInduction`, `SumExists`, `SumWithout`, `SumUnion`).

**StoreSession.** `UsableUnlessCut` looks at tables one by one; a freeze is about
all tables of a module. `IInv` therefore says, for each place a freezing process
may be in, how far each of its tables is (`Progress`: missing, made, declared,
mirrored); that no two processes are in one freeze; that tables nobody is
freezing are whole, all done or all missing (`Whole`); and, of catalog.db, that a
file without its tables is about to get them. All this only as long as no freeze
was cut. The heart is `CreatesAlone`: of two processes that found a table
unfrozen, the one whose CREATE TABLE comes second raises on the first table, before
it has made anything. It rests on the assumption that two modules that share a
table have no other one (`_TRACKSTORE_TABLES`). `WritesConform` needs no such
care: a declaration never changes, and a process past its first declaration is
the one that made it (`Stamped`), so the rows it brings fit. `RefusedForReason`
relates what an opening process has read to the freezes since: of every
declaration it holds that differs from its module's, another process made it.
`RunRecordHonest` needs that a run in one process's hands is as that process left
it. Of `TypeOK` the proofs use the part they need (`Typed`).

**CellTracks.** All its properties hold for any number of scans, cells, processes
and faults, any inputs and any gap limits. They need two invariants, because some
hold whatever happens and others only of a run that nothing disturbed.

`TablesInv` is the first kind. `Place` and `InStep` say where a scan in the
tracker's hands is; `BatchEvents` what the batch that is about to be written
consists of; `Rows`, `Events`, `Others` and `RowsCome` that every row has its
track and exactly one event of the write that made it. `Births` and `Alive` are
what makes uids work: a uid names the scan and the cell it was born from, no two
writes give birth to the same one unless a scan was written again, and a cell
the tracker goes on with has a track that is still active. Without them "a track
that ended is never seen again" is not inductive: a step that takes up an old
uid would not be excluded. From it: `TypeOK`, `PairAgrees`, `CountsAgree`,
`EndsAreFinal`.

`RunInv` is the second kind and starts from the first. As long as no scan was
lost, raised, resumed or empty, what the tracker holds is what the table shows
active (`InTables`, `Goes`, `Gone`), `began` is the first scan of this
process (`Fresh`), and the previous scan of the tables is that of the tracker
(`Backed`). `_prev_scan` is a maximum over the rows, so its use rests on a lemma
that a set of scans has a greatest member, proved from well-foundedness. From it:
`EventsAccount`, `LineageBacked`, `EndsRecorded`.

**PipelineAssembly.** For any extensions, files, flags, requests, bounds and
faults. `TypeInvariant` is the first induction, over `LaunchInv` and `TypeInv`. The
former says what a launch was configured from: its configuration is the merge of
its file and flags, and what it was refused for is what that merge, or its
registry, is refused for. That it was so when the launch was resolved is not
enough: a later launch reads a file that an earlier one wrote. `LaunchAsAsked` and
`BootstrapNeutral` follow from it by lemmas on what `DeepMerge` keeps. `TypeInv`
says where a scan and its graph are: whose modules the executor has, which groups
are left, what is done. The others build on it, each by an invariant of its own:

* `OnceAfterProducers`: `Produced` (what is done has run, and the context holds its
  own value under every key it gives) and `Behind` (what has run is of a group that
  is behind, or done in this one), so that no module of a group that is entered
  has run for this scan.
* `StuckOnlyOnCycle`: `Rounds` counts (a round with progress has completed one more
  module than there were rounds before it), and `Circle` is what a round without
  progress leaves: every module of it waits for another one of it. That the
  executor's limit on rounds is never reached is arithmetic from there.
* `HistoryFits`: `Ordered` and `Segmented`, which need no hypothesis
  (`HistoryKept`), and `Unsegmented`: with no module to give the segmentation in
  the first group, no scan has it.
* `MissingExplained`: `Wired` (the selection was validated), `Grouped` (what the
  groups behind gave is in the scan's result) and `Enriched`. The argument goes
  from the producer that the validation found, which is enabled, to the group it
  is in; the hypothesis is needed where that group may come too late.

**PipelineControl.** `ControlIInv` follows ownership through the windows between
a check and its use. That a launched pipeline can be stopped from the
dashboard (`OwnedReachable`) needs to know of every process which click
launched it and whether its object has been replaced since; that the PID file names
the pipeline that works (`PidFileHonest`) needs to know of every process on its way
up or down whether the file at the path is the one it opened.

**ScanView.** `PinnedRunOnScreen` is not inductive: a running loop draws frames
that were collected when it was started. `ScreenInv` adds that its frames are of
the selected run for as long as a loop runs, that the cell table is too or that
there is none, and that the loop is at one of its frames; the change of run
preserves this by stopping the loop and tearing the map down. A table of the
run shown before may then remain, and is dropped by whatever next puts a picture
on the screen, also when the new one is empty or cannot be read
(`CellsUnreadDrops`). `SlotsDistinctUnlessWrapped` needs of
the overflow question that the cell it is about has not been selected
meanwhile (`SelectionInv`), since timers may drop the selection under it; then
the free slot is the least of a set that is not empty, and deselecting one
entry leaves the others distinct. From them: `TypeOK` and both properties.

**TargetReplay.** `EngineIsReplay` compares a state with a recursive function.
The library's induction theorems cannot be used, so `SetInduction` states
induction over the naturals with a set for the property, and is proved from
well-foundedness. With it `FeedExists` shows that the recursive function exists,
and `FedNothing`, `FedOneMore` and `FedSame` are what the rest uses: no scans
change nothing, one more scan is one more `select`, and what was seen of the
same scans comes to the same. `Listed` (the list is an increasing list of stored
scans, and these are never written again) makes what the engine saw what a replay
will see. It also makes the list no longer than the scans there are, so that one
that did not grow shows them all, if it was read in the run's own collection.
`Verdict` carries this from the read of the times to the message: between them the
collection stays (both are in one callback), and a scan stored meanwhile or later
is what `overtaken` records. `DoneShowsAll` is a part of it. `WindowOpen` comes from the cases of `select`; that `Best`
answers a candidate is an induction over the size of the set. From them also:
`TypeOK`.

**Only model-checked:** the liveness properties, since temporal reasoning about
fairness and ENABLED is outside this prover. Every invariant and every action
property that a passing run checks is a theorem. Every module states a `TypeOK`
(`MatchTypeOK` in `CellMatching`); where it is proved no run repeats it,
and elsewhere it is there for the reader.

## 11. Scope of the runs

| Run | Bounds | What they leave out |
|---|---|---|
| `pipeline_safety` | 3 scans, queue 1, 1 fault | two independent failures |
| `pipeline_liveness` | 2 scans, 1 fault | two independent failures |
| `store_safety` | 2 scans, 2 runs, 2 processes, 1 fault | a third run sharing a volume |
| `tracks_safety` | 4 scans, 2 cells, 2 processes, 2 faults | three-way merges |
| `match_safety` | 3 x 3 cells, 2 costs | components of more than three cells a side |
| `root_safety` | 2 processes, 1 run, 1 fault | three processes in one freeze |
| `assembly_safety` | 2 launches, 3 scans | a history longer than two |
| `control_safety` | 2 processes | reuse of a PID |
| `view_safety` | 2 runs, 2 scans, 3 cells | loops of more than two frames |
| `targets_safety` | 2 cells, 3 scans, 1 failure | ties among three candidates |

## 12. Where the repository says something else

Two are runs that find the violation; `PROJECT.json` quotes the lines.

* `tracks_gap` - the first dataset after a pause resolves the labels of its
  registration frames with the uids of the scan before the pause.
* `assembly_history` - the history is bounded in scans, not in data: its oldest
  entry refers to the dataset of the scan before, which refers to its own.

The others were met on the way. Each follows from the actions named, and no run
is kept for it.

*Pipeline.*
A historical run can be recorded completed with scans still queued, without any
failure: its source ends between the completion check and the liveness check of
one turn of the main loop (`OrchCheckComplete`, `OrchCheckAlive`;
`runtime/orchestrator.py:500`). A listing that failed is taken for an empty range
and reported complete (`SrcFetchFails`; `modules/acquisition/module.py:347`).
`_finalize_history` goes by the interrupt flag, so a run that a contract
violation stopped is recorded completed, and nothing records "failed".

*Store.* A scan is complete before its tracks are written, although
`docs/USAGE.md` says that readers never see half-written scans; a crash there
leaves it complete without tracks for ever (`TracksUnlessCut` is about the
rest). `scan_bundle` is "resolved through catalog links"
(`api/store_client.py:346`), and its raster is the newest of the scan: when a scan
that failed late is run again, its first new link makes it complete, and a bundle
taken before the new segmentation is linked has the new raster (`RasterIsLinked`
is about the rest). `table_schemas` and the table it describes are not one transaction.
`init_runtime_config` promises "no implicit reuse" of a run id
(`configuration/schemas/initialization.py:240`), and a relaunch within the minute
reuses one. An execution event whose flush raises skips `finalize_run`: the run
stays running. `store_registry.sql` says that a module's second run replaces its
outputs; the upsert deletes nothing.

*Tracks.* A scan that failed after its tracks were written can get other uids for
the same labels when it is run again, and the table's second key then refuses it
(`LabelTaken`; `persistence/track_store.py:481`). Tracks that end in a scan without
cells are not ended in the tables (`Terminated`;
`persistence/output_router.py:152`). The tracker asks for the registration frame
nearest the end of the gap and gets the one at its beginning (`SelectFrame`;
`execution/nodes/tracking.py`).

*Configuration and assembly.*
A `downloader.mode` in the file is not overridden by `--mode`, although the header
of the generated file says that flags take precedence. The generated file
freezes `modules:`, so an extension added later is registered and never enabled,
without a word. `--only` replaces the file's list although its docstring says
"restricts further". An extension whose `required_history` is lower than its
producer's is accepted at the start and fails every scan. Two modules that give
one key in different groups are not detected. A module that gives its own input
waits for itself, "No progress" in every scan, and hides that a producer was
disabled. A phase-4 module loaded as an extension runs in the live pipeline,
which the docs exclude. `postprocess --config` resolves from defaults, not "on
top of" the run's configuration. A run is recorded before its modules are
resolved, so `adapt postprocess` may take a launch that was refused for the
latest run, and the enabled modules it records are always none.

*Dashboard.* `confirm_close` uses `_proc` after a modal question under which it may
have become None; the exception ends the timers of a window that stays open
(`CloseRaises`; `consumers/live/_pipeline.py:681`). The first scan of a run that was
empty when it was chosen is never rendered by itself
(`consumers/live/_scan_view.py:176`), hence the antecedent of `FollowsNewScans`.
`show_latest` notes a scan as rendered before it is. The help text gives Escape as
"Stop loop", and it clears the selection (`dashboard.py:420`, `:137`). Changing the
radar resets the scan tab and no other (`dashboard.py:395`): a replay that waits for
new scans then finds none in the other collection, without an error, and if
nothing runs there says "Done" with scans of its run unshown
(`CollectionChanged`, `GoLiveTimes`; `_tse_view.py:419`); a step there fails and
pauses, and a seek sets its index without having fed the engine. Scans stored after
the status left running are not shown until the user plays again. A rendering that fails after the index
moved leaves the replay running without a timer, and the snapshot of a past scan
takes present columns of the tracks table.

## 13. Plan

1. `CellMatching` further: the splits and merges of what is left unmatched, and
   that its result is what `CellTracks` takes a matching to be.
2. A theorem that relates `RunRecordHonest` to `CompletedAccounted`: what the
   registry says of a run and what its pipeline did.
