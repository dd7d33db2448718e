--------------------------- MODULE PipelineThreads ---------------------------
(***************************************************************************)
(* The threads of one `adapt run-nexrad` process and how they start, hand  *)
(* scans to each other, stop and finalize the run:                         *)
(*                                                                         *)
(*   cli   the main thread: waits for the orchestrator, takes the signals, *)
(*         closes the store (cli.py, _run_nexrad);                         *)
(*   orch  the orchestrator thread: start(), _main_loop, _drain_queue,     *)
(*         stop() (runtime/orchestrator.py);                               *)
(*   src   the scan source thread, AwsNexradDownloader or                  *)
(*         LocalDirectorySource;                                           *)
(*   proc  the RadarProcessor thread.                                      *)
(*                                                                         *)
(* src and proc share a bounded queue.Queue.  The queue is kept as the     *)
(* log of everything ever put and the number of messages taken from it:    *)
(* its contents are log[taken + 1 .. Len(log)].                            *)
(*                                                                         *)
(* Scans are numbered in chronological order.  What a scan contains, and   *)
(* how the store records it, is the business of the module ScanStore.      *)
(***************************************************************************)
EXTENDS Integers, Sequences

CONSTANTS
  NScans,          (* scans that exist for the radar in the run's time range *)
  Cap,             (* max_queue_size of the orchestrator                     *)
  LatestFiles,     (* downloader.latest_files, realtime only                 *)
  Configs,         (* the configurations (mode, source) the process may have *)
  CompleteBefore,  (* scans the catalog already holds complete for this run  *)
  MaxFaults        (* bound on environment failures in one behaviour         *)

ASSUME ConstantsAssumption ==
  /\ NScans \in Nat \ {0}
  /\ Cap \in Nat \ {0}
  /\ LatestFiles \in Nat \ {0}
  /\ Configs \subseteq [mode : {"historical", "realtime"},
                         source : {"aws_nexrad", "local_directory"}]
  /\ CompleteBefore \subseteq 1 .. NScans
  /\ MaxFaults \in Nat

Scans == 1 .. NScans

VARIABLES
  conf,            (* the resolved configuration, fixed for the run          *)
  src, srcStop, srcComplete,
  idx, passEnd,    (* the loop variable of _process_scans, the last scan listed *)
  known,           (* _known_files                                           *)
  log, taken,      (* the queue                                              *)
  proc, procStop,
  outcome,         (* what became of each scan the processor took            *)
  orch, stopRequested, interrupted,
  exitReason,      (* why the orchestrator left its main loop                *)
  summary,         (* the status built by _finalize_history, before it is written *)
  run,             (* status of the run's row in the registry                *)
  storeOpen,       (* the collection's database handles                      *)
  cli

(* What the properties need to remember of the past; no action reads these. *)
VARIABLES
  faults,          (* environment failures so far                            *)
  dlFailed,        (* scans whose download failed at least once              *)
  fetchFailed,     (* _fetch_scans gave up and returned an empty list        *)
  graceExpired,    (* a join in stop() timed out, for src or proc            *)
  forced,          (* the CLI stopped waiting for the orchestrator           *)
  lateTakes,       (* messages taken after the processor was told to stop    *)
  askedInLoop      (* request_stop() had been called when stop() began       *)

srcVars  == <<src, srcComplete, idx, passEnd, known>>
procVars == <<proc, outcome, taken, lateTakes>>
orchVars == <<orch, exitReason, summary, run, askedInLoop>>
cliVars  == <<cli, interrupted, stopRequested, forced>>
auxSrc   == <<dlFailed, fetchFailed>>
vars == <<conf, srcVars, srcStop, log, procVars, procStop, orchVars, cliVars,
          storeOpen, faults, auxSrc, graceExpired>>

Historical == conf.mode = "historical"
Aws        == conf.source = "aws_nexrad"

SrcAlive  == src \notin {"unborn", "dead"}
ProcAlive == proc \notin {"unborn", "dead"}

QSize == Len(log) - taken

QueueHasRoom == QSize < Cap

(* Mutant: a downloader polls again after its pass, whatever the mode. *)
FiniteDirectory == ~Aws

(* A source that ends by itself once its list of scans is walked. *)
Finite == Historical \/ ~Aws

-----------------------------------------------------------------------------
(* One environment failure: an AWS error, a store error, a bad module. *)
Fault == faults < MaxFaults /\ faults' = faults + 1

RunStatuses == {"absent", "running", "completed", "cancelled"}

(* A process starts either a new run or continues one (--run-id) in any     *)
(* state an earlier process left it in, a crashed "running" included.       *)
Init ==
  /\ conf \in Configs
  /\ src = "unborn" /\ srcStop = FALSE /\ srcComplete = FALSE
  /\ idx = 1 /\ passEnd = 0
  /\ known = {}
  /\ log = <<>> /\ taken = 0
  /\ proc = "unborn" /\ procStop = FALSE
  /\ outcome = [s \in Scans |-> "none"]
  /\ orch = "begin" /\ exitReason = "none" /\ summary = "none"
  /\ run \in RunStatuses
  /\ storeOpen = TRUE
  /\ cli = "join" /\ interrupted = FALSE /\ stopRequested = FALSE
  /\ faults = 0 /\ dlFailed = {} /\ fetchFailed = FALSE
  /\ graceExpired = {} /\ forced = FALSE /\ lateTakes = 0 /\ askedInLoop = FALSE

-----------------------------------------------------------------------------
(***************************************************************************)
(* The source thread.                                                      *)
(***************************************************************************)

SrcFrame == UNCHANGED <<conf, srcStop, procVars, procStop, orchVars, cliVars,
                        storeOpen, graceExpired>>

(* run(): the loop condition.  A stopped downloader leaves its loop; the     *)
(* interruptible sleep before a poll only delays it, and is left out.        *)
SrcLeave ==
  /\ src = "poll" /\ srcStop
  /\ src' = "exit"
  /\ UNCHANGED <<srcComplete, idx, passEnd, known, log, faults, auxSrc>>
  /\ SrcFrame

(* _download_task with a successful listing.  Historical mode walks the      *)
(* whole range.  Realtime keeps the latest files of what has arrived so far, *)
(* scans 1..hi; its time window is taken to span at least that many.         *)
LatestFrom(hi) == IF hi > LatestFiles THEN hi - LatestFiles + 1 ELSE 1

SrcFetch ==
  /\ src = "poll" /\ ~srcStop
  /\ \E hi \in passEnd .. NScans :
       /\ Historical => hi = NScans
       /\ passEnd' = hi
       /\ idx' = IF Historical THEN 1 ELSE LatestFrom(hi)
       /\ src' = IF hi = 0 THEN "poll" ELSE "scan"
  /\ UNCHANGED <<srcComplete, known, log, faults, auxSrc>>
  /\ SrcFrame

(* _fetch_scans gave up after max_fetch_retries and returned []: historical *)
(* mode takes the empty list for the end of the range.                      *)
SrcFetchFails ==
  /\ src = "poll" /\ ~srcStop
  /\ Fault
  /\ fetchFailed' = TRUE
  /\ srcComplete' = (srcComplete \/ Historical)
  /\ src' = IF Historical THEN "exit" ELSE "poll"
  /\ UNCHANGED <<idx, passEnd, known, log, dlFailed>>
  /\ SrcFrame

(* The pass attempted every scan of its list: processed >= len(scans). *)
PassOver == idx > passEnd

SrcPassEnds ==
  /\ src = "scan" /\ PassOver
  /\ srcComplete' = (srcComplete \/ Finite)
  /\ src' = IF Finite THEN "exit" ELSE "poll"
  /\ UNCHANGED <<idx, passEnd, known, log, faults, auxSrc>>
  /\ SrcFrame

(* stop() seen at the head of the loop body.  The downloader leaves the     *)
(* range unfinished; the directory source reports complete all the same.    *)
SrcPassStopped ==
  /\ src = "scan" /\ idx <= passEnd /\ srcStop
  /\ srcComplete' = (srcComplete \/ ~Aws)
  /\ src' = IF Aws THEN "poll" ELSE "exit"
  /\ UNCHANGED <<idx, passEnd, known, log, faults, auxSrc>>
  /\ SrcFrame

SrcSkipKnown ==
  /\ src = "scan" /\ idx <= passEnd /\ ~srcStop
  /\ idx \in known
  /\ idx' = idx + 1
  /\ UNCHANGED <<src, srcComplete, passEnd, known, log, faults, auxSrc>>
  /\ SrcFrame

(* Mutant: "processed >= len(scans)" is tested inside the loop. *)
SrcTurnToScanReports ==
  /\ src = "scan" /\ idx <= passEnd /\ ~srcStop
  /\ idx \notin known
  /\ src' = "acquire"
  /\ srcComplete' = (srcComplete \/ (Finite /\ idx = passEnd))
  /\ UNCHANGED <<idx, passEnd, known, log, faults, auxSrc>>
  /\ SrcFrame

SrcTurnToScan ==
  /\ src = "scan" /\ idx <= passEnd /\ ~srcStop
  /\ idx \notin known
  /\ src' = "acquire"
  /\ UNCHANGED <<srcComplete, idx, passEnd, known, log, faults, auxSrc>>
  /\ SrcFrame

(* The scan's bytes are committed and registered; the message is built. *)
SrcAcquire ==
  /\ src = "acquire"
  /\ src' = "put"
  /\ UNCHANGED <<srcComplete, idx, passEnd, known, log, faults, auxSrc>>
  /\ SrcFrame

(* _download_scan returned None: a warning, and the loop continues. *)
SrcDownloadFails ==
  /\ src = "acquire" /\ Aws
  /\ Fault
  /\ dlFailed' = dlFailed \cup {idx}
  /\ idx' = idx + 1
  /\ src' = "scan"
  /\ UNCHANGED <<srcComplete, passEnd, known, log, fetchFailed>>
  /\ SrcFrame

(* Mutant: the failing scan is passed over and the pass goes on. *)
SrcAcquireRaisesGoesOn ==
  /\ src = "acquire" /\ Aws
  /\ Fault
  /\ src' = "scan" /\ idx' = idx + 1
  /\ UNCHANGED <<srcComplete, passEnd, known, log, auxSrc>>
  /\ SrcFrame

(* The acquisition gateway raised: the downloader's run() logs it and polls *)
(* again later, from the first scan; the directory source's thread dies.    *)
SrcAcquireRaises ==
  /\ src = "acquire"
  /\ Fault
  /\ src' = IF Aws THEN "poll" ELSE "dead"
  /\ UNCHANGED <<srcComplete, idx, passEnd, known, log, auxSrc>>
  /\ SrcFrame

(* Mutant: the queued scan is not remembered. *)
KnownUnchanged == known

(* _known_files.add, after the put; the directory source keeps no such set. *)
KnownAfterPut == IF Aws THEN known \cup {idx} ELSE known

(* result_queue.put(message) blocks while the queue is full: no timeout, and *)
(* the stop flag is not looked at.                                           *)
SrcPut ==
  /\ src = "put" /\ QueueHasRoom
  /\ log' = Append(log, idx)
  /\ known' = KnownAfterPut
  /\ idx' = idx + 1
  /\ src' = "scan"
  /\ UNCHANGED <<srcComplete, passEnd, faults, auxSrc>>
  /\ SrcFrame

(* run() returns: the completion flag and the end of the thread are seen    *)
(* apart by the orchestrator.                                               *)
SrcExit ==
  /\ src = "exit"
  /\ src' = "dead"
  /\ UNCHANGED <<srcComplete, idx, passEnd, known, log, faults, auxSrc>>
  /\ SrcFrame

SrcNext ==
  \/ SrcLeave \/ SrcFetch \/ SrcFetchFails
  \/ SrcPassEnds \/ SrcPassStopped \/ SrcSkipKnown \/ SrcTurnToScan
  \/ SrcAcquire \/ SrcDownloadFails \/ SrcAcquireRaises
  \/ SrcPut \/ SrcExit

-----------------------------------------------------------------------------
(***************************************************************************)
(* The processor thread.                                                   *)
(***************************************************************************)

ProcFrame == UNCHANGED <<conf, srcVars, srcStop, log, orchVars, cliVars, auxSrc,
                         graceExpired>>

(* _run_loop: while not self.stopped(). *)
ProcCheck ==
  /\ proc = "check"
  /\ proc' = IF procStop THEN "dead" ELSE "get"
  /\ UNCHANGED <<outcome, taken, lateTakes, procStop, storeOpen, faults>>
  /\ ProcFrame

(* input_queue.get(timeout=1): the stop flag may be set while it waits. *)
ProcGet ==
  /\ proc = "get" /\ QSize > 0
  /\ taken' = taken + 1
  /\ proc' = "busy"
  /\ lateTakes' = IF procStop THEN lateTakes + 1 ELSE lateTakes
  /\ UNCHANGED <<outcome, procStop, storeOpen, faults>>
  /\ ProcFrame

ProcGetEmpty ==
  /\ proc = "get" /\ QSize = 0
  /\ proc' = "check"
  /\ UNCHANGED <<outcome, taken, lateTakes, procStop, storeOpen, faults>>
  /\ ProcFrame

InFlight == log[taken]

ProcAfterScan == "check"

(* process_file: a scan complete in the catalog is skipped, any other is     *)
(* run and its products written, which reopens a closed store.               *)
ProcScanDone ==
  /\ proc = "busy"
  /\ outcome' = [outcome EXCEPT ![InFlight] =
                   IF InFlight \in CompleteBefore THEN "skipped" ELSE "ok"]
  /\ proc' = ProcAfterScan
  /\ storeOpen' = TRUE
  /\ UNCHANGED <<taken, lateTakes, procStop, faults>>
  /\ ProcFrame

(* An exception in the scan: recorded, and the loop goes on. *)
ProcScanFails ==
  /\ proc = "busy" /\ InFlight \notin CompleteBefore
  /\ Fault
  /\ outcome' = [outcome EXCEPT ![InFlight] = "failed"]
  /\ proc' = ProcAfterScan
  /\ storeOpen' = TRUE
  /\ UNCHANGED <<taken, lateTakes, procStop>>
  /\ ProcFrame

(* A ContractViolation stops the processor itself. *)
ProcContractViolation ==
  /\ proc = "busy" /\ InFlight \notin CompleteBefore
  /\ Fault
  /\ outcome' = [outcome EXCEPT ![InFlight] = "failed"]
  /\ proc' = ProcAfterScan
  /\ procStop' = TRUE
  /\ storeOpen' = TRUE
  /\ UNCHANGED <<taken, lateTakes>>
  /\ ProcFrame

ProcNext ==
  \/ ProcCheck \/ ProcGet \/ ProcGetEmpty
  \/ ProcScanDone \/ ProcScanFails \/ ProcContractViolation

-----------------------------------------------------------------------------
(***************************************************************************)
(* The orchestrator thread.                                                *)
(***************************************************************************)

OrchFrame == UNCHANGED <<conf, srcComplete, known, log, outcome, taken, lateTakes,
                         cliVars, auxSrc>>

SrcSame  == UNCHANGED <<src, idx, passEnd>>
FlagSame == UNCHANGED <<srcStop, procStop, graceExpired, storeOpen>>

(* start(): the run record is begun, or reopened when it exists already. *)
OrchBegin ==
  /\ orch = "begin"
  /\ run' = "running"
  /\ orch' = "create_source"
  /\ UNCHANGED <<exitReason, summary, askedInLoop, proc, faults>>
  /\ OrchFrame /\ SrcSame /\ FlagSame

(* _create_source and downloader.start(). *)
OrchCreateSource ==
  /\ orch = "create_source"
  /\ src' = IF Aws THEN "poll" ELSE "scan"
  /\ idx' = 1
  /\ passEnd' = IF Aws THEN passEnd ELSE NScans
  /\ orch' = "build_processor"
  /\ UNCHANGED <<exitReason, summary, run, askedInLoop, proc, faults>>
  /\ OrchFrame /\ FlagSame

(* RadarProcessor(...) and processor.start(), in start() like the source. *)
OrchBuildProcessor ==
  /\ orch = "build_processor"
  /\ proc' = "check"
  /\ orch' = "loop"
  /\ UNCHANGED <<exitReason, summary, run, askedInLoop, faults>>
  /\ OrchFrame /\ SrcSame /\ FlagSame

(* start() raises before the try whose finally is stop(): the thread ends,  *)
(* nothing is stopped and a run record already begun stays "running".       *)
OrchStartRaises ==
  /\ orch \in {"begin", "create_source", "build_processor"}
  /\ Fault
  /\ orch' = "dead"
  /\ UNCHANGED <<exitReason, summary, run, askedInLoop, proc>>
  /\ OrchFrame /\ SrcSame /\ FlagSame

Leave(reason) == orch' = "stop" /\ exitReason' = reason

(* _main_loop, step 0: an external stop request. *)
OrchLoop ==
  /\ orch = "loop"
  /\ IF stopRequested THEN Leave("requested")
     ELSE orch' = "complete?" /\ UNCHANGED exitReason
  /\ UNCHANGED <<summary, run, askedInLoop, proc, faults>>
  /\ OrchFrame /\ SrcSame /\ FlagSame

(* Step 1, _check_historical_complete: stop the downloader and join it. *)
OrchCheckComplete ==
  /\ orch = "complete?"
  /\ IF Historical /\ srcComplete
     THEN srcStop' = TRUE /\ orch' = "join_source"
     ELSE srcStop' = srcStop /\ orch' = "alive?"
  /\ UNCHANGED <<exitReason, summary, run, askedInLoop, proc, faults,
                 procStop, graceExpired, storeOpen>>
  /\ OrchFrame /\ SrcSame

(* Steps 2 and 3: a processor that stopped, a dead source, the duration. *)
OrchCheckAlive ==
  /\ orch = "alive?"
  /\ IF procStop \/ ~ProcAlive THEN Leave("processor_stopped")
     ELSE IF ~SrcAlive
          THEN Leave(IF Historical /\ srcComplete THEN "source_exited" ELSE "source_died")
          ELSE \/ orch' = "loop" /\ UNCHANGED exitReason
               \/ ~Historical /\ Leave("max_duration")
  /\ UNCHANGED <<summary, run, askedInLoop, proc, faults>>
  /\ OrchFrame /\ SrcSame /\ FlagSame

(* downloader.join(timeout=5): it returns in any case. *)
OrchJoinSource ==
  /\ orch = "join_source"
  /\ orch' = "drain"
  /\ UNCHANGED <<exitReason, summary, run, askedInLoop, proc, faults>>
  /\ OrchFrame /\ SrcSame /\ FlagSame

(* Mutant: the drain ends while a message is still queued. *)
DrainedButOne == QSize <= 1

Drained == QSize = 0

(* _drain_queue: the queue is empty, a stop was requested, or the wait timed *)
(* out (no progress for a minute, or five minutes in all).                   *)
OrchDrain ==
  /\ orch = "drain"
  /\ \/ Drained /\ Leave("drained")
     \/ ~Drained /\ stopRequested /\ Leave("abandoned")
     \/ ~Drained /\ ~stopRequested /\ Leave("drain_timeout")
  /\ UNCHANGED <<summary, run, askedInLoop, proc, faults>>
  /\ OrchFrame /\ SrcSame /\ FlagSame

(* stop(): the source first. *)
OrchStopSource ==
  /\ orch = "stop"
  /\ askedInLoop' = stopRequested
  /\ IF SrcAlive THEN srcStop' = TRUE /\ orch' = "stop_join_source"
                 ELSE srcStop' = srcStop /\ orch' = "stop_processor"
  /\ UNCHANGED <<exitReason, summary, run, proc, faults, procStop, graceExpired, storeOpen>>
  /\ OrchFrame /\ SrcSame

(* Mutant: join() without a timeout. *)
WaitForever(alive) == ~alive

(* join(timeout): it returns when the thread is dead, or when the grace      *)
(* period is over.                                                           *)
JoinReturns(alive) == TRUE

OrchStopJoinSource ==
  /\ orch = "stop_join_source"
  /\ JoinReturns(SrcAlive)
  /\ graceExpired' = IF SrcAlive THEN graceExpired \cup {"src"} ELSE graceExpired
  /\ orch' = "stop_processor"
  /\ UNCHANGED <<exitReason, summary, run, askedInLoop, proc, faults, srcStop, procStop, storeOpen>>
  /\ OrchFrame /\ SrcSame

(* Mutant: the processor is told to stop and not joined. *)
OrchStopProcessorNoJoin ==
  /\ orch = "stop_processor"
  /\ procStop' = (procStop \/ ProcAlive) /\ orch' = "summary"
  /\ UNCHANGED <<exitReason, summary, run, askedInLoop, proc, faults, srcStop, graceExpired, storeOpen>>
  /\ OrchFrame /\ SrcSame

(* _stop_processor: the in-flight scan is given the grace period to finish. *)
OrchStopProcessor ==
  /\ orch = "stop_processor"
  /\ IF ProcAlive THEN procStop' = TRUE /\ orch' = "join_processor"
                  ELSE procStop' = procStop /\ orch' = "summary"
  /\ UNCHANGED <<exitReason, summary, run, askedInLoop, proc, faults, srcStop, graceExpired, storeOpen>>
  /\ OrchFrame /\ SrcSame

OrchJoinProcessor ==
  /\ orch = "join_processor"
  /\ JoinReturns(ProcAlive)
  /\ graceExpired' = IF ProcAlive THEN graceExpired \cup {"proc"} ELSE graceExpired
  /\ orch' = "summary"
  /\ UNCHANGED <<exitReason, summary, run, askedInLoop, proc, faults, srcStop, procStop, storeOpen>>
  /\ OrchFrame /\ SrcSame

(* _finalize_history: the status is read from the interrupt flag ... *)
OrchSummary ==
  /\ orch = "summary"
  /\ summary' = IF interrupted THEN "cancelled" ELSE "completed"
  /\ orch' = "finalize"
  /\ UNCHANGED <<exitReason, run, askedInLoop, proc, faults>>
  /\ OrchFrame /\ SrcSame /\ FlagSame

(* ... and written to the registry after the summary was printed; a failure  *)
(* of that write is logged and the shutdown goes on.                         *)
OrchFinalize ==
  /\ orch = "finalize"
  /\ \/ run' = summary /\ UNCHANGED faults
     \/ Fault /\ UNCHANGED run
  /\ orch' = "close"
  /\ UNCHANGED <<exitReason, summary, askedInLoop, proc>>
  /\ OrchFrame /\ SrcSame /\ FlagSame

(* The store is left open for the plot consumer when --plot-dir asks for     *)
(* one; the configuration is read here only, so it is chosen here.           *)
OrchClose ==
  /\ orch = "close"
  /\ storeOpen' \in {storeOpen, FALSE}
  /\ orch' = "dead"
  /\ UNCHANGED <<exitReason, summary, run, askedInLoop, proc, faults, srcStop, procStop, graceExpired>>
  /\ OrchFrame /\ SrcSame

OrchNext ==
  \/ OrchBegin \/ OrchCreateSource \/ OrchBuildProcessor \/ OrchStartRaises
  \/ OrchLoop \/ OrchCheckComplete \/ OrchCheckAlive \/ OrchJoinSource \/ OrchDrain
  \/ OrchStopSource \/ OrchStopJoinSource \/ OrchStopProcessor \/ OrchJoinProcessor
  \/ OrchSummary \/ OrchFinalize \/ OrchClose

-----------------------------------------------------------------------------
(***************************************************************************)
(* The main thread.  Both signals mark the run interrupted first and ask   *)
(* the orchestrator to stop second.                                        *)
(***************************************************************************)

CliFrame == UNCHANGED <<conf, srcStop, log, procStop, orchVars, auxSrc, graceExpired, faults>>
ThreadsSame == UNCHANGED <<srcVars, procVars>>

(* Mutant: the handler asks for the stop only. *)
CliSigtermUnmarked ==
  /\ cli = "join" /\ ~stopRequested
  /\ cli' = "join_term"
  /\ UNCHANGED <<interrupted, stopRequested, forced, storeOpen>>
  /\ CliFrame /\ ThreadsSame

(* SIGTERM: the handler runs on the main thread, in its join().  Once a stop *)
(* was requested it sets flags that are set already, and is left out.        *)
CliSigterm ==
  /\ cli = "join" /\ ~stopRequested
  /\ interrupted' = TRUE
  /\ cli' = "join_term"
  /\ UNCHANGED <<stopRequested, forced, storeOpen>>
  /\ CliFrame /\ ThreadsSame

(* KeyboardInterrupt out of orchestrator_thread.join(). *)
CliSigint ==
  /\ cli = "join"
  /\ interrupted' = TRUE
  /\ cli' = "interrupted"
  /\ UNCHANGED <<stopRequested, forced, storeOpen>>
  /\ CliFrame /\ ThreadsSame

(* orchestrator.request_stop(), from the handler or the except clause. *)
CliRequestStop ==
  /\ cli \in {"join_term", "interrupted"}
  /\ stopRequested' = TRUE
  /\ cli' = IF cli = "join_term" THEN "join" ELSE "wait"
  /\ UNCHANGED <<interrupted, forced, storeOpen>>
  /\ CliFrame /\ ThreadsSame

CliJoined ==
  /\ cli \in {"join", "wait"} /\ orch = "dead"
  /\ cli' = "finally"
  /\ UNCHANGED <<interrupted, stopRequested, forced, storeOpen>>
  /\ CliFrame /\ ThreadsSame

(* join(timeout=90) returned, or a second Ctrl+C. *)
CliGiveUp ==
  /\ cli = "wait" /\ orch # "dead"
  /\ forced' = TRUE
  /\ cli' = "finally"
  /\ UNCHANGED <<interrupted, stopRequested, storeOpen>>
  /\ CliFrame /\ ThreadsSame

(* finally: orchestrator.close_store() and _remove_pid(). *)
CliFinally ==
  /\ cli = "finally"
  /\ storeOpen' = FALSE
  /\ cli' = "returned"
  /\ UNCHANGED <<interrupted, stopRequested, forced>>
  /\ CliFrame /\ ThreadsSame

(* The interpreter waits for the non-daemon orchestrator thread, then ends   *)
(* the daemon threads wherever they are.                                     *)
ProcessExit ==
  /\ cli = "returned" /\ orch = "dead"
  /\ cli' = "exited"
  /\ src' = IF SrcAlive THEN "dead" ELSE src
  /\ proc' = IF ProcAlive THEN "dead" ELSE proc
  /\ UNCHANGED <<interrupted, stopRequested, forced, storeOpen, srcComplete, idx, passEnd,
                 known, outcome, taken, lateTakes>>
  /\ CliFrame

CliNext == CliRequestStop \/ CliJoined \/ CliGiveUp \/ CliFinally \/ ProcessExit

Terminated == cli = "exited" /\ UNCHANGED vars

Next ==
  \/ /\ cli # "exited"
     /\ \/ SrcNext \/ ProcNext \/ OrchNext
        \/ CliSigterm \/ CliSigint \/ CliNext
  \/ Terminated

Spec == Init /\ [][Next]_vars

(* The orchestrator and the main thread keep being scheduled, and a timeout  *)
(* that is due fires.  The workers owe nothing here: a download may hang and *)
(* a module may compute for ever.                                            *)
StopSpec ==
  /\ Spec
  /\ WF_vars(OrchNext)
  /\ WF_vars(CliNext)

(* Every download and every scan ends too.  Signals, new scans and failures  *)
(* still owe us nothing.                                                     *)
WorkersEnd ==
  /\ WF_vars(cli # "exited" /\ SrcNext)
  /\ WF_vars(cli # "exited" /\ ProcNext)

-----------------------------------------------------------------------------
(***************************************************************************)
(* Properties.                                                             *)
(***************************************************************************)

SrcStates  == {"unborn", "poll", "scan", "acquire", "put", "exit", "dead"}
ProcStates == {"unborn", "check", "get", "busy", "dead"}
OrchStates == {"begin", "create_source", "build_processor", "loop", "complete?", "alive?",
               "join_source", "drain", "stop", "stop_join_source", "stop_processor",
               "join_processor", "summary", "finalize", "close", "dead"}
CliStates  == {"join", "join_term", "interrupted", "wait", "finally",
               "returned", "exited"}
ExitReasons == {"requested", "processor_stopped", "source_exited", "source_died",
                "max_duration", "drained", "abandoned", "drain_timeout"}
Outcomes == {"none", "skipped", "ok", "failed"}

(* Every variable has its type, and the queue never exceeds maxsize. *)
TypeOK ==
  /\ conf \in Configs
  /\ src \in SrcStates /\ srcStop \in BOOLEAN /\ srcComplete \in BOOLEAN
  /\ idx \in 1 .. NScans + 1 /\ passEnd \in 0 .. NScans
  /\ known \subseteq Scans
  /\ log \in Seq(Scans) /\ taken \in 0 .. Len(log) /\ QSize <= Cap
  /\ proc \in ProcStates /\ procStop \in BOOLEAN
  /\ outcome \in [Scans -> Outcomes]
  /\ orch \in OrchStates /\ exitReason \in ExitReasons \cup {"none"}
  /\ summary \in {"none", "completed", "cancelled"}
  /\ run \in RunStatuses
  /\ storeOpen \in BOOLEAN
  /\ cli \in CliStates /\ interrupted \in BOOLEAN /\ stopRequested \in BOOLEAN
  /\ faults \in 0 .. MaxFaults /\ dlFailed \subseteq Scans /\ fetchFailed \in BOOLEAN
  /\ graceExpired \subseteq {"src", "proc"} /\ forced \in BOOLEAN
  /\ lateTakes \in Nat /\ askedInLoop \in BOOLEAN

(* No scan is put on the queue twice in a run, however often a pass over the *)
(* same listing is aborted and started again.                                *)
QueuedOnce == \A i, j \in 1 .. Len(log) : log[i] = log[j] => i = j

(* The processor sees scans in time order, which frame pairing and tracking  *)
(* rely on.  The one exception is a scan whose download failed and was       *)
(* retried by a later pass: it arrives behind its successors.                *)
ChronologicalUnlessRetried ==
  \A i, j \in 1 .. Len(log) : i < j /\ log[i] > log[j] => log[j] \in dlFailed

(* is_historical_complete() promises that everything is queued: the drain    *)
(* relies on a queue that "can only shrink".                                 *)
NothingQueuedAfterComplete == [][srcComplete => log' = log]_vars

(* A historical run recorded "completed" took every scan of its range to an  *)
(* outcome, except scans that could never be downloaded, unless it left its  *)
(* loop another way than by draining, the listing failed, or the processor   *)
(* outlived its grace period.  These are all the ways work is lost.          *)
Handled == {s \in Scans : outcome[s] # "none"}

CompletedAccounted ==
  /\ Historical /\ run = "completed" /\ summary # "none"
  /\ exitReason = "drained"
  /\ ~fetchFailed /\ "proc" \notin graceExpired
  => Scans \subseteq Handled \cup dlFailed

(* A stop asked for while the main loop was running is never recorded as a   *)
(* completed run: whoever sees the request also sees the interrupt flag.     *)
CancelRecorded ==
  askedInLoop /\ orch = "dead" /\ summary # "none" => run # "completed"

(* Once told to stop, the processor starts at most one more scan: the one a  *)
(* get() already waiting may still receive.                                  *)
OneLateScanAtMost == lateTakes <= 1

(* The database handles are not closed under a scan in flight or under an    *)
(* acquisition, unless the thread outlived its grace period, the CLI gave up *)
(* waiting, or start() raised and nobody stopped anything.                   *)
StartRaised == orch = "dead" /\ proc = "unborn"

ClosedWhenQuiet ==
  [][storeOpen /\ ~storeOpen' =>
       \/ forced \/ StartRaised
       \/ /\ proc = "busy" => "proc" \in graceExpired
          /\ src = "acquire" => "src" \in graceExpired]_vars

(* However stuck its workers are, a stop that was asked for ends the process *)
(* within its grace periods.  Checked of StopSpec.                           *)
StopEnds == stopRequested ~> cli = "exited"

(* A historical run whose workers do not hang ends by itself, whatever       *)
(* bounded failures it meets.  Checked of StopSpec.                          *)
HistoricalEnds == WorkersEnd => (Historical ~> cli = "exited")
=============================================================================
