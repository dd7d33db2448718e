--------------------------- MODULE PipelineControl ---------------------------
(***************************************************************************)
(* The dashboard's control of pipeline processes, and the single-instance  *)
(* PID file through which pipelines and dashboards see each other.         *)
(*                                                                         *)
(* Actors: pipeline processes (adapt run-nexrad: check the PID file, write *)
(* it, work, unlink it), the dashboard's Tk main thread (user clicks,      *)
(* timers, posted callbacks), one ProcWatcher thread per launched process, *)
(* the thread that terminates and then kills a process, and the log tail   *)
(* that follows a pipeline started elsewhere.  A modal question            *)
(* (messagebox) runs a nested event loop: timers and posted callbacks run  *)
(* while it is open, clicks do not.                                        *)
(*                                                                         *)
(* Left out: log text and its file handle, badge and status texts, the     *)
(* wizard's form and the config file it writes, reuse of a PID by the      *)
(* operating system.                                                       *)
(***************************************************************************)
EXTENDS FiniteSets, Naturals

CONSTANTS
    Pids,       \* the pipeline processes that are ever started
    NoPid,      \* no process; also: no PID file
    Empty       \* a PID file that exists and holds no number

ASSUME PidsDistinct == NoPid \notin Pids /\ Empty \notin Pids /\ NoPid # Empty

VARIABLES
    \* ---- the operating system ----
    file,       \* the PID file: NoPid (absent), Empty, or the PID it names
    attached,   \* processes whose opened PID file is the one at the path
    phase,      \* where each process is in run-nexrad
    \* ---- the dashboard ----
    proc,       \* PipelineController._proc
    main,       \* what the main thread does: free, about to unlink, launching
    dialog,     \* the modal question on the screen
    poll,       \* the recurring "poll" timer for an external pipeline
    reconnect,  \* check_reconnect is scheduled (once, at start)
    armed,      \* the shell's recurring refresh and status timers
    window,     \* not yet open, open or closed
    \* ---- its threads ----
    watched,    \* processes a ProcWatcher thread waits for
    posted,     \* processes whose _on_proc_ended is queued for the main thread
    killer,     \* the _do_kill thread of each process
    tail,       \* the reconnect log tail
    \* ---- history, read by properties only ----
    launched,   \* processes this dashboard launched
    overtaken,  \* a launch happened while an earlier end was still to be told
    crossed     \* a second pipeline passed the check, or a live file was unlinked

osVars == <<file, attached, phase>>
uiVars == <<proc, main, dialog, poll, reconnect, armed, window>>
threadVars == <<watched, posted, killer, tail>>
histVars == <<launched, overtaken, crossed>>
vars == <<osVars, uiVars, threadVars, histVars>>

Phases == {"none", "spawned", "checked", "opened", "starting", "running",
           "stopping", "leaving", "zombie", "dead"}
NoDialog == [kind |-> "none", pid |-> NoPid]
Dialogs == [kind : {"none", "kill", "reconnect", "close"}, pid : Pids \cup {NoPid}]

TypeOK ==
    /\ file \in Pids \cup {NoPid, Empty}
    /\ attached \subseteq Pids
    /\ phase \in [Pids -> Phases]
    /\ proc \in Pids \cup {NoPid}
    /\ main \in {"free", "unlink", "unlinkThenLaunch", "launch"}
    /\ dialog \in Dialogs
    /\ poll \in BOOLEAN /\ reconnect \in BOOLEAN /\ armed \in BOOLEAN
    /\ window \in {"new", "open", "closed"}
    /\ watched \subseteq Pids /\ posted \subseteq Pids
    /\ killer \in [Pids -> {"none", "term", "wait"}]
    /\ tail \in {"off", "on", "unlink"}
    /\ launched \subseteq Pids
    /\ overtaken \in BOOLEAN /\ crossed \in BOOLEAN

(***************************************************************************)
(* Processes and the PID file                                              *)
(***************************************************************************)
Working == {"spawned", "checked", "opened", "starting", "running", "stopping", "leaving"}
HasFile == {"starting", "running", "stopping"}

\* poll() is None: the process has not exited.
Live(p) == phase[p] \in Working

\* process_alive(pid): a child that exited answers until it is reaped.
ProcessAlive(p, ph) == p \in Pids /\ ph[p] \in Working \cup {"zombie"}

\* _pipeline_running(): the file names a live process.
Running(ph) == ProcessAlive(file, ph)

\* The file that _pipeline_running unlinks: empty, or naming a dead process.
Stale(ph) == file # NoPid /\ ~Running(ph)

\* A process that exits: a child stays a zombie until its watcher reaps it.
Exited(p) == IF p \in launched THEN "zombie" ELSE "dead"

\* SIGTERM before the handler is installed ends the process where it is.
Terminated(p) ==
    CASE phase[p] \in {"spawned", "checked", "opened", "starting"} -> Exited(p)
      [] phase[p] = "running" -> "stopping"
      [] OTHER -> phase[p]

Signal(p) == phase' = [phase EXCEPT ![p] = Terminated(p)]

\* Unlinking removes whatever the path names now.
Unlink ==
    /\ file' = NoPid
    /\ attached' = {}

Enter(p, from, to) ==
    /\ phase[p] = from
    /\ phase' = [phase EXCEPT ![p] = to]

ExtStart(p) ==
    /\ Enter(p, "none", "spawned")
    /\ UNCHANGED <<file, attached, uiVars, threadVars, histVars>>

\* Mutant: the check is made inside the try whose finally removes the PID file.
CliCheckInTry(p) ==
    /\ Enter(p, "spawned", IF Running(phase) THEN Exited(p) ELSE "checked")
    /\ file' = IF Running(phase) THEN NoPid ELSE file
    /\ UNCHANGED <<attached, uiVars, threadVars, histVars>>

\* _check_single_instance: an empty or malformed file is no obstacle.
CliCheck(p) ==
    /\ Enter(p, "spawned", IF Running(phase) THEN Exited(p) ELSE "checked")
    /\ crossed' = \/ crossed
                  \/ ~Running(phase) /\ \E q \in Pids \ {p} :
                        phase[q] \in {"checked", "opened"} \cup HasFile
    /\ UNCHANGED <<file, attached, uiVars, threadVars, launched, overtaken>>

\* _write_pid opens the file for writing, which truncates it, ...
CliOpenPid(p) ==
    /\ Enter(p, "checked", "opened")
    /\ file' = Empty
    /\ attached' = attached \cup {p}
    /\ UNCHANGED <<uiVars, threadVars, histVars>>

\* ... and writes to what it opened, at the path or already unlinked.
CliWritePid(p) ==
    /\ Enter(p, "opened", "starting")
    /\ file' = IF p \in attached THEN p ELSE file
    /\ attached' = attached \ {p}
    /\ UNCHANGED <<uiVars, threadVars, histVars>>

CliReady(p) ==
    /\ Enter(p, "starting", "running")
    /\ UNCHANGED <<file, attached, uiVars, threadVars, histVars>>

\* The run ends or was told to stop: the finally block unlinks the PID file.
CliFinally(p) ==
    /\ phase[p] \in {"running", "stopping"}
    /\ phase' = [phase EXCEPT ![p] = "leaving"]
    /\ Unlink
    /\ UNCHANGED <<uiVars, threadVars, histVars>>

CliExit(p) ==
    /\ Enter(p, "leaving", Exited(p))
    /\ UNCHANGED <<file, attached, uiVars, threadVars, histVars>>

\* An error before the try block, a kill from outside: the file stays behind.
CliDies(p) ==
    /\ Live(p)
    /\ phase' = [phase EXCEPT ![p] = Exited(p)]
    /\ attached' = attached \ {p}
    /\ UNCHANGED <<file, uiVars, threadVars, histVars>>

CliNext(p) ==
    \/ ExtStart(p) \/ CliCheck(p) \/ CliOpenPid(p) \/ CliWritePid(p)
    \/ CliReady(p) \/ CliFinally(p) \/ CliExit(p) \/ CliDies(p)

(***************************************************************************)
(* The dashboard's main thread                                             *)
(***************************************************************************)
\* Timers and posted callbacks run, also under a modal question.
CallbackTime == window = "open" /\ main = "free"
\* The user can click.
ClickTime == CallbackTime /\ dialog = NoDialog

Owns(p) == proc = p /\ p \in Pids /\ Live(p)
OwnsOne == \E p \in Pids : Owns(p)

\* _pipeline_running as evaluated by the main thread, which then unlinks.
Probe(ph) == main' = IF Stale(ph) THEN "unlink" ELSE "free"

\* _on_proc_ended: whatever _proc is now is forgotten; then update_badge.
OnProcEnded(ph) ==
    /\ proc' = NoPid
    /\ Probe(ph)

\* AdaptDashboard.__init__ arms the timers and looks for a running pipeline.
Open ==
    /\ window = "new"
    /\ window' = "open"
    /\ armed' = TRUE
    /\ reconnect' = Running(phase)
    /\ Probe(phase)
    /\ UNCHANGED <<osVars, proc, dialog, poll, threadVars, histVars>>

MainUnlink ==
    /\ main \in {"unlink", "unlinkThenLaunch"}
    /\ Unlink
    /\ main' = IF main = "unlink" THEN "free" ELSE "launch"
    /\ crossed' = (crossed \/ Running(phase) \/ attached # {})
    /\ UNCHANGED <<phase, proc, dialog, poll, reconnect, armed, window, threadVars,
                   launched, overtaken>>

\* _find_running_pipeline: the owned process, else the one the file names.
FoundPid == IF OwnsOne THEN proc ELSE IF Running(phase) THEN file ELSE NoPid

WizardAsks ==
    /\ ClickTime
    /\ FoundPid # NoPid
    /\ dialog' = [kind |-> "kill", pid |-> FoundPid]
    /\ UNCHANGED <<osVars, proc, main, poll, reconnect, armed, window, threadVars, histVars>>

\* Nothing runs: the form is valid, the store exists or is initialised.
WizardProceeds ==
    /\ ClickTime
    /\ FoundPid = NoPid
    /\ main' = IF Stale(phase) /\ file # Empty THEN "unlinkThenLaunch" ELSE "launch"
    /\ UNCHANGED <<osVars, proc, dialog, poll, reconnect, armed, window, threadVars, histVars>>

\* _launch_pipeline: Popen, watcher thread, badge.
Launch(p) ==
    /\ main = "launch"
    /\ Enter(p, "none", "spawned")
    /\ proc' = p
    /\ main' = "free"
    /\ watched' = watched \cup {p}
    /\ launched' = launched \cup {p}
    /\ overtaken' = (overtaken \/ poll \/ watched # {} \/ posted # {})
    /\ UNCHANGED <<file, attached, dialog, poll, reconnect, armed, window, posted,
                   killer, tail, crossed>>

\* Popen, adapt init or the form fails: an error box, nothing else.
LaunchFails ==
    /\ main = "launch"
    /\ main' = "free"
    /\ UNCHANGED <<osVars, proc, dialog, poll, reconnect, armed, window, threadVars, histVars>>

\* "Kill it and continue?" - the process the question named is told to stop.
WizardAnswers ==
    /\ CallbackTime
    /\ dialog.kind = "kill"
    /\ dialog' = NoDialog
    /\ \/ Signal(dialog.pid) /\ attached' = attached \ {dialog.pid}
       \/ UNCHANGED <<phase, attached>>
    /\ UNCHANGED <<file, proc, main, poll, reconnect, armed, window, threadVars, histVars>>

\* Mutant: stop() forgets the process before it has ended.
StopOwnedForgets ==
    /\ ClickTime
    /\ OwnsOne
    /\ killer' = [killer EXCEPT ![proc] = IF @ = "none" THEN "term" ELSE @]
    /\ OnProcEnded(phase)
    /\ UNCHANGED <<osVars, dialog, poll, reconnect, armed, window, watched, posted, tail,
                   histVars>>

\* stop() with an owned live process: a thread terminates it.  A second click
\* repeats a SIGTERM already handled.
StopOwned ==
    /\ ClickTime
    /\ OwnsOne
    /\ killer' = [killer EXCEPT ![proc] = IF @ = "none" THEN "term" ELSE @]
    /\ UNCHANGED <<osVars, uiVars, watched, posted, tail, histVars>>

\* stop() without one: the process the PID file names is told to stop.
StopByFile ==
    /\ ClickTime
    /\ ~OwnsOne
    /\ IF file \in Pids
       THEN Signal(file) /\ attached' = attached \ {file}
       ELSE UNCHANGED <<phase, attached>>
    /\ OnProcEnded(phase')
    /\ UNCHANGED <<file, dialog, poll, reconnect, armed, window, threadVars, histVars>>

RunPosted(p) ==
    /\ CallbackTime
    /\ p \in posted
    /\ posted' = posted \ {p}
    /\ OnProcEnded(phase)
    /\ UNCHANGED <<osVars, dialog, poll, reconnect, armed, window, watched, killer, tail,
                   histVars>>

\* _poll_external_pid: re-armed while the file names a live process.
PollTick ==
    /\ CallbackTime
    /\ poll
    /\ ~Running(phase)
    /\ poll' = FALSE
    /\ OnProcEnded(phase)
    /\ UNCHANGED <<osVars, dialog, reconnect, armed, window, threadVars, histVars>>

\* _status_tick and _refresh_all ask is_running: the file only without a process.
ShellTick ==
    /\ CallbackTime
    /\ armed
    /\ ~OwnsOne
    /\ Stale(phase)
    /\ main' = "unlink"
    /\ UNCHANGED <<osVars, proc, dialog, poll, reconnect, armed, window, threadVars, histVars>>

\* check_reconnect, 600 ms after the start.
CheckReconnect ==
    /\ ClickTime
    /\ reconnect
    /\ reconnect' = FALSE
    /\ IF Running(phase) /\ proc = NoPid
       THEN dialog' = [kind |-> "reconnect", pid |-> file] /\ UNCHANGED main
       ELSE Probe(phase) /\ UNCHANGED dialog
    /\ UNCHANGED <<osVars, proc, poll, armed, window, threadVars, histVars>>

\* _reconnect_pipeline: no process is owned, so the badge asks the file.
ReconnectAnswers ==
    /\ CallbackTime
    /\ dialog.kind = "reconnect"
    /\ dialog' = NoDialog
    /\ \/ /\ poll' = TRUE
          /\ tail' = "on"
          /\ Probe(phase)
       \/ UNCHANGED <<poll, tail, main>>
    /\ UNCHANGED <<osVars, proc, reconnect, armed, window, watched, posted, killer, histVars>>

(***************************************************************************)
(* Closing the window                                                      *)
(***************************************************************************)
\* shutdown and destroy: _active is cleared, timers are cancelled.
Destroy ==
    /\ window' = "closed"
    /\ poll' = FALSE
    /\ reconnect' = FALSE

\* _on_close cancels the shell's timers before it asks.
CloseClick ==
    /\ ClickTime
    /\ armed' = FALSE
    /\ IF OwnsOne
       THEN /\ dialog' = [kind |-> "close", pid |-> proc]
            /\ UNCHANGED <<window, poll, reconnect>>
       ELSE /\ Destroy
            /\ UNCHANGED dialog
    /\ UNCHANGED <<osVars, proc, main, threadVars, histVars>>

CloseKills ==
    /\ CallbackTime
    /\ dialog.kind = "close"
    /\ proc # NoPid
    /\ Signal(proc)
    /\ attached' = attached \ {proc}
    /\ dialog' = NoDialog
    /\ Destroy
    /\ UNCHANGED <<file, proc, main, armed, threadVars, histVars>>

\* The process ended under the question: _proc is None and the kill raises.
CloseRaises ==
    /\ CallbackTime
    /\ dialog.kind = "close"
    /\ proc = NoPid
    /\ dialog' = NoDialog
    /\ UNCHANGED <<osVars, proc, main, poll, reconnect, armed, window, threadVars, histVars>>

CloseKeeps ==
    /\ CallbackTime
    /\ dialog.kind = "close"
    /\ dialog' = NoDialog
    /\ Destroy
    /\ UNCHANGED <<osVars, proc, main, armed, threadVars, histVars>>

CloseCancelled ==
    /\ CallbackTime
    /\ dialog.kind = "close"
    /\ dialog' = NoDialog
    /\ armed' = TRUE
    /\ UNCHANGED <<osVars, proc, main, poll, reconnect, window, threadVars, histVars>>

UserNext ==
    \/ WizardAsks \/ WizardProceeds \/ WizardAnswers \/ StopOwned \/ StopByFile
    \/ ReconnectAnswers
    \/ CloseClick \/ CloseKills \/ CloseRaises \/ CloseKeeps \/ CloseCancelled

MainNext ==
    \/ Open \/ MainUnlink \/ LaunchFails \/ PollTick \/ ShellTick \/ CheckReconnect
    \/ \E p \in Pids : Launch(p) \/ RunPosted(p)

(***************************************************************************)
(* The dashboard's threads                                                 *)
(***************************************************************************)
\* Mutant: the callback is lost when a question is on the screen.
WatcherPostsIfIdle(p) ==
    /\ p \in watched
    /\ Enter(p, "zombie", "dead")
    /\ watched' = watched \ {p}
    /\ posted' = IF dialog = NoDialog THEN posted \cup {p} ELSE posted
    /\ UNCHANGED <<file, attached, uiVars, killer, tail, histVars>>

\* _watch: proc.wait() returns, the callback is posted.
WatcherPosts(p) ==
    /\ p \in watched
    /\ Enter(p, "zombie", "dead")
    /\ watched' = watched \ {p}
    /\ posted' = posted \cup {p}
    /\ UNCHANGED <<file, attached, uiVars, killer, tail, histVars>>

\* _do_kill: SIGTERM to the group, then up to 5 s, then SIGKILL.
KillTerminates(p) ==
    /\ killer[p] = "term"
    /\ killer' = [killer EXCEPT ![p] = "wait"]
    /\ Signal(p)
    /\ attached' = attached \ {p}
    /\ UNCHANGED <<file, uiVars, watched, posted, tail, histVars>>

KillForces(p) ==
    /\ killer[p] = "wait"
    /\ killer' = [killer EXCEPT ![p] = "none"]
    /\ phase' = [phase EXCEPT ![p] = IF Live(p) THEN Exited(p) ELSE @]
    /\ attached' = attached \ {p}
    /\ UNCHANGED <<file, uiVars, watched, posted, tail, histVars>>

\* _tail_reconnect: follows while the file names a live process.
TailProbes ==
    /\ tail = "on"
    /\ window = "closed" \/ ~Running(phase)
    /\ tail' = IF window = "open" /\ Stale(phase) THEN "unlink" ELSE "off"
    /\ UNCHANGED <<osVars, uiVars, watched, posted, killer, histVars>>

TailUnlinks ==
    /\ tail = "unlink"
    /\ tail' = "off"
    /\ Unlink
    /\ crossed' = (crossed \/ Running(phase) \/ attached # {})
    /\ UNCHANGED <<phase, uiVars, watched, posted, killer, launched, overtaken>>

ThreadNext ==
    \/ TailProbes \/ TailUnlinks
    \/ \E p \in Pids : WatcherPosts(p) \/ KillTerminates(p) \/ KillForces(p)

(***************************************************************************)
(* The specification                                                       *)
(***************************************************************************)
\* No dashboard yet: pipelines may be started elsewhere before it opens.
Init ==
    /\ file = NoPid /\ attached = {}
    /\ phase = [p \in Pids |-> "none"]
    /\ proc = NoPid /\ main = "free" /\ dialog = NoDialog
    /\ poll = FALSE /\ reconnect = FALSE /\ armed = FALSE /\ window = "new"
    /\ watched = {} /\ posted = {} /\ killer = [p \in Pids |-> "none"] /\ tail = "off"
    /\ launched = {} /\ overtaken = FALSE /\ crossed = FALSE

Next == UserNext \/ MainNext \/ ThreadNext \/ \E p \in Pids : CliNext(p)

\* Threads run; the main thread serves its callbacks and finishes what it began.
Fairness ==
    /\ WF_vars(MainUnlink)
    /\ WF_vars(LaunchFails \/ \E p \in Pids : Launch(p))
    /\ \A p \in Pids :
          /\ WF_vars(WatcherPosts(p))
          /\ SF_vars(RunPosted(p))

Spec == Init /\ [][Next]_vars
FairSpec == Spec /\ Fairness

(***************************************************************************)
(* Properties                                                              *)
(***************************************************************************)
\* A pipeline this dashboard launched and that still lives is the one Stop,
\* the badge and the close question act on.  The code loses it only when it
\* was launched while the end of an earlier one, or of an external one being
\* polled, was still to be told to the main thread: _on_proc_ended forgets
\* whatever process is current.
OwnedReachable ==
    \A p \in launched : Live(p) /\ window = "open" /\ ~overtaken => proc = p

\* The PID file names the pipeline that works, whatever crashes left behind
\* and whoever swept it, except through two windows: a second pipeline that
\* passed the check before the first had written, and an unlink that was
\* decided on an older content of the file.
PidFileHonest ==
    ~crossed => \A p \in Pids : phase[p] \in HasFile => file = p

\* The exit of the current pipeline is noticed, also under a modal question,
\* unless the window closes first.
EndNoticed ==
    \A p \in Pids :
        proc = p /\ phase[p] \in {"zombie", "dead"} ~> proc # p \/ window = "closed"
=============================================================================
