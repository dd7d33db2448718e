------------------------ MODULE PipelineControlProofs ------------------------
(***************************************************************************)
(* What PipelineControl promises for every number of processes: the Stop   *)
(* button reaches the pipeline that was launched, and the PID file names   *)
(* the pipeline that works.                                                *)
(*                                                                         *)
(* The two promises need different strengthenings of the same state.       *)
(* PidFile is about the processes alone: one of them at most is between    *)
(* its check and its unlink, and the one that has opened the PID file      *)
(* still has the file at the path.  Ownership is about the dashboard: as   *)
(* long as no launch came too early, one watcher thread runs at most, no   *)
(* callback is queued while it does, and no timer or question that could   *)
(* forget the owned process is pending while that process lives.           *)
(***************************************************************************)
EXTENDS PipelineControl, TLAPS

\* From its check to its unlink a process counts on the PID file.
Holding == {"checked", "opened"} \cup HasFile

OneHolder ==
    \A p, q \in Pids : phase[p] \in Holding /\ phase[q] \in Holding => p = q

OpenedAtPath == \A p \in Pids : phase[p] = "opened" => p \in attached

FileNames == \A p \in Pids : phase[p] \in HasFile => file = p

PidFile == ~crossed => OneHolder /\ OpenedAtPath /\ FileNames

\* A process the dashboard launched has its watcher until it is reaped.
LaunchedWatched ==
    /\ watched \subseteq launched /\ posted \subseteq launched
    /\ \A p \in launched : phase[p] # "none" /\ (phase[p] # "dead" => p \in watched)

\* A launch in progress started from a click, and nothing was launched before
\* the window opened.
LaunchFromClick ==
    /\ main \in {"launch", "unlinkThenLaunch"} => dialog = NoDialog /\ window = "open"
    /\ window = "new" => launched = {}

OneWatcher == ~overtaken => \A p \in watched : watched = {p} /\ posted = {}

\* Nothing is pending that forgets the owned process while it lives.
NothingForgets ==
    \A p \in launched :
        Live(p) /\ window = "open" /\ ~overtaken
            => proc = p /\ poll = FALSE /\ dialog.kind # "reconnect"

Ownership == LaunchedWatched /\ LaunchFromClick /\ OneWatcher /\ NothingForgets

IInv == TypeOK /\ PidFile /\ Ownership

-----------------------------------------------------------------------------
(***************************************************************************)
(* Types                                                                   *)
(***************************************************************************)
\* SIGTERM moves one process, by its phase alone.
LEMMA TerminatedPhase ==
    ASSUME TypeOK, NEW p \in Pids
    PROVE  /\ Terminated(p) \in Phases
           /\ Exited(p) \in {"zombie", "dead"}
           /\ p \in launched => Exited(p) = "zombie"
           /\ Terminated(p) # phase[p]
                 => \/ phase[p] \in Working /\ Terminated(p) = Exited(p)
                    \/ phase[p] = "running" /\ Terminated(p) = "stopping"
  BY DEF TypeOK, Terminated, Exited, Phases, Working

\* The types are an invariant: an action writes what its variable may hold.
LEMMA TypeNext == TypeOK /\ [Next]_vars => TypeOK'
<1> SUFFICES ASSUME TypeOK, [Next]_vars PROVE TypeOK'
  OBVIOUS
<1> USE DEF TypeOK
<1>a. \A p \in Pids : Terminated(p) \in Phases /\ Exited(p) \in Phases
  BY TerminatedPhase DEF Phases
<1>b. \A p : Signal(p) => phase' \in [Pids -> Phases]
  BY <1>a DEF Signal
<1>c. \A ph : Probe(ph) => main' \in {"free", "unlink"}
  BY DEF Probe
<1>d. NoDialog \in Dialogs /\ \A p \in Pids : [kind |-> "kill", pid |-> p] \in Dialogs
  BY DEF NoDialog, Dialogs
<1>1. CASE \E p \in Pids : CliNext(p)
  <2> PICK p \in Pids : CliNext(p)
    BY <1>1
  <2>1. CASE CliCheck(p)
    <3>1. phase' \in [Pids -> Phases]
      BY <2>1, <1>a DEF CliCheck, Enter, Phases
    <3>2. crossed' \in BOOLEAN
      BY <2>1, Zenon DEF CliCheck
    <3> QED
      BY <2>1, <3>1, <3>2 DEF CliCheck, uiVars, threadVars
  <2>2. CASE ExtStart(p) \/ CliOpenPid(p) \/ CliWritePid(p) \/ CliReady(p)
    BY <2>2, <1>a DEF ExtStart, CliOpenPid, CliWritePid, CliReady, Enter, Phases,
                      uiVars, threadVars, histVars
  <2>3. CASE CliFinally(p) \/ CliExit(p) \/ CliDies(p)
    BY <2>3, <1>a DEF CliFinally, CliExit, CliDies, Enter, Unlink, Phases,
                      uiVars, threadVars, histVars
  <2> QED
    BY <2>1, <2>2, <2>3 DEF CliNext
<1>2. CASE WizardAsks \/ WizardProceeds \/ WizardAnswers
  <2>1. FoundPid \in Pids \cup {NoPid}
    BY DEF FoundPid, Running, ProcessAlive
  <2> QED
    BY <1>2, <1>b, <1>d, <2>1 DEF WizardAsks, WizardProceeds, WizardAnswers,
                                  osVars, threadVars, histVars
<1>3. CASE StopOwned \/ StopByFile
  BY <1>3, <1>b, <1>c DEF StopOwned, StopByFile, OnProcEnded,
                          osVars, uiVars, threadVars, histVars
<1>4. CASE ReconnectAnswers \/ CheckReconnect
  <2>1. Running(phase) => file \in Pids
    BY DEF Running, ProcessAlive
  <2>2. [kind |-> "reconnect", pid |-> file] \in Dialogs \/ ~Running(phase)
    BY <2>1 DEF Dialogs
  <2>3. CASE ReconnectAnswers
    <3>1. /\ poll' \in BOOLEAN /\ tail' \in {"off", "on", "unlink"}
          /\ main' \in {"free", "unlink", main} /\ dialog' \in Dialogs
      BY <2>3, <1>c, <1>d, Zenon DEF ReconnectAnswers
    <3>2. main' \in {"free", "unlink", "unlinkThenLaunch", "launch"}
      BY <3>1
    <3>3. UNCHANGED <<file, attached, phase, proc, reconnect, armed, window,
                      watched, posted, killer, launched, overtaken, crossed>>
      BY <2>3 DEF ReconnectAnswers, osVars, histVars
    <3> QED
      BY <3>1, <3>2, <3>3
  <2>4. CASE CheckReconnect
    <3>1. dialog' \in Dialogs /\ main' \in {"free", "unlink", main}
      BY <2>2, <2>4, <1>c, Zenon DEF CheckReconnect
    <3>2. main' \in {"free", "unlink", "unlinkThenLaunch", "launch"}
      BY <3>1
    <3>3. /\ reconnect' = FALSE
          /\ UNCHANGED <<file, attached, phase, proc, poll, armed, window, watched,
                         posted, killer, tail, launched, overtaken, crossed>>
      BY <2>4 DEF CheckReconnect, osVars, threadVars, histVars
    <3> QED
      BY <3>1, <3>2, <3>3
  <2> HIDE DEF TypeOK
  <2> QED
    BY <1>4, <2>3, <2>4
<1>5. CASE CloseClick \/ CloseKills \/ CloseRaises \/ CloseKeeps \/ CloseCancelled
  <2>1. [kind |-> "close", pid |-> proc] \in Dialogs
    BY DEF Dialogs
  <2>2. CASE CloseClick
    <3> HIDE DEF TypeOK
    <3>1. dialog' \in {[kind |-> "close", pid |-> proc], dialog}
      BY <2>2, Zenon DEF CloseClick
    <3>2. window' \in {"closed", window} /\ poll' \in {FALSE, poll} /\ reconnect' \in {FALSE, reconnect}
      BY <2>2, Zenon DEF CloseClick, Destroy
    <3>3. armed' = FALSE /\ UNCHANGED <<osVars, proc, main, threadVars, histVars>>
      BY <2>2 DEF CloseClick
    <3>4. /\ dialog' \in Dialogs /\ window' \in {"new", "open", "closed"}
          /\ poll' \in BOOLEAN /\ reconnect' \in BOOLEAN /\ armed' \in BOOLEAN
      BY <2>1, <3>1, <3>2, <3>3 DEF TypeOK
    <3>5. UNCHANGED <<file, attached, phase, proc, main, watched, posted, killer, tail,
                      launched, overtaken, crossed>>
      BY <3>3 DEF osVars, threadVars, histVars
    <3> QED
      BY <3>4, <3>5 DEF TypeOK
  <2>3. CASE CloseKills
    BY <2>3, <1>b, <1>d DEF CloseKills, Destroy, threadVars, histVars
  <2>4. CASE CloseRaises
    BY <2>4, <1>d DEF CloseRaises, osVars, threadVars, histVars
  <2>5. CASE CloseKeeps
    BY <2>5, <1>d DEF CloseKeeps, Destroy, osVars, threadVars, histVars
  <2>6. CASE CloseCancelled
    BY <2>6, <1>d DEF CloseCancelled, osVars, threadVars, histVars
  <2> HIDE DEF TypeOK
  <2> QED
    BY <1>5, <2>2, <2>3, <2>4, <2>5, <2>6
<1>6. CASE Open \/ PollTick \/ ShellTick \/ LaunchFails
  <2>1. Open => reconnect' \in BOOLEAN
    BY DEF Open, Running, ProcessAlive
  <2>2. CASE Open
    <3> HIDE DEF TypeOK
    <3>1. /\ reconnect' \in BOOLEAN /\ armed' \in BOOLEAN /\ window' = "open"
          /\ main' \in {"free", "unlink"}
          /\ UNCHANGED <<osVars, proc, dialog, poll, threadVars, histVars>>
      BY <2>1, <2>2, <1>c DEF Open
    <3> QED
      BY <3>1 DEF TypeOK, osVars, threadVars, histVars
  <2>3. CASE PollTick
    <3>1. /\ main' \in {"free", "unlink"} /\ poll' = FALSE /\ proc' = NoPid
          /\ UNCHANGED <<osVars, dialog, reconnect, armed, window, threadVars, histVars>>
      BY <2>3, <1>c DEF PollTick, OnProcEnded
    <3> QED
      BY <3>1 DEF osVars, threadVars, histVars
  <2>4. CASE ShellTick
    BY <2>4 DEF ShellTick, osVars, threadVars, histVars
  <2>5. CASE LaunchFails
    BY <2>5 DEF LaunchFails, osVars, threadVars, histVars
  <2> HIDE DEF TypeOK
  <2> QED
    BY <1>6, <2>2, <2>3, <2>4, <2>5
<1>7. CASE MainUnlink \/ TailUnlinks
  <2>1. crossed' \in BOOLEAN
    BY <1>7, Zenon DEF MainUnlink, TailUnlinks
  <2> QED
    BY <1>7, <2>1 DEF MainUnlink, TailUnlinks, Unlink, uiVars, threadVars
<1>8. CASE TailProbes
  BY <1>8 DEF TailProbes, osVars, uiVars, histVars
<1>9. CASE \E p \in Pids : Launch(p) \/ RunPosted(p)
  <2> PICK p \in Pids : Launch(p) \/ RunPosted(p)
    BY <1>9
  <2>1. CASE Launch(p)
    <3>1. overtaken' \in BOOLEAN
      BY <2>1, Zenon DEF Launch
    <3> QED
      BY <2>1, <3>1 DEF Launch, Enter, Phases
  <2>2. CASE RunPosted(p)
    BY <2>2, <1>c DEF RunPosted, OnProcEnded, osVars, histVars
  <2> HIDE DEF TypeOK
  <2> QED
    BY <2>1, <2>2
<1>10. CASE \E p \in Pids : WatcherPosts(p) \/ KillTerminates(p) \/ KillForces(p)
  BY <1>10, <1>a, <1>b DEF WatcherPosts, KillTerminates, KillForces, Enter, Phases,
                           uiVars, threadVars, histVars
<1>11. CASE UNCHANGED vars
  BY <1>11 DEF vars, osVars, uiVars, threadVars, histVars
<1> HIDE DEF TypeOK
<1> QED
  BY <1>1, <1>2, <1>3, <1>4, <1>5, <1>6, <1>7, <1>8, <1>9, <1>10, <1>11
     DEF Next, UserNext, MainNext, ThreadNext
-----------------------------------------------------------------------------
(***************************************************************************)
(* The PID file                                                            *)
(***************************************************************************)
\* A process that is told to stop, or dies, no longer counts on the PID file
\* unless it still removes it itself; its handle goes with it.
Ceases(p) ==
    /\ UNCHANGED <<file, crossed>>
    /\ attached' = attached \ {p}
    /\ \A q \in Pids :
          \/ phase'[q] = phase[q] /\ (q = p => phase[q] # "opened")
          \/ q = p /\ phase[q] \in HasFile /\ phase'[q] = "stopping"
          \/ q = p /\ phase'[q] \in {"zombie", "dead"}

\* The actions that stop a process, and the kill threads, do no more than that.
LEMMA StoppingCeases ==
    ASSUME TypeOK, NEW p, UNCHANGED <<file, crossed>>, attached' = attached \ {p},
           \/ Signal(p)
           \/ phase' = [phase EXCEPT ![p] = IF Live(p) THEN Exited(p) ELSE @]
    PROVE  Ceases(p)
<1> SUFFICES ASSUME NEW q \in Pids
             PROVE  \/ phase'[q] = phase[q] /\ (q = p => phase[q] # "opened")
                    \/ q = p /\ phase[q] \in HasFile /\ phase'[q] = "stopping"
                    \/ q = p /\ phase'[q] \in {"zombie", "dead"}
  BY DEF Ceases
<1>1. phase[q] \in Phases /\ Exited(q) \in {"zombie", "dead"}
  BY TerminatedPhase DEF TypeOK
<1>2. CASE Signal(p)
  BY <1>1, <1>2 DEF Signal, Terminated, TypeOK, HasFile, Phases
<1>3. CASE phase' = [phase EXCEPT ![p] = IF Live(p) THEN Exited(p) ELSE @]
  BY <1>1, <1>3 DEF Live, TypeOK, Working, Phases
<1> QED
  BY <1>2, <1>3

\* Ceasing keeps the PID file honest.
LEMMA CeasesPidFile ==
    ASSUME TypeOK, PidFile, NEW p, Ceases(p)
    PROVE  PidFile'
<1> SUFFICES ASSUME ~crossed PROVE OneHolder' /\ OpenedAtPath' /\ FileNames'
  BY DEF PidFile, Ceases
<1>1. OneHolder /\ OpenedAtPath /\ FileNames
  BY DEF PidFile
<1>2. \A q \in Pids : /\ phase'[q] \in Holding => phase[q] \in Holding
                      /\ phase'[q] = "opened" => phase[q] = "opened" /\ q # p
                      /\ phase'[q] \in HasFile => phase[q] \in HasFile
  BY DEF Ceases, Holding, HasFile
<1>3. OneHolder'
  BY <1>1, <1>2 DEF OneHolder
<1>4. OpenedAtPath'
  BY <1>1, <1>2 DEF OpenedAtPath, Ceases, TypeOK
<1>5. FileNames'
  BY <1>1, <1>2 DEF FileNames, Ceases
<1> QED
  BY <1>3, <1>4, <1>5

\* An unlink that is not remembered as crossed removes no working pipeline's file.
LEMMA SweepPidFile ==
    ASSUME TypeOK, PidFile, Unlink, UNCHANGED phase,
           crossed' = (crossed \/ Running(phase) \/ attached # {})
    PROVE  PidFile'
<1> SUFFICES ASSUME ~crossed, ~Running(phase), attached = {}
             PROVE  OneHolder' /\ OpenedAtPath' /\ FileNames'
  BY DEF PidFile
<1>1. OneHolder /\ OpenedAtPath /\ FileNames
  BY DEF PidFile
<1>2. \A p \in Pids : phase[p] # "opened" /\ phase[p] \notin HasFile
  BY <1>1 DEF OpenedAtPath, FileNames, Running, ProcessAlive, HasFile, Working
<1> QED
  BY <1>1, <1>2 DEF OneHolder, OpenedAtPath, FileNames

\* A process that comes to be, or is reaped, is no holder.
LEMMA OutsidePidFile ==
    ASSUME TypeOK, PidFile, UNCHANGED <<file, attached, crossed>>, NEW p \in Pids,
           NEW to \in {"spawned", "zombie", "dead"}, phase' = [phase EXCEPT ![p] = to]
    PROVE  PidFile'
<1> SUFFICES ASSUME ~crossed PROVE OneHolder' /\ OpenedAtPath' /\ FileNames'
  BY DEF PidFile
<1>1. \A q \in Pids : phase'[q] = phase[q] \/ phase'[q] \notin Holding
  BY DEF TypeOK, Holding, HasFile
<1> QED
  BY <1>1 DEF PidFile, OneHolder, OpenedAtPath, FileNames, Holding

\* Each step of a process keeps the PID file honest.
LEMMA CliPidFile ==
    ASSUME TypeOK, PidFile, NEW p \in Pids, CliNext(p)
    PROVE  PidFile'
<1>a. phase[p] \in Phases /\ Exited(p) \in {"zombie", "dead"}
  BY TerminatedPhase DEF TypeOK
<1>1. CASE ExtStart(p)
  BY <1>1, OutsidePidFile DEF ExtStart, Enter, histVars
<1>2. CASE CliCheck(p)
  <2> SUFFICES ASSUME ~crossed' PROVE OneHolder' /\ OpenedAtPath' /\ FileNames'
    BY DEF PidFile
  <2>0. ~crossed
    BY <1>2, Zenon DEF CliCheck
  <2>1. OneHolder /\ OpenedAtPath /\ FileNames
    BY <2>0 DEF PidFile
  <2>2. CASE Running(phase)
    <3>1. phase' = [phase EXCEPT ![p] = Exited(p)]
      BY <1>2, <2>2 DEF CliCheck, Enter
    <3>2. \A q \in Pids : phase'[q] = phase[q] \/ phase'[q] \notin Holding
      BY <3>1, <1>a DEF TypeOK, Holding, HasFile
    <3> QED
      BY <1>2, <2>1, <3>2 DEF CliCheck, OneHolder, OpenedAtPath, FileNames, Holding
  <2>3. CASE ~Running(phase)
    <3>1. /\ phase' = [phase EXCEPT ![p] = "checked"]
          /\ \A q \in Pids \ {p} : phase[q] \notin Holding
          /\ UNCHANGED <<file, attached>>
      BY <1>2, <2>3 DEF CliCheck, Enter, Holding
    <3>2. \A q \in Pids : phase'[q] \in Holding => q = p
      BY <3>1 DEF TypeOK
    <3>3. phase'[p] = "checked"
      BY <3>1 DEF TypeOK
    <3> QED
      BY <3>1, <3>2, <3>3 DEF OneHolder, OpenedAtPath, FileNames, Holding, HasFile
  <2> QED
    BY <2>2, <2>3
<1>3. CASE CliOpenPid(p) \/ CliWritePid(p) \/ CliReady(p)
  <2> SUFFICES ASSUME ~crossed PROVE OneHolder' /\ OpenedAtPath' /\ FileNames'
    BY <1>3 DEF PidFile, CliOpenPid, CliWritePid, CliReady, histVars
  <2>1. OneHolder /\ OpenedAtPath /\ FileNames
    BY DEF PidFile
  <2>2. \A q \in Pids \ {p} : phase'[q] = phase[q] /\ phase[q] \notin Holding
    BY <1>3, <2>1 DEF CliOpenPid, CliWritePid, CliReady, Enter, TypeOK, OneHolder,
                      Holding, HasFile
  <2>3. CASE CliOpenPid(p)
    BY <2>2, <2>3 DEF CliOpenPid, Enter, TypeOK, OneHolder, OpenedAtPath, FileNames,
                      Holding, HasFile
  <2>4. CASE CliWritePid(p)
    <3>1. p \in attached
      BY <2>1, <2>4 DEF CliWritePid, Enter, OpenedAtPath
    <3> QED
      BY <2>2, <2>4, <3>1 DEF CliWritePid, Enter, TypeOK, OneHolder, OpenedAtPath,
                              FileNames, Holding, HasFile
  <2>5. CASE CliReady(p)
    BY <2>1, <2>2, <2>5 DEF CliReady, Enter, TypeOK, OneHolder, OpenedAtPath,
                            FileNames, Holding, HasFile
  <2> QED
    BY <1>3, <2>3, <2>4, <2>5
<1>4. CASE CliFinally(p)
  <2> SUFFICES ASSUME ~crossed PROVE OneHolder' /\ OpenedAtPath' /\ FileNames'
    BY <1>4 DEF PidFile, CliFinally, histVars
  <2>1. \A q \in Pids : phase'[q] \notin Holding
    BY <1>4 DEF CliFinally, PidFile, OneHolder, TypeOK, Holding, HasFile
  <2> QED
    BY <2>1 DEF OneHolder, OpenedAtPath, FileNames, Holding
<1>5. CASE CliExit(p)
  BY <1>5, <1>a, OutsidePidFile DEF CliExit, Enter, histVars
<1>6. CASE CliDies(p)
  <2>1. Ceases(p)
    BY <1>6, <1>a DEF CliDies, Ceases, TypeOK, histVars
  <2> QED
    BY <2>1, CeasesPidFile
<1> QED
  BY <1>1, <1>2, <1>3, <1>4, <1>5, <1>6 DEF CliNext

\* The PID file stays honest, whoever steps.
LEMMA PidFileNext == TypeOK /\ PidFile /\ [Next]_vars => PidFile'
<1> SUFFICES ASSUME TypeOK, PidFile, [Next]_vars PROVE PidFile'
  OBVIOUS
<1>a. UNCHANGED <<osVars, crossed>> => PidFile'
  BY DEF PidFile, OneHolder, OpenedAtPath, FileNames, osVars
<1>b. \A p : UNCHANGED <<file, crossed>> /\ attached' = attached \ {p} /\ Signal(p) => PidFile'
  BY StoppingCeases, CeasesPidFile
<1>1. CASE \E p \in Pids : CliNext(p)
  BY <1>1, CliPidFile
<1>2. CASE WizardAnswers
  BY <1>2, <1>a, <1>b DEF WizardAnswers, osVars, histVars
<1>3. CASE StopByFile
  BY <1>3, <1>a, <1>b DEF StopByFile, osVars, histVars
<1>4. CASE CloseKills
  BY <1>4, <1>b DEF CloseKills, histVars
<1>5. CASE MainUnlink \/ TailUnlinks
  BY <1>5, SweepPidFile DEF MainUnlink, TailUnlinks
<1>6. CASE \E p \in Pids : Launch(p)
  BY <1>6, OutsidePidFile DEF Launch, Enter
<1>7. CASE \E p \in Pids : WatcherPosts(p)
  BY <1>7, OutsidePidFile DEF WatcherPosts, Enter, histVars
<1>8. CASE \E p \in Pids : KillTerminates(p)
  BY <1>8, <1>b DEF KillTerminates, histVars
<1>9. CASE \E p \in Pids : KillForces(p)
  BY <1>9, StoppingCeases, CeasesPidFile DEF KillForces, histVars
<1>10. CASE WizardAsks \/ WizardProceeds \/ StopOwned \/ ReconnectAnswers \/ CloseClick
  BY <1>10, <1>a DEF WizardAsks, WizardProceeds, StopOwned, ReconnectAnswers, CloseClick,
                     histVars
<1>11. CASE CloseRaises \/ CloseKeeps \/ CloseCancelled \/ Open \/ LaunchFails
  BY <1>11, <1>a DEF CloseRaises, CloseKeeps, CloseCancelled, Open, LaunchFails, histVars
<1>12. CASE PollTick \/ ShellTick \/ CheckReconnect \/ TailProbes
  BY <1>12, <1>a DEF PollTick, ShellTick, CheckReconnect, TailProbes, histVars
<1>13. CASE \E p \in Pids : RunPosted(p)
  BY <1>13, <1>a DEF RunPosted, histVars
<1>14. CASE UNCHANGED vars
  BY <1>14, <1>a DEF vars, histVars
<1> QED
  BY <1>1, <1>2, <1>3, <1>4, <1>5, <1>6, <1>7, <1>8, <1>9, <1>10, <1>11, <1>12, <1>13, <1>14
     DEF Next, UserNext, MainNext, ThreadNext
-----------------------------------------------------------------------------
(***************************************************************************)
(* The owned process                                                       *)
(***************************************************************************)
\* No launched process comes to life, and none that was reaped returns.
Settles ==
    \A p \in launched :
        /\ Live(p)' => Live(p)
        /\ phase[p] # "none" => phase'[p] # "none"
        /\ phase[p] = "dead" => phase'[p] = "dead"

LEMMA SettlesBySignal ==
    ASSUME TypeOK, NEW p,
           \/ Signal(p)
           \/ phase' = [phase EXCEPT ![p] = IF Live(p) THEN Exited(p) ELSE @]
           \/ UNCHANGED phase
    PROVE  Settles
<1> SUFFICES ASSUME NEW q \in launched
             PROVE  /\ Live(q)' => Live(q)
                    /\ phase[q] # "none" => phase'[q] # "none"
                    /\ phase[q] = "dead" => phase'[q] = "dead"
  BY DEF Settles
<1>0. q \in Pids /\ phase[q] \in Phases
  BY DEF TypeOK
<1>1. Exited(q) = "zombie"
  BY DEF Exited
<1>2. CASE Signal(p)
  <2>1. phase'[q] = IF q = p THEN Terminated(q) ELSE phase[q]
    BY <1>0, <1>2 DEF Signal, TypeOK
  <2> QED
    BY <1>0, <1>1, <2>1 DEF Terminated, Live, Working
<1>3. CASE phase' = [phase EXCEPT ![p] = IF Live(p) THEN Exited(p) ELSE @]
  BY <1>0, <1>1, <1>3 DEF Live, TypeOK, Working
<1>4. CASE UNCHANGED phase
  BY <1>4 DEF Live
<1> QED
  BY <1>2, <1>3, <1>4

\* The steps of a process settle it: one that starts elsewhere was not launched.
LEMMA SettlesByCli ==
    ASSUME TypeOK, LaunchedWatched, NEW p \in Pids, CliNext(p)
    PROVE  Settles /\ UNCHANGED <<uiVars, threadVars, launched, overtaken>>
<1>a. phase[p] \in Phases /\ (p \in launched => phase[p] # "none" /\ Exited(p) = "zombie")
  BY TerminatedPhase DEF TypeOK, LaunchedWatched
<1>b. \A q \in launched : q \in Pids
  BY DEF TypeOK
<1>1. CASE ExtStart(p)
  BY <1>1, <1>a, <1>b DEF ExtStart, Enter, Settles, Live, TypeOK, histVars
<1>2. CASE CliCheck(p)
  <2>1. phase[p] = "spawned" /\ phase' = [phase EXCEPT ![p] = phase'[p]]
        /\ phase'[p] \in {Exited(p), "checked"}
    BY <1>2 DEF CliCheck, Enter, TypeOK
  <2> QED
    BY <1>2, <1>a, <1>b, <2>1 DEF CliCheck, Settles, Live, Working, TypeOK
<1>3. CASE CliOpenPid(p) \/ CliWritePid(p) \/ CliReady(p)
  BY <1>3, <1>a, <1>b DEF CliOpenPid, CliWritePid, CliReady, Enter, Settles, Live, Working,
                          TypeOK, histVars
<1>4. CASE CliFinally(p) \/ CliExit(p) \/ CliDies(p)
  BY <1>4, <1>a, <1>b DEF CliFinally, CliExit, CliDies, Enter, Settles, Live, Working,
                          TypeOK, histVars
<1> QED
  BY <1>1, <1>2, <1>3, <1>4 DEF CliNext

\* A step that leaves the threads and the launches alone, and does not forget
\* a process that lives, keeps the launched process owned.
LEMMA SettledOwnership ==
    ASSUME TypeOK, Ownership, Settles, UNCHANGED <<watched, launched, overtaken>>,
           posted' \subseteq posted, LaunchFromClick',
           window' = "open" => window # "closed",
           window' = "open" /\ window = "open" =>
              \A p \in launched : Live(p) /\ proc = p =>
                 proc' = p /\ (~overtaken /\ poll = FALSE => poll' = FALSE)
                 /\ (dialog.kind # "reconnect" => dialog'.kind # "reconnect")
    PROVE  Ownership'
<1>1. LaunchedWatched'
  BY DEF Ownership, LaunchedWatched, Settles
<1>2. OneWatcher'
  <2> SUFFICES ASSUME ~overtaken, NEW p \in watched PROVE watched = {p} /\ posted' = {}
    BY DEF OneWatcher
  <2> QED
    BY DEF Ownership, OneWatcher
<1>3. NothingForgets'
  <2> SUFFICES ASSUME NEW p \in launched, Live(p)', window' = "open", ~overtaken
               PROVE  proc' = p /\ poll' = FALSE /\ dialog'.kind # "reconnect"
    BY DEF NothingForgets
  <2>1. Live(p)
    BY DEF Settles
  <2>2. window = "open"
    BY DEF Ownership, LaunchFromClick, TypeOK
  <2> QED
    BY <2>1, <2>2 DEF Ownership, NothingForgets
<1> QED
  BY <1>1, <1>2, <1>3 DEF Ownership
\* A launch in progress keeps the main thread: no question comes up meanwhile.
LEMMA LaunchFromClickNext == TypeOK /\ LaunchFromClick /\ [Next]_vars => LaunchFromClick'
<1> SUFFICES ASSUME TypeOK, LaunchFromClick, [Next]_vars PROVE LaunchFromClick'
  OBVIOUS
<1> USE DEF LaunchFromClick
<1>a. \A ph : Probe(ph) => main' \in {"free", "unlink"}
  BY DEF Probe
<1>1. CASE UNCHANGED <<uiVars, launched>>
  BY <1>1 DEF uiVars
<1>2. CASE \E p \in Pids : CliNext(p)
  <2>1. UNCHANGED <<uiVars, launched>>
    BY <1>2 DEF CliNext, ExtStart, CliCheck, CliOpenPid, CliWritePid, CliReady, CliFinally,
                CliExit, CliDies, histVars
  <2> QED
    BY <1>1, <2>1
<1>3. CASE ThreadNext
  <2>1. UNCHANGED <<uiVars, launched>>
    BY <1>3 DEF ThreadNext, TailProbes, TailUnlinks, WatcherPosts, KillTerminates,
                KillForces, histVars
  <2> QED
    BY <1>1, <2>1
<1>4. CASE Open \/ MainUnlink \/ LaunchFails
  BY <1>4, <1>a DEF Open, MainUnlink, LaunchFails, histVars
<1>5. CASE PollTick \/ ShellTick \/ CheckReconnect
  <2>1. main' \in {"free", "unlink"} /\ UNCHANGED <<launched, window>>
    BY <1>5, <1>a DEF PollTick, ShellTick, CheckReconnect, OnProcEnded, ClickTime,
                      CallbackTime, histVars
  <2> QED
    BY <2>1
<1>6. CASE \E p \in Pids : Launch(p) \/ RunPosted(p)
  <2>1. main' \in {"free", "unlink"} /\ UNCHANGED window /\ window = "open"
    BY <1>6, <1>a DEF Launch, RunPosted, OnProcEnded, CallbackTime
  <2> QED
    BY <2>1
<1>7. CASE WizardAsks \/ WizardAnswers \/ StopOwned \/ StopByFile \/ ReconnectAnswers
  <2>1. main' \in {"free", "unlink"} /\ UNCHANGED <<launched, window>>
    BY <1>7, <1>a DEF WizardAsks, WizardAnswers, StopOwned, StopByFile, ReconnectAnswers,
                      OnProcEnded, ClickTime, CallbackTime, uiVars, histVars
  <2> QED
    BY <2>1
<1>8. CASE WizardProceeds
  BY <1>8 DEF WizardProceeds, ClickTime, CallbackTime
<1>9. CASE CloseClick \/ CloseKills \/ CloseRaises \/ CloseKeeps \/ CloseCancelled
  <2>1. main' = "free" /\ window' \in {"open", "closed"}
    BY <1>9 DEF CloseClick, CloseKills, CloseRaises, CloseKeeps, CloseCancelled, Destroy,
                ClickTime, CallbackTime
  <2> QED
    BY <2>1
<1> QED
  BY <1>1, <1>2, <1>3, <1>4, <1>5, <1>6, <1>7, <1>8, <1>9
     DEF Next, UserNext, MainNext, vars, histVars

\* The dashboard's side of ownership, step by step.
LEMMA OwnershipNext == TypeOK /\ Ownership /\ [Next]_vars => Ownership'
<1> SUFFICES ASSUME TypeOK, Ownership, [Next]_vars PROVE Ownership'
  OBVIOUS
<1>a. LaunchFromClick' /\ LaunchedWatched
  BY LaunchFromClickNext DEF Ownership
<1>b. ASSUME Settles, UNCHANGED <<proc, poll, dialog, watched, launched, overtaken>>,
             posted' \subseteq posted, window' = "open" => window # "closed"
      PROVE  Ownership'
  BY <1>a, <1>b, SettledOwnership
<1>c. UNCHANGED phase => Settles
  BY SettlesBySignal
<1>d. \A p : Signal(p) => Settles
  BY SettlesBySignal
<1>e. \A p \in launched : p \in Pids /\ p # NoPid
  BY PidsDistinct DEF TypeOK
<1>1. CASE \E p \in Pids : CliNext(p)
  BY <1>1, <1>a, <1>b, SettlesByCli DEF uiVars, threadVars
<1>2. CASE WizardAsks \/ WizardAnswers
  <2>1. Settles /\ dialog'.kind # "reconnect"
    BY <1>2, <1>c, <1>d DEF WizardAsks, WizardAnswers, NoDialog, osVars
  <2>2. UNCHANGED <<proc, poll, window, threadVars, histVars>>
    BY <1>2 DEF WizardAsks, WizardAnswers
  <2> QED
    BY <2>1, <2>2, <1>a, SettledOwnership DEF threadVars, histVars
<1>3. CASE WizardProceeds \/ LaunchFails \/ ShellTick \/ StopOwned
  BY <1>3, <1>b, <1>c DEF WizardProceeds, LaunchFails, ShellTick, StopOwned,
                          osVars, uiVars, threadVars, histVars
<1>4. CASE StopByFile
  <2>1. Settles /\ ~OwnsOne /\ UNCHANGED <<dialog, poll, window, threadVars, histVars>>
    BY <1>4, <1>c, <1>d DEF StopByFile
  <2>2. \A p \in launched : ~(Live(p) /\ proc = p)
    BY <2>1, <1>e DEF OwnsOne, Owns
  <2> QED
    BY <2>1, <2>2, <1>a, SettledOwnership DEF threadVars, histVars
<1>5. CASE ReconnectAnswers
  <2>1. /\ dialog.kind = "reconnect" /\ dialog'.kind # "reconnect"
        /\ UNCHANGED <<osVars, proc, window, watched, posted, histVars>>
    BY <1>5 DEF ReconnectAnswers, NoDialog
  <2>2. window = "open" /\ ~overtaken => \A p \in launched : ~Live(p)
    BY <2>1 DEF Ownership, NothingForgets
  <2> QED
    BY <2>1, <2>2, <1>a, <1>c, SettledOwnership DEF osVars, histVars
<1>6. CASE CheckReconnect
  <2>1. UNCHANGED <<osVars, proc, poll, window, threadVars, histVars>>
    BY <1>6 DEF CheckReconnect
  <2>2. dialog'.kind # dialog.kind => proc = NoPid
    BY <1>6 DEF CheckReconnect
  <2> QED
    BY <2>1, <2>2, <1>a, <1>c, <1>e, SettledOwnership DEF osVars, threadVars, histVars
<1>7. CASE CloseClick
  <2>1. UNCHANGED <<osVars, proc, threadVars, histVars>> /\ poll' \in {poll, FALSE}
    BY <1>7 DEF CloseClick, Destroy
  <2>2. window = "open" /\ (dialog' = dialog \/ dialog'.kind = "close")
    BY <1>7 DEF CloseClick, ClickTime, CallbackTime
  <2> QED
    BY <2>1, <2>2, <1>a, <1>c, SettledOwnership DEF osVars, threadVars, histVars
<1>8. CASE CloseKills \/ CloseRaises \/ CloseKeeps \/ CloseCancelled
  <2>1. UNCHANGED <<proc, threadVars, histVars>> /\ poll' \in {poll, FALSE}
    BY <1>8 DEF CloseKills, CloseRaises, CloseKeeps, CloseCancelled, Destroy
  <2>2. Settles /\ window = "open" /\ dialog'.kind = "none"
    BY <1>8, <1>c, <1>d DEF CloseKills, CloseRaises, CloseKeeps, CloseCancelled, NoDialog,
                            CallbackTime, osVars
  <2> QED
    BY <2>1, <2>2, <1>a, SettledOwnership DEF threadVars, histVars
<1>9. CASE Open \/ MainUnlink
  BY <1>9, <1>b, <1>c DEF Open, MainUnlink, osVars, threadVars, histVars
<1>10. CASE PollTick
  <2>1. poll /\ UNCHANGED <<osVars, dialog, window, threadVars, histVars>>
    BY <1>10 DEF PollTick
  <2>2. window = "open" /\ ~overtaken => \A p \in launched : ~Live(p)
    BY <2>1 DEF Ownership, NothingForgets
  <2>3. Settles /\ LaunchedWatched' /\ OneWatcher'
    BY <2>1, <1>a, <1>c DEF LaunchedWatched, OneWatcher, Ownership, osVars, threadVars, histVars
  <2>4. NothingForgets'
    BY <2>1, <2>2 DEF NothingForgets, Live, osVars, histVars
  <2> QED
    BY <2>3, <2>4, <1>a DEF Ownership
<1>11. ASSUME NEW p \in Pids, Launch(p) PROVE Ownership'
  <2>1. /\ main = "launch" /\ phase[p] = "none"
        /\ phase' = [phase EXCEPT ![p] = "spawned"]
        /\ proc' = p /\ watched' = watched \cup {p} /\ launched' = launched \cup {p}
        /\ UNCHANGED <<dialog, poll, window, posted>>
    BY <1>11 DEF Launch, Enter
  <2>2. dialog.kind # "reconnect" /\ window = "open"
    BY <2>1 DEF Ownership, LaunchFromClick, NoDialog
  <2>3. phase'[p] = "spawned" /\ \A q \in Pids \ {p} : phase'[q] = phase[q]
    BY <2>1 DEF TypeOK
  <2>4. LaunchedWatched'
    <3>1. watched' \subseteq launched' /\ posted' \subseteq launched'
      BY <1>a, <2>1 DEF LaunchedWatched
    <3>2. ASSUME NEW q \in launched' PROVE phase'[q] # "none" /\ (phase'[q] # "dead" => q \in watched')
      BY <3>2, <1>a, <1>e, <2>1, <2>3 DEF LaunchedWatched
    <3> QED
      BY <3>1, <3>2 DEF LaunchedWatched
  <2>5. ASSUME ~overtaken' PROVE ~overtaken /\ ~poll /\ watched = {} /\ posted = {}
    BY <1>11, <2>5, Zenon DEF Launch
  <2>6. OneWatcher'
    BY <2>1, <2>5 DEF OneWatcher
  <2>7. NothingForgets'
    <3> SUFFICES ASSUME NEW q \in launched', Live(q)', ~overtaken'
                 PROVE  proc' = q /\ poll' = FALSE /\ dialog'.kind # "reconnect"
      BY DEF NothingForgets
    <3>1. q = p
      BY <1>a, <1>e, <2>1, <2>3, <2>5 DEF LaunchedWatched, Live, Working
    <3>2. poll \in BOOLEAN
      BY DEF TypeOK
    <3> QED
      BY <2>1, <2>2, <2>5, <3>1, <3>2
  <2> QED
    BY <1>a, <2>4, <2>6, <2>7 DEF Ownership
<1>12. ASSUME NEW p \in Pids, RunPosted(p) PROVE Ownership'
  <2>1. p \in posted /\ posted' = posted \ {p}
        /\ UNCHANGED <<osVars, dialog, poll, window, watched, histVars>>
    BY <1>12 DEF RunPosted
  <2>2. ~overtaken => watched = {}
    BY <2>1 DEF Ownership, OneWatcher
  <2>3. ~overtaken => \A q \in launched : ~Live(q)
    BY <2>2, <1>a DEF LaunchedWatched, Live, Working
  <2>4. LaunchedWatched' /\ OneWatcher'
    BY <1>a, <2>1, <2>2 DEF LaunchedWatched, OneWatcher, osVars, histVars
  <2>5. NothingForgets'
    BY <2>1, <2>3 DEF NothingForgets, Live, osVars, histVars
  <2> QED
    BY <1>a, <2>4, <2>5 DEF Ownership
<1>13. ASSUME NEW p \in Pids, WatcherPosts(p) PROVE Ownership'
  <2>1. /\ p \in watched /\ phase[p] = "zombie" /\ phase' = [phase EXCEPT ![p] = "dead"]
        /\ watched' = watched \ {p} /\ posted' = posted \cup {p}
        /\ UNCHANGED <<uiVars, histVars>>
    BY <1>13 DEF WatcherPosts, Enter
  <2>2. phase'[p] = "dead" /\ \A q \in Pids \ {p} : phase'[q] = phase[q]
    BY <2>1 DEF TypeOK
  <2>3. LaunchedWatched'
    BY <1>a, <1>e, <2>1, <2>2 DEF LaunchedWatched, histVars
  <2>4. ~overtaken => watched' = {}
    BY <2>1 DEF Ownership, OneWatcher
  <2>5. OneWatcher'
    BY <2>1, <2>4 DEF OneWatcher, histVars
  <2>6. NothingForgets'
    BY <1>e, <2>1, <2>2 DEF Ownership, NothingForgets, Live, Working, uiVars, histVars
  <2> QED
    BY <1>a, <2>3, <2>5, <2>6 DEF Ownership
<1>14. CASE \E p \in Pids : KillTerminates(p) \/ KillForces(p)
  <2>1. Settles
    BY <1>14, SettlesBySignal DEF KillTerminates, KillForces
  <2> QED
    BY <1>14, <1>b, <2>1 DEF KillTerminates, KillForces, uiVars, histVars
<1>15. CASE TailProbes \/ TailUnlinks \/ UNCHANGED vars
  BY <1>15, <1>b, <1>c DEF TailProbes, TailUnlinks, vars, osVars, uiVars, threadVars, histVars
<1> QED
  BY <1>1, <1>2, <1>3, <1>4, <1>5, <1>6, <1>7, <1>8, <1>9, <1>10, <1>11, <1>12, <1>13, <1>14,
     <1>15 DEF Next, UserNext, MainNext, ThreadNext

-----------------------------------------------------------------------------
(***************************************************************************)
(* The theorems                                                            *)
(***************************************************************************)
LEMMA IInvInit == Init => IInv
<1> SUFFICES ASSUME Init PROVE IInv
  OBVIOUS
<1>1. TypeOK
  BY DEF Init, TypeOK, Phases, NoDialog, Dialogs
<1>2. PidFile
  BY DEF Init, PidFile, OneHolder, OpenedAtPath, FileNames, Holding, HasFile
<1>3. Ownership
  BY DEF Init, Ownership, LaunchedWatched, LaunchFromClick, OneWatcher, NothingForgets
<1> QED
  BY <1>1, <1>2, <1>3 DEF IInv

LEMMA IInvNext == IInv /\ [Next]_vars => IInv'
  BY TypeNext, PidFileNext, OwnershipNext DEF IInv

(* What the dashboard, its PID file and the launched processes agree on      *)
(* after any sequence of clicks, polls, exits and restarts.                  *)
THEOREM ControlIInv == Spec => []IInv
  BY IInvInit, IInvNext, PTL DEF Spec

\* Every variable keeps its type.
THEOREM ControlTypes == Spec => []TypeOK
<1>1. IInv => TypeOK
  BY DEF IInv
<1> QED
  BY <1>1, ControlIInv, PTL

\* Whatever the user clicks and whatever processes end in between, the pipeline
\* this dashboard launched is the one that Stop, the badge and the close
\* question act on (pipeline_control.py _on_proc_ended forgets whatever process
\* is current), unless it was launched too early after another.
THEOREM StopReachesTheLaunched == Spec => []OwnedReachable
<1>1. IInv => OwnedReachable
  BY DEF IInv, Ownership, NothingForgets, OwnedReachable
<1> QED
  BY <1>1, ControlIInv, PTL

\* The PID file names the pipeline that works, however many pipelines start,
\* crash and are killed, and whoever removes files that look stale (cli.py
\* _check_single_instance, _write_pid; pipeline_control.py _pipeline_running).
THEOREM FileNamesTheWorking == Spec => []PidFileHonest
<1>1. IInv => PidFileHonest
  BY DEF IInv, PidFile, FileNames, PidFileHonest
<1> QED
  BY <1>1, ControlIInv, PTL
=============================================================================
