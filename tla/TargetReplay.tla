----------------------------- MODULE TargetReplay -----------------------------
(***************************************************************************)
(* Target selection: the engine that observes one cell at a time, and the  *)
(* dashboard tab that replays it over a run, scan by scan, and then        *)
(* follows the pipeline.                                                   *)
(*                                                                         *)
(* The engine is path dependent: what it selects at a scan depends on what *)
(* it was fed before.  The tab therefore seeks by replaying from the first *)
(* scan, and the movie export does the same, so that all three show the    *)
(* same decisions.                                                         *)
(*                                                                         *)
(* The tab runs on the Tk main thread.  It keeps the run it replays, but   *)
(* asks the toolbar for the collection at every read, and a change of      *)
(* radar or store does not reset it: it then reads a collection that has   *)
(* no rows of its run.  The pipeline is other processes: they store scans, *)
(* not always in order of time (a scan may be retried), end, are resumed,  *)
(* and may store a scan after the run left status running.  A scan is its  *)
(* time.  Gates, weights and site preference are abstracted to the look of *)
(* a cell at a scan: gone from the scan, poor (a gate fails), or a         *)
(* candidate with a score.                                                 *)
(***************************************************************************)
EXTENDS Integers, Sequences, FiniteSets, FiniteSetsExt, SequencesExt

CONSTANTS
    Uids,       \* cells of the run, numbers: ties go to the smaller uid
    MaxTime,    \* bound: scans of the run
    Margin,     \* selection.switch_margin
    MaxObs,     \* selection.max_observation_seconds, in scan intervals
    Score,      \* Score[l]: the score of a candidate that looks l
    Contents,   \* the scans there may be: how each cell looks
    MaxFails    \* bound: store reads and renderings that fail

ASSUME ReplayConstants ==
    /\ Uids \subseteq Nat \ {0} /\ IsFiniteSet(Uids)
    /\ MaxTime \in Nat /\ Margin \in Nat /\ MaxObs \in Nat \ {0} /\ MaxFails \in Nat
    /\ Score \in [DOMAIN Score -> Int] /\ DOMAIN Score \cap {"gone", "poor"} = {}
    /\ Contents \subseteq [Uids -> DOMAIN Score \cup {"gone", "poor"}]

VARIABLES
    \* ---- the store ----
    data,       \* data[t][u]: how cell u looks at scan t
    over,       \* no run of the run's collection is in status running
    \* ---- the toolbar ----
    home,       \* the collection selected is that of the replayed run
    \* ---- TargetSelectionTab ----
    session,    \* _engine is not None
    target,     \* the engine's _current; NoTarget for none
    times,      \* _scan_times
    index,      \* _index: scans processed and shown so far
    running,    \* _running
    pending,    \* _step_after_id is scheduled
    asking,     \* between the two reads of _go_live
    shown,      \* the decision on the screen
    \* ---- history ----
    fails,      \* reads and renderings that failed
    done,       \* the replay ended by itself and said so
    misled,     \* a read behind that message failed, or was of another collection
    overtaken,  \* since the times were read for it, a scan was stored, or a run
                \* was resumed after it
    skewed      \* scans 1..index are not what this engine was fed

storeVars == <<data, over>>
controlVars == <<running, pending, asking>>
verdictVars == <<done, misled, overtaken>>
vars == <<storeVars, home, session, target, times, index, controlVars, shown,
          fails, verdictVars, skewed>>

Times == 1..MaxTime
NoCells == [u \in Uids |-> "gone"]

NoTarget == [uid |-> 0, since |-> 0]
Targets == [uid : Uids, since : Times]
NoDecision == [reason |-> "none", target |-> NoTarget, at |-> 0]

TypeOK ==
    /\ data \in [Times -> Contents \cup {NoCells}] /\ over \in BOOLEAN
    /\ home \in BOOLEAN /\ session \in BOOLEAN /\ target \in Targets \cup {NoTarget}
    /\ times \in Seq(Times) /\ index \in 0..Len(times)
    /\ running \in BOOLEAN /\ pending \in BOOLEAN /\ asking \in BOOLEAN
    /\ shown \in [reason : {"none", "new", "continue", "switch"},
                  target : Targets \cup {NoTarget}, at : 0..MaxTime]
    /\ fails \in 0..MaxFails
    /\ done \in BOOLEAN /\ misled \in BOOLEAN /\ overtaken \in BOOLEAN
    /\ skewed \in BOOLEAN

Init ==
    /\ data = [t \in Times |-> NoCells] /\ over = FALSE /\ home = TRUE
    /\ session = FALSE /\ target = NoTarget /\ times = << >> /\ index = 0
    /\ running = FALSE /\ pending = FALSE /\ asking = FALSE
    /\ shown = NoDecision
    /\ fails = 0 /\ skewed = FALSE
    /\ done = FALSE /\ misled = FALSE /\ overtaken = FALSE

(***************************************************************************)
(* The engine                                                              *)
(***************************************************************************)
\* is_candidate: present, old enough, every gate passed.
IsCandidate(look) == look \in DOMAIN Score
Candidates(cells) == {u \in Uids : IsCandidate(cells[u])}

\* select_best among the candidates S: highest score, then smallest uid.
Best(cells, S) ==
    CHOOSE u \in S : \A v \in S \ {u} :
        \/ Score[cells[u]] > Score[cells[v]]
        \/ Score[cells[u]] = Score[cells[v]] /\ u < v

\* Mutant: the duration is checked with > .
StopReasonLate(current, cells, now) ==
    LET look == cells[current.uid] IN
    CASE look = "gone" -> "lost"
      [] look # "gone" /\ ~IsCandidate(look) -> "dropped"
      [] IsCandidate(look) /\ now - current.since > MaxObs -> "duration"
      [] OTHER -> "none"

\* should_stop, in the order of the code.
StopReason(current, cells, now) ==
    LET look == cells[current.uid] IN
    CASE look = "gone" -> "lost"
      [] look # "gone" /\ ~IsCandidate(look) -> "dropped"
      [] IsCandidate(look) /\ now - current.since >= MaxObs -> "duration"
      [] OTHER -> "none"

Decision(reason, tgt, now) == [reason |-> reason, target |-> tgt, at |-> now]

\* _start_new
StartNew(cells, now, exclude) ==
    LET eligible == Candidates(cells) \ exclude IN
    IF eligible = {} THEN Decision("none", NoTarget, now)
    ELSE Decision("new", [uid |-> Best(cells, eligible), since |-> now], now)

\* continue_or_switch
ContinueOrSwitch(current, cells, now) ==
    LET challengers == Candidates(cells) \ {current.uid}
        best == Best(cells, challengers)
    IN IF challengers # {} /\ Score[cells[best]] > Score[cells[current.uid]] + Margin
       THEN Decision("switch", [uid |-> best, since |-> now], now)
       ELSE Decision("continue", current, now)

\* TargetSelectionEngine.select
Select(current, cells, now) ==
    IF current = NoTarget THEN StartNew(cells, now, {})
    ELSE LET stop == StopReason(current, cells, now) IN
         IF stop = "none" THEN ContinueOrSwitch(current, cells, now)
         ELSE StartNew(cells, now, IF stop = "duration" THEN {current.uid} ELSE {})

(***************************************************************************)
(* The store, read through the client                                      *)
(***************************************************************************)
\* A scan without cells leaves no row, so the tab never hears of it.
StoredIn(d) == {t \in Times : d[t] # NoCells}
StoredScans == StoredIn(data)

\* The scans of the run in order of time.
ScanTimes ==
    CHOOSE ts \in [1..Cardinality(StoredScans) -> StoredScans] :
        \A i, j \in DOMAIN ts : i < j => ts[i] < ts[j]

\* _run_scan_times of the collection that is selected now.
ListRead == IF home THEN ScanTimes ELSE << >>

\* build_snapshot at time t over the store d: the newest scan not after t.
SnapshotAt(d, t) == d[Max({s \in StoredIn(d) : s <= t})]

\* What an engine holds that held cur and was fed the first n scans of a list.
Fed(d, cur, ts, n) ==
    LET held[k \in 0..n] ==
          IF k = 0 THEN cur
          ELSE Select(held[k - 1], SnapshotAt(d, ts[k]), ts[k]).target
    IN held[n]

\* A fresh engine fed the scans of a list from the first to the n-th.
Replayed(d, ts, n) == Fed(d, NoTarget, ts, n)

MayFail == fails < MaxFails /\ fails' = fails + 1
NoFault == UNCHANGED fails

\* _process fails: it may, and always does in a collection without the run.
ProcessFails == IF home THEN MayFail ELSE NoFault

\* What was said is taken back: the tab was played, stepped or reset, or it
\* found the pipeline running.
NothingSaid == done' = FALSE /\ misled' = FALSE /\ overtaken' = FALSE

(***************************************************************************)
(* The pipeline                                                            *)
(***************************************************************************)
\* Also after the status left running: by a processor that outlived its grace
\* period.
ScanStored(t, cells) ==
    /\ data[t] = NoCells /\ cells # NoCells
    /\ data' = [data EXCEPT ![t] = cells]
    /\ overtaken' = (overtaken \/ asking \/ done)
    /\ UNCHANGED <<over, home, session, target, times, index, controlVars, shown,
                   fails, done, misled, skewed>>

RunEnds ==
    /\ ~over
    /\ over' = TRUE
    /\ UNCHANGED <<data, home, session, target, times, index, controlVars, shown,
                   fails, verdictVars, skewed>>

\* The run is resumed with --run-id, or the collection gets another run.
RunBegins ==
    /\ over
    /\ over' = FALSE
    /\ overtaken' = (overtaken \/ done)
    /\ UNCHANGED <<data, home, session, target, times, index, controlVars, shown,
                   fails, done, misled, skewed>>

(***************************************************************************)
(* The replay                                                              *)
(***************************************************************************)
\* _pause cancels the pending step.
Pause == running' = FALSE /\ pending' = FALSE

\* _process(i) succeeds: the engine moves, and its decision will be shown.
Process(i) ==
    LET d == Select(target, SnapshotAt(data, times[i]), times[i])
    IN target' = d.target /\ shown' = d

\* _ensure_session: a fresh engine over the scans of the run.
NewSession ==
    /\ StoredScans # {}
    /\ session' = TRUE /\ target' = NoTarget /\ times' = ScanTimes
    /\ index' = 0 /\ skewed' = FALSE

\* _toggle_play
PlayPressed ==
    /\ ~asking
    /\ \/ /\ running
          /\ Pause
          /\ UNCHANGED <<session, target, times, index, skewed>>
       \/ /\ ~running /\ ~session
          /\ NewSession
          /\ running' = TRUE /\ pending' = TRUE
       \/ /\ ~running /\ session
          /\ running' = TRUE /\ pending' = TRUE
          /\ UNCHANGED <<session, target, times, index, skewed>>
    /\ NothingSaid
    /\ UNCHANGED <<storeVars, home, asking, shown, fails>>

\* _step on the next scan: a failure to process pauses; a failure to render
\* comes after the index moved and ends the chain of steps.
StepScan ==
    /\ pending /\ running /\ index < Len(times)
    /\ \/ /\ home /\ Process(index + 1) /\ NoFault
          /\ index' = index + 1
          /\ UNCHANGED <<running, pending>>
       \/ /\ home /\ Process(index + 1) /\ MayFail
          /\ index' = index + 1
          /\ pending' = FALSE /\ UNCHANGED running
       \/ /\ ProcessFails /\ Pause
          /\ UNCHANGED <<target, shown, index>>
    /\ UNCHANGED <<storeVars, home, session, times, asking, verdictVars, skewed>>

\* Mutant: live continuation looks for the scan after the next.
GrownByTwo(ts) == Len(ts) > Len(times) + 1

\* A list replaces the one this engine was fed from.
Grown(ts) == Len(ts) > Len(times)

\* _go_live, first read: the scan times again, in the collection selected now.
\* A list that grew is taken once its scans are indexed; failing at that
\* pauses.  Failing to read counts as a list that did not grow, and so does
\* the empty list of another collection.
GoLiveTimes ==
    /\ pending /\ running /\ index >= Len(times)
    /\ \/ /\ Grown(ListRead) /\ NoFault
          /\ times' = ListRead
          /\ skewed' = (skewed \/ \E k \in 1..index : times'[k] # times[k])
          /\ UNCHANGED <<controlVars, misled>>
       \/ /\ Grown(ListRead) /\ MayFail
          /\ Pause
          /\ UNCHANGED <<times, skewed, asking, misled>>
       \/ /\ ~Grown(ListRead) /\ NoFault
          /\ pending' = FALSE /\ asking' = TRUE /\ misled' = ~home
          /\ UNCHANGED <<times, skewed, running>>
       \/ /\ MayFail
          /\ pending' = FALSE /\ asking' = TRUE /\ misled' = TRUE
          /\ UNCHANGED <<times, skewed, running>>
    /\ UNCHANGED <<storeVars, home, session, target, index, shown, done, overtaken>>

\* _go_live, second read, in the same callback: does a run of the collection
\* selected now run?  A failure counts as no.
GoLiveStatus ==
    /\ asking
    /\ asking' = FALSE
    /\ \/ /\ ~home \/ ~over
          /\ NoFault
          /\ pending' = TRUE /\ NothingSaid
          /\ UNCHANGED running
       \/ /\ ~home \/ over
          /\ NoFault
          /\ Pause /\ done' = TRUE /\ UNCHANGED <<misled, overtaken>>
       \/ /\ MayFail
          /\ Pause /\ done' = TRUE /\ misled' = TRUE /\ UNCHANGED overtaken
    /\ UNCHANGED <<storeVars, home, session, target, times, index, shown, skewed>>

\* Mutant: _seek feeds the engine it finds.
SeekKeepsEngine(ts, n) ==
    /\ index' = n
    /\ NoFault /\ skewed' = FALSE
    /\ target' = Fed(data, target, ts, n)
    /\ shown' = NoDecision

\* _seek(n): a fresh engine is fed scans 1..n; a failure stops the feeding,
\* yet the index is set to n.  In another collection the first scan fails.
Seek(ts, n) ==
    /\ index' = n
    /\ \/ /\ home \/ n = 0
          /\ NoFault
          /\ target' = Replayed(data, ts, n) /\ skewed' = FALSE
          /\ shown' = IF n = 0 THEN NoDecision
                      ELSE Select(Replayed(data, ts, n - 1),
                                  SnapshotAt(data, ts[n]), ts[n])
       \/ \E k \in 0..(n - 1) :
          /\ home \/ k = 0
          /\ ProcessFails
          /\ target' = Replayed(data, ts, k) /\ skewed' = TRUE
          /\ shown' = NoDecision

\* _step_manual by d
StepManual(d) ==
    /\ ~asking
    /\ Pause
    /\ session \/ StoredScans # {}
    /\ LET ts == IF session THEN times ELSE ScanTimes
           i == IF session THEN index ELSE 0
       IN Seek(ts, Max({0, Min({i + d, Len(ts)})})) /\ times' = ts
    /\ session' = TRUE
    /\ NothingSaid
    /\ UNCHANGED <<storeVars, home, asking>>

\* _reset, by its button or because the user picked another run.  The next
\* session will be over the run and the collection that are then selected:
\* again any run, in its own collection.
Reset ==
    /\ ~asking
    /\ Pause
    /\ session' = FALSE /\ target' = NoTarget /\ times' = << >> /\ index' = 0
    /\ shown' = NoDecision /\ skewed' = FALSE
    /\ NothingSaid
    /\ home' = TRUE
    /\ UNCHANGED <<storeVars, asking, fails>>

\* _on_radar_changed and _on_repo_changed, by hand or by a timer, go to
\* another collection or come back; the tab is not told.
CollectionChanged ==
    /\ ~asking /\ session
    /\ home' = ~home
    /\ UNCHANGED <<storeVars, session, target, times, index, controlVars, shown,
                   fails, verdictVars, skewed>>

(***************************************************************************)
(* The specification                                                       *)
(***************************************************************************)
Pipeline ==
    \/ RunEnds \/ RunBegins
    \/ \E t \in Times, cells \in Contents : ScanStored(t, cells)
Replay == StepScan \/ GoLiveTimes \/ GoLiveStatus
User ==
    \/ PlayPressed \/ Reset \/ CollectionChanged
    \/ \E d \in {-1, 1} : StepManual(d)

Next == Pipeline \/ Replay \/ User

Spec == Init /\ [][Next]_vars

(***************************************************************************)
(* Properties                                                              *)
(***************************************************************************)
\* What the engine holds is what a fresh engine would hold that was fed the
\* first index scans of the list: playing, pausing, stepping and following
\* live agree with a movie of the same scans.  The two ways out are named: a
\* seek that broke off, and a late scan listed among those already shown.
\* (_tse_view.py _step, _seek, _go_live, movie_source; engine.py select)
EngineIsReplay == session /\ ~skewed => target = Replayed(data, times, index)

\* A decision for a target opens an observation window that is not empty, also
\* when scans arrive late: a target past its time is left in the same call.
\* (engine.py _selection, rules.py should_stop)
WindowOpen == shown.target # NoTarget => shown.at < shown.target.since + MaxObs

\* A replay that ends by itself with "Done" has shown every stored scan of its
\* run, and no run of its collection runs.  The ways out are named: a read it
\* was decided on failed or was of another collection; a scan was stored after
\* the times were read, be it before the status was asked for or long after;
\* a run was resumed since.
\* (_tse_view.py _go_live)
DoneShowsAll ==
    done /\ ~misled /\ ~overtaken => over /\ index = Cardinality(StoredScans)
=============================================================================
