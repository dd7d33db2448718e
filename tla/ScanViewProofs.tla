---------------------------- MODULE ScanViewProofs ----------------------------
(***************************************************************************)
(* What holds of the Latest Scan tab for any number of runs, scans, cells, *)
(* colours and failures.                                                   *)
(*                                                                         *)
(* ScreenInv is about the picture.  That the raster, and the cell table if *)
(* one is loaded, are of the selected run is not inductive: a running loop *)
(* draws frames collected when it was started, so the frames, and the      *)
(* table that was there then, must be of the selected run for as long as   *)
(* the loop runs.                                                          *)
(*                                                                         *)
(* SelectionInv is about the selected cells.  The overflow question leaves *)
(* the selection to the timers, so the cell it is about must not have been *)
(* selected meanwhile for a selection to hold every cell once.             *)
(***************************************************************************)
EXTENDS ScanView, SequenceTheorems, WellFoundedInduction, TLAPS

(***************************************************************************)
(* The picture                                                             *)
(***************************************************************************)
StoreTypes ==
    /\ begun \in 0..NRuns /\ size \in [Runs -> 0..MaxScans] /\ tracked \subseteq Runs
    /\ sel \in 0..begun /\ adoptions \in 0..1
    /\ listed \in 0..MaxScans /\ soon \in BOOLEAN /\ fails \in 0..MaxFails

ScreenTypes ==
    /\ canvas \in BOOLEAN /\ ds \in Frame \cup {NoFrame}
    /\ cells \in 0..NRuns /\ last \in 0..MaxScans

LoopTypes ==
    /\ loop \in BOOLEAN /\ loopTimer \in BOOLEAN
    /\ frames \in Seq(Frame) /\ Len(frames) <= LoopN /\ index \in Nat

\* A running loop is at one of its frames; the frames, and the cells if there
\* are any, are of the run that is selected.
LoopPinned ==
    loop =>
        /\ index \in 0..(Len(frames) - 1)
        /\ sel # 0 =>
            /\ cells \in {0, sel}
            /\ \A i \in 1..Len(frames) : frames[i].run = sel

ScreenInv ==
    /\ StoreTypes /\ ScreenTypes /\ LoopTypes
    /\ PinnedRunOnScreen /\ LoopPinned

LEMMA ActiveRun ==
  ASSUME StoreTypes
  PROVE  /\ Active \in 0..NRuns /\ (sel # 0 => Active = sel)
         /\ Complete(Active) \in 0..MaxScans
         /\ Complete(Active) > 0 => Active \in Runs
<1>1. begun \in 0..NRuns /\ sel \in 0..begun /\ NRuns \in Nat /\ MaxScans \in Nat
  BY ViewBounds DEF StoreTypes
<1>2. Active \in 0..NRuns /\ (sel # 0 => Active = sel)
  BY <1>1 DEF Active, ActiveOf
<1>3. Active # 0 => Active \in Runs
  BY <1>1, <1>2 DEF Runs
<1>4. Complete(Active) = IF Active = 0 THEN 0 ELSE size[Active]
  BY DEF Complete
<1>5. size \in [Runs -> 0..MaxScans]
  BY DEF StoreTypes
<1> QED
  BY <1>1, <1>2, <1>3, <1>4, <1>5

LEMMA TimelineTyped ==
  ASSUME StoreTypes, NEW s \in 0..begun
  PROVE  Complete(ActiveOf(s)) \in 0..MaxScans
<1>1. begun \in 0..NRuns /\ NRuns \in Nat /\ MaxScans \in Nat
  BY ViewBounds DEF StoreTypes
<1>2. ActiveOf(s) \in 0..NRuns
  BY <1>1 DEF ActiveOf
<1>3. ActiveOf(s) # 0 => ActiveOf(s) \in Runs
  BY <1>1, <1>2 DEF Runs
<1>4. size \in [Runs -> 0..MaxScans]
  BY DEF StoreTypes
<1> QED
  BY <1>1, <1>3, <1>4 DEF Complete

\* What a tab shows of the active run when it has a complete scan.
LEMMA ActiveFrame ==
  ASSUME StoreTypes, NEW k \in 1..Complete(Active)
  PROVE  /\ [run |-> Active, scan |-> k] \in Frame
         /\ sel # 0 => Active = sel
         /\ k \in 0..MaxScans
<1>1. Complete(Active) \in 0..MaxScans /\ MaxScans \in Nat
  BY ActiveRun, ViewBounds
<1>2. Complete(Active) > 0 /\ k \in 1..MaxScans
  BY <1>1
<1>3. Active \in Runs /\ (sel # 0 => Active = sel)
  BY <1>2, ActiveRun
<1> QED
  BY <1>1, <1>2, <1>3 DEF Frame

LEMMA LoopFramesAreActive ==
  ASSUME StoreTypes, Complete(Active) > 0
  PROVE  /\ LoopFrames \in Seq(Frame)
         /\ Len(LoopFrames) \in 1..LoopN
         /\ \A i \in 1..Len(LoopFrames) :
               LoopFrames[i] \in Frame /\ LoopFrames[i].run = Active
<1> DEFINE n == Complete(Active)
           from == IF n > LoopN THEN n - LoopN ELSE 0
<1>1. n \in Nat /\ n > 0 /\ LoopN \in Nat /\ LoopN > 0
  BY ActiveRun, ViewBounds
<1>2. from \in Nat /\ n - from \in 1..LoopN
  BY <1>1
<1>3. LoopFrames = [i \in 1..(n - from) |-> [run |-> Active, scan |-> from + i]]
  BY DEF LoopFrames
<1>4. \A i \in 1..(n - from) : from + i \in 1..n
  BY <1>1, <1>2
<1> HIDE DEF from
<1>5. \A i \in 1..(n - from) : [run |-> Active, scan |-> from + i] \in Frame
  BY <1>4, ActiveFrame
<1> HIDE DEF n
<1>6. LoopFrames \in [1..(n - from) -> Frame]
  BY <1>3, <1>5
<1>7. LoopFrames \in Seq(Frame) /\ Len(LoopFrames) = n - from
  BY <1>2, <1>6
<1> QED
  BY <1>2, <1>3, <1>5, <1>7

LEMMA StopLoopStops ==
  ASSUME LoopTypes, StopLoop
  PROVE  LoopTypes' /\ LoopPinned'
<1>1. LoopN \in Nat /\ << >> \in Seq(Frame) /\ Len(<< >>) = 0
  BY ViewBounds
<1>2. loop' = FALSE /\ frames' = << >> /\ index' = 0 /\ loopTimer' = loopTimer
  BY DEF StopLoop
<1>3. loopTimer' \in BOOLEAN
  BY <1>2 DEF LoopTypes
<1>4. loop' \in BOOLEAN /\ ~loop'
  BY <1>2, Zenon
<1>5. frames' \in Seq(Frame) /\ Len(frames') <= LoopN /\ index' \in Nat
  BY <1>1, <1>2
<1> QED
  BY <1>3, <1>4, <1>5 DEF LoopTypes, LoopPinned

LEMMA TornDownShowsNothing ==
  ASSUME TornDown
  PROVE  canvas' \in BOOLEAN /\ ds' \in Frame \cup {NoFrame} /\ PinnedRunOnScreen'
BY DEF TornDown, PinnedRunOnScreen

LEMMA LoadCellsLoads ==
  ASSUME StoreTypes, LoadCells, sel' = sel
  PROVE  cells' \in 0..NRuns /\ (sel' # 0 => cells' \in {0, sel'})
<1>1. cells' \in {0, Active}
  BY DEF LoadCells
<1> QED
  BY <1>1, ActiveRun, ViewBounds

\* A table that cannot be read is gone.
LEMMA CellsUnreadDrops ==
  ASSUME StoreTypes, CellsUnread
  PROVE  cells' = 0 /\ cells' \in 0..NRuns /\ fails' \in 0..MaxFails
BY ViewBounds DEF CellsUnread, StoreTypes

\* The picture stays when the table that should have come with the next one
\* cannot be read.
LEMMA PictureStays ==
  ASSUME ScreenInv, CellsUnread, UNCHANGED screenVars, sel' = sel,
         last' \in 0..MaxScans
  PROVE  ScreenTypes' /\ PinnedRunOnScreen' /\ fails' \in 0..MaxFails
<1>1. StoreTypes /\ ScreenTypes /\ PinnedRunOnScreen
  BY DEF ScreenInv
<1>2. cells' = 0 /\ cells' \in 0..NRuns /\ fails' \in 0..MaxFails
  BY <1>1, CellsUnreadDrops
<1>3. ds' = ds /\ canvas' = canvas
  BY DEF screenVars
<1> QED
  BY <1>1, <1>2, <1>3 DEF ScreenTypes, PinnedRunOnScreen

\* A scan of the active run comes on the screen with the cells of that run;
\* when it cannot be rendered, the scan that stays is of the run whose cells
\* are loaded anyway.
LEMMA ShowActive ==
  ASSUME ScreenInv, LoadCells, sel' = sel, last' \in 0..MaxScans,
         NEW k \in 1..Complete(Active),
         Rendered([run |-> Active, scan |-> k]) \/ NotRendered
  PROVE  ScreenTypes' /\ PinnedRunOnScreen' /\ (sel' # 0 => cells' \in {0, sel'})
         /\ fails' \in 0..MaxFails
<1>0. StoreTypes /\ ScreenTypes /\ PinnedRunOnScreen
  BY DEF ScreenInv
<1>2. cells' \in 0..NRuns /\ (sel' # 0 => cells' \in {0, sel'})
  BY <1>0, LoadCellsLoads
<1>3. fails \in 0..MaxFails /\ MaxFails \in Nat
  BY <1>0, ViewBounds DEF StoreTypes
<1>4. CASE Rendered([run |-> Active, scan |-> k])
  <2>1. [run |-> Active, scan |-> k] \in Frame /\ (sel # 0 => Active = sel)
    BY <1>0, ActiveFrame
  <2>2. ds' = [run |-> Active, scan |-> k] /\ canvas' = TRUE /\ fails' = fails
    BY <1>4 DEF Rendered
  <2> QED
    BY <1>2, <1>3, <2>1, <2>2 DEF ScreenTypes, PinnedRunOnScreen
<1>5. CASE NotRendered
  <2>1. ds' = ds /\ canvas' = canvas /\ fails' = fails + 1 /\ fails < MaxFails
    BY <1>5 DEF NotRendered, screenVars
  <2>2. ds \in Frame \cup {NoFrame} /\ canvas \in BOOLEAN
    BY <1>0 DEF ScreenTypes
  <2> QED
    BY <1>0, <1>2, <1>3, <2>1, <2>2 DEF ScreenTypes, PinnedRunOnScreen
<1> QED
  BY <1>4, <1>5

(***************************************************************************)
(* The picture, action by action                                           *)
(***************************************************************************)
LEMMA ScreenInit == Init => ScreenInv
<1> SUFFICES ASSUME Init PROVE ScreenInv
  OBVIOUS
<1>1. NRuns \in Nat /\ MaxScans \in Nat /\ LoopN \in Nat /\ MaxFails \in Nat
  BY ViewBounds
<1>2. StoreTypes
  <2>1. begun = 0 /\ sel = 0 /\ adoptions = 1 /\ listed = 0 /\ fails = 0
        /\ size = [r \in Runs |-> 0] /\ tracked = {}
    BY DEF Init
  <2>2. soon \in BOOLEAN
    BY Zenon DEF Init
  <2> QED
    BY <1>1, <2>1, <2>2 DEF StoreTypes
<1>3. ScreenTypes /\ PinnedRunOnScreen
  <2>1. ds = NoFrame /\ cells = 0 /\ last = 0
    BY DEF Init
  <2>2. canvas \in BOOLEAN
    BY Zenon DEF Init
  <2> QED
    BY <1>1, <2>1, <2>2 DEF ScreenTypes, PinnedRunOnScreen
<1>4. LoopTypes /\ LoopPinned
  <2>1. ~loop /\ loop \in BOOLEAN /\ loopTimer \in BOOLEAN
    BY Zenon DEF Init
  <2>2. frames = << >> /\ index = 0
    BY DEF Init
  <2>3. << >> \in Seq(Frame) /\ Len(<< >>) = 0
    OBVIOUS
  <2> QED
    BY <1>1, <2>1, <2>2, <2>3 DEF LoopTypes, LoopPinned
<1> QED
  BY <1>2, <1>3, <1>4 DEF ScreenInv

\* What is left alone keeps its part of the invariant.
LEMMA ScreenStill ==
  ASSUME ScreenInv, UNCHANGED <<sel, screenVars, cells, last, loopVars>>
  PROVE  ScreenTypes' /\ LoopTypes' /\ PinnedRunOnScreen' /\ LoopPinned'
BY DEF ScreenInv, ScreenTypes, LoopTypes, PinnedRunOnScreen, LoopPinned,
       screenVars, loopVars

LEMMA RunBeginsScreen ==
  ASSUME ScreenInv, RunBegins
  PROVE  ScreenInv'
<1>1. UNCHANGED <<sel, screenVars, cells, last, loopVars>>
  BY DEF RunBegins
<1>2. StoreTypes'
  <2>1. begun \in 0..NRuns /\ NRuns \in Nat /\ sel \in 0..begun
    BY ViewBounds DEF ScreenInv, StoreTypes
  <2>2. begun' = begun + 1 /\ begun < NRuns /\ sel' = sel
    BY DEF RunBegins
  <2>3. begun' \in 0..NRuns /\ sel' \in 0..begun'
    BY <2>1, <2>2
  <2> QED
    BY <2>3 DEF RunBegins, ScreenInv, StoreTypes
<1> QED
  BY <1>1, <1>2, ScreenStill DEF ScreenInv

LEMMA ScanCompletesScreen ==
  ASSUME ScreenInv, NEW r \in Runs, ScanCompletes(r)
  PROVE  ScreenInv'
<1>1. UNCHANGED <<sel, screenVars, cells, last, loopVars>>
  BY DEF ScanCompletes
<1>2. StoreTypes'
  <2>1. size \in [Runs -> 0..MaxScans] /\ MaxScans \in Nat
    BY ViewBounds DEF ScreenInv, StoreTypes
  <2>2. size[r] + 1 \in 0..MaxScans
    BY <2>1 DEF ScanCompletes
  <2>3. size' \in [Runs -> 0..MaxScans]
    BY <2>1, <2>2 DEF ScanCompletes
  <2> QED
    BY <2>3 DEF ScanCompletes, ScreenInv, StoreTypes
<1> QED
  BY <1>1, <1>2, ScreenStill DEF ScreenInv

LEMMA CellsTrackedScreen ==
  ASSUME ScreenInv, NEW r \in Runs, CellsTracked(r)
  PROVE  ScreenInv'
<1>1. UNCHANGED <<sel, screenVars, cells, last, loopVars>>
  BY DEF CellsTracked
<1>2. StoreTypes'
  BY DEF CellsTracked, ScreenInv, StoreTypes
<1> QED
  BY <1>1, <1>2, ScreenStill DEF ScreenInv

LEMMA RefreshScreen ==
  ASSUME ScreenInv, Refresh
  PROVE  ScreenInv'
<1> DEFINE n == Complete(Active)
<1>0. StoreTypes /\ ScreenTypes /\ LoopTypes /\ LoopPinned
  BY DEF ScreenInv
<1>1. begun' = begun /\ size' = size /\ tracked' = tracked /\ sel' = sel /\ adoptions' = adoptions
      /\ soon' = soon /\ loop' = loop /\ frames' = frames /\ index' = index
      /\ loopTimer' = loopTimer
  BY DEF Refresh, storeVars, loopVars
<1>2. listed' \in 0..MaxScans
  <2>1. sel \in 0..begun
    BY <1>0 DEF StoreTypes
  <2> QED
    BY <1>0, <2>1, TimelineTyped DEF Refresh, ReadTimeline
<1>3. LoopTypes'
  BY <1>0, <1>1 DEF LoopTypes
<1>4. CASE ~Stale(n) /\ UNCHANGED <<screenVars, cells, last, fails>>
  <2>1. StoreTypes'
    BY <1>0, <1>1, <1>2, <1>4 DEF StoreTypes
  <2>2. UNCHANGED <<sel, screenVars, cells, last, loopVars>>
    BY <1>1, <1>4 DEF loopVars
  <2> QED
    BY <2>1, <2>2, ScreenStill DEF ScreenInv
<1>5. CASE /\ Stale(n) /\ LoadCells
           /\ \/ Rendered([run |-> Active, scan |-> n]) /\ last' = n
              \/ NotRendered /\ UNCHANGED last
  <2>1. n \in 1..n /\ n \in 0..MaxScans /\ ~loop
    BY <1>0, <1>5, ActiveRun, ViewBounds DEF Stale
  <2>2. last' \in 0..MaxScans
    BY <1>0, <1>5, <2>1 DEF ScreenTypes
  <2>3. Rendered([run |-> Active, scan |-> n]) \/ NotRendered
    BY <1>5
  <2> HIDE DEF n
  <2>4. ScreenTypes' /\ PinnedRunOnScreen' /\ fails' \in 0..MaxFails
    <3>1. n = Complete(Active)
      BY DEF n
    <3> QED
      BY <1>1, <1>5, <2>1, <2>2, <2>3, <3>1, ShowActive
  <2>5. StoreTypes'
    BY <1>0, <1>1, <1>2, <2>4 DEF StoreTypes
  <2>6. LoopPinned'
    BY <1>1, <2>1 DEF LoopPinned
  <2> QED
    BY <1>3, <2>4, <2>5, <2>6 DEF ScreenInv
<1>6. CASE Stale(n) /\ CellsUnread /\ UNCHANGED <<screenVars, last>>
  <2>1. ScreenTypes' /\ PinnedRunOnScreen' /\ fails' \in 0..MaxFails
    <3>1. last' \in 0..MaxScans
      BY <1>0, <1>6 DEF ScreenTypes
    <3> QED
      BY <1>1, <1>6, <3>1, PictureStays
  <2>2. StoreTypes'
    BY <1>0, <1>1, <1>2, <2>1 DEF StoreTypes
  <2>3. LoopPinned'
    BY <1>1, <1>6 DEF LoopPinned, Stale
  <2> QED
    BY <1>3, <2>1, <2>2, <2>3 DEF ScreenInv
<1>7. \/ ~Stale(n) /\ UNCHANGED <<screenVars, cells, last, fails>>
      \/ /\ Stale(n) /\ LoadCells
         /\ \/ Rendered([run |-> Active, scan |-> n]) /\ last' = n
            \/ NotRendered /\ UNCHANGED last
      \/ Stale(n) /\ CellsUnread /\ UNCHANGED <<screenVars, last>>
  BY Zenon DEF Refresh
<1> QED
  BY <1>4, <1>5, <1>6, <1>7

\* The loop draws its own frames: of the selected run, with that run's cells.
LEMMA LoopTickScreen ==
  ASSUME ScreenInv, LoopTick
  PROVE  ScreenInv'
<1>0. StoreTypes /\ ScreenTypes /\ LoopTypes /\ PinnedRunOnScreen /\ LoopPinned
  BY DEF ScreenInv
<1>1. begun' = begun /\ size' = size /\ tracked' = tracked /\ sel' = sel /\ adoptions' = adoptions
      /\ listed' = listed /\ cells' = cells /\ last' = last /\ soon' = soon
      /\ loop' = loop /\ frames' = frames
  BY DEF LoopTick, storeVars
<1>2. fails \in 0..MaxFails /\ MaxFails \in Nat
  BY <1>0, ViewBounds DEF StoreTypes
<1>3. CASE ~loop
  <2>1. index' = index /\ canvas' = canvas /\ ds' = ds /\ fails' = fails
    BY <1>3 DEF LoopTick, screenVars
  <2>2. loopTimer' \in BOOLEAN
    <3>1. loopTimer' = FALSE
      BY <1>3 DEF LoopTick
    <3> QED
      BY <3>1, Zenon
  <2>3. StoreTypes' /\ ScreenTypes' /\ PinnedRunOnScreen' /\ LoopPinned'
    BY <1>0, <1>1, <2>1
       DEF StoreTypes, ScreenTypes, PinnedRunOnScreen, LoopPinned
  <2>4. LoopTypes'
    BY <1>0, <1>1, <2>1, <2>2 DEF LoopTypes
  <2> QED
    BY <2>3, <2>4 DEF ScreenInv
<1>4. CASE loop
  <2>0. /\ index' = (index + 1) % Len(frames)
        /\ \/ Rendered(frames[index + 1]) /\ loopTimer' = loopTimer
           \/ NotRendered /\ loopTimer' = FALSE
    BY <1>4 DEF LoopTick
  <2>1. index \in 0..(Len(frames) - 1) /\ frames \in Seq(Frame) /\ Len(frames) \in Nat
    BY <1>0, <1>4 DEF LoopPinned, LoopTypes
  <2>2. Len(frames) \in Nat \ {0} /\ index + 1 \in 1..Len(frames) /\ index + 1 \in Nat
    BY <2>1
  <2>3. index' \in 0..(Len(frames) - 1) /\ index' \in Nat
    BY <2>0, <2>2
  <2>4. frames[index + 1] \in Frame /\ (sel # 0 => frames[index + 1].run = sel /\ cells \in {0, sel})
    BY <1>0, <1>4, <2>1, <2>2, ElementOfSeq DEF LoopPinned
  <2>5. loopTimer' \in BOOLEAN
    <3>1. loopTimer' = loopTimer \/ loopTimer' = FALSE
      BY <2>0
    <3>2. loopTimer \in BOOLEAN
      BY <1>0 DEF LoopTypes
    <3> QED
      BY <3>1, <3>2, Zenon
  <2>6. \/ ds' = frames[index + 1] /\ canvas' = TRUE /\ fails' = fails
        \/ ds' = ds /\ canvas' = canvas /\ fails' = fails + 1 /\ fails < MaxFails
    BY <2>0 DEF Rendered, NotRendered, screenVars
  <2>7. fails' \in 0..MaxFails
    BY <1>2, <2>6
  <2>8. ScreenTypes' /\ PinnedRunOnScreen'
    BY <1>0, <1>1, <2>4, <2>6 DEF ScreenTypes, PinnedRunOnScreen
  <2>9. StoreTypes'
    BY <1>0, <1>1, <2>7 DEF StoreTypes
  <2>10. LoopTypes'
    BY <1>0, <1>1, <2>3, <2>5 DEF LoopTypes
  <2>11. LoopPinned'
    BY <1>0, <1>1, <2>3 DEF LoopPinned
  <2> QED
    BY <2>8, <2>9, <2>10, <2>11 DEF ScreenInv
<1>5. loop \in BOOLEAN
  BY <1>0 DEF LoopTypes
<1> QED
  BY <1>3, <1>4, <1>5

\* The newest scan comes on the screen, whoever asked for it.
LEMMA ShowLatestScreen ==
  ASSUME ScreenInv, ShowLatest, soon' \in BOOLEAN
  PROVE  ScreenInv'
<1> DEFINE n == Complete(Active)
<1>0. StoreTypes /\ ScreenTypes /\ LoopTypes /\ PinnedRunOnScreen /\ LoopPinned
  BY DEF ScreenInv
<1>1. begun' = begun /\ size' = size /\ tracked' = tracked /\ sel' = sel /\ adoptions' = adoptions
  BY DEF ShowLatest, storeVars
<1>2. listed' \in 0..MaxScans
  <2>1. sel \in 0..begun
    BY <1>0 DEF StoreTypes
  <2> QED
    BY <1>0, <2>1, TimelineTyped DEF ShowLatest, ReadTimeline
<1>3. \/ UNCHANGED <<screenVars, cells, last, loopVars, fails>>
      \/ /\ n > 0 /\ StopLoop /\ LoadCells /\ last' = n
         /\ Rendered([run |-> Active, scan |-> n]) \/ NotRendered
      \/ n > 0 /\ StopLoop /\ CellsUnread /\ UNCHANGED <<screenVars, last>>
  BY DEF ShowLatest
<1>4. CASE UNCHANGED <<screenVars, cells, last, loopVars, fails>>
  <2>1. StoreTypes'
    BY <1>0, <1>1, <1>2, <1>4 DEF StoreTypes
  <2>2. UNCHANGED <<sel, screenVars, cells, last, loopVars>>
    BY <1>1, <1>4
  <2> QED
    BY <2>1, <2>2, ScreenStill DEF ScreenInv
<1>5. CASE /\ n > 0 /\ StopLoop /\ LoadCells /\ last' = n
           /\ Rendered([run |-> Active, scan |-> n]) \/ NotRendered
  <2>1. n \in 1..n /\ n \in 0..MaxScans
    BY <1>0, <1>5, ActiveRun, ViewBounds
  <2>2. ScreenTypes' /\ PinnedRunOnScreen' /\ fails' \in 0..MaxFails
    BY <1>1, <1>5, <2>1, ShowActive
  <2>3. LoopTypes' /\ LoopPinned'
    BY <1>0, <1>5, StopLoopStops
  <2>4. StoreTypes'
    BY <1>0, <1>1, <1>2, <2>2 DEF StoreTypes
  <2> QED
    BY <2>2, <2>3, <2>4 DEF ScreenInv
<1>6. CASE StopLoop /\ CellsUnread /\ UNCHANGED <<screenVars, last>>
  <2>1. last' \in 0..MaxScans
    BY <1>0, <1>6 DEF ScreenTypes
  <2>2. ScreenTypes' /\ PinnedRunOnScreen' /\ fails' \in 0..MaxFails
    BY <1>1, <1>6, <2>1, PictureStays
  <2>3. LoopTypes' /\ LoopPinned'
    BY <1>0, <1>6, StopLoopStops
  <2>4. StoreTypes'
    BY <1>0, <1>1, <1>2, <2>2 DEF StoreTypes
  <2> QED
    BY <2>2, <2>3, <2>4 DEF ScreenInv
<1> QED
  BY <1>3, <1>4, <1>5, <1>6

LEMMA ClearCanvasClears ==
  ASSUME ScreenInv, ClearCanvas, cells' = cells
  PROVE  ScreenTypes' /\ LoopTypes' /\ PinnedRunOnScreen' /\ LoopPinned'
<1>1. StopLoop /\ last' = 0 /\ TornDown
  BY DEF ClearCanvas
<1>2. LoopTypes' /\ LoopPinned'
  BY <1>1, StopLoopStops DEF ScreenInv
<1>3. PinnedRunOnScreen' /\ canvas' \in BOOLEAN /\ ds' \in Frame \cup {NoFrame}
  BY <1>1, TornDownShowsNothing
<1>4. cells' \in 0..NRuns /\ last' \in 0..MaxScans
  BY <1>1, ViewBounds DEF ScreenInv, ScreenTypes
<1> QED
  BY <1>2, <1>3, <1>4 DEF ScreenTypes

LEMMA ChangeRunScreen ==
  ASSUME ScreenInv, NEW s \in 0..begun, ChangeRun(s), adoptions' \in 0..1
  PROVE  ScreenInv'
<1>0. StoreTypes
  BY DEF ScreenInv
<1>1. begun' = begun /\ size' = size /\ tracked' = tracked /\ sel' = s /\ fails' = fails /\ cells' = cells
      /\ ClearCanvas
  BY DEF ChangeRun, storeVars
<1>2. listed' \in 0..MaxScans
  BY <1>0, TimelineTyped DEF ChangeRun, ReadTimeline
<1>3. soon' \in BOOLEAN
  <2>1. soon' = (soon \/ Complete(ActiveOf(s)) > 0)
    BY DEF ChangeRun
  <2> QED
    BY <2>1, Zenon
<1>4. StoreTypes'
  BY <1>0, <1>1, <1>2, <1>3 DEF StoreTypes
<1>5. ScreenTypes' /\ LoopTypes' /\ PinnedRunOnScreen' /\ LoopPinned'
  BY <1>1, ClearCanvasClears
<1> QED
  BY <1>4, <1>5 DEF ScreenInv

LEMMA SelectorScreen ==
  ASSUME ScreenInv, AdoptionFires \/ ReopenStore \/ \E r \in Runs : PickRun(r)
  PROVE  ScreenInv'
<1>1. begun \in Nat /\ adoptions \in 0..1
  BY ViewBounds DEF ScreenInv, StoreTypes
<1>2. CASE AdoptionFires
  <2>1. begun \in 0..begun /\ ChangeRun(begun)
    BY <1>1, <1>2 DEF AdoptionFires
  <2>2. adoptions' \in 0..1
    BY <1>1, <1>2 DEF AdoptionFires
  <2> QED
    BY <2>1, <2>2, ChangeRunScreen
<1>3. CASE ReopenStore
  <2>1. begun \in 0..begun /\ ChangeRun(begun) /\ adoptions' \in 0..1
    BY <1>1, <1>3 DEF ReopenStore
  <2> QED
    BY <2>1, ChangeRunScreen
<1>4. CASE \E r \in Runs : PickRun(r)
  <2>1. PICK r \in Runs : PickRun(r)
    BY <1>4
  <2>2. r \in 0..begun
    BY <1>1, <2>1 DEF PickRun, Runs
  <2>3. ChangeRun(r) /\ adoptions' \in 0..1
    BY <1>1, <2>1 DEF PickRun
  <2> QED
    BY <2>2, <2>3, ChangeRunScreen
<1> QED
  BY <1>2, <1>3, <1>4

LEMMA ClearTracksScreen ==
  ASSUME ScreenInv, ClearTracks
  PROVE  ScreenInv'
<1>1. ClearCanvas /\ cells' = cells /\ begun' = begun /\ size' = size /\ tracked' = tracked /\ sel' = sel
      /\ adoptions' = adoptions /\ listed' = listed /\ soon' = soon /\ fails' = fails
  BY DEF ClearTracks, storeVars
<1>2. StoreTypes'
  BY <1>1 DEF ScreenInv, StoreTypes
<1> QED
  BY <1>1, <1>2, ClearCanvasClears DEF ScreenInv

LEMMA ResetViewScreen ==
  ASSUME ScreenInv, ResetView
  PROVE  ScreenInv'
<1> DEFINE n == Complete(Active)
<1>0. StoreTypes /\ ScreenTypes /\ LoopTypes /\ PinnedRunOnScreen /\ LoopPinned
  BY DEF ScreenInv
<1>1. begun' = begun /\ size' = size /\ tracked' = tracked /\ sel' = sel /\ adoptions' = adoptions
      /\ soon' = soon /\ StopLoop
  BY DEF ResetView, storeVars
<1>2. listed' \in 0..MaxScans
  <2>1. sel \in 0..begun
    BY <1>0 DEF StoreTypes
  <2> QED
    BY <1>0, <2>1, TimelineTyped DEF ResetView, ReadTimeline
<1>3. LoopTypes' /\ LoopPinned'
  BY <1>0, <1>1, StopLoopStops
<1>4. n \in 0..MaxScans /\ MaxScans \in Nat
  BY <1>0, ActiveRun, ViewBounds
<1>5. CASE n = 0
  <2>1. last' = 0 /\ TornDown /\ cells' = cells /\ fails' = fails
    BY <1>5 DEF ResetView
  <2>2. ScreenTypes' /\ PinnedRunOnScreen'
    BY <1>0, <1>4, <2>1, TornDownShowsNothing DEF ScreenTypes
  <2>3. StoreTypes'
    BY <1>0, <1>1, <1>2, <2>1 DEF StoreTypes
  <2> QED
    BY <1>3, <2>2, <2>3 DEF ScreenInv
<1>6. CASE n # 0
  <2>1. \/ /\ LoadCells /\ last' = n
           /\ \/ Rendered([run |-> Active, scan |-> n])
              \/ fails < MaxFails /\ fails' = fails + 1 /\ TornDown
        \/ CellsUnread /\ last' = 0 /\ TornDown
    BY <1>6 DEF ResetView
  <2>2. n \in 1..n /\ n > 0
    BY <1>4, <1>6
  <2>3. ScreenTypes' /\ PinnedRunOnScreen' /\ fails' \in 0..MaxFails
    <3>1. CASE LoadCells /\ last' = n /\ Rendered([run |-> Active, scan |-> n])
      BY <1>1, <1>4, <2>2, <3>1, ShowActive
    <3>2. CASE /\ LoadCells /\ last' = n
               /\ fails < MaxFails /\ fails' = fails + 1 /\ TornDown
      <4>1. cells' \in 0..NRuns
        BY <1>0, <1>1, <3>2, LoadCellsLoads
      <4>2. fails' \in 0..MaxFails
        BY <1>0, <3>2, ViewBounds DEF StoreTypes
      <4>3. PinnedRunOnScreen' /\ canvas' \in BOOLEAN /\ ds' \in Frame \cup {NoFrame}
        BY <3>2, TornDownShowsNothing
      <4> QED
        BY <1>4, <3>2, <4>1, <4>2, <4>3 DEF ScreenTypes
    <3>3. CASE CellsUnread /\ last' = 0 /\ TornDown
      <4>1. cells' \in 0..NRuns /\ fails' \in 0..MaxFails
        BY <1>0, <3>3, CellsUnreadDrops
      <4>2. PinnedRunOnScreen' /\ canvas' \in BOOLEAN /\ ds' \in Frame \cup {NoFrame}
        BY <3>3, TornDownShowsNothing
      <4> QED
        BY <1>4, <3>3, <4>1, <4>2 DEF ScreenTypes
    <3> QED
      BY <2>1, <3>1, <3>2, <3>3
  <2>4. StoreTypes'
    BY <1>0, <1>1, <1>2, <2>3 DEF StoreTypes
  <2> QED
    BY <1>3, <2>3, <2>4 DEF ScreenInv
<1> QED
  BY <1>5, <1>6

LEMMA BrowseScreen ==
  ASSUME ScreenInv, NEW k \in 1..MaxScans, Browse(k)
  PROVE  ScreenInv'
<1>0. StoreTypes /\ ScreenTypes /\ LoopTypes /\ PinnedRunOnScreen /\ LoopPinned
  BY DEF ScreenInv
<1>1. begun' = begun /\ size' = size /\ tracked' = tracked /\ sel' = sel /\ adoptions' = adoptions
      /\ soon' = soon /\ last' = last
  BY DEF Browse, storeVars
<1>2. listed' \in 0..MaxScans
  <2>1. sel \in 0..begun
    BY <1>0 DEF StoreTypes
  <2> QED
    BY <1>0, <2>1, TimelineTyped DEF Browse, ReadTimeline
<1>3. CASE UNCHANGED <<loopVars, cells, screenVars, fails>>
  <2>1. StoreTypes'
    BY <1>0, <1>1, <1>2, <1>3 DEF StoreTypes
  <2>2. UNCHANGED <<sel, screenVars, cells, last, loopVars>>
    BY <1>1, <1>3
  <2> QED
    BY <2>1, <2>2, ScreenStill DEF ScreenInv
<1>4. CASE /\ k <= Complete(Active) /\ StopLoop /\ LoadCells
           /\ Rendered([run |-> Active, scan |-> k]) \/ NotRendered
  <2>1. k \in 1..Complete(Active)
    BY <1>0, <1>4, ActiveRun, ViewBounds
  <2>2. last' \in 0..MaxScans
    BY <1>0, <1>1 DEF ScreenTypes
  <2>3. ScreenTypes' /\ PinnedRunOnScreen' /\ fails' \in 0..MaxFails
    BY <1>1, <1>4, <2>1, <2>2, ShowActive
  <2>4. LoopTypes' /\ LoopPinned'
    BY <1>0, <1>4, StopLoopStops
  <2>5. StoreTypes'
    BY <1>0, <1>1, <1>2, <2>3 DEF StoreTypes
  <2> QED
    BY <2>3, <2>4, <2>5 DEF ScreenInv
<1>5. CASE StopLoop /\ CellsUnread /\ UNCHANGED screenVars
  <2>1. last' \in 0..MaxScans
    BY <1>0, <1>1 DEF ScreenTypes
  <2>2. ScreenTypes' /\ PinnedRunOnScreen' /\ fails' \in 0..MaxFails
    BY <1>1, <1>5, <2>1, PictureStays
  <2>3. LoopTypes' /\ LoopPinned'
    BY <1>0, <1>5, StopLoopStops
  <2>4. StoreTypes'
    BY <1>0, <1>1, <1>2, <2>2 DEF StoreTypes
  <2> QED
    BY <2>2, <2>3, <2>4 DEF ScreenInv
<1> QED
  BY <1>3, <1>4, <1>5 DEF Browse

LEMMA LoopOffScreen ==
  ASSUME ScreenInv, LoopOff \/ CloseCancelled
  PROVE  ScreenInv'
<1>0. StoreTypes /\ ScreenTypes /\ LoopTypes /\ PinnedRunOnScreen
  BY DEF ScreenInv
<1>1. begun' = begun /\ size' = size /\ tracked' = tracked /\ sel' = sel /\ listed' = listed /\ fails' = fails
      /\ canvas' = canvas /\ ds' = ds /\ cells' = cells /\ last' = last
  BY DEF LoopOff, CloseCancelled, storeVars, screenVars
<1>2. adoptions' \in 0..1 /\ soon' \in BOOLEAN
  <2>1. CASE LoopOff
    BY <1>0, <2>1 DEF LoopOff, StoreTypes
  <2>2. CASE CloseCancelled
    <3>1. adoptions' = 0 /\ soon' = FALSE
      BY <2>2 DEF CloseCancelled
    <3>2. soon' \in BOOLEAN
      BY <3>1, Zenon
    <3> QED
      BY <3>1, <3>2
  <2> QED
    BY <2>1, <2>2
<1>3. LoopTypes' /\ LoopPinned'
  <2>1. CASE LoopOff
    BY <1>0, <2>1, StopLoopStops DEF LoopOff
  <2>2. CASE CloseCancelled
    <3>1. loop' = FALSE /\ frames' = << >> /\ index' = 0 /\ loopTimer' = FALSE
      BY <2>2 DEF CloseCancelled
    <3>2. loop' \in BOOLEAN /\ ~loop'
      BY <3>1, Zenon
    <3>3. loopTimer' \in BOOLEAN
      BY <3>1, Zenon
    <3>4. frames' \in Seq(Frame) /\ Len(frames') <= LoopN /\ index' \in Nat
      BY <3>1, ViewBounds
    <3> QED
      BY <3>2, <3>3, <3>4 DEF LoopTypes, LoopPinned
  <2> QED
    BY <2>1, <2>2
<1>4. StoreTypes' /\ ScreenTypes' /\ PinnedRunOnScreen'
  BY <1>0, <1>1, <1>2 DEF StoreTypes, ScreenTypes, PinnedRunOnScreen
<1> QED
  BY <1>3, <1>4 DEF ScreenInv

LEMMA LoopBegunScreen ==
  ASSUME ScreenInv, LoopBegins, Complete(Active) > 0,
         UNCHANGED <<storeVars, sel, adoptions, listed, soon>>
  PROVE  ScreenInv'
<1>0. StoreTypes /\ ScreenTypes /\ LoopTypes
  BY DEF ScreenInv
<1>1. begun' = begun /\ size' = size /\ tracked' = tracked /\ sel' = sel /\ adoptions' = adoptions
      /\ listed' = listed /\ soon' = soon /\ frames' = LoopFrames /\ last' = 0
      /\ loop' = TRUE /\ LoadCells /\ Complete(Active) > 0
  BY DEF LoopBegins, storeVars
<1>2. cells' \in 0..NRuns /\ (sel # 0 => cells' \in {0, sel})
  BY <1>0, <1>1, LoadCellsLoads
<1>12. sel # 0 => Active = sel
  BY <1>0, ActiveRun
<1>3. /\ LoopFrames \in Seq(Frame) /\ Len(LoopFrames) \in 1..LoopN
      /\ \A i \in 1..Len(LoopFrames) :
            LoopFrames[i] \in Frame /\ LoopFrames[i].run = Active
  BY <1>0, <1>1, LoopFramesAreActive
<1>4. LoopN \in Nat /\ Len(LoopFrames) \in Nat \ {0} /\ Len(LoopFrames) <= LoopN
  BY <1>3, ViewBounds
<1>5. \/ Rendered(LoopFrames[1]) /\ index' = 1 % Len(LoopFrames) /\ loopTimer' = TRUE
      \/ /\ fails < MaxFails /\ fails' = fails + 1
         /\ TornDown /\ index' = 0 /\ loopTimer' = loopTimer
  BY DEF LoopBegins
<1>6. index' \in 0..(Len(LoopFrames) - 1) /\ index' \in Nat
  BY <1>4, <1>5
<1>7. loopTimer' \in BOOLEAN
  <2>1. loopTimer' = TRUE \/ loopTimer' = loopTimer
    BY <1>5
  <2>2. loopTimer \in BOOLEAN
    BY <1>0 DEF LoopTypes
  <2> QED
    BY <2>1, <2>2, Zenon
<1>8. LoopTypes'
  <2>1. loop' \in BOOLEAN
    BY <1>1, Zenon
  <2> QED
    BY <1>1, <1>3, <1>4, <1>6, <1>7, <2>1 DEF LoopTypes
<1>9. LoopPinned'
  BY <1>1, <1>2, <1>3, <1>6, <1>12 DEF LoopPinned
<1>10. fails' \in 0..MaxFails /\ ScreenTypes' /\ PinnedRunOnScreen'
  <2>1. fails \in 0..MaxFails /\ MaxFails \in Nat /\ MaxScans \in Nat
    BY <1>0, ViewBounds DEF StoreTypes
  <2>2. CASE Rendered(LoopFrames[1])
    <3>1. LoopFrames[1] \in Frame /\ LoopFrames[1].run = Active
      BY <1>3, <1>4
    <3>2. ds' = LoopFrames[1] /\ canvas' = TRUE /\ fails' = fails
      BY <2>2 DEF Rendered
    <3> QED
      BY <1>1, <1>2, <1>12, <2>1, <3>1, <3>2 DEF ScreenTypes, PinnedRunOnScreen
  <2>3. CASE fails < MaxFails /\ fails' = fails + 1 /\ TornDown
    <3>1. fails' \in 0..MaxFails
      BY <2>1, <2>3
    <3>2. PinnedRunOnScreen' /\ canvas' \in BOOLEAN /\ ds' \in Frame \cup {NoFrame}
      BY <2>3, TornDownShowsNothing
    <3> QED
      BY <1>1, <1>2, <2>1, <3>1, <3>2 DEF ScreenTypes
  <2> QED
    BY <1>5, <2>2, <2>3
<1>11. StoreTypes'
  BY <1>0, <1>1, <1>10 DEF StoreTypes
<1> QED
  BY <1>8, <1>9, <1>10, <1>11 DEF ScreenInv

LEMMA LoopOnScreen ==
  ASSUME ScreenInv, LoopOn
  PROVE  ScreenInv'
<1>0. StoreTypes /\ ScreenTypes /\ LoopTypes /\ LoopPinned /\ ~loop
  BY DEF ScreenInv, LoopOn
<1>1. CASE CellsUnread /\ UNCHANGED <<screenVars, last, loopVars>>
  <2>1. begun' = begun /\ size' = size /\ tracked' = tracked /\ sel' = sel
        /\ adoptions' = adoptions /\ listed' = listed /\ soon' = soon
    BY DEF LoopOn, storeVars
  <2>2. loop' = loop /\ frames' = frames /\ index' = index /\ loopTimer' = loopTimer
    BY <1>1 DEF loopVars
  <2>3. last' \in 0..MaxScans
    BY <1>0, <1>1 DEF ScreenTypes
  <2>4. ScreenTypes' /\ PinnedRunOnScreen' /\ fails' \in 0..MaxFails
    BY <1>1, <2>1, <2>3, PictureStays
  <2>5. LoopTypes' /\ LoopPinned'
    BY <1>0, <2>2 DEF LoopTypes, LoopPinned
  <2>6. StoreTypes'
    BY <1>0, <2>1, <2>4 DEF StoreTypes
  <2> QED
    BY <2>4, <2>5, <2>6 DEF ScreenInv
<1>2. CASE LoopBegins
  <2>1. Complete(Active) > 0 /\ UNCHANGED <<storeVars, sel, adoptions, listed, soon>>
    BY DEF LoopOn
  <2> QED
    BY <1>2, <2>1, LoopBegunScreen
<1> QED
  BY <1>1, <1>2 DEF LoopOn

LEMMA SelectingScreen ==
  ASSUME ScreenInv, Answer \/ (\E c \in 1..NCells : Click(c)) \/ UNCHANGED vars
  PROVE  ScreenInv'
<1>1. begun' = begun /\ size' = size /\ tracked' = tracked /\ sel' = sel /\ adoptions' = adoptions
      /\ listed' = listed /\ soon' = soon /\ fails' = fails
  BY DEF Answer, Click, vars, storeVars
<1>2. UNCHANGED <<sel, screenVars, cells, last, loopVars>>
  BY DEF Answer, Click, vars, screenVars, loopVars
<1>3. StoreTypes'
  BY <1>1 DEF ScreenInv, StoreTypes
<1> QED
  BY <1>2, <1>3, ScreenStill DEF ScreenInv

LEMMA ScreenNext == ScreenInv /\ [Next]_vars => ScreenInv'
<1> SUFFICES ASSUME ScreenInv, [Next]_vars PROVE ScreenInv'
  OBVIOUS
<1>1. CASE Pipeline
  BY <1>1, RunBeginsScreen, ScanCompletesScreen, CellsTrackedScreen DEF Pipeline
<1>2. CASE Timer
  <2>1. CASE SoonFires
    <3>1. ShowLatest /\ soon' = FALSE
      BY <2>1 DEF SoonFires
    <3>2. soon' \in BOOLEAN
      BY <3>1, Zenon
    <3> QED
      BY <3>1, <3>2, ShowLatestScreen
  <2> QED
    BY <1>2, <2>1, RefreshScreen, LoopTickScreen, SelectorScreen DEF Timer
<1>3. CASE User
  <2>1. CASE ShowLatestKey
    <3>1. ShowLatest /\ soon' = soon
      BY <2>1 DEF ShowLatestKey
    <3>2. soon' \in BOOLEAN
      BY <3>1 DEF ScreenInv, StoreTypes
    <3> QED
      BY <3>1, <3>2, ShowLatestScreen
  <2> QED
    BY <1>3, <2>1, SelectorScreen, ClearTracksScreen, ResetViewScreen, BrowseScreen,
       LoopOffScreen, LoopOnScreen, SelectingScreen DEF User
<1>4. CASE UNCHANGED vars
  BY <1>4, SelectingScreen
<1> QED
  BY <1>1, <1>2, <1>3, <1>4 DEF Next

(* The inductive invariant of the picture: a loop that runs has frames and   *)
(* cells of the selected run.                                                *)
(* (_scan_view.py toggle_loop, _loop_step, _clear_canvas)                    *)
THEOREM ScreenInvariant == Spec => []ScreenInv
<1>1. Init => ScreenInv
  BY ScreenInit
<1>2. ScreenInv /\ [Next]_vars => ScreenInv'
  BY ScreenNext
<1> QED
  BY <1>1, <1>2, PTL DEF Spec

(* While a run is selected, the raster on the screen and the cells joined    *)
(* with it are of that run, through every change of run, loop, refresh,      *)
(* failed rendering and timer that fires under an open question.             *)
(* (_scan_view.py _clear_canvas, _load_cells_data, _loop_step, refresh)      *)
THEOREM PinnedRunHolds == Spec => []PinnedRunOnScreen
<1>1. ScreenInv => PinnedRunOnScreen
  BY DEF ScreenInv
<1> QED
  BY <1>1, ScreenInvariant, PTL

(***************************************************************************)
(* The selected cells                                                      *)
(***************************************************************************)
Entry == [uid : Uid, slot : Slots]

CellsOnce(p) == \A i, j \in 1..Len(p) : i # j => p[i].uid # p[j].uid
ColoursOnce(p) == \A i, j \in 1..Len(p) : i # j => p[i].slot # p[j].slot
NotAmong(uid, p) == \A i \in 1..Len(p) : p[i].uid # uid

SelectionTypes ==
    picked \in Seq(Entry) /\ asking \in Uid \cup {NoUid} /\ wrapped \in BOOLEAN

SelectionInv ==
    /\ SelectionTypes
    /\ CellsOnce(picked)
    /\ asking # NoUid => NotAmong(asking, picked)
    /\ wrapped \/ ColoursOnce(picked)

(* A set of naturals has a least member.                                    *)
LEMMA LeastOfNaturals ==
  ASSUME NEW S, S \subseteq Nat, S # {}
  PROVE  Min(S) \in S
<1> DEFINE R == OpToRel(<, Nat)
<1>1. IsWellFoundedOn(R, Nat)
  BY NatLessThanWellFounded
<1>2. PICK x \in S : \A y \in S : ~ (<<y, x>> \in R)
  <2> HIDE DEF R
  <2> QED
    BY <1>1, WFMin
<1>3. \A y \in S : <<y, x>> \in R <=> y < x
  BY DEF OpToRel
<1> HIDE DEF R
<1>4. ASSUME NEW k \in S PROVE x =< k
  <2>1. ~ (k < x) /\ k \in Nat /\ x \in Nat
    BY <1>2, <1>3
  <2> QED
    BY <2>1
<1> QED
  BY <1>4 DEF Min

\* _next_free_color_slot answers a slot that nobody has.
LEMMA FreeSlotIsFree ==
  ASSUME picked \in Seq(Entry), FreeSlots # {}
  PROVE  Min(FreeSlots) \in Slots /\ \A i \in 1..Len(picked) : picked[i].slot # Min(FreeSlots)
<1>1. FreeSlots \subseteq Nat
  BY ViewBounds DEF FreeSlots, Slots
<1>2. Min(FreeSlots) \in FreeSlots
  BY <1>1, LeastOfNaturals
<1>3. DOMAIN picked = 1..Len(picked)
  BY LenProperties
<1> QED
  BY <1>2, <1>3 DEF FreeSlots

LEMMA RemoveAtCloses ==
  ASSUME NEW s \in Seq(Entry), NEW i \in 1..Len(s)
  PROVE  /\ RemoveAt(s, i) \in Seq(Entry)
         /\ Len(RemoveAt(s, i)) = Len(s) - 1
         /\ \A j \in 1..(Len(s) - 1) :
               RemoveAt(s, i)[j] = s[IF j < i THEN j ELSE j + 1]
<1> DEFINE a == SubSeq(s, 1, i - 1)
           b == SubSeq(s, i + 1, Len(s))
<1>1. Len(s) \in Nat /\ i \in Int /\ \A j \in 1..Len(s) : s[j] \in Entry
  BY LenProperties, ElementOfSeq
<1>2. /\ a \in Seq(Entry) /\ Len(a) = i - 1
      /\ \A j \in 1..(i - 1) : a[j] = s[j]
  <2>1. \A j \in 1..(i - 1) : s[j] \in Entry
    BY <1>1
  <2>2. /\ a \in Seq(Entry)
        /\ Len(a) = IF 1 <= i - 1 THEN i - 1 - 1 + 1 ELSE 0
        /\ \A j \in 1..(i - 1 - 1 + 1) : a[j] = s[1 + j - 1]
    <3>1. 1 \in Int /\ i - 1 \in Int
      BY <1>1
    <3> QED
      BY <2>1, <3>1, SubSeqProperties
  <2>3. \A j \in 1..(i - 1) : j \in 1..(i - 1 - 1 + 1) /\ 1 + j - 1 = j
    BY <1>1
  <2> QED
    BY <1>1, <2>2, <2>3
<1>3. /\ b \in Seq(Entry) /\ Len(b) = Len(s) - i
      /\ \A j \in 1..(Len(s) - i) : b[j] = s[j + i]
  <2>1. \A j \in (i + 1)..Len(s) : s[j] \in Entry
    BY <1>1
  <2>2. /\ b \in Seq(Entry)
        /\ Len(b) = IF i + 1 <= Len(s) THEN Len(s) - (i + 1) + 1 ELSE 0
        /\ \A j \in 1..(Len(s) - (i + 1) + 1) : b[j] = s[(i + 1) + j - 1]
    <3>1. i + 1 \in Int /\ Len(s) \in Int
      BY <1>1
    <3> QED
      BY <2>1, <3>1, SubSeqProperties
  <2>3. \A j \in 1..(Len(s) - i) :
           j \in 1..(Len(s) - (i + 1) + 1) /\ (i + 1) + j - 1 = j + i
    BY <1>1
  <2> QED
    BY <1>1, <2>2, <2>3
<1>4. RemoveAt(s, i) = a \o b
  BY DEF RemoveAt
<1> HIDE DEF a, b
<1>5. /\ a \o b \in Seq(Entry) /\ Len(a \o b) = Len(a) + Len(b)
      /\ \A j \in 1..(Len(a) + Len(b)) :
            (a \o b)[j] = IF j <= Len(a) THEN a[j] ELSE b[j - Len(a)]
  BY <1>2, <1>3, ConcatProperties
<1>6. Len(a) + Len(b) = Len(s) - 1
  BY <1>1, <1>2, <1>3
<1>7. ASSUME NEW j \in 1..(Len(s) - 1)
      PROVE  (a \o b)[j] = s[IF j < i THEN j ELSE j + 1]
  <2>1. CASE j < i
    <3>1. j <= Len(a) /\ j \in 1..(i - 1) /\ j \in 1..(Len(a) + Len(b))
      BY <1>1, <1>2, <1>6, <2>1
    <3> QED
      BY <1>2, <1>5, <2>1, <3>1
  <2>2. CASE ~(j < i)
    <3>1. /\ ~(j <= Len(a)) /\ j \in 1..(Len(a) + Len(b))
          /\ j - Len(a) \in 1..(Len(s) - i) /\ (j - Len(a)) + i = j + 1
      BY <1>1, <1>2, <1>6, <2>2
    <3> QED
      BY <1>3, <1>5, <2>2, <3>1
  <2> QED
    BY <2>1, <2>2
<1> QED
  BY <1>4, <1>5, <1>6, <1>7

LEMMA DeselectKeeps ==
  ASSUME NEW s \in Seq(Entry), NEW i \in 1..Len(s)
  PROVE  /\ CellsOnce(s) => CellsOnce(RemoveAt(s, i))
         /\ ColoursOnce(s) => ColoursOnce(RemoveAt(s, i))
<1> DEFINE r == RemoveAt(s, i)
           at(j) == IF j < i THEN j ELSE j + 1
<1>1. Len(s) \in Nat /\ Len(r) = Len(s) - 1 /\ \A j \in 1..(Len(s) - 1) : r[j] = s[at(j)]
  BY RemoveAtCloses, LenProperties
<1> HIDE DEF r
<1>2. ASSUME NEW j \in 1..Len(r), NEW k \in 1..Len(r), j # k
      PROVE  at(j) \in 1..Len(s) /\ at(k) \in 1..Len(s) /\ at(j) # at(k)
             /\ r[j] = s[at(j)] /\ r[k] = s[at(k)]
  BY <1>1, <1>2
<1> HIDE DEF at
<1>3. ASSUME CellsOnce(s) PROVE CellsOnce(r)
  <2> SUFFICES ASSUME NEW j \in 1..Len(r), NEW k \in 1..Len(r), j # k
               PROVE  r[j].uid # r[k].uid
    BY DEF CellsOnce
  <2>1. at(j) \in 1..Len(s) /\ at(k) \in 1..Len(s) /\ at(j) # at(k)
        /\ r[j] = s[at(j)] /\ r[k] = s[at(k)]
    BY <1>2
  <2> QED
    BY <1>3, <2>1 DEF CellsOnce
<1>4. ASSUME ColoursOnce(s) PROVE ColoursOnce(r)
  <2> SUFFICES ASSUME NEW j \in 1..Len(r), NEW k \in 1..Len(r), j # k
               PROVE  r[j].slot # r[k].slot
    BY DEF ColoursOnce
  <2>1. at(j) \in 1..Len(s) /\ at(k) \in 1..Len(s) /\ at(j) # at(k)
        /\ r[j] = s[at(j)] /\ r[k] = s[at(k)]
    BY <1>2
  <2> QED
    BY <1>4, <2>1 DEF ColoursOnce
<1> QED
  BY <1>3, <1>4 DEF r

LEMMA TailKeeps ==
  ASSUME NEW s \in Seq(Entry), s # << >>
  PROVE  /\ Tail(s) \in Seq(Entry) /\ Head(s) \in Entry /\ Head(s) = s[1]
         /\ \A uid : NotAmong(uid, s) => NotAmong(uid, Tail(s))
         /\ CellsOnce(s) => CellsOnce(Tail(s))
         /\ ColoursOnce(s) =>
               ColoursOnce(Tail(s)) /\ \A i \in 1..Len(Tail(s)) : Tail(s)[i].slot # Head(s).slot
<1> DEFINE r == Tail(s)
<1>1. /\ r \in Seq(Entry) /\ Head(s) \in Entry /\ Len(r) = Len(s) - 1
      /\ \A i \in 1..Len(r) : r[i] = s[i + 1]
  BY HeadTailProperties
<1>2. Len(s) \in Nat /\ Len(s) # 0 /\ Head(s) = s[1]
  BY LenProperties, EmptySeq
<1> HIDE DEF r
<1>3. ASSUME NEW i \in 1..Len(r)
      PROVE  i + 1 \in 1..Len(s) /\ i + 1 # 1 /\ 1 \in 1..Len(s) /\ r[i] = s[i + 1]
  BY <1>1, <1>2
<1>4. ASSUME NEW i \in 1..Len(r), NEW j \in 1..Len(r), i # j
      PROVE  /\ i + 1 \in 1..Len(s) /\ j + 1 \in 1..Len(s) /\ i + 1 # j + 1
             /\ r[i] = s[i + 1] /\ r[j] = s[j + 1]
  <2>1. i + 1 # j + 1
    BY <1>1, <1>2, <1>4
  <2> QED
    BY <1>3, <2>1
<1>5. \A uid : NotAmong(uid, s) => NotAmong(uid, r)
  BY <1>3 DEF NotAmong
<1>6. ASSUME CellsOnce(s) PROVE CellsOnce(r)
  <2> SUFFICES ASSUME NEW i \in 1..Len(r), NEW j \in 1..Len(r), i # j
               PROVE  r[i].uid # r[j].uid
    BY DEF CellsOnce
  <2>1. /\ i + 1 \in 1..Len(s) /\ j + 1 \in 1..Len(s) /\ i + 1 # j + 1
        /\ r[i] = s[i + 1] /\ r[j] = s[j + 1]
    BY <1>4
  <2> QED
    BY <1>6, <2>1 DEF CellsOnce
<1>7. ASSUME ColoursOnce(s)
      PROVE  ColoursOnce(r) /\ \A i \in 1..Len(r) : r[i].slot # Head(s).slot
  <2>1. ASSUME NEW i \in 1..Len(r), NEW j \in 1..Len(r), i # j
        PROVE  r[i].slot # r[j].slot
    <3>1. /\ i + 1 \in 1..Len(s) /\ j + 1 \in 1..Len(s) /\ i + 1 # j + 1
          /\ r[i] = s[i + 1] /\ r[j] = s[j + 1]
      BY <1>4, <2>1
    <3> QED
      BY <1>7, <3>1 DEF ColoursOnce
  <2>2. ASSUME NEW i \in 1..Len(r) PROVE r[i].slot # Head(s).slot
    <3>1. i + 1 \in 1..Len(s) /\ i + 1 # 1 /\ 1 \in 1..Len(s) /\ r[i] = s[i + 1]
      BY <1>3
    <3> QED
      BY <1>2, <1>7, <3>1 DEF ColoursOnce
  <2> QED
    BY <2>1, <2>2 DEF ColoursOnce
<1> QED
  BY <1>1, <1>2, <1>5, <1>6, <1>7 DEF r

LEMMA SelectAdds ==
  ASSUME NEW rest \in Seq(Entry), NEW uid \in Uid, NEW slot \in Slots,
         Select(uid, rest, slot), CellsOnce(rest), NotAmong(uid, rest)
  PROVE  /\ picked' \in Seq(Entry) /\ CellsOnce(picked')
         /\ ColoursOnce(rest) /\ (\A i \in 1..Len(rest) : rest[i].slot # slot) =>
               ColoursOnce(picked')
<1> DEFINE e == [uid |-> uid, slot |-> slot]
<1>1. e \in Entry /\ e.uid = uid /\ e.slot = slot
  BY DEF Entry
<1>2. picked' = Append(rest, e)
  BY DEF Select
<1> HIDE DEF e
<1>3. /\ picked' \in Seq(Entry) /\ Len(picked') = Len(rest) + 1
      /\ \A i \in 1..Len(rest) : picked'[i] = rest[i]
      /\ picked'[Len(rest) + 1] = e
  BY <1>1, <1>2, AppendProperties
<1>4. Len(rest) \in Nat
  BY LenProperties
<1>5. ASSUME NEW i \in 1..Len(picked')
      PROVE  \/ i \in 1..Len(rest) /\ picked'[i] = rest[i]
             \/ i = Len(rest) + 1 /\ picked'[i] = e
  <2>1. i \in 1..Len(rest) \/ i = Len(rest) + 1
    BY <1>3, <1>4
  <2> QED
    BY <1>3, <2>1
<1>6. CellsOnce(picked')
  BY <1>1, <1>5 DEF CellsOnce, NotAmong
<1>7. ASSUME ColoursOnce(rest), \A i \in 1..Len(rest) : rest[i].slot # slot
      PROVE  ColoursOnce(picked')
  BY <1>1, <1>5, <1>7 DEF ColoursOnce
<1> QED
  BY <1>3, <1>6, <1>7

(* The three answers to the overflow question.                              *)
LEMMA OverflowKeeps ==
  ASSUME SelectionInv, NEW uid \in Uid, NotAmong(uid, picked), OverflowAction(uid)
  PROVE  /\ picked' \in Seq(Entry) /\ wrapped' \in BOOLEAN /\ CellsOnce(picked')
         /\ wrapped' \/ ColoursOnce(picked')
<1>0. picked \in Seq(Entry) /\ wrapped \in BOOLEAN /\ CellsOnce(picked)
      /\ (wrapped \/ ColoursOnce(picked))
  BY DEF SelectionInv, SelectionTypes
<1>1. CASE Ignore
  BY <1>0, <1>1 DEF Ignore
<1>2. CASE ReplaceOldest(uid)
  <2>1. wrapped' = wrapped
    BY <1>2 DEF ReplaceOldest
  <2>2. CASE picked = << >>
    <3>1. picked' = picked
      BY <1>2, <2>2 DEF ReplaceOldest
    <3> QED
      BY <1>0, <2>1, <3>1
  <2>3. CASE picked # << >>
    <3>1. Select(uid, Tail(picked), Head(picked).slot)
      BY <1>2, <2>3 DEF ReplaceOldest
    <3>2. Tail(picked) \in Seq(Entry) /\ Head(picked).slot \in Slots
          /\ CellsOnce(Tail(picked)) /\ NotAmong(uid, Tail(picked))
      BY <1>0, <2>3, TailKeeps DEF Entry
    <3>3. /\ picked' \in Seq(Entry) /\ CellsOnce(picked')
          /\ ColoursOnce(Tail(picked))
             /\ (\A i \in 1..Len(Tail(picked)) : Tail(picked)[i].slot # Head(picked).slot)
             => ColoursOnce(picked')
      BY <3>1, <3>2, SelectAdds
    <3>4. ColoursOnce(picked) => ColoursOnce(picked')
      BY <1>0, <2>3, <3>3, TailKeeps
    <3> QED
      BY <1>0, <2>1, <3>3, <3>4
  <2> QED
    BY <2>2, <2>3
<1>3. CASE Wrap(uid)
  <2>1. Len(picked) % NSlots \in Slots
    <3>1. Len(picked) \in Nat /\ NSlots \in Nat \ {0}
      BY <1>0, LenProperties, ViewBounds
    <3> QED
      BY <3>1 DEF Slots
  <2>2. Select(uid, picked, Len(picked) % NSlots) /\ wrapped' = TRUE
    BY <1>3 DEF Wrap
  <2>3. picked' \in Seq(Entry) /\ CellsOnce(picked')
    BY <1>0, <2>1, <2>2, SelectAdds
  <2>4. wrapped' /\ wrapped' \in BOOLEAN
    BY <2>2, Zenon
  <2> QED
    BY <2>3, <2>4
<1> QED
  BY <1>1, <1>2, <1>3 DEF OverflowAction

LEMMA SelectionInit == Init => SelectionInv
<1> SUFFICES ASSUME Init PROVE SelectionInv
  OBVIOUS
<1>1. picked = << >> /\ asking = NoUid
  BY DEF Init
<1>2. wrapped \in BOOLEAN
  BY Zenon DEF Init
<1>3. << >> \in Seq(Entry) /\ CellsOnce(<< >>) /\ ColoursOnce(<< >>)
  BY EmptySeq DEF CellsOnce, ColoursOnce
<1> QED
  BY <1>1, <1>2, <1>3 DEF SelectionInv, SelectionTypes

LEMMA ClickSelection ==
  ASSUME ScreenInv, SelectionInv, NEW c \in 1..NCells, Click(c)
  PROVE  SelectionInv'
<1> DEFINE uid == [run |-> cells, cell |-> c]
           held == {i \in DOMAIN picked : picked[i].uid = uid}
<1>0. picked \in Seq(Entry) /\ wrapped \in BOOLEAN /\ CellsOnce(picked)
      /\ (wrapped \/ ColoursOnce(picked)) /\ asking = NoUid
  BY DEF SelectionInv, SelectionTypes, Click, NoQuestion
<1>1. uid \in Uid
  <2>1. cells \in 0..NRuns /\ NRuns \in Nat /\ cells # 0
    BY ViewBounds DEF ScreenInv, ScreenTypes, Click
  <2> QED
    BY <2>1 DEF Uid, Runs
<1>2. DOMAIN picked = 1..Len(picked)
  BY <1>0, LenProperties
<1>3. \/ /\ \E i \in held : picked' = RemoveAt(picked, i)
         /\ wrapped' = (wrapped /\ picked' # << >>) /\ asking' = asking
      \/ /\ held = {} /\ FreeSlots # {}
         /\ Select(uid, picked, Min(FreeSlots)) /\ asking' = asking /\ wrapped' = wrapped
      \/ /\ held = {}
         /\ \/ OverflowAction(uid) /\ asking' = asking
            \/ asking' = uid /\ picked' = picked /\ wrapped' = wrapped
  BY DEF Click
<1>4. held = {} => NotAmong(uid, picked)
  BY <1>2 DEF NotAmong
<1>5. CASE /\ \E i \in held : picked' = RemoveAt(picked, i)
           /\ wrapped' = (wrapped /\ picked' # << >>) /\ asking' = asking
  <2>1. PICK i \in 1..Len(picked) : picked' = RemoveAt(picked, i)
    BY <1>2, <1>5
  <2>2. picked' \in Seq(Entry) /\ CellsOnce(picked')
        /\ (ColoursOnce(picked) => ColoursOnce(picked'))
    BY <1>0, <2>1, RemoveAtCloses, DeselectKeeps
  <2>3. wrapped' \in BOOLEAN /\ (wrapped' <=> wrapped /\ picked' # << >>)
    BY <1>5, Zenon
  <2>4. picked' = << >> => ColoursOnce(picked')
    BY EmptySeq DEF ColoursOnce
  <2> QED
    BY <1>0, <1>5, <2>2, <2>3, <2>4 DEF SelectionInv, SelectionTypes
<1>6. CASE /\ held = {} /\ FreeSlots # {}
           /\ Select(uid, picked, Min(FreeSlots)) /\ asking' = asking /\ wrapped' = wrapped
  <2>1. Min(FreeSlots) \in Slots /\ \A i \in 1..Len(picked) : picked[i].slot # Min(FreeSlots)
    BY <1>0, <1>6, FreeSlotIsFree
  <2> HIDE DEF uid, held
  <2>2. picked' \in Seq(Entry) /\ CellsOnce(picked')
        /\ (ColoursOnce(picked) => ColoursOnce(picked'))
    BY <1>0, <1>1, <1>4, <1>6, <2>1, SelectAdds
  <2> QED
    BY <1>0, <1>6, <2>2 DEF SelectionInv, SelectionTypes
<1>7. CASE held = {} /\ OverflowAction(uid) /\ asking' = asking
  <2> HIDE DEF uid, held
  <2>1. /\ picked' \in Seq(Entry) /\ wrapped' \in BOOLEAN /\ CellsOnce(picked')
        /\ wrapped' \/ ColoursOnce(picked')
    BY <1>1, <1>4, <1>7, OverflowKeeps
  <2> QED
    BY <1>0, <1>7, <2>1 DEF SelectionInv, SelectionTypes
<1>8. CASE held = {} /\ asking' = uid /\ picked' = picked /\ wrapped' = wrapped
  BY <1>0, <1>1, <1>4, <1>8 DEF SelectionInv, SelectionTypes
<1> QED
  BY <1>3, <1>5, <1>6, <1>7, <1>8

LEMMA SelectionNext == ScreenInv /\ SelectionInv /\ [Next]_vars => SelectionInv'
<1> SUFFICES ASSUME ScreenInv, SelectionInv, [Next]_vars PROVE SelectionInv'
  OBVIOUS
<1>1. CASE UNCHANGED pickVars
  <2>1. picked' = picked /\ asking' = asking /\ wrapped' = wrapped
    BY <1>1 DEF pickVars
  <2> QED
    BY <2>1 DEF SelectionInv, SelectionTypes
<1>2. CASE DropSelection
  <2>1. picked' = << >> /\ wrapped' = FALSE /\ asking' = asking
    BY <1>2 DEF DropSelection
  <2>2. wrapped' \in BOOLEAN
    BY <2>1, Zenon
  <2>3. << >> \in Seq(Entry) /\ CellsOnce(<< >>) /\ ColoursOnce(<< >>)
        /\ \A uid : NotAmong(uid, << >>)
    BY EmptySeq DEF CellsOnce, ColoursOnce, NotAmong
  <2> QED
    BY <2>1, <2>2, <2>3 DEF SelectionInv, SelectionTypes
<1>3. CASE \E c \in 1..NCells : Click(c)
  BY <1>3, ClickSelection
<1>4. CASE Answer
  <2>1. asking \in Uid /\ asking # NoUid /\ NotAmong(asking, picked)
        /\ OverflowAction(asking) /\ asking' = NoUid
    BY <1>4 DEF Answer, SelectionInv, SelectionTypes
  <2>2. /\ picked' \in Seq(Entry) /\ wrapped' \in BOOLEAN /\ CellsOnce(picked')
        /\ wrapped' \/ ColoursOnce(picked')
    BY <2>1, OverflowKeeps
  <2> QED
    BY <2>1, <2>2 DEF SelectionInv, SelectionTypes
<1>5. CASE Pipeline \/ UNCHANGED vars
  <2>1. UNCHANGED pickVars
    BY <1>5 DEF Pipeline, RunBegins, ScanCompletes, CellsTracked, vars
  <2> QED
    BY <1>1, <2>1
<1>6. CASE Timer
  <2>1. UNCHANGED pickVars \/ DropSelection
    BY <1>6 DEF Timer, Refresh, LoopTick, SoonFires, ShowLatest, AdoptionFires, ChangeRun
  <2> QED
    BY <1>1, <1>2, <2>1
<1>7. CASE User
  <2>1. \/ UNCHANGED pickVars \/ DropSelection
        \/ (\E c \in 1..NCells : Click(c)) \/ Answer
    BY <1>7 DEF User, PickRun, ReopenStore, ChangeRun, ShowLatestKey, ShowLatest,
                ClearTracks, ResetView, Browse, LoopOff, LoopOn, CloseCancelled
  <2> QED
    BY <1>1, <1>2, <1>3, <1>4, <2>1
<1> QED
  BY <1>5, <1>6, <1>7 DEF Next

(* The inductive invariant of the selection: every cell once, and the cell   *)
(* the overflow question is about not yet selected.                          *)
(* (_scan_view.py _on_cell_click, _ask_overflow_action)                      *)
THEOREM SelectionInvariant == Spec => []SelectionInv
<1>1. Init => SelectionInv
  BY SelectionInit
<1>2. ScreenInv /\ SelectionInv /\ [Next]_vars => SelectionInv'
  BY SelectionNext
<1> QED
  BY <1>1, <1>2, ScreenInvariant, PTL DEF Spec

(* Two selected cells share a colour only if one was wrapped, for any number *)
(* of cells and colours.                                                     *)
(* (_utils.py _next_free_color_slot, _apply_overflow_action)                 *)
THEOREM SlotsDistinctHolds == Spec => []SlotsDistinctUnlessWrapped
<1>1. SelectionInv => SlotsDistinctUnlessWrapped
  <2> SUFFICES ASSUME SelectionInv PROVE SlotsDistinctUnlessWrapped
    OBVIOUS
  <2>1. DOMAIN picked = 1..Len(picked)
    BY LenProperties DEF SelectionInv, SelectionTypes
  <2> QED
    BY <2>1 DEF SelectionInv, ColoursOnce, SlotsDistinctUnlessWrapped
<1> QED
  BY <1>1, SelectionInvariant, PTL

(* Every variable of the tab keeps its type.                                 *)
THEOREM ViewTypes == Spec => []TypeOK
<1>1. ScreenInv /\ SelectionInv => TypeOK
  BY DEF ScreenInv, StoreTypes, ScreenTypes, LoopTypes, SelectionInv, SelectionTypes,
         Entry, TypeOK
<1> QED
  BY <1>1, ScreenInvariant, SelectionInvariant, PTL
=============================================================================
