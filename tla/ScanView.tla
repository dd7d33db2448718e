------------------------------- MODULE ScanView -------------------------------
(***************************************************************************)
(* The dashboard's Latest Scan tab and the shell's run selection: which     *)
(* scan of which run is on the screen, who may change it, and what the     *)
(* user has selected on it.                                                *)
(*                                                                         *)
(* Everything runs on the Tk main thread, one callback at a time: clicks   *)
(* and keys, the refresh timer, the loop timer, the one-shot that shows    *)
(* the latest scan after a run was chosen, and the one-shots that scan an  *)
(* adopted store again.  The overflow question runs a nested event loop:   *)
(* timers fire while it is open.  The pipeline is the environment: it      *)
(* begins runs and completes scans.                                        *)
(*                                                                         *)
(* A scan is a number: a later scan has a larger one, and two runs of one  *)
(* collection name the same volume by the same scan_id and the same label. *)
(* Left out: the camera, the controls of the plot, time series, widgets,   *)
(* the view mode and the selector's text (written, and read by nothing     *)
(* that is modelled: Browse names its scan), and the choice of a           *)
(* collection (choosing one is choosing its runs).                         *)
(***************************************************************************)
EXTENDS Naturals, Sequences, FiniteSets, FiniteSetsExt, Functions, SequencesExt

CONSTANTS
    NRuns,      \* bound: runs the pipeline begins, numbered in order
    MaxScans,   \* bound: complete scans of a run
    NCells,     \* cells of a scan, by their label
    NSlots,     \* _N_COLOR_SLOTS (7 in the code)
    LoopN,      \* the "Loop N" control
    MaxFails    \* bound: scans that cannot be opened or rendered, and tables that
                \* cannot be read

ASSUME ViewBounds ==
    /\ NRuns \in Nat \ {0} /\ MaxScans \in Nat /\ NCells \in Nat
    /\ NSlots \in Nat \ {0} /\ LoopN \in Nat \ {0, 1} /\ MaxFails \in Nat

VARIABLES
    \* ---- the store, as the client reads it ----
    begun,      \* runs begun so far; the newest is number begun
    size,       \* size[r]: complete scans of run r
    tracked,    \* the runs with rows in cells_by_scan
    \* ---- the shell ----
    sel,        \* the Run selector; 0 when it is empty
    adoptions,  \* one-shots still to come that scan the store again
    \* ---- ScanViewTab ----
    listed,     \* the length of _listed, the scans the selector offers
    canvas,     \* _canvas_refs is not None
    ds,         \* _current_nc_ds and, while it is held, _current_scan_id;
                \* NoFrame for none
    cells,      \* _current_run_id, the run of _current_cell_df; 0 for none
    last,       \* _last_rendered_scan_id; 0 for none
    loop,       \* _state.loop_running
    frames,     \* _loop_refs; read only while the loop runs, << >> otherwise
    index,      \* _loop_index, modulo the number of frames
    loopTimer,  \* the "loop" timer is pending
    soon,       \* the one-shot show_latest is pending
    picked,     \* _selected_cells in insertion order, with colour slots
    asking,     \* the uid the overflow question is about; NoUid: not open
    \* ---- history ----
    fails,      \* scans that failed to render and tables that failed to load
    wrapped     \* a slot was reused since the selection was last empty

storeVars == <<begun, size, tracked>>
loopVars == <<loop, frames, index, loopTimer>>
screenVars == <<canvas, ds>>
pickVars == <<picked, asking, wrapped>>
vars == <<storeVars, sel, adoptions, listed, screenVars, cells, last,
          loopVars, soon, pickVars, fails>>

Runs == 1..NRuns
Frame == [run : Runs, scan : 1..MaxScans]
NoFrame == [run |-> 0, scan |-> 0]
Uid == [run : Runs, cell : 1..NCells]
NoUid == [run |-> 0, cell |-> 0]
Slots == 0..(NSlots - 1)

TypeOK ==
    /\ begun \in 0..NRuns /\ size \in [Runs -> 0..MaxScans] /\ tracked \subseteq Runs
    /\ sel \in 0..begun /\ adoptions \in 0..1
    /\ listed \in 0..MaxScans
    /\ canvas \in BOOLEAN /\ ds \in Frame \cup {NoFrame}
    /\ cells \in 0..NRuns
    /\ last \in 0..MaxScans
    /\ loop \in BOOLEAN
    /\ frames \in Seq(Frame) /\ Len(frames) <= LoopN /\ index \in Nat
    /\ loopTimer \in BOOLEAN /\ soon \in BOOLEAN
    /\ picked \in Seq([uid : Uid, slot : Slots]) /\ asking \in Uid \cup {NoUid}
    /\ fails \in 0..MaxFails /\ wrapped \in BOOLEAN

Init ==
    /\ begun = 0 /\ size = [r \in Runs |-> 0] /\ tracked = {}
    /\ sel = 0 /\ adoptions = 1
    /\ listed = 0
    /\ canvas = FALSE /\ ds = NoFrame /\ cells = 0 /\ last = 0
    /\ loop = FALSE /\ frames = << >> /\ index = 0
    /\ loopTimer = FALSE /\ soon = FALSE
    /\ picked = << >> /\ asking = NoUid
    /\ fails = 0 /\ wrapped = FALSE

(***************************************************************************)
(* What callbacks share                                                    *)
(***************************************************************************)
\* AppContext.active_run_id: the selected run, else the newest, else none.
ActiveOf(s) == IF s # 0 THEN s ELSE begun
Active == ActiveOf(sel)

\* The complete scans of run r.
Complete(r) == IF r = 0 THEN 0 ELSE size[r]

\* _load_scan_timeline for the run that is active when the selector is s.
ReadTimeline(s) == listed' = Complete(ActiveOf(s))

\* Mutant: the table of the run shown before stays when this one has no rows.
LoadCellsKeeps == cells' = IF Active \in tracked THEN Active ELSE cells

\* _load_cells_data: the table is dropped first; a run with complete scans has
\* no rows until the tables are declared and one of its scans is tracked.
LoadCells == cells' = IF Active \in tracked THEN Active ELSE 0

\* _load_cells_data when the query raises: the table is gone, and so is what
\* the caller had yet to do.
CellsUnread == fails < MaxFails /\ fails' = fails + 1 /\ cells' = 0

\* _redraw over a canvas, or _render_ref where there is none: the new frame
\* is kept only when it was rendered.
Rendered(f) == canvas' = TRUE /\ ds' = f /\ UNCHANGED fails
NotRendered ==
    /\ fails < MaxFails
    /\ fails' = fails + 1
    /\ UNCHANGED screenVars

TornDown == canvas' = FALSE /\ ds' = NoFrame

\* The timer of a stopped loop stays pending and finds the loop off.
StopLoop ==
    /\ loop' = FALSE /\ frames' = << >> /\ index' = 0
    /\ UNCHANGED loopTimer

\* _clear_canvas: the map is torn down, the loop stops, live refresh is off.
ClearCanvas == StopLoop /\ last' = 0 /\ TornDown

DropSelection == picked' = << >> /\ wrapped' = FALSE /\ UNCHANGED asking

NoQuestion == asking = NoUid

(***************************************************************************)
(* The pipeline                                                            *)
(***************************************************************************)
RunBegins ==
    /\ begun < NRuns
    /\ begun' = begun + 1
    /\ UNCHANGED <<size, tracked, sel, adoptions, listed, screenVars, cells, last,
                   loopVars, soon, pickVars, fails>>

ScanCompletes(r) ==
    /\ r <= begun /\ size[r] < MaxScans
    /\ size' = [size EXCEPT ![r] = @ + 1]
    /\ UNCHANGED <<begun, tracked, sel, adoptions, listed, screenVars, cells,
                   last, loopVars, soon, pickVars, fails>>

\* The first tracked cells of run r are written, after the scan they are of
\* is complete; a quiet scan writes none.
CellsTracked(r) ==
    /\ size[r] > 0 /\ r \notin tracked
    /\ tracked' = tracked \cup {r}
    /\ UNCHANGED <<begun, size, sel, adoptions, listed, screenVars, cells,
                   last, loopVars, soon, pickVars, fails>>

(***************************************************************************)
(* Timers                                                                  *)
(***************************************************************************)
\* Mutant: only a map that is there is refreshed.
StaleIfCanvas(n) == ~loop /\ n > 0 /\ last # 0 /\ last # n /\ canvas

\* A newer scan replaces the picture when live refresh is on.
Stale(n) == ~loop /\ n > 0 /\ last # 0 /\ last # n

\* _refresh_all on its timer or by Ctrl+R: the timeline is read again and the
\* picture replaced by a newer scan; a failure is logged and met again by the
\* next refresh.
Refresh ==
    LET n == Complete(Active) IN
    /\ ReadTimeline(sel)
    /\ \/ /\ ~Stale(n)
          /\ UNCHANGED <<screenVars, cells, last, fails>>
       \/ /\ Stale(n)
          /\ LoadCells
          /\ Rendered([run |-> Active, scan |-> n])
          /\ last' = n
       \/ /\ Stale(n)
          /\ LoadCells
          /\ NotRendered
          /\ UNCHANGED last
       \/ /\ Stale(n)
          /\ CellsUnread
          /\ UNCHANGED <<screenVars, last>>
    /\ UNCHANGED <<storeVars, sel, adoptions, loopVars, soon, pickVars>>

\* _loop_step: the next frame, and the timer again if it could be rendered.
LoopTick ==
    /\ loopTimer
    /\ IF ~loop
       THEN /\ loopTimer' = FALSE
            /\ UNCHANGED <<loop, frames, index, screenVars, fails>>
       ELSE /\ index' = (index + 1) % Len(frames)
            /\ UNCHANGED <<loop, frames>>
            /\ \/ /\ Rendered(frames[index + 1])
                  /\ UNCHANGED loopTimer
               \/ /\ NotRendered
                  /\ loopTimer' = FALSE
    /\ UNCHANGED <<storeVars, sel, adoptions, listed, cells, last,
                   soon, pickVars>>

\* show_latest: the display goes to the newest scan and follows from there;
\* with no complete scan there is only a message.
ShowLatest ==
    LET n == Complete(Active) IN
    /\ ReadTimeline(sel)
    /\ \/ /\ n = 0
          /\ UNCHANGED <<screenVars, cells, last, loopVars, fails>>
       \/ /\ n > 0
          /\ StopLoop
          /\ \/ /\ LoadCells
                /\ last' = n
                /\ Rendered([run |-> Active, scan |-> n]) \/ NotRendered
             \/ /\ CellsUnread
                /\ UNCHANGED <<screenVars, last>>
    /\ UNCHANGED <<storeVars, sel, adoptions, pickVars>>

\* The one-shot of show_latest_soon.
SoonFires ==
    /\ soon
    /\ soon' = FALSE
    /\ ShowLatest

(***************************************************************************)
(* Choosing a run                                                          *)
(***************************************************************************)
\* on_run_changed, the selector set to s, the refresh, show_latest_soon.
ChangeRun(s) ==
    LET n == Complete(ActiveOf(s)) IN
    /\ ClearCanvas /\ DropSelection
    /\ sel' = s
    /\ ReadTimeline(s)
    /\ soon' = (soon \/ n > 0)
    /\ UNCHANGED <<storeVars, cells, fails>>

\* _on_run_changed: the user picks a run.
PickRun(r) ==
    /\ NoQuestion /\ r <= begun
    /\ ChangeRun(r)
    /\ UNCHANGED adoptions

\* _on_repo_changed and _on_radar_changed: the newest run is selected.  By
\* hand, or by the one-shots of _adopt_repo, which fire whatever is open.
ReopenStore ==
    /\ NoQuestion
    /\ ChangeRun(begun)
    /\ UNCHANGED adoptions

AdoptionFires ==
    /\ adoptions > 0
    /\ adoptions' = adoptions - 1
    /\ ChangeRun(begun)

(***************************************************************************)
(* The user                                                                *)
(***************************************************************************)
ShowLatestKey ==
    /\ NoQuestion
    /\ ShowLatest
    /\ UNCHANGED soon

\* "Clear Tracks".
ClearTracks ==
    /\ NoQuestion
    /\ ClearCanvas /\ DropSelection
    /\ UNCHANGED <<storeVars, sel, adoptions, listed, cells, soon, fails>>

\* reset_view: the map is torn down and the newest scan rendered afresh.
ResetView ==
    LET n == Complete(Active) IN
    /\ NoQuestion
    /\ DropSelection
    /\ ReadTimeline(sel)
    /\ StopLoop
    /\ IF n = 0
       THEN last' = 0 /\ TornDown /\ UNCHANGED <<cells, fails>>
       ELSE \/ /\ LoadCells /\ last' = n
               /\ \/ Rendered([run |-> Active, scan |-> n])
                  \/ fails < MaxFails /\ fails' = fails + 1 /\ TornDown
            \/ CellsUnread /\ last' = 0 /\ TornDown
    /\ UNCHANGED <<storeVars, sel, adoptions, soon>>

\* _inline_render of scan k: the selector's list, prev_scan and next_scan,
\* which step through the timeline as it was last read.
Browse(k) ==
    /\ NoQuestion /\ k \in 1..listed
    /\ ReadTimeline(sel)
    /\ \/ /\ k > Complete(Active)
          /\ UNCHANGED <<loopVars, cells, screenVars, fails>>
       \/ /\ k <= Complete(Active)
          /\ StopLoop
          /\ \/ /\ LoadCells
                /\ Rendered([run |-> Active, scan |-> k]) \/ NotRendered
             \/ CellsUnread /\ UNCHANGED screenVars
    /\ UNCHANGED <<storeVars, sel, adoptions, last, soon, pickVars>>

LoopOff ==
    /\ NoQuestion /\ loop
    /\ StopLoop
    /\ UNCHANGED <<storeVars, sel, adoptions, listed, screenVars, cells,
                   last, soon, pickVars, fails>>

\* The last LoopN frames of the active run.
LoopFrames ==
    LET n == Complete(Active)
        from == IF n > LoopN THEN n - LoopN ELSE 0
    IN [i \in 1..(n - from) |-> [run |-> Active, scan |-> from + i]]

\* A fresh canvas shows the first frame, then the timer is set.
LoopBegins ==
    /\ LoadCells
    /\ frames' = LoopFrames
    /\ loop' = TRUE /\ last' = 0
    /\ \/ /\ Rendered(LoopFrames[1])
          /\ index' = 1 % Len(LoopFrames) /\ loopTimer' = TRUE
       \/ /\ fails < MaxFails /\ fails' = fails + 1
          /\ TornDown
          /\ index' = 0 /\ UNCHANGED loopTimer

\* toggle_loop; nothing is begun when the cells cannot be read.
LoopOn ==
    /\ NoQuestion /\ ~loop /\ Complete(Active) > 0
    /\ \/ LoopBegins
       \/ CellsUnread /\ UNCHANGED <<screenVars, last, loopVars>>
    /\ UNCHANGED <<storeVars, sel, adoptions, listed, soon, pickVars>>

\* _on_close answered with Cancel: the timers of the tab are gone.
CloseCancelled ==
    /\ NoQuestion
    /\ loop' = FALSE /\ frames' = << >> /\ index' = 0
    /\ loopTimer' = FALSE /\ soon' = FALSE /\ adoptions' = 0
    /\ UNCHANGED <<storeVars, sel, listed, screenVars, cells, last,
                   pickVars, fails>>

(***************************************************************************)
(* Selecting cells                                                         *)
(***************************************************************************)
\* _next_free_color_slot
FreeSlots == Slots \ {picked[i].slot : i \in DOMAIN picked}

Select(uid, rest, slot) == picked' = Append(rest, [uid |-> uid, slot |-> slot])

\* _apply_overflow_action for the cell uid.
Ignore == UNCHANGED <<picked, wrapped>>
\* Mutant: the replaced cell stays selected.
ReplaceOldestKeeps(uid) ==
    /\ IF picked = << >> THEN UNCHANGED picked
                         ELSE Select(uid, picked, Head(picked).slot)
    /\ UNCHANGED wrapped
ReplaceOldest(uid) ==
    /\ IF picked = << >> THEN UNCHANGED picked
                         ELSE Select(uid, Tail(picked), Head(picked).slot)
    /\ UNCHANGED wrapped
Wrap(uid) ==
    /\ Select(uid, picked, Len(picked) % NSlots)
    /\ wrapped' = TRUE
OverflowAction(uid) == Ignore \/ ReplaceOldest(uid) \/ Wrap(uid)

\* _on_cell_click on the cell labelled c: its uid is looked up by the scan on
\* the screen and the run whose cells are loaded.
Click(c) ==
    LET uid == [run |-> cells, cell |-> c]
        held == {i \in DOMAIN picked : picked[i].uid = uid}
    IN
    /\ NoQuestion /\ canvas /\ ds # NoFrame /\ cells # 0
    /\ \/ /\ held # {}
          /\ \E i \in held : picked' = RemoveAt(picked, i)
          /\ wrapped' = (wrapped /\ picked' # << >>)
          /\ UNCHANGED asking
       \/ /\ held = {} /\ FreeSlots # {}
          /\ Select(uid, picked, Min(FreeSlots))
          /\ UNCHANGED <<asking, wrapped>>
       \/ /\ held = {} /\ FreeSlots = {}
          /\ Len(picked) <= NSlots
          /\ \/ OverflowAction(uid) /\ UNCHANGED asking
             \/ asking' = uid /\ UNCHANGED <<picked, wrapped>>
    /\ UNCHANGED <<storeVars, sel, adoptions, listed, screenVars, cells,
                   last, loopVars, soon, fails>>

\* _ask_overflow_action returns: what was true at the click may be gone.
Answer ==
    /\ asking # NoUid
    /\ asking' = NoUid
    /\ OverflowAction(asking)
    /\ UNCHANGED <<storeVars, sel, adoptions, listed, screenVars, cells,
                   last, loopVars, soon, fails>>

(***************************************************************************)
(* The specification                                                       *)
(***************************************************************************)
Pipeline == RunBegins \/ \E r \in Runs : ScanCompletes(r) \/ CellsTracked(r)
Timer == Refresh \/ LoopTick \/ SoonFires \/ AdoptionFires
User ==
    \/ \E r \in Runs : PickRun(r)
    \/ ReopenStore
    \/ ShowLatestKey
    \/ ClearTracks
    \/ ResetView
    \/ \E k \in 1..MaxScans : Browse(k)
    \/ LoopOff
    \/ LoopOn
    \/ CloseCancelled
    \/ \E c \in 1..NCells : Click(c)
    \/ Answer

Next == Pipeline \/ Timer \/ User

Spec == Init /\ [][Next]_vars

\* Tk fires a pending timer; the refresh timer is re-armed in a finally, and
\* nested event loops run timers too.  The user and the pipeline owe nothing.
FairSpec == Spec /\ WF_vars(Refresh) /\ WF_vars(LoopTick) /\ WF_vars(SoonFires)

(***************************************************************************)
(* Properties                                                              *)
(***************************************************************************)
\* While a run is selected, what is on the screen is of that run: the raster,
\* and the cell table, if any is loaded, that hover and click join with it.
\* Scan ids and labels repeat between runs, so a raster of one run joined with
\* the cells of another would not even look wrong; a run without tracked cells,
\* or whose table could not be read, is shown without a table, never with the
\* table of the run shown before.
\* (_scan_view.py _clear_canvas, _load_cells_data, _loop_step, refresh)
PinnedRunOnScreen ==
    sel # 0 /\ ds # NoFrame => ds.run = sel /\ cells \in {0, sel}

\* Two selected cells share a colour only if one was wrapped, however cells
\* were deselected or replaced, and although the selection may be dropped
\* under an open overflow question.
\* (_utils.py _next_free_color_slot, _apply_overflow_action)
SlotsDistinctUnlessWrapped ==
    wrapped \/ \A i, j \in DOMAIN picked : i # j => picked[i].slot # picked[j].slot

\* Live refresh catches up: once a scan of the selected run was shown live and
\* no loop is on, a newer one is shown although some cannot be opened, unless
\* the map is torn down, as it is when another run is chosen, or a loop starts.
\* (_scan_view.py refresh)
FollowsNewScans ==
    (sel # 0 /\ last # 0 /\ last # Complete(sel) /\ ~loop) ~>
        (last = Complete(sel) \/ last = 0 \/ loop)
=============================================================================
