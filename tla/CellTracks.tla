------------------------------- MODULE CellTracks -------------------------------
(***************************************************************************)
(* Cell identities of one run, from the processor's frame pairing to the   *)
(* track tables:                                                           *)
(*                                                                         *)
(*   _scan_history and the time gap check (runtime/processor.py);          *)
(*   TrackingModule and CellTracker (execution/nodes/tracking.py,          *)
(*   modules/tracking/): the previous scan's cells and their uids, which   *)
(*   live as long as the process;                                          *)
(*   TrackStore.write_scan (persistence/track_store.py): cells_by_scan,    *)
(*   cell_events and cell_tracks, which outlive it.                        *)
(*                                                                         *)
(* A scan's segmentation is a function of its bytes, so the number of its  *)
(* cells is part of the input; which pairs of cells match, split or merge  *)
(* is left open.  A uid is written as the <<scan, label>> of its birth,    *)
(* which the signature hashes.  The links and statuses of a scan are       *)
(* those of ScanStore; all that matters here is which scans a resumed run  *)
(* takes again.                                                            *)
(***************************************************************************)
EXTENDS Integers, FiniteSets

CONSTANTS
  NScans,          (* scans of the run                                       *)
  MaxCells,        (* cells a scan may have                                  *)
  Inputs,          (* the inputs considered: cells and time of every scan    *)
  PairGap,         (* projector.max_time_interval_minutes                    *)
  TrackGap,        (* tracker.max_tracking_gap_minutes                       *)
  MaxStarts,       (* bound on processes started                             *)
  MaxFaults        (* bound on late scans and raised errors                  *)

Scans == 1 .. NScans

ASSUME ConstantsAssumption ==
  /\ NScans \in Nat \ {0} /\ MaxCells \in Nat
  /\ \A i \in Inputs :
       /\ i.cells \in [Scans -> 0 .. MaxCells]
       /\ i.time \in [Scans -> Nat]
       /\ \A s, t \in Scans : s < t => i.time[s] < i.time[t]
  /\ PairGap \in Nat /\ TrackGap \in Nat
  /\ MaxStarts \in Nat /\ MaxFaults \in Nat

VARIABLES
  input,           (* fixed for the behaviour                                *)
  up,              (* a process is running                                   *)
  seen,            (* scans this process was handed                          *)
  hist,            (* the scan of _scan_history[-1], 0 if empty              *)
  prev,            (* CellTracker._previous_scan: its scan and uids by label *)
  lutPrev,         (* the scan of TrackingModule._prev_tracked_cells, or 0   *)
  pc, cur,         (* where the processor is, and with which scan            *)
  batch            (* tracked_cells and cell_events of the current scan      *)

VARIABLES
  complete,        (* scans the catalog holds complete                       *)
  rows,            (* cells_by_scan                                          *)
  events,          (* cell_events                                            *)
  tracks,          (* cell_tracks, by cell_uid                               *)
  luts             (* of each analysis NetCDF, whose labels and whose uids   *)
                   (* its registration frames and registration LUT carry     *)

(* What the properties need to remember of the past; no action reads these   *)
(* but writes, which numbers the event rows of one scan's attempts.          *)
VARIABLES
  writes,          (* times write_scan committed a scan                      *)
  lost,            (* scans tracked whose rows were never written            *)
  slipped,         (* this process saw a late scan, or lost the pairing      *)
  starts, faults

memory == <<up, seen, hist, prev, lutPrev, pc, cur, batch>>
tables == <<rows, events, tracks>>
aux    == <<lost, slipped, starts, faults>>
vars   == <<input, memory, complete, tables, luts, writes, aux>>

CellsOf(s) == 1 .. input.cells[s]
Uids       == Scans \X (1 .. MaxCells)
NoCell     == <<0, 0>>
NoTracks   == [scan |-> 0, uid |-> <<>>]
NoBatch    == [uid |-> <<>>, events |-> {}]

UidsIn(uid) == {uid[c] : c \in DOMAIN uid}

Init ==
  /\ input \in Inputs
  /\ up = FALSE /\ seen = {} /\ hist = 0 /\ prev = NoTracks /\ lutPrev = 0
  /\ pc = "idle" /\ cur = 1 /\ batch = NoBatch
  /\ complete = {} /\ rows = {} /\ events = {} /\ tracks = <<>>
  /\ luts = [s \in Scans |-> [labels |-> 0, uids |-> 0]]
  /\ writes = [s \in Scans |-> 0]
  /\ lost = {} /\ slipped = FALSE /\ starts = 0 /\ faults = 0

Fault == faults < MaxFaults /\ faults' = faults + 1

-----------------------------------------------------------------------------
(***************************************************************************)
(* The process and the scans it is handed.                                 *)
(***************************************************************************)

(* A run starts or is resumed: history and tracker are new objects. *)
Start ==
  /\ ~up /\ starts < MaxStarts
  /\ up' = TRUE /\ starts' = starts + 1
  /\ seen' = {} /\ hist' = 0 /\ prev' = NoTracks /\ lutPrev' = 0
  /\ pc' = "idle" /\ cur' = 1 /\ batch' = NoBatch
  /\ slipped' = FALSE
  /\ UNCHANGED <<input, complete, tables, luts, writes, lost, faults>>

ProcessEnds ==
  /\ up /\ up' = FALSE
  /\ seen' = {} /\ hist' = 0 /\ prev' = NoTracks /\ lutPrev' = 0
  /\ pc' = "idle" /\ cur' = 1 /\ batch' = NoBatch
  /\ UNCHANGED <<input, complete, tables, luts, writes, aux>>

(* Scans come in time order; one whose download failed may come later, or    *)
(* not at all.                                                               *)
Handed(s) ==
  /\ up /\ pc = "idle" /\ s \notin seen
  /\ seen' = seen \union {s}
  /\ \/ (\A x \in seen : x < s) /\ UNCHANGED <<faults, slipped>>
     \/ ~(\A x \in seen : x < s) /\ Fault /\ slipped' = TRUE

(* process_file: a complete scan is skipped before it enters the history. *)
Skip(s) ==
  /\ s \in complete /\ Handed(s)
  /\ UNCHANGED <<input, up, hist, prev, lutPrev, pc, cur, batch, complete, tables,
                 luts, writes, lost, starts>>

Take(s) ==
  /\ s \notin complete /\ Handed(s)
  /\ pc' = "run" /\ cur' = s
  /\ UNCHANGED <<input, up, hist, prev, lutPrev, batch, complete, tables, luts,
                 writes, lost, starts>>

-----------------------------------------------------------------------------
(***************************************************************************)
(* Frame pairing and tracking.                                             *)
(***************************************************************************)

Apart(s, t) == IF s < t THEN input.time[t] - input.time[s]
                        ELSE input.time[s] - input.time[t]

(* A prior scan, and not too far away: _validate_time_gap takes the absolute *)
(* value.                                                                    *)
PairsUp == hist # 0 /\ Apart(hist, cur) <= PairGap

(* Mutant: a full history (here of one entry) drops the new entry: pop() for   *)
(* pop(0).                                                                   *)
HistoryPopsNewest == hist' = IF hist = 0 THEN cur ELSE hist

HistoryMoves == hist' = cur

(* The modules that need a pair are skipped; the scan enters the history. *)
RunSingle ==
  /\ pc = "run" /\ ~PairsUp
  /\ HistoryMoves
  /\ pc' = "idle"
  /\ UNCHANGED <<input, up, seen, prev, lutPrev, cur, batch, complete, tables, luts,
                 writes, aux>>

Born(c) == <<cur, c>>

Event(type, src, dst) == [type |-> type, src |-> src, dst |-> dst]

Initiations(cs) == {Event("INITIATION", NoCell, Born(c)) : c \in cs}

AllBorn == [c \in CellsOf(cur) |-> Born(c)]

(* _gap_forces_reset: time ran backwards, or too far. *)
StartsOver == cur <= prev.scan \/ input.time[cur] - input.time[prev.scan] > TrackGap

(* track() of a process's first pair, and _reset_tracks. *)
FreshTracks ==
  [uid    |-> AllBorn,
   events |-> Initiations(CellsOf(cur)) \union
              {Event("TERMINATION", u, NoCell) : u \in UidsIn(prev.uid)}]

(* The label of the previous cell each current cell continues, 0 if none:    *)
(* constraint propagation and the assignment use a cell at most once.        *)
Matchings ==
  {m \in [CellsOf(cur) -> {0} \union DOMAIN prev.uid] :
     \A c, d \in CellsOf(cur) : m[c] = m[d] /\ c # d => m[c] = 0}

Matched(m)    == {c \in CellsOf(cur) : m[c] # 0}
Unmatched(m)  == CellsOf(cur) \ Matched(m)
Dissipated(m) == DOMAIN prev.uid \ {m[c] : c \in Matched(m)}

(* Mutant: a split child is initiated as well. *)
InitiatedOrSplit(m, split) == Unmatched(m)

(* _emit_births leaves out the split children. *)
Initiated(m, split) == {c \in Unmatched(m) : split[c] = 0}

(* Mutant: a merged cell is not terminated, as a split child is not born. *)
TerminatedUnmerged(m, merge) == {d \in Dissipated(m) : merge[d] = 0}

(* _emit_terminations does not leave out the merged cells. *)
Terminated(m, merge) == Dissipated(m)

(* _track_frame_pair: split gives the continuing cell an unmatched one split *)
(* from, merge the continuing cell a dissipated one went into, 0 if none.    *)
FramePair(m, split, merge) ==
  LET uid == [c \in CellsOf(cur) |-> IF m[c] # 0 THEN prev.uid[m[c]] ELSE Born(c)]
      into(d) == IF merge[d] = 0 THEN NoCell ELSE uid[merge[d]]
  IN [uid    |-> uid,
      events |->
        {Event("CONTINUE", uid[c], uid[c]) : c \in Matched(m)} \union
        {Event("SPLIT", uid[split[c]], uid[c]) :
           c \in {x \in Unmatched(m) : split[x] # 0}} \union
        Initiations(Initiated(m, split)) \union
        {Event("MERGE", prev.uid[d], into(d)) :
           d \in {x \in Dissipated(m) : merge[x] # 0}} \union
        {Event("TERMINATION", prev.uid[d], into(d)) : d \in Terminated(m, merge)}]

(* CellTracker.track; the first pair of a process has no one to terminate. *)
Tracked ==
  IF prev.scan = 0 \/ StartsOver THEN {FreshTracks}
  ELSE UNION {{FramePair(m, split, merge) :
                 split \in [Unmatched(m) -> {0} \union Matched(m)],
                 merge \in [Dissipated(m) -> {0} \union Matched(m)]} :
              m \in Matchings}

(* Mutant: after a reset the tracker still holds the cells it terminated. *)
TrackerKeepsReset(b) ==
  prev' = IF prev.scan # 0 /\ StartsOver THEN prev ELSE [scan |-> cur, uid |-> b.uid]

(* _previous_scan takes every tracked scan, an empty one included. *)
TrackerMoves(b) == prev' = [scan |-> cur, uid |-> b.uid]

(* The pair is projected, analysed and tracked, the LUTs are attached and    *)
(* the scan enters the history.  The registration frames carry the labels of *)
(* the history's last scan; _prev_tracked_cells keeps the last scan that had *)
(* cells.                                                                    *)
RunPair ==
  /\ pc = "run" /\ PairsUp
  /\ \E b \in Tracked : batch' = b /\ TrackerMoves(b)
  /\ luts' = [luts EXCEPT ![cur] = [labels |-> hist, uids |-> lutPrev]]
  /\ lutPrev' = IF CellsOf(cur) = {} THEN lutPrev ELSE cur
  /\ HistoryMoves
  /\ pc' = "link"
  /\ UNCHANGED <<input, up, seen, cur, complete, tables, writes, aux>>

-----------------------------------------------------------------------------
(***************************************************************************)
(* Persistence.                                                            *)
(***************************************************************************)

(* The grid, the statistics and the analysis dataset are written and linked  *)
(* first, and make the scan complete.  A scan without cells has no table to  *)
(* link, and its batch goes no further.                                      *)
LinkRequired ==
  /\ pc = "link"
  /\ IF CellsOf(cur) = {} THEN pc' = "idle" /\ batch' = NoBatch /\ UNCHANGED complete
     ELSE pc' = "tables" /\ complete' = complete \union {cur} /\ UNCHANGED batch
  /\ UNCHANGED <<input, up, seen, hist, prev, lutPrev, cur, tables, luts, writes, aux>>

(* UNIQUE (run_id, scan_id, cell_label) against the upsert on cell_uid. *)
LabelTaken == \E r \in rows : r.scan = cur /\ r.uid # batch.uid[r.label]

(* Mutant: scan_time <= ? *)
UpToThis(s) == s <= cur

Earlier(s) == s < cur

(* _prev_scan: the latest earlier scan that has rows, whatever the tracker   *)
(* took for the previous one.                                                *)
PrevInTable ==
  LET candidates == {s \in Scans : Earlier(s) /\ (s = cur \/ \E r \in rows : r.scan = s)}
  IN IF candidates = {} THEN 0 ELSE CHOOSE s \in candidates : \A t \in candidates : t <= s

Sources(type) == {e.src : e \in {x \in batch.events : x.type = type}}

(* _update_retroactive_flags on the rows of the previous scan in the table. *)
Flagged(r) ==
  IF r.scan = PrevInTable
  THEN [r EXCEPT !.ended = @ \/ r.uid \in Sources("TERMINATION"),
                 !.split = @ \/ r.uid \in Sources("SPLIT"),
                 !.merged = @ \/ r.uid \in Sources("MERGE")]
  ELSE r

(* _upsert_cells: every column is replaced, the flags of a re-run included. *)
NewRows ==
  {[scan |-> cur, label |-> c, uid |-> batch.uid[c],
    ended |-> FALSE, split |-> FALSE, merged |-> FALSE] : c \in CellsOf(cur)}

(* _insert_cell_events: a plain INSERT; INITIATION has no source scan and    *)
(* TERMINATION no target scan.                                               *)
NewEvents ==
  {[type |-> e.type, src |-> e.src, dst |-> e.dst,
    from |-> IF e.type = "INITIATION" THEN 0 ELSE PrevInTable,
    to   |-> IF e.type = "TERMINATION" THEN 0 ELSE cur,
    by   |-> cur, write |-> writes[cur] + 1] : e \in batch.events}

(* Mutant: an existing track is seen again but not counted again. *)
SeenAgainUncounted(t) == [t EXCEPT !.last = cur]

SeenAgain(t) == [t EXCEPT !.last = cur, !.n = @ + 1]

FirstSeen(u) ==
  [first |-> cur, last |-> cur, n |-> 1, end |-> "ACTIVE_AT_END", into |-> NoCell,
   origin |-> IF Event("INITIATION", NoCell, u) \in batch.events THEN "INITIATION"
              ELSE IF \E e \in batch.events : e.type = "SPLIT" /\ e.dst = u THEN "SPLIT"
              ELSE "UNKNOWN"]

(* A terminated track that is not in this scan; a MERGE names its sink. *)
Ended(u, t) ==
  LET sinks == {e.dst : e \in {x \in batch.events : x.type = "MERGE" /\ x.src = u}}
  IN IF sinks = {} THEN [t EXCEPT !.end = "TERMINATION"]
     ELSE [t EXCEPT !.end = "MERGED", !.into = CHOOSE v \in sinks : TRUE]

(* _upsert_cell_tracks *)
NewTracks ==
  LET active == UidsIn(batch.uid)
      gone   == Sources("TERMINATION") \ active
  IN [u \in DOMAIN tracks \union active |->
        IF u \in active
        THEN IF u \in DOMAIN tracks THEN SeenAgain(tracks[u]) ELSE FirstSeen(u)
        ELSE IF u \in gone THEN Ended(u, tracks[u]) ELSE tracks[u]]

(* TrackStore.write_scan: one transaction. *)
WriteScan ==
  /\ pc = "tables" /\ ~LabelTaken
  /\ rows' = {Flagged(r) : r \in {x \in rows : x.scan # cur}} \union NewRows
  /\ events' = events \union NewEvents
  /\ tracks' = NewTracks
  /\ writes' = [writes EXCEPT ![cur] = @ + 1]
  /\ pc' = "after"
  /\ UNCHANGED <<input, up, seen, hist, prev, lutPrev, cur, batch, complete, luts, aux>>

(* The tracking link and the volume statistics. *)
Done ==
  /\ pc = "after"
  /\ pc' = "idle" /\ batch' = NoBatch
  /\ UNCHANGED <<input, up, seen, hist, prev, lutPrev, cur, complete, tables, luts,
                 writes, aux>>

-----------------------------------------------------------------------------
(***************************************************************************)
(* Failures: the scan is marked failed and the processor goes on.          *)
(***************************************************************************)

MarkFailed == complete' = complete \ {cur} /\ pc' = "idle" /\ batch' = NoBatch

(* Before tracking: neither the history nor the tracker has seen the scan. *)
RunFails ==
  /\ pc = "run" /\ Fault
  /\ MarkFailed
  /\ UNCHANGED <<input, up, seen, hist, prev, lutPrev, cur, tables, luts, writes, lost,
                 slipped, starts>>

(* Between track() and the history: attach_cell_uid_lut or an output         *)
(* contract raised.                                                          *)
TrackedThenRaised ==
  /\ pc = "run" /\ PairsUp /\ Fault
  /\ \E b \in Tracked : TrackerMoves(b)
  /\ lost' = lost \union {cur} /\ slipped' = TRUE
  /\ MarkFailed
  /\ UNCHANGED <<input, up, seen, hist, lutPrev, cur, tables, luts, writes, starts>>

(* A write raised: before the track tables, in them (rolled back), after.    *)
PersistFails ==
  /\ \/ pc \in {"link", "tables", "after"} /\ Fault
     \/ pc = "tables" /\ LabelTaken /\ UNCHANGED faults
  /\ lost' = IF pc = "after" THEN lost ELSE lost \union {cur}
  /\ MarkFailed
  /\ UNCHANGED <<input, up, seen, hist, prev, lutPrev, cur, tables, luts, writes, slipped,
                 starts>>

Next ==
  \/ Start \/ ProcessEnds
  \/ \E s \in Scans : Skip(s) \/ Take(s)
  \/ RunSingle \/ RunPair \/ LinkRequired \/ WriteScan \/ Done
  \/ RunFails \/ TrackedThenRaised \/ PersistFails

Spec == Init /\ [][Next]_vars

-----------------------------------------------------------------------------
(***************************************************************************)
(* Properties.                                                             *)
(***************************************************************************)

TrackOf == [first : Scans, last : Scans, n : Nat \ {0},
            end : {"ACTIVE_AT_END", "TERMINATION", "MERGED"},
            into : Uids \union {NoCell}, origin : {"INITIATION", "SPLIT", "UNKNOWN"}]

(* Labels and uids stay in range, at most one row per label of a scan, at    *)
(* most one per uid of a scan (the two keys of cells_by_scan), and a track   *)
(* for every uid that has a row.                                             *)
TypeOK ==
  /\ input \in Inputs /\ up \in BOOLEAN /\ seen \subseteq Scans
  /\ hist \in 0 .. NScans /\ prev.scan \in 0 .. NScans /\ lutPrev \in 0 .. NScans
  /\ UidsIn(prev.uid) \subseteq Uids
  /\ pc \in {"idle", "run", "link", "tables", "after"} /\ cur \in Scans
  /\ pc \in {"tables", "after"} => DOMAIN batch.uid = CellsOf(cur)
  /\ complete \subseteq Scans
  /\ \A r \in rows : r.label \in CellsOf(r.scan) /\ r.uid \in DOMAIN tracks
  /\ \A r, q \in rows : r.scan = q.scan /\ (r.label = q.label \/ r.uid = q.uid) => r = q
  /\ \A u \in DOMAIN tracks : u \in Uids /\ tracks[u] \in TrackOf
  /\ luts \in [Scans -> [labels : 0 .. NScans, uids : 0 .. NScans]]

ScansOf(u) == {r.scan : r \in {x \in rows : x.uid = u}}

(* The cell u was born in a scan whose one attempt reached the tables.       *)
BornOnce(u) == u[1] \notin lost /\ writes[u[1]] <= 1

(* One process, every scan in time order, every tracked scan in the tables. *)
Undisturbed == starts <= 1 /\ lost = {} /\ ~slipped

(* Two independent decisions, the processor's gap check against the history  *)
(* and the tracker's against its own previous scan, must come to the same    *)
(* pair: when cells are matched through the registration frames, the labels  *)
(* in the frames are those of the scan the tracker remembers.  It needs the  *)
(* tracker's gap to be no longer than the projector's; neither the settings  *)
(* nor the code enforce that.                                                *)
PairAgrees ==
  (TrackGap <= PairGap /\ pc = "run" /\ PairsUp /\ prev.scan # 0 /\ ~StartsOver
     /\ ~slipped)
    => prev.scan = hist

(* cell_tracks agrees with cells_by_scan, whatever failed or was resumed:    *)
(* n_scans counts the rows of the uid as long as none of its scans was       *)
(* written twice, and first_seen and last_seen are its first and last row as *)
(* long as the scan of its birth was not retried.                            *)
CountsAgree ==
  \A u \in DOMAIN tracks :
    (\A s \in ScansOf(u) : writes[s] = 1) =>
      /\ tracks[u].n = Cardinality(ScansOf(u))
      /\ BornOnce(u) =>
           /\ tracks[u].first \in ScansOf(u) /\ tracks[u].last \in ScansOf(u)
           /\ \A s \in ScansOf(u) : tracks[u].first <= s /\ s <= tracks[u].last

Incoming == {"CONTINUE", "SPLIT", "INITIATION"}
Outgoing == {"CONTINUE", "TERMINATION"}

(* The scans that both have rows and follow each other in the tables.        *)
Follows(s, t) ==
  /\ s < t
  /\ \E r \in rows : r.scan = s
  /\ \E r \in rows : r.scan = t
  /\ \A r \in rows : r.scan <= s \/ t <= r.scan

(* The lineage is a function: every row comes from exactly one event of the  *)
(* write that made it, and, in a run no failure disturbed and no empty scan  *)
(* interrupted, every row of a scan goes on or ends by exactly one event of  *)
(* the next scan in the tables.                                              *)
EventsAccount ==
  /\ \A r \in rows :
       Cardinality({e \in events : /\ e.by = r.scan /\ e.write = writes[r.scan]
                                   /\ e.type \in Incoming /\ e.dst = r.uid}) = 1
  /\ (Undisturbed /\ \A s \in Scans : CellsOf(s) # {}) =>
       \A s, t \in Scans : Follows(s, t) =>
         \A r \in {x \in rows : x.scan = s} :
           Cardinality({e \in events : /\ e.by = t /\ e.type \in Outgoing
                                       /\ e.src = r.uid /\ e.from = s}) = 1

(* _prev_scan asks the tables for the previous scan, the tracker remembers   *)
(* its own.  In an undisturbed run they agree: an event's source is a row of *)
(* the scan it names.  And in any run the retroactive flags of a scan that   *)
(* was written once say what the events say.                                 *)
LineageBacked ==
  /\ Undisturbed =>
       \A e \in events : e.from # 0 => \E r \in rows : r.scan = e.from /\ r.uid = e.src
  /\ \A r \in rows : writes[r.scan] = 1 =>
       LET has(type) == \E e \in events : e.type = type /\ e.from = r.scan /\ e.src = r.uid
       IN r.ended = has("TERMINATION") /\ r.split = has("SPLIT") /\ r.merged = has("MERGE")

(* A track that was terminated or merged is never seen again, in this        *)
(* process or a resumed one, as long as its birth was not retried: a uid is  *)
(* not given to a second cell.                                               *)
EndsAreFinal ==
  [][\A u \in DOMAIN tracks :
       (tracks[u].end # "ACTIVE_AT_END" /\ u[1] \notin lost /\ writes'[u[1]] <= 1)
         => tracks'[u] = tracks[u]]_vars

(* In an undisturbed run without empty scans the tracks still active in the  *)
(* table are exactly the cells the tracker holds: no end is forgotten.       *)
EndsRecorded ==
  (/\ Undisturbed /\ up /\ pc \notin {"link", "tables"}
   /\ \A s \in Scans : CellsOf(s) # {})
    => {u \in DOMAIN tracks : tracks[u].end = "ACTIVE_AT_END"} = UidsIn(prev.uid)

(* lut.py: registration_cell_uid is the "previous-scan cell_label index ->   *)
(* global cell_uid for the registration_minutes masks" of the same dataset.  *)
RegistrationUids ==
  \A s \in Scans :
    (luts[s].uids # 0 /\ CellsOf(luts[s].labels) # {}) => luts[s].uids = luts[s].labels
===============================================================================
