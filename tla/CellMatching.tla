------------------------------ MODULE CellMatching ------------------------------
(***************************************************************************)
(* How CellTracker._track_frame_pair (modules/tracking/module.py) matches  *)
(* the cells of the previous scan with those of the current one:           *)
(*                                                                         *)
(*   select_registration_labels (projection.py) picks the frame the        *)
(*   previous cells' hulls are read from;                                  *)
(*   _build_edges keeps the pairs of cells that pass the gates, and costs  *)
(*   them;                                                                 *)
(*   ConstraintPropagator (matching/assignment.py) peels the pairs that    *)
(*   are unique on both sides;                                             *)
(*   AssignmentGraph and HungarianMatcher (matching/hungarian.py) assign   *)
(*   what is left, one connected component at a time.                      *)
(*                                                                         *)
(* The geometry is left open: any pairs may pass the gates, at any costs.  *)
(* CellTracks takes the result as any matching; this module shows it is    *)
(* one, and which.                                                         *)
(***************************************************************************)
EXTENDS Integers, FiniteSets

Sets == INSTANCE FiniteSetsExt

CONSTANTS
  Prevs, Currs,    (* cells of the previous and of the current scan          *)
  Costs,           (* pair costs, in whole units                             *)
  Sentinel,        (* cost of a non-edge in the padded matrix                *)
  ScanPairs,       (* <<t_prev, t_curr>> considered, in seconds              *)
  Step,            (* projector.registration_step_minutes                    *)
  Ticks            (* units of a datetime64 in a second                      *)

ASSUME MatchingAssumption ==
  /\ IsFiniteSet(Prevs) /\ IsFiniteSet(Currs)
  /\ Costs \subseteq Nat /\ Sentinel \in Nat
  /\ ScanPairs \subseteq {p \in Nat \X Nat : p[1] < p[2]}
  /\ Step \in Nat \ {0} /\ Ticks \in Nat \ {0}

VARIABLES
  times,           (* the scans' instants; dt_s is their difference          *)
  frame,           (* instant of the registration frame, Whole for           *)
                   (* cell_projections[0], None before the choice            *)
  cost,            (* edge_costs: a function on the validated pairs          *)
  remaining,       (* validated pairs not yet decided                        *)
  forced,          (* pairs found by propagation                             *)
  assigned,        (* pairs found by assignment                              *)
  stage

matchVars == <<times, frame, cost, remaining, forced, assigned, stage>>

Whole == -1
None  == -2

(***************************************************************************)
(* The frame                                                               *)
(***************************************************************************)
Gap == times[2] - times[1]

(* Whole steps of the clock in (t_prev, t_curr].                             *)
MinuteTimes == {m \in (times[1] + 1) .. times[2] : m % (60 * Step) = 0}

Distance(x, y) == IF x < y THEN y - x ELSE x - y

(* |minutes - dt_s / 60|, times 60.  The coordinate is a datetime64, whose   *)
(* float is its count of units since the epoch.                              *)
FrameError(m) == Distance(60 * Ticks * m, Gap)

(* argmin, which takes the first of equals.                                  *)
NearestFrame(m) ==
  \A n \in MinuteTimes \ {m} :
    FrameError(m) < FrameError(n) \/ (FrameError(m) = FrameError(n) /\ m < n)

MatchInit ==
  /\ times \in ScanPairs
  /\ frame = None
  /\ cost = [e \in {} |-> 0]
  /\ remaining = {} /\ forced = {} /\ assigned = {}
  /\ stage = "frame"

(* No cell_projections: every track is reset, nothing is matched.            *)
ProjectionsMissing ==
  /\ stage = "frame"
  /\ stage' = "done"
  /\ UNCHANGED <<times, frame, cost, remaining, forced, assigned>>

SelectFrame ==
  /\ stage = "frame"
  /\ \/ MinuteTimes = {} /\ frame' = Whole
     \/ \E m \in MinuteTimes : NearestFrame(m) /\ frame' = m
  /\ stage' = "edges"
  /\ UNCHANGED <<times, cost, remaining, forced, assigned>>

(***************************************************************************)
(* The pairs                                                               *)
(***************************************************************************)
Pairs == Prevs \X Currs

CostFunctions == UNION {[E -> Costs] : E \in SUBSET Pairs}

BuildEdges ==
  /\ stage = "edges"
  /\ cost' \in CostFunctions
  /\ remaining' = DOMAIN cost'
  /\ stage' = "peel"
  /\ UNCHANGED <<times, frame, forced, assigned>>

(* prev_deg[i] = 1, and curr_deg[j] = 1.                                     *)
OnlyOfPrev(e, E) == \A f \in E : f[1] = e[1] => f = e
OnlyOfCurr(e, E) == \A f \in E : f[2] = e[2] => f = e

New(E) == {e \in E : OnlyOfPrev(e, E) /\ OnlyOfCurr(e, E)}

Touches(e, M) == \E f \in M : e[1] = f[1] \/ e[2] = f[2]

Peel ==
  /\ stage = "peel"
  /\ New(remaining) # {}
  /\ forced' = forced \cup New(remaining)
  /\ remaining' = {e \in remaining : ~Touches(e, New(remaining))}
  /\ UNCHANGED <<times, frame, cost, assigned, stage>>

PeelEnds ==
  /\ stage = "peel"
  /\ New(remaining) = {}
  /\ stage' = "assign"
  /\ UNCHANGED <<times, frame, cost, remaining, forced, assigned>>

(***************************************************************************)
(* The assignment                                                          *)
(***************************************************************************)
Groups(E) == {g \in (SUBSET {e[1] : e \in E}) \X (SUBSET {e[2] : e \in E}) :
                 g[1] # {} /\ \A e \in E : e[1] \in g[1] <=> e[2] \in g[2]}

(* Connected components, as <<prevs, currs>>.                                *)
Components(E) ==
  {g \in Groups(E) :
     \A h \in Groups(E) : h[1] \subseteq g[1] /\ h[2] \subseteq g[2] => h = g}

OneToOneSet(M) ==
  \A e, f \in M : e[1] = f[1] \/ e[2] = f[2] => e = f

Smaller(x, y) == IF x < y THEN x ELSE y

(* What linear_sum_assignment chooses from: as many cells of the matrix as   *)
(* its shorter side has, no two in a row or in a column.                     *)
Assignments(P, Q) ==
  {M \in Sets!kSubset(Smaller(Cardinality(P), Cardinality(Q)), P \X Q) : OneToOneSet(M)}

(* A plausible error: padding no dearer than a pair.                         *)
CellCostUnpadded(e) == IF e \in remaining THEN cost[e] ELSE 0

CellCost(e) == IF e \in remaining THEN cost[e] ELSE Sentinel

Total(M) == Sets!MapThenSumSet(CellCost, M)

(* Matches of least total; those on padding are dropped.                     *)
Optimal(P, Q) ==
  {M \cap remaining :
     M \in {N \in Assignments(P, Q) : \A O \in Assignments(P, Q) : Total(N) <= Total(O)}}

Assign ==
  /\ stage = "assign"
  /\ \E g \in Components(remaining) :
       /\ \E M \in Optimal(g[1], g[2]) : assigned' = assigned \cup M
       /\ remaining' = {e \in remaining : e[1] \notin g[1]}
  /\ UNCHANGED <<times, frame, cost, forced, stage>>

AssignEnds ==
  /\ stage = "assign"
  /\ remaining = {}
  /\ stage' = "done"
  /\ UNCHANGED <<times, frame, cost, remaining, forced, assigned>>

MatchNext ==
  \/ ProjectionsMissing \/ SelectFrame
  \/ BuildEdges \/ Peel \/ PeelEnds
  \/ Assign \/ AssignEnds

MatchSpec == MatchInit /\ [][MatchNext]_matchVars

(***************************************************************************)
(* Properties                                                              *)
(***************************************************************************)
Edges == DOMAIN cost

MatchedPairs == forced \cup assigned

MatchTypeOK ==
  /\ times \in ScanPairs
  /\ frame \in MinuteTimes \cup {Whole, None}
  /\ cost \in CostFunctions
  /\ remaining \subseteq Edges /\ forced \subseteq Edges /\ assigned \subseteq Edges
  /\ stage \in {"frame", "edges", "peel", "assign", "done"}

(* No cell is matched twice, whichever of the two stages matched it.         *)
OneToOne == OneToOneSet(MatchedPairs)

(* A pair that was forced had no rival anywhere in the validated graph, so   *)
(* taking it before any optimisation gives nothing away.                     *)
ForcedHasNoRival ==
  \A e \in forced : OnlyOfPrev(e, Edges) /\ OnlyOfCurr(e, Edges)

(* Propagation converges in one round: removing forced pairs never makes     *)
(* another pair unique, so the loop of resolve() only ever repeats to find   *)
(* nothing.                                                                  *)
OneRoundIsEnough == forced # {} => New(remaining) = {}

Cost(M) == Sets!MapThenSumSet(LAMBDA e : cost[e], M)

(* "Larger than any real geometric cost", and than all that one matching has *)
(* together.                                                                 *)
PaddingDearest ==
  \A c \in Costs : Smaller(Cardinality(Prevs), Cardinality(Currs)) * c < Sentinel

(* Propagation and the assignments of separate components add up to one      *)
(* one-to-one optimum of the whole graph: no other choice of validated pairs       *)
(* matches more cells, or as many at a lower cost.                           *)
GlobalOptimum ==
  (stage = "done" /\ frame # None) =>
    /\ OneToOne
    /\ \A M \in SUBSET Edges :
         OneToOneSet(M) =>
           \/ Cardinality(M) < Cardinality(MatchedPairs)
           \/ Cardinality(M) = Cardinality(MatchedPairs) /\ Cost(MatchedPairs) <= Cost(M)

=============================================================================
