--------------------------- MODULE CellTracksProofs ---------------------------
(***************************************************************************)
(* What CellTracks promises of the identity of a cell, for any number of   *)
(* scans, cells, inputs, processes and faults; and, at the end, what       *)
(* CellMatching promises of the matching of two scans, for any two sets of *)
(* cells and any validated graph between them.                             *)
(***************************************************************************)
EXTENDS CellTracks, CellMatching, FiniteSetTheorems, WellFoundedInduction, TLAPS

-----------------------------------------------------------------------------
(* The invariant                                                           *)

Busy   == pc \in {"link", "tables", "after"}
Unsaved == pc \in {"link", "tables"}

(* Uids by label: one for each cell of scan s, none of them twice, and each *)
(* born in s or before.                                                     *)
Labelling(uid, s) ==
  IF s = 0 THEN uid = <<>>
  ELSE /\ uid \in [CellsOf(s) -> Uids]
       /\ \A c \in CellsOf(s) : uid[c][1] <= s
       /\ \A c, d \in CellsOf(s) : uid[c] = uid[d] => c = d

(* Where the process is.                                                    *)
Place ==
  /\ input \in Inputs /\ up \in BOOLEAN /\ seen \subseteq Scans /\ cur \in Scans
  /\ hist \in {0} \union seen
  /\ prev.scan \in {0} \union Scans /\ Labelling(prev.uid, prev.scan)
  /\ pc \in {"idle", "run", "link", "tables", "after"}
  /\ pc # "idle" => up /\ cur \in seen
  /\ IF Busy THEN prev.scan = cur /\ batch.uid = prev.uid ELSE batch = NoBatch
  /\ ~up => prev = NoTracks
  /\ starts \in Nat

(* As long as scans come in time order and none is lost between tracker and *)
(* history, the two differ by a scan that was too far to be paired.         *)
InStep ==
  ~slipped =>
    /\ pc # "idle" => \A x \in seen : x <= cur
    /\ pc = "run" => hist # cur
    /\ \/ prev.scan = 0 \/ prev.scan = hist
       \/ /\ hist # 0 /\ prev.scan < hist
          /\ input.time[hist] - input.time[prev.scan] > PairGap

(* The types an event may have, and whom it comes from and goes to.         *)
BatchEvents ==
  Busy =>
    /\ \A e \in batch.events :
         /\ e.type \in {"INITIATION", "CONTINUE", "SPLIT", "MERGE", "TERMINATION"}
         /\ e.type = "INITIATION" => e.src = NoCell
         /\ e.type \in Incoming => e.dst \in UidsIn(batch.uid)
         /\ e.dst \in UidsIn(batch.uid) \union {NoCell}
    /\ \A u \in UidsIn(batch.uid) :
         \E e \in batch.events : e.type \in Incoming /\ e.dst = u
    /\ \A e, f \in batch.events :
         e.type \in Incoming /\ f.type \in Incoming /\ e.dst = f.dst => e = f

(* The tables as such.                                                      *)
Row == [scan : Scans, label : Nat, uid : Uids, ended : BOOLEAN, split : BOOLEAN,
        merged : BOOLEAN]

Rows ==
  /\ rows \subseteq Row /\ writes \in [Scans -> Nat]
  /\ \A r \in rows : r.label \in CellsOf(r.scan) /\ writes[r.scan] >= 1
  /\ \A r \in rows : r.uid \in DOMAIN tracks
  /\ \A s \in Scans : (\E r \in rows : r.scan = s) =>
       \A c \in CellsOf(s) : \E r \in rows : r.scan = s /\ r.label = c
  /\ \A r, q \in rows : r.scan = q.scan /\ (r.label = q.label \/ r.uid = q.uid) => r = q

Events ==
  \A e \in events : /\ e.by \in Scans /\ e.write \in Nat \ {0} /\ e.write <= writes[e.by]
                    /\ e.from \in {0} \union Scans
                    /\ e.from # 0 => writes[e.from] >= 1

(* The rest of the state.                                                   *)
Others ==
  /\ complete \subseteq Scans /\ lost \subseteq Scans /\ lutPrev \in 0 .. NScans
  /\ luts \in [Scans -> [labels : 0 .. NScans, uids : 0 .. NScans]]
  /\ \A u \in DOMAIN tracks : tracks[u] \in TrackOf

(* A row comes from one event of the write that made it.                    *)
Comes(r) == {e \in events : /\ e.by = r.scan /\ e.write = writes[r.scan]
                            /\ e.type \in Incoming /\ e.dst = r.uid}
RowsCome == \A r \in rows : \E e \in events : Comes(r) = {e}

(* Writes of the scan of u's birth, the one at hand included.               *)
Due(u)  == writes[u[1]] + (IF Unsaved /\ u[1] = cur THEN 1 ELSE 0)
Once(u) == u[1] \notin lost /\ Due(u) <= 1

(* The cells the tracker has in hand.                                       *)
Held == UidsIn(prev.uid) \union (IF Unsaved THEN Sources("TERMINATION") ELSE {})

(* A uid was born in a scan that was written, or lost, or is at hand.       *)
Births ==
  /\ \A u \in DOMAIN tracks : u \in Uids /\ (writes[u[1]] >= 1 \/ u[1] \in lost)
  /\ \A u \in Held : u \in Uids /\ (Due(u) >= 1 \/ u[1] \in lost)

(* What the tracker holds has not ended, and is not ahead of it.            *)
Alive ==
  /\ \A u \in Held : u \in DOMAIN tracks /\ Once(u) => tracks[u].end = "ACTIVE_AT_END"
  /\ \A u \in UidsIn(prev.uid) : Once(u) => \A s \in ScansOf(u) : s <= prev.scan

TablesInv == /\ Place /\ InStep /\ BatchEvents
             /\ Rows /\ Events /\ Others /\ RowsCome /\ Births /\ Alive

(* The retroactive flags.                                                   *)
Tells(type, r) == \E e \in events : e.type = type /\ e.from = r.scan /\ e.src = r.uid
Flags ==
  \A r \in rows : writes[r.scan] = 1 =>
    /\ r.ended = Tells("TERMINATION", r)
    /\ r.split = Tells("SPLIT", r)
    /\ r.merged = Tells("MERGE", r)

(* An undisturbed run: the tables follow the tracker.                       *)
RowsOf(s) == {r \in rows : r.scan = s}
UidsOfScan(s) == {r.uid : r \in RowsOf(s)}
EveryScanHasCells == \A s \in Scans : CellsOf(s) # {}

Began == /\ rows = {} /\ events = {} /\ tracks = <<>> /\ ~up
         /\ \A s \in Scans : writes[s] = 0
Fresh == starts = 0 => Began

InTables ==
  Undisturbed /\ up =>
    /\ \A s \in Scans : writes[s] <= 1 /\ (s \notin seen => writes[s] = 0)
    /\ pc \in {"run", "link", "tables"} => writes[cur] = 0
    /\ \A r \in rows : r.scan \in seen /\ r.scan <= prev.scan
    /\ ~Unsaved /\ UidsIn(prev.uid) # {} => UidsOfScan(prev.scan) = UidsIn(prev.uid)
    /\ Unsaved => \A e \in batch.events : e.type # "INITIATION" =>
                     PrevInTable # 0 /\ e.src \in UidsOfScan(PrevInTable)

(* Every cell of the previous scan in the tables goes on or ends, once, and *)
(* that of every scan before it has.                                        *)
Goes ==
  Undisturbed /\ up /\ Unsaved /\ PrevInTable # 0 /\ EveryScanHasCells =>
    \A u \in UidsOfScan(PrevInTable) :
      \E e \in batch.events : \A f \in batch.events :
         f.type \in Outgoing /\ f.src = u <=> f = e

Leaves(r, t) == {e \in events : /\ e.by = t /\ e.type \in Outgoing
                               /\ e.src = r.uid /\ e.from = r.scan}
Gone ==
  Undisturbed /\ EveryScanHasCells =>
    \A s, t \in Scans : Follows(s, t) =>
      \A r \in RowsOf(s) : \E e \in events : Leaves(r, t) = {e}

(* The source of an event is a row of the scan it names.                    *)
Backed ==
  Undisturbed =>
    \A e \in events : e.from # 0 => \E r \in rows : r.scan = e.from /\ r.uid = e.src

Active == {u \in DOMAIN tracks : tracks[u].end = "ACTIVE_AT_END"}
Ends ==
  Undisturbed /\ up /\ EveryScanHasCells =>
    IF Unsaved THEN Active \subseteq UidsIn(prev.uid) \union Sources("TERMINATION")
    ELSE Active = UidsIn(prev.uid)

RunInv == TablesInv /\ Flags /\ Fresh /\ InTables /\ Goes /\ Gone /\ Backed /\ Ends

-----------------------------------------------------------------------------
(* Cells and uids                                                          *)

LEMMA InputTyped ==
  ASSUME input \in Inputs
  PROVE  /\ \A s \in Scans : input.cells[s] \in 0 .. MaxCells /\ input.time[s] \in Nat
         /\ \A s, t \in Scans : s < t => input.time[s] < input.time[t]
BY ConstantsAssumption

LEMMA CellsTyped ==
  ASSUME input \in Inputs, NEW s \in Scans
  PROVE  CellsOf(s) \subseteq 1 .. MaxCells /\ CellsOf(s) \subseteq Nat \ {0}
<1>1. input.cells[s] \in 0 .. MaxCells
  BY InputTyped
<1> QED
  BY <1>1, ConstantsAssumption DEF CellsOf

LEMMA NoUids == UidsIn(<<>>) = {} /\ UidsIn(NoTracks.uid) = {}
BY DEF UidsIn, NoTracks

(* The uids of a labelling are uids, born in its scan or before.            *)
LEMMA LabellingUids ==
  ASSUME NEW uid, NEW s \in {0} \union Scans, Labelling(uid, s)
  PROVE  \A u \in UidsIn(uid) : /\ s # 0 /\ u \in Uids /\ u[1] <= s
                                /\ \E c \in CellsOf(s) : u = uid[c]
<1>1. CASE s = 0
  BY <1>1, NoUids DEF Labelling
<1>2. CASE s # 0
  BY <1>2 DEF Labelling, UidsIn
<1> QED
  BY <1>1, <1>2

(* The cells born in the scan at hand have its uids.                        *)
LEMMA BornUids ==
  ASSUME input \in Inputs, cur \in Scans
  PROVE  /\ \A c \in CellsOf(cur) : Born(c) \in Uids /\ Born(c)[1] = cur
         /\ \A c, d : Born(c) = Born(d) => c = d
BY CellsTyped DEF Born, Uids

LEMMA EventFields ==
  \A type, src, dst : /\ Event(type, src, dst).type = type
                      /\ Event(type, src, dst).src = src
                      /\ Event(type, src, dst).dst = dst
BY DEF Event

-----------------------------------------------------------------------------
(* Tracking                                                                *)

(* What a batch b says: where its uids come from, and what becomes of those *)
(* of the previous scan.                                                    *)
Accounts(b) ==
  /\ Labelling(b.uid, cur)
  /\ \A e \in b.events :
       /\ e.type \in {"INITIATION", "CONTINUE", "SPLIT", "MERGE", "TERMINATION"}
       /\ IF e.type = "INITIATION" THEN e.src = NoCell ELSE e.src \in UidsIn(prev.uid)
       /\ e.type \in Incoming => e.dst \in UidsIn(b.uid)
       /\ e.dst \in UidsIn(b.uid) \union {NoCell}
  /\ \A u \in UidsIn(b.uid) :
       \E e \in b.events : e.type \in Incoming /\ e.dst = u
  /\ \A e, f \in b.events :
       e.type \in Incoming /\ f.type \in Incoming /\ e.dst = f.dst => e = f
  /\ \A u \in UidsIn(b.uid) : \/ u \in UidsIn(prev.uid) /\ prev.scan < cur
                              \/ \E c \in CellsOf(cur) : u = Born(c)
  /\ \A u \in UidsIn(prev.uid) :
       /\ u \in UidsIn(b.uid) \/ \E e \in b.events : e.type = "TERMINATION" /\ e.src = u
       /\ \E e \in b.events : \A f \in b.events : f.type \in Outgoing /\ f.src = u <=> f = e

LEMMA FreshAccounts ==
  ASSUME Place, prev.scan = 0 \/ StartsOver
  PROVE  Accounts(FreshTracks)
<1> DEFINE b == FreshTracks
           Inits == Initiations(CellsOf(cur))
           Terms == {Event("TERMINATION", u, NoCell) : u \in UidsIn(prev.uid)}
<1>0. cur \in Scans /\ input \in Inputs /\ cur # 0 /\ cur \in Nat
  BY DEF Place, Scans
<1>1. b.uid = AllBorn /\ b.events = Inits \union Terms
  BY DEF FreshTracks
<1>2. b.uid \in [CellsOf(cur) -> Uids] /\ \A c \in CellsOf(cur) : b.uid[c] = Born(c)
  BY <1>0, <1>1, BornUids DEF AllBorn
<1>3. Labelling(b.uid, cur)
  BY <1>0, <1>2, BornUids DEF Labelling
<1>4. \A e \in Inits : \E c \in CellsOf(cur) : e = Event("INITIATION", NoCell, Born(c))
  BY DEF Initiations
<1>5. \A c \in CellsOf(cur) : Event("INITIATION", NoCell, Born(c)) \in b.events
  BY <1>1 DEF Initiations
<1>6. \A u \in UidsIn(prev.uid) : Event("TERMINATION", u, NoCell) \in b.events
  BY <1>1
<1>7. \A u : u \in UidsIn(b.uid) <=> \E c \in CellsOf(cur) : u = Born(c)
  BY <1>2 DEF UidsIn
<1>8. \A e \in b.events :
        \/ \E c \in CellsOf(cur) : e = Event("INITIATION", NoCell, Born(c))
        \/ \E u \in UidsIn(prev.uid) : e = Event("TERMINATION", u, NoCell)
  BY <1>1, <1>4
<1> HIDE DEF b, Inits, Terms
<1>9. \A e \in b.events :
        /\ e.type \in {"INITIATION", "CONTINUE", "SPLIT", "MERGE", "TERMINATION"}
        /\ IF e.type = "INITIATION" THEN e.src = NoCell ELSE e.src \in UidsIn(prev.uid)
        /\ e.type \in Incoming => e.dst \in UidsIn(b.uid)
        /\ e.dst \in UidsIn(b.uid) \union {NoCell}
  BY <1>7, <1>8, EventFields DEF Incoming
<1>10. \A u \in UidsIn(b.uid) : \E e \in b.events : e.type \in Incoming /\ e.dst = u
  BY <1>5, <1>7, EventFields DEF Incoming
<1>11. \A e, f \in b.events :
         e.type \in Incoming /\ f.type \in Incoming /\ e.dst = f.dst => e = f
  BY <1>8, EventFields DEF Incoming
<1>12. ASSUME NEW u \in UidsIn(prev.uid)
       PROVE  /\ \E e \in b.events : e.type = "TERMINATION" /\ e.src = u
              /\ \E e \in b.events : \A f \in b.events :
                   f.type \in Outgoing /\ f.src = u <=> f = e
  <2> DEFINE e == Event("TERMINATION", u, NoCell)
  <2>1. e \in b.events /\ e.type = "TERMINATION" /\ e.src = u
    BY <1>6, EventFields
  <2>2. \A f \in b.events : f.type \in Outgoing /\ f.src = u => f = e
    BY <1>8, EventFields DEF Outgoing
  <2> QED
    BY <2>1, <2>2 DEF Outgoing
<1> QED
  BY <1>3, <1>7, <1>9, <1>10, <1>11, <1>12 DEF Accounts, b

(* What a cell that is not continued merged into, if anything.              *)
Sink(uid, merge, d) == IF merge[d] = 0 THEN NoCell ELSE uid[merge[d]]

(* The uids and the five kinds of events of a pair.                         *)
PairUid(m) == [c \in CellsOf(cur) |-> IF m[c] # 0 THEN prev.uid[m[c]] ELSE Born(c)]

FromPair(e, uid, m, split, merge) ==
  \/ \E c \in Matched(m) : e = Event("CONTINUE", uid[c], uid[c])
  \/ \E c \in Unmatched(m) : /\ split[c] # 0
                             /\ e = Event("SPLIT", uid[split[c]], uid[c])
  \/ \E c \in Unmatched(m) : /\ split[c] = 0
                             /\ e = Event("INITIATION", NoCell, Born(c))
  \/ \E d \in Dissipated(m) : /\ merge[d] # 0
                              /\ e = Event("MERGE", prev.uid[d], Sink(uid, merge, d))
  \/ \E d \in Dissipated(m) :
       e = Event("TERMINATION", prev.uid[d], Sink(uid, merge, d))

LEMMA FramePairEvents ==
  ASSUME NEW m, NEW split, NEW merge
  PROVE  /\ FramePair(m, split, merge).uid = PairUid(m)
         /\ \A e : e \in FramePair(m, split, merge).events
                   <=> FromPair(e, PairUid(m), m, split, merge)
<1> DEFINE uid == PairUid(m)
           b == FramePair(m, split, merge)
           into(d) == IF merge[d] = 0 THEN NoCell ELSE uid[merge[d]]
           Cont == {Event("CONTINUE", uid[c], uid[c]) : c \in Matched(m)}
           Spl  == {Event("SPLIT", uid[split[c]], uid[c]) :
                      c \in {x \in Unmatched(m) : split[x] # 0}}
           Ini  == Initiations(Initiated(m, split))
           Mer  == {Event("MERGE", prev.uid[d], into(d)) :
                      d \in {x \in Dissipated(m) : merge[x] # 0}}
           Ter  == {Event("TERMINATION", prev.uid[d], into(d)) : d \in Terminated(m, merge)}
<1>1. b.uid = uid /\ b.events = Cont \union Spl \union Ini \union Mer \union Ter
  BY DEF FramePair, PairUid
<1>0. \A d : into(d) = Sink(uid, merge, d)
  BY DEF Sink
<1>2. \A e : e \in Ini <=> \E c \in Unmatched(m) :
                             split[c] = 0 /\ e = Event("INITIATION", NoCell, Born(c))
  BY DEF Initiations, Initiated
<1>3. \A e : e \in Ter <=> \E d \in Dissipated(m) :
                             e = Event("TERMINATION", prev.uid[d], Sink(uid, merge, d))
  BY <1>0 DEF Terminated
<1>4. \A e : e \in Mer <=> \E d \in Dissipated(m) :
                             merge[d] # 0 /\ e = Event("MERGE", prev.uid[d], Sink(uid, merge, d))
  BY <1>0
<1>5. \A e : e \in Spl <=> \E c \in Unmatched(m) :
                             split[c] # 0 /\ e = Event("SPLIT", uid[split[c]], uid[c])
  OBVIOUS
<1>6. \A e : e \in Cont <=> \E c \in Matched(m) : e = Event("CONTINUE", uid[c], uid[c])
  OBVIOUS
<1> HIDE DEF Ini, Ter, Mer, Spl, Cont, into, uid, b
<1>7. \A e : e \in b.events <=> \/ e \in Cont \/ e \in Spl \/ e \in Ini \/ e \in Mer \/ e \in Ter
  BY <1>1
<1> QED
  BY <1>1, <1>2, <1>3, <1>4, <1>5, <1>6, <1>7, Zenon DEF FromPair, uid, b

LEMMA PairAccounts ==
  ASSUME Place, prev.scan # 0, ~StartsOver, NEW m \in Matchings,
         NEW split \in [Unmatched(m) -> {0} \union Matched(m)],
         NEW merge \in [Dissipated(m) -> {0} \union Matched(m)]
  PROVE  Accounts(FramePair(m, split, merge))
<1> DEFINE uid == PairUid(m)
           b   == FramePair(m, split, merge)
<1>0. /\ cur \in Scans /\ input \in Inputs /\ cur # 0 /\ cur \in Nat
      /\ prev.scan \in Scans /\ prev.scan \in Nat
  BY DEF Place, Scans
<1>1. prev.scan < cur
  BY <1>0 DEF StartsOver
<1>2. /\ prev.uid \in [CellsOf(prev.scan) -> Uids]
      /\ \A d \in DOMAIN prev.uid : prev.uid[d][1] <= prev.scan /\ d # 0
      /\ \A c, d \in DOMAIN prev.uid : prev.uid[c] = prev.uid[d] => c = d
  <2>1. Labelling(prev.uid, prev.scan) /\ prev.scan # 0
    BY <1>0 DEF Place
  <2>2. prev.uid \in [CellsOf(prev.scan) -> Uids]
    BY <2>1 DEF Labelling
  <2>3. DOMAIN prev.uid = CellsOf(prev.scan)
    BY <2>2
  <2>4. \A d \in CellsOf(prev.scan) : d # 0
    BY <1>0, CellsTyped
  <2> QED
    BY <2>1, <2>2, <2>3, <2>4 DEF Labelling
<1>3. /\ \A c \in CellsOf(cur) : m[c] \in {0} \union DOMAIN prev.uid
      /\ \A c, d \in CellsOf(cur) : m[c] = m[d] /\ m[c] # 0 => c = d
  BY DEF Matchings
<1>4. /\ \A c \in Matched(m) : /\ c \in CellsOf(cur) /\ m[c] # 0 /\ m[c] \in DOMAIN prev.uid
                               /\ uid[c] = prev.uid[m[c]]
      /\ \A c \in Unmatched(m) : c \in CellsOf(cur) /\ uid[c] = Born(c)
      /\ \A c \in CellsOf(cur) : c \in Matched(m) \/ c \in Unmatched(m)
  BY <1>3 DEF Matched, Unmatched, PairUid
<1>5. /\ \A d \in Dissipated(m) : d \in DOMAIN prev.uid
      /\ \A d \in DOMAIN prev.uid : d \in Dissipated(m) \/ \E c \in Matched(m) : d = m[c]
      /\ \A c \in Matched(m) : m[c] \notin Dissipated(m)
  BY DEF Dissipated
<1>6. \A d \in DOMAIN prev.uid, c \in CellsOf(cur) : prev.uid[d] # Born(c)
  <2>1. ASSUME NEW d \in DOMAIN prev.uid, NEW c \in CellsOf(cur), prev.uid[d] = Born(c)
        PROVE  FALSE
    <3>1. prev.uid[d][1] = cur /\ prev.uid[d][1] <= prev.scan
      BY <1>0, <1>2, <2>1, BornUids
    <3> QED
      BY <1>0, <1>1, <3>1
  <2> QED
    BY <2>1
<1>7. /\ b.uid = uid
      /\ \A e : e \in b.events <=>
              \/ \E c \in Matched(m) : e = Event("CONTINUE", uid[c], uid[c])
              \/ \E c \in Unmatched(m) : /\ split[c] # 0
                                         /\ e = Event("SPLIT", uid[split[c]], uid[c])
              \/ \E c \in Unmatched(m) : /\ split[c] = 0
                                         /\ e = Event("INITIATION", NoCell, Born(c))
              \/ \E d \in Dissipated(m) : /\ merge[d] # 0
                                          /\ e = Event("MERGE", prev.uid[d], Sink(uid, merge, d))
              \/ \E d \in Dissipated(m) :
                   e = Event("TERMINATION", prev.uid[d], Sink(uid, merge, d))
  <2>1. b.uid = uid /\ \A e : e \in b.events <=> FromPair(e, uid, m, split, merge)
    BY FramePairEvents
  <2> QED
    BY <2>1 DEF FromPair
<1>8. /\ DOMAIN uid = CellsOf(cur)
      /\ \A c \in CellsOf(cur) : /\ uid[c] \in Uids /\ uid[c][1] <= cur
                                 /\ uid[c] = IF m[c] # 0 THEN prev.uid[m[c]] ELSE Born(c)
  <2>1. ASSUME NEW c \in CellsOf(cur) PROVE uid[c] \in Uids /\ uid[c][1] <= cur
    <3>1. CASE c \in Matched(m)
      <4>1. m[c] \in DOMAIN prev.uid /\ uid[c] = prev.uid[m[c]]
        BY <1>4, <3>1
      <4>2. prev.uid[m[c]] \in Uids /\ prev.uid[m[c]][1] <= prev.scan
        BY <1>2, <4>1
      <4>3. prev.uid[m[c]][1] \in Int
        BY <4>2 DEF Uids, Scans
      <4> QED
        BY <1>0, <1>1, <4>1, <4>2, <4>3
    <3>2. CASE c \in Unmatched(m)
      BY <1>0, <1>4, <3>2, BornUids
    <3> QED
      BY <1>4, <3>1, <3>2
  <2> QED
    BY <2>1 DEF PairUid
<1> HIDE DEF uid, b
<1>9. \A c, d \in CellsOf(cur) : uid[c] = uid[d] => c = d
  <2>1. ASSUME NEW c \in CellsOf(cur), NEW d \in CellsOf(cur), uid[c] = uid[d] PROVE c = d
    <3>1. CASE c \in Matched(m) /\ d \in Matched(m)
      BY <1>2, <1>3, <1>4, <2>1, <3>1
    <3>2. CASE c \in Unmatched(m) /\ d \in Unmatched(m)
      BY <1>0, <1>4, <2>1, <3>2, BornUids
    <3> QED
      BY <1>4, <1>6, <2>1, <3>1, <3>2
  <2> QED
    BY <2>1
<1>10. Labelling(b.uid, cur)
  BY <1>0, <1>7, <1>8, <1>9 DEF Labelling, uid, PairUid
<1>11. /\ \A u : u \in UidsIn(b.uid) <=> \E c \in CellsOf(cur) : u = uid[c]
       /\ \A u : u \in UidsIn(prev.uid) <=> \E d \in DOMAIN prev.uid : u = prev.uid[d]
  BY <1>7, <1>8 DEF UidsIn
<1>12. /\ \A c \in Unmatched(m) : split[c] # 0 => split[c] \in Matched(m)
       /\ \A d \in Dissipated(m) : Sink(uid, merge, d) \in UidsIn(b.uid) \union {NoCell}
  BY <1>4, <1>11 DEF Sink
<1>13. ASSUME NEW e \in b.events
       PROVE  /\ e.type \in {"INITIATION", "CONTINUE", "SPLIT", "MERGE", "TERMINATION"}
              /\ IF e.type = "INITIATION" THEN e.src = NoCell ELSE e.src \in UidsIn(prev.uid)
              /\ e.type \in Incoming => e.dst \in UidsIn(b.uid)
              /\ e.dst \in UidsIn(b.uid) \union {NoCell}
  <2>1. CASE \E c \in Matched(m) : e = Event("CONTINUE", uid[c], uid[c])
    BY <1>4, <1>11, <2>1, EventFields
  <2>2. CASE \E c \in Unmatched(m) : split[c] # 0 /\ e = Event("SPLIT", uid[split[c]], uid[c])
    BY <1>4, <1>11, <1>12, <2>2, EventFields
  <2>3. CASE \E c \in Unmatched(m) : split[c] = 0 /\ e = Event("INITIATION", NoCell, Born(c))
    BY <1>4, <1>11, <2>3, EventFields
  <2>4. CASE \E d \in Dissipated(m) : \/ e = Event("MERGE", prev.uid[d], Sink(uid, merge, d))
                                      \/ e = Event("TERMINATION", prev.uid[d], Sink(uid, merge, d))
    BY <1>5, <1>11, <1>12, <2>4, EventFields DEF Incoming
  <2> QED
    BY <1>7, <2>1, <2>2, <2>3, <2>4
<1>14. ASSUME NEW u \in UidsIn(b.uid)
       PROVE  /\ \E e \in b.events : e.type \in Incoming /\ e.dst = u
              /\ \/ u \in UidsIn(prev.uid) /\ prev.scan < cur
                 \/ \E c \in CellsOf(cur) : u = Born(c)
  <2>1. PICK c \in CellsOf(cur) : u = uid[c]
    BY <1>11
  <2>2. CASE c \in Matched(m)
    <3>1. Event("CONTINUE", uid[c], uid[c]) \in b.events
      BY <1>7, <2>2
    <3> QED
      BY <1>1, <1>4, <1>11, <2>1, <2>2, <3>1, EventFields DEF Incoming
  <2>3. CASE c \in Unmatched(m) /\ split[c] # 0
    <3>1. Event("SPLIT", uid[split[c]], uid[c]) \in b.events
      BY <1>7, <2>3
    <3> QED
      BY <1>4, <2>1, <2>3, <3>1, EventFields DEF Incoming
  <2>4. CASE c \in Unmatched(m) /\ split[c] = 0
    <3>1. Event("INITIATION", NoCell, Born(c)) \in b.events
      BY <1>7, <2>4
    <3> QED
      BY <1>4, <2>1, <2>4, <3>1, EventFields DEF Incoming
  <2> QED
    BY <1>4, <2>2, <2>3, <2>4
<1>15. \A e \in b.events : e.type \in Incoming =>
         \/ \E c \in Matched(m) : e = Event("CONTINUE", uid[c], uid[c])
         \/ \E c \in Unmatched(m) : /\ split[c] # 0
                                    /\ e = Event("SPLIT", uid[split[c]], uid[c])
         \/ \E c \in Unmatched(m) : /\ split[c] = 0
                                    /\ e = Event("INITIATION", NoCell, uid[c])
  BY <1>4, <1>7, EventFields DEF Incoming
<1>16. \A e, f \in b.events :
         e.type \in Incoming /\ f.type \in Incoming /\ e.dst = f.dst => e = f
  <2>1. ASSUME NEW e \in b.events, NEW f \in b.events,
               e.type \in Incoming, f.type \in Incoming, e.dst = f.dst
        PROVE  e = f
    <3>1. PICK c \in CellsOf(cur) :
            \/ c \in Matched(m) /\ e = Event("CONTINUE", uid[c], uid[c])
            \/ c \in Unmatched(m) /\ split[c] # 0 /\ e = Event("SPLIT", uid[split[c]], uid[c])
            \/ c \in Unmatched(m) /\ split[c] = 0 /\ e = Event("INITIATION", NoCell, uid[c])
      BY <1>4, <1>15, <2>1
    <3>2. PICK d \in CellsOf(cur) :
            \/ d \in Matched(m) /\ f = Event("CONTINUE", uid[d], uid[d])
            \/ d \in Unmatched(m) /\ split[d] # 0 /\ f = Event("SPLIT", uid[split[d]], uid[d])
            \/ d \in Unmatched(m) /\ split[d] = 0 /\ f = Event("INITIATION", NoCell, uid[d])
      BY <1>4, <1>15, <2>1
    <3>3. uid[c] = uid[d]
      BY <2>1, <3>1, <3>2, EventFields
    <3>4. c = d
      BY <1>9, <3>3
    <3>5. ~(c \in Matched(m) /\ c \in Unmatched(m))
      BY DEF Unmatched
    <3> QED
      BY <3>1, <3>2, <3>4, <3>5
  <2> QED
    BY <2>1
<1>17. \A e \in b.events : e.type \in Outgoing =>
         \/ \E c \in Matched(m) : e = Event("CONTINUE", uid[c], uid[c])
         \/ \E d \in Dissipated(m) : e = Event("TERMINATION", prev.uid[d], Sink(uid, merge, d))
  BY <1>7, EventFields DEF Outgoing
<1>18. ASSUME NEW u \in UidsIn(prev.uid)
       PROVE  /\ u \in UidsIn(b.uid) \/ \E e \in b.events : e.type = "TERMINATION" /\ e.src = u
              /\ \E e \in b.events : \A f \in b.events :
                   f.type \in Outgoing /\ f.src = u <=> f = e
  <2>1. PICK d \in DOMAIN prev.uid : u = prev.uid[d]
    BY <1>11
  <2>2. CASE d \in Dissipated(m)
    <3> DEFINE e == Event("TERMINATION", prev.uid[d], Sink(uid, merge, d))
    <3>1. e \in b.events /\ e.type = "TERMINATION" /\ e.src = u
      BY <1>7, <2>1, <2>2, EventFields
    <3>2. ASSUME NEW f \in b.events, f.type \in Outgoing, f.src = u PROVE f = e
      <4>1. CASE \E c \in Matched(m) : f = Event("CONTINUE", uid[c], uid[c])
        <5>1. PICK c \in Matched(m) : f = Event("CONTINUE", uid[c], uid[c])
          BY <4>1
        <5>2. prev.uid[m[c]] = prev.uid[d]
          BY <1>4, <2>1, <3>2, <5>1, EventFields
        <5>3. m[c] = d
          BY <1>2, <1>4, <5>2
        <5> QED
          BY <1>5, <2>2, <5>3
      <4>2. ASSUME NEW g \in Dissipated(m),
                   f = Event("TERMINATION", prev.uid[g], Sink(uid, merge, g))
            PROVE  f = e
        <5>1. prev.uid[g] = prev.uid[d]
          BY <2>1, <3>2, <4>2, EventFields
        <5>2. g = d
          BY <1>2, <1>5, <5>1
        <5> QED
          BY <4>2, <5>2
      <4> QED
        BY <1>17, <3>2, <4>1, <4>2
    <3> HIDE DEF e
    <3> QED
      BY <3>1, <3>2 DEF Outgoing
  <2>3. CASE d \notin Dissipated(m)
    <3>1. PICK c \in Matched(m) : d = m[c]
      BY <1>5, <2>3
    <3> DEFINE e == Event("CONTINUE", uid[c], uid[c])
    <3>2. e \in b.events /\ e.type = "CONTINUE" /\ e.src = u /\ u \in UidsIn(b.uid)
      BY <1>4, <1>7, <1>11, <2>1, <3>1, EventFields
    <3>3. ASSUME NEW f \in b.events, f.type \in Outgoing, f.src = u PROVE f = e
      <4>1. ASSUME NEW x \in Matched(m), f = Event("CONTINUE", uid[x], uid[x]) PROVE f = e
        <5>1. uid[x] = uid[c]
          BY <3>2, <3>3, <4>1, EventFields
        <5>2. x = c
          BY <1>4, <1>9, <5>1
        <5> QED
          BY <4>1, <5>2
      <4>2. ASSUME NEW g \in Dissipated(m),
                   f = Event("TERMINATION", prev.uid[g], Sink(uid, merge, g))
            PROVE  FALSE
        <5>1. prev.uid[g] = prev.uid[d]
          BY <2>1, <3>3, <4>2, EventFields
        <5>2. g = d
          BY <1>2, <1>5, <5>1
        <5> QED
          BY <2>3, <5>2
      <4> QED
        BY <1>17, <3>3, <4>1, <4>2
    <3> HIDE DEF e
    <3> QED
      BY <3>2, <3>3 DEF Outgoing
  <2> QED
    BY <2>2, <2>3
<1> QED
  BY <1>10, <1>13, <1>14, <1>16, <1>18 DEF Accounts, b

(* Whatever track() returns accounts for every cell.                        *)
LEMMA TrackedAccounts ==
  ASSUME Place, NEW b \in Tracked
  PROVE  Accounts(b)
<1>1. CASE prev.scan = 0 \/ StartsOver
  BY <1>1, FreshAccounts DEF Tracked
<1>2. CASE ~(prev.scan = 0 \/ StartsOver)
  <2>1. PICK m \in Matchings :
          \E split \in [Unmatched(m) -> {0} \union Matched(m)],
             merge \in [Dissipated(m) -> {0} \union Matched(m)] :
                b = FramePair(m, split, merge)
    BY <1>2 DEF Tracked
  <2> QED
    BY <1>2, <2>1, PairAccounts
<1> QED
  BY <1>1, <1>2

-----------------------------------------------------------------------------
(* Where the process is, and whether history and tracker are in step       *)

LEMMA InputFixed == ASSUME [Next]_vars PROVE input' = input
BY DEF Next, vars, Start, ProcessEnds, Skip, Take, RunSingle, RunPair, LinkRequired,
       WriteScan, Done, RunFails, TrackedThenRaised, PersistFails

LEMMA LabellingFixed ==
  ASSUME input' = input, NEW uid, NEW s, uid' = uid, s' = s, Labelling(uid, s)
  PROVE  Labelling(uid, s)'
BY DEF Labelling, CellsOf

LEMMA Nothing ==
  /\ NoTracks.scan = 0 /\ Labelling(NoTracks.uid, NoTracks.scan)
  /\ 1 \in Scans /\ Scans \subseteq Nat \ {0}
BY ConstantsAssumption DEF NoTracks, Labelling, Scans

LEMMA ScansNat == \A s \in {0} \union Scans : s \in Nat
BY DEF Scans

LEMMA PlaceInit == ASSUME Init PROVE Place
<1>1. /\ input \in Inputs /\ up = FALSE /\ seen = {} /\ hist = 0 /\ prev = NoTracks
      /\ pc = "idle" /\ cur = 1 /\ batch = NoBatch /\ starts = 0
  BY DEF Init
<1>2. prev.scan = 0 /\ Labelling(prev.uid, prev.scan) /\ ~Busy
  BY <1>1, Nothing DEF Busy
<1> QED
  BY <1>1, <1>2, Nothing DEF Place

(* What a batch of the tracker leaves in its memory.                        *)
LEMMA TrackerHolds ==
  ASSUME Place, input' = input, NEW b \in Tracked, TrackerMoves(b)
  PROVE  /\ prev'.scan = cur /\ prev'.uid = b.uid /\ prev'.scan \in Scans
         /\ Labelling(prev.uid, prev.scan)'
<1>1. Labelling(b.uid, cur)
  BY TrackedAccounts DEF Accounts
<1>2. prev'.scan = cur /\ prev'.uid = b.uid /\ cur \in Scans
  BY DEF TrackerMoves, Place
<1>3. Labelling(prev.uid, prev.scan)'
  BY <1>1, <1>2 DEF Labelling, CellsOf
<1> QED
  BY <1>2, <1>3

LEMMA PlaceNext == ASSUME Place, [Next]_vars PROVE Place'
<1> USE DEF Busy
<1>0. input' = input
  BY InputFixed
<1>1. CASE UNCHANGED vars
  BY <1>0, <1>1 DEF vars, memory, aux, Place, Labelling, CellsOf
<1>2. CASE Start
  <2>1. prev'.scan = 0 /\ Labelling(prev.uid, prev.scan)'
    BY <1>2, Nothing DEF Start, Labelling
  <2> QED
    BY <1>0, <1>2, <2>1, Nothing DEF Start, Place
<1>3. CASE ProcessEnds
  <2>1. prev'.scan = 0 /\ Labelling(prev.uid, prev.scan)'
    BY <1>3, Nothing DEF ProcessEnds, Labelling
  <2> QED
    BY <1>0, <1>3, <2>1, Nothing DEF ProcessEnds, Place, aux
<1>4. ASSUME NEW s \in Scans, Skip(s) PROVE Place'
  BY <1>0, <1>4 DEF Skip, Handed, Place, Labelling, CellsOf
<1>5. ASSUME NEW s \in Scans, Take(s) PROVE Place'
  BY <1>0, <1>5 DEF Take, Handed, Place, Labelling, CellsOf
<1>6. CASE RunSingle
  BY <1>0, <1>6 DEF RunSingle, HistoryMoves, Place, Labelling, CellsOf, aux
<1>7. CASE RunPair
  <2>1. PICK b \in Tracked : batch' = b /\ TrackerMoves(b)
    BY <1>7 DEF RunPair
  <2>2. /\ prev'.scan = cur /\ prev'.uid = b.uid /\ prev'.scan \in Scans
        /\ Labelling(prev.uid, prev.scan)'
    BY <1>0, <2>1, TrackerHolds
  <2> QED
    BY <1>0, <1>7, <2>1, <2>2 DEF RunPair, HistoryMoves, Place, aux
<1>8. CASE LinkRequired
  BY <1>0, <1>8 DEF LinkRequired, Place, Labelling, CellsOf, aux
<1>9. CASE WriteScan
  BY <1>0, <1>9 DEF WriteScan, Place, Labelling, CellsOf, aux
<1>10. CASE Done
  BY <1>0, <1>10 DEF Done, Place, Labelling, CellsOf, aux
<1>11. CASE RunFails
  BY <1>0, <1>11 DEF RunFails, MarkFailed, Place, Labelling, CellsOf
<1>12. CASE TrackedThenRaised
  <2>1. PICK b \in Tracked : TrackerMoves(b)
    BY <1>12 DEF TrackedThenRaised
  <2>2. /\ prev'.scan = cur /\ prev'.uid = b.uid /\ prev'.scan \in Scans
        /\ Labelling(prev.uid, prev.scan)'
    BY <1>0, <2>1, TrackerHolds
  <2> QED
    BY <1>0, <1>12, <2>2 DEF TrackedThenRaised, MarkFailed, Place
<1>13. CASE PersistFails
  BY <1>0, <1>13 DEF PersistFails, MarkFailed, Place, Labelling, CellsOf
<1> QED
  BY <1>1, <1>2, <1>3, <1>4, <1>5, <1>6, <1>7, <1>8, <1>9, <1>10, <1>11, <1>12, <1>13
  DEF Next

LEMMA InStepNext == ASSUME Place, InStep, [Next]_vars PROVE InStep'
<1>0. /\ input' = input /\ cur \in Scans /\ hist \in {0} \union seen /\ seen \subseteq Scans
      /\ input \in Inputs /\ prev.scan \in {0} \union Scans /\ Scans \subseteq Nat \ {0}
  BY InputFixed DEF Place, Scans
<1>1. CASE UNCHANGED vars
  BY <1>0, <1>1 DEF vars, memory, aux, InStep
<1>2. CASE Start \/ ProcessEnds
  BY <1>2 DEF Start, ProcessEnds, InStep, NoTracks
<1>3. ASSUME NEW s \in Scans, Skip(s) PROVE InStep'
  BY <1>0, <1>3 DEF Skip, Handed, InStep
<1>4. ASSUME NEW s \in Scans, Take(s) PROVE InStep'
  <2>1. CASE slipped'
    BY <2>1 DEF InStep
  <2>2. CASE ~slipped'
    <3>1. /\ ~slipped /\ seen' = seen \union {s} /\ \A x \in seen : x < s
      BY <1>4, <2>2 DEF Take, Handed
    <3>2. /\ cur' = s /\ hist' = hist /\ prev' = prev /\ pc' = "run"
      BY <1>4 DEF Take
    <3>3. \A x \in seen' : x <= cur'
      BY <1>0, <3>1, <3>2
    <3>4. hist' # cur'
      BY <1>0, <3>1, <3>2
    <3> QED
      BY <1>0, <3>1, <3>2, <3>3, <3>4 DEF InStep
  <2> QED
    BY <2>1, <2>2
<1>5. CASE RunSingle
  <2>1. /\ pc = "run" /\ ~PairsUp /\ hist' = cur /\ prev' = prev /\ pc' = "idle"
        /\ slipped' = slipped
    BY <1>5 DEF RunSingle, HistoryMoves, aux
  <2>2. ASSUME ~slipped, prev.scan # 0
        PROVE  prev.scan < cur /\ input.time[cur] - input.time[prev.scan] > PairGap
    <3>1. hist # 0 /\ hist \in Scans /\ hist < cur
      <4>1. hist # 0 /\ hist # cur /\ \A x \in seen : x <= cur
        BY <2>1, <2>2 DEF InStep
      <4>2. hist \in seen /\ hist \in Nat /\ cur \in Nat
        BY <1>0, <4>1
      <4> QED
        BY <1>0, <4>1, <4>2
    <3>2. /\ input.time[hist] \in Nat /\ input.time[cur] \in Nat
          /\ input.time[prev.scan] \in Nat /\ input.time[hist] < input.time[cur]
      BY <1>0, <2>2, <3>1, InputTyped
    <3>3. input.time[cur] - input.time[hist] > PairGap
      BY <1>0, <2>1, <3>1, <3>2, ConstantsAssumption DEF PairsUp, Apart
    <3>4. CASE prev.scan = hist
      BY <3>1, <3>3, <3>4
    <3>5. CASE prev.scan < hist /\ input.time[hist] - input.time[prev.scan] > PairGap
      BY <1>0, <3>1, <3>2, <3>5, ConstantsAssumption
    <3> QED
      BY <2>2, <3>4, <3>5 DEF InStep
  <2> QED
    BY <1>0, <2>1, <2>2 DEF InStep
<1>6. CASE RunPair
  <2>1. /\ prev'.scan = cur /\ hist' = cur /\ cur' = cur /\ seen' = seen
        /\ slipped' = slipped /\ pc = "run" /\ pc' = "link"
    BY <1>6 DEF RunPair, TrackerMoves, HistoryMoves, aux
  <2> QED
    BY <2>1 DEF InStep
<1>7. CASE LinkRequired \/ WriteScan \/ Done
  BY <1>0, <1>7 DEF LinkRequired, WriteScan, Done, aux, InStep
<1>8. CASE RunFails \/ PersistFails
  BY <1>0, <1>8 DEF RunFails, PersistFails, MarkFailed, InStep
<1>9. CASE TrackedThenRaised
  BY <1>9 DEF TrackedThenRaised, InStep
<1> QED
  BY <1>1, <1>2, <1>3, <1>4, <1>5, <1>6, <1>7, <1>8, <1>9 DEF Next

LEMMA BatchEventsNext == ASSUME Place, BatchEvents, [Next]_vars PROVE BatchEvents'
<1>1. CASE RunPair
  <2>1. PICK b \in Tracked : batch' = b
    BY <1>1 DEF RunPair
  <2>2. Accounts(b)
    BY TrackedAccounts
  <2> QED
    BY <2>1, <2>2 DEF Accounts, BatchEvents
<1>2. CASE UNCHANGED <<pc, batch>>
  BY <1>2 DEF BatchEvents, Busy
<1>3. CASE LinkRequired \/ WriteScan
  <2>1. (batch' = batch /\ pc \in {"link", "tables"}) \/ pc' = "idle"
    BY <1>3 DEF LinkRequired, WriteScan
  <2> QED
    BY <2>1 DEF BatchEvents, Busy
<1>4. ASSUME ~RunPair, ~LinkRequired, ~WriteScan
      PROVE  UNCHANGED <<pc, batch>> \/ pc' = "idle" \/ pc' = "run"
  BY <1>4 DEF Next, vars, memory, Start, ProcessEnds, Skip, Take, RunSingle,
     Done, RunFails, TrackedThenRaised, PersistFails, MarkFailed
<1> QED
  BY <1>1, <1>2, <1>3, <1>4 DEF BatchEvents, Busy

LEMMA StepInv == Spec => [](Place /\ InStep /\ BatchEvents)
<1>1. Init => Place /\ InStep /\ BatchEvents
  <2>1. ASSUME Init PROVE pc = "idle" /\ prev.scan = 0
    BY <2>1, Nothing DEF Init
  <2> QED
    BY <2>1, PlaceInit DEF InStep, BatchEvents, Busy
<1>2. Place /\ InStep /\ BatchEvents /\ [Next]_vars => (Place /\ InStep /\ BatchEvents)'
  BY PlaceNext, InStepNext, BatchEventsNext
<1> QED
  BY <1>1, <1>2, PTL DEF Spec

LEMMA AgreesFromStep == Place /\ InStep => PairAgrees
<1> SUFFICES ASSUME Place, InStep, TrackGap <= PairGap, pc = "run", PairsUp, prev.scan # 0,
                    ~StartsOver, ~slipped
             PROVE  prev.scan = hist
  BY DEF PairAgrees
<1>0. /\ cur \in Scans /\ hist \in {0} \union Scans /\ input \in Inputs
      /\ prev.scan \in Scans /\ Scans \subseteq Nat \ {0}
  BY Nothing DEF Place
<1>1. ASSUME hist # 0, prev.scan < hist,
             input.time[hist] - input.time[prev.scan] > PairGap
      PROVE  FALSE
  <2>1. hist < cur
    BY <1>0, <1>1 DEF InStep, Place
  <2>2. /\ input.time[hist] \in Nat /\ input.time[cur] \in Nat
        /\ input.time[prev.scan] \in Nat /\ input.time[hist] < input.time[cur]
    BY <1>0, <1>1, <2>1, InputTyped
  <2> QED
    BY <1>1, <2>2, ConstantsAssumption DEF StartsOver
<1> QED
  BY <1>1 DEF InStep

(* The processor's gap check against its history and the tracker's against  *)
(* its own previous scan come to the same pair: whenever both take the scan *)
(* at hand, the cells the tracker continues are those of the frame the      *)
(* projection registered.                                                   *)
THEOREM PairAgreesHolds == Spec => []PairAgrees
BY StepInv, AgreesFromStep, PTL

-----------------------------------------------------------------------------
(* The previous scan in the tables                                         *)

LEMMA LeastOfNaturals ==
  ASSUME NEW S, S \subseteq Nat, S # {}
  PROVE  \E m \in S : \A k \in S : m <= k
<1> DEFINE R == OpToRel(<, Nat)
<1>1. IsWellFoundedOn(R, Nat)
  BY NatLessThanWellFounded
<1>2. PICK x \in S : \A y \in S : ~ (<<y, x>> \in R)
  <2> HIDE DEF R
  <2> QED
    BY <1>1, WFMin
<1>3. \A y \in S : <<y, x>> \in R <=> y < x
  BY DEF OpToRel
<1> HIDE DEF R
<1>4. ASSUME NEW k \in S PROVE x <= k
  <2>1. ~ (k < x) /\ k \in Nat /\ x \in Nat
    BY <1>2, <1>3
  <2> QED
    BY <2>1
<1> QED
  BY <1>4

LEMMA GreatestScan ==
  ASSUME NEW S \in SUBSET Scans, S # {}
  PROVE  \E m \in S : \A k \in S : k <= m
<1> DEFINE T == {NScans - s : s \in S}
<1>0. NScans \in Nat /\ \A s \in S : s \in Nat /\ s <= NScans
  BY ConstantsAssumption DEF Scans
<1>1. T \subseteq Nat
  BY <1>0
<1>2. PICK m \in T : \A k \in T : m <= k
  <2>1. T # {}
    OBVIOUS
  <2> HIDE DEF T
  <2> QED
    BY <1>1, <2>1, LeastOfNaturals
<1>3. PICK s \in S : m = NScans - s
  BY <1>2
<1>4. ASSUME NEW k \in S PROVE k <= s
  <2>1. m <= NScans - k
    BY <1>2
  <2> QED
    BY <1>0, <1>3, <2>1
<1> QED
  BY <1>4

(* _prev_scan finds the latest earlier scan that has rows, or none.         *)
LEMMA PrevIsLatest ==
  ASSUME cur \in Scans, \A r \in rows : r.scan \in Scans
  PROVE  /\ PrevInTable \in {0} \union Scans
         /\ PrevInTable # 0 => PrevInTable < cur /\ \E r \in rows : r.scan = PrevInTable
         /\ \A r \in rows : r.scan < cur => PrevInTable # 0 /\ r.scan <= PrevInTable
<1> DEFINE Cands == {s \in Scans : Earlier(s) /\ (s = cur \/ \E r \in rows : r.scan = s)}
<1>1. PrevInTable = IF Cands = {} THEN 0 ELSE CHOOSE s \in Cands : \A t \in Cands : t <= s
  BY DEF PrevInTable
<1>2. \A s : s \in Cands <=> s \in Scans /\ s < cur /\ \E r \in rows : r.scan = s
  BY Nothing DEF Earlier
<1> HIDE DEF Cands
<1>3. CASE Cands = {}
  BY <1>1, <1>2, <1>3
<1>4. CASE Cands # {}
  <2>1. \E m \in Cands : \A k \in Cands : k <= m
    BY <1>2, <1>4, GreatestScan
  <2>2. PrevInTable \in Cands /\ \A t \in Cands : t <= PrevInTable
    BY <1>1, <1>4, <2>1
  <2> QED
    BY <1>2, <2>2, Nothing
<1> QED
  BY <1>3, <1>4

-----------------------------------------------------------------------------
(* What a write leaves                                                     *)

LEMMA TablesStill ==
  ASSUME [Next]_vars, ~WriteScan
  PROVE  rows' = rows /\ events' = events /\ tracks' = tracks /\ writes' = writes
BY DEF Next, vars, tables, Start, ProcessEnds, Skip, Take, RunSingle, RunPair, LinkRequired,
       Done, RunFails, TrackedThenRaised, PersistFails

LEMMA LostGrows ==
  ASSUME [Next]_vars PROVE lost \subseteq lost' /\ lost' \subseteq lost \union {cur}
BY DEF Next, vars, aux, Start, ProcessEnds, Skip, Take, RunSingle, RunPair, LinkRequired,
       WriteScan, Done, RunFails, TrackedThenRaised, PersistFails

(* The batch at hand labels the cells of the current scan.                  *)
LEMMA AtHand ==
  ASSUME Place, Busy
  PROVE  /\ prev.scan = cur /\ batch.uid = prev.uid /\ input \in Inputs /\ cur \in Scans
         /\ batch.uid \in [CellsOf(cur) -> Uids]
         /\ \A c, d \in CellsOf(cur) : batch.uid[c] = batch.uid[d] => c = d
         /\ \A u : u \in UidsIn(batch.uid) <=> \E c \in CellsOf(cur) : u = batch.uid[c]
<1>1. /\ prev.scan = cur /\ batch.uid = prev.uid /\ input \in Inputs /\ cur \in Scans
      /\ Labelling(batch.uid, cur)
  BY DEF Place
<1>2. batch.uid \in [CellsOf(cur) -> Uids]
  BY <1>1, Nothing DEF Labelling
<1>3. \A c, d \in CellsOf(cur) : batch.uid[c] = batch.uid[d] => c = d
  BY <1>1, Nothing DEF Labelling
<1> QED
  BY <1>1, <1>2, <1>3 DEF UidsIn

LEMMA FlaggedFields ==
  ASSUME NEW r \in Row
  PROVE  /\ Flagged(r) \in Row
         /\ Flagged(r).scan = r.scan /\ Flagged(r).label = r.label /\ Flagged(r).uid = r.uid
BY DEF Flagged, Row

NewRow(c) == [scan |-> cur, label |-> c, uid |-> batch.uid[c],
              ended |-> FALSE, split |-> FALSE, merged |-> FALSE]

LEMMA NewRowFields ==
  ASSUME Place, pc = "tables"
  PROVE  /\ \A q : q \in NewRows <=> \E c \in CellsOf(cur) : q = NewRow(c)
         /\ \A c \in CellsOf(cur) : /\ NewRow(c) \in Row
                                    /\ NewRow(c).scan = cur /\ NewRow(c).label = c
                                    /\ NewRow(c).uid = batch.uid[c]
                                    /\ NewRow(c).uid \in UidsIn(batch.uid)
<1>1. Busy
  BY DEF Busy
<1>2. \A c \in CellsOf(cur) : c \in Nat /\ batch.uid[c] \in Uids
  BY <1>1, AtHand, CellsTyped
<1>3. \A c \in CellsOf(cur) : NewRow(c) \in Row
  BY <1>1, <1>2, AtHand DEF NewRow, Row
<1> QED
  BY <1>1, <1>3, AtHand DEF NewRows, NewRow

(* The rows after a write: the other scans' with their flags, the scan's    *)
(* own as the batch labels them, which is what they were if it had any.     *)
LEMMA RowsAfter ==
  ASSUME Place, rows \subseteq Row, WriteScan,
         \A r \in rows : r.label \in CellsOf(r.scan)
  PROVE  /\ \A r \in rows : r.scan # cur => Flagged(r) \in rows'
         /\ \A q \in rows' :
              \/ q.scan # cur /\ \E r \in rows : r.scan # cur /\ q = Flagged(r)
              \/ q.scan = cur /\ \E c \in CellsOf(cur) : q = NewRow(c)
         /\ \A c \in CellsOf(cur) : NewRow(c) \in rows'
         /\ \A r \in rows : r.scan = cur => r.uid = batch.uid[r.label]
<1>1. /\ rows' = {Flagged(r) : r \in {x \in rows : x.scan # cur}} \union NewRows
      /\ ~LabelTaken /\ pc = "tables"
  BY DEF WriteScan
<1>2. \A r \in rows : r.scan # cur => Flagged(r) \in rows'
  BY <1>1
<1>3. \A q \in rows' : \/ \E r \in rows : r.scan # cur /\ q = Flagged(r)
                       \/ \E c \in CellsOf(cur) : q = NewRow(c)
  BY <1>1, NewRowFields
<1>4. \A r \in rows : Flagged(r).scan = r.scan
  BY FlaggedFields
<1>5. \A c \in CellsOf(cur) : NewRow(c) \in rows' /\ NewRow(c).scan = cur
  BY <1>1, NewRowFields
<1>6. \A r \in rows : r.scan = cur => r.uid = batch.uid[r.label]
  BY <1>1 DEF LabelTaken
<1> QED
  BY <1>2, <1>3, <1>4, <1>5, <1>6

LEMMA ScansOfAfter ==
  ASSUME Place, rows \subseteq Row, WriteScan,
         \A r \in rows : r.label \in CellsOf(r.scan), NEW u
  PROVE  ScansOf(u)' = IF u \in UidsIn(batch.uid) THEN ScansOf(u) \union {cur} ELSE ScansOf(u)
<1>1. \A s : s \in ScansOf(u) <=> \E r \in rows : r.scan = s /\ r.uid = u
  BY DEF ScansOf
<1>2. \A s : s \in ScansOf(u)' <=> \E r \in rows' : r.scan = s /\ r.uid = u
  BY DEF ScansOf
<1>3. Busy /\ pc = "tables"
  BY DEF WriteScan, Busy
<1>4. \A r \in rows : r.scan = cur => r.uid \in UidsIn(batch.uid)
  <2>1. \A r \in rows : r.scan = cur => r.label \in CellsOf(cur) /\ r.uid = batch.uid[r.label]
    BY RowsAfter
  <2> QED
    BY <1>3, <2>1, AtHand
<1>5. ASSUME NEW s PROVE s \in ScansOf(u)' <=>
                           \/ s \in ScansOf(u) \/ (s = cur /\ u \in UidsIn(batch.uid))
  <2>1. ASSUME NEW r \in rows', r.scan = s, r.uid = u
        PROVE  s \in ScansOf(u) \/ (s = cur /\ u \in UidsIn(batch.uid))
    <3>1. CASE \E q \in rows : q.scan # cur /\ r = Flagged(q)
      BY <1>1, <2>1, <3>1, FlaggedFields
    <3>2. CASE \E c \in CellsOf(cur) : r = NewRow(c)
      BY <1>3, <2>1, <3>2, NewRowFields
    <3> QED
      BY <3>1, <3>2, RowsAfter
  <2>2. ASSUME NEW r \in rows, r.scan = s, r.uid = u PROVE s \in ScansOf(u)'
    <3>1. CASE s # cur
      BY <1>2, <2>2, <3>1, FlaggedFields, RowsAfter
    <3>2. CASE s = cur
      <4>1. r.label \in CellsOf(cur) /\ u = batch.uid[r.label]
        BY <2>2, <3>2, RowsAfter
      <4>2. NewRow(r.label) \in rows' /\ NewRow(r.label).scan = s /\ NewRow(r.label).uid = u
        BY <1>3, <3>2, <4>1, NewRowFields, RowsAfter
      <4> QED
        BY <1>2, <4>2
    <3> QED
      BY <3>1, <3>2
  <2>3. ASSUME s = cur, u \in UidsIn(batch.uid) PROVE s \in ScansOf(u)'
    <3>1. PICK c \in CellsOf(cur) : u = batch.uid[c]
      BY <1>3, <2>3, AtHand
    <3>2. NewRow(c) \in rows' /\ NewRow(c).scan = s /\ NewRow(c).uid = u
      BY <1>3, <2>3, <3>1, NewRowFields, RowsAfter
    <3> QED
      BY <1>2, <3>2
  <2> QED
    BY <1>1, <1>2, <2>1, <2>2, <2>3
<1>6. u \notin UidsIn(batch.uid) => cur \notin ScansOf(u)
  BY <1>1, <1>4
<1> QED
  BY <1>5, <1>6

EventRow(e) == [type |-> e.type, src |-> e.src, dst |-> e.dst,
                from |-> IF e.type = "INITIATION" THEN 0 ELSE PrevInTable,
                to   |-> IF e.type = "TERMINATION" THEN 0 ELSE cur,
                by   |-> cur, write |-> writes[cur] + 1]

LEMMA EventRowFields ==
  /\ \A f : f \in NewEvents <=> \E e \in batch.events : f = EventRow(e)
  /\ \A e : /\ EventRow(e).type = e.type /\ EventRow(e).src = e.src
            /\ EventRow(e).dst = e.dst
            /\ EventRow(e).from = IF e.type = "INITIATION" THEN 0 ELSE PrevInTable
            /\ EventRow(e).by = cur /\ EventRow(e).write = writes[cur] + 1
BY DEF NewEvents, EventRow

LEMMA TracksAfter ==
  ASSUME WriteScan
  PROVE  /\ DOMAIN tracks' = DOMAIN tracks \union UidsIn(batch.uid)
         /\ \A u \in UidsIn(batch.uid) :
              tracks'[u] = IF u \in DOMAIN tracks THEN SeenAgain(tracks[u]) ELSE FirstSeen(u)
         /\ \A u \in DOMAIN tracks : u \notin UidsIn(batch.uid) =>
              tracks'[u] = IF u \in Sources("TERMINATION") THEN Ended(u, tracks[u])
                                                           ELSE tracks[u]
BY DEF WriteScan, NewTracks

LEMMA SeenAgainFields ==
  ASSUME NEW t \in TrackOf, cur \in Scans
  PROVE  /\ SeenAgain(t) \in TrackOf /\ SeenAgain(t).first = t.first
         /\ SeenAgain(t).last = cur /\ SeenAgain(t).n = t.n + 1 /\ SeenAgain(t).end = t.end
<1>1. /\ t = [first |-> t.first, last |-> t.last, n |-> t.n, end |-> t.end,
               into |-> t.into, origin |-> t.origin]
      /\ t.first \in Scans /\ t.n \in Nat \ {0}
      /\ t.end \in {"ACTIVE_AT_END", "TERMINATION", "MERGED"}
      /\ t.into \in Uids \union {NoCell} /\ t.origin \in {"INITIATION", "SPLIT", "UNKNOWN"}
  BY DEF TrackOf
<1>2. SeenAgain(t) = [first |-> t.first, last |-> cur, n |-> t.n + 1, end |-> t.end,
                      into |-> t.into, origin |-> t.origin]
  <2>1. SeenAgain(t) = [[t EXCEPT !.last = cur] EXCEPT !.n = t.n + 1]
    BY <1>1 DEF SeenAgain
  <2>2. [t EXCEPT !.last = cur] = [first |-> t.first, last |-> cur, n |-> t.n, end |-> t.end,
                                   into |-> t.into, origin |-> t.origin]
    BY <1>1
  <2> QED
    BY <2>1, <2>2
<1>3. t.n + 1 \in Nat \ {0}
  BY <1>1
<1> QED
  BY <1>1, <1>2, <1>3 DEF TrackOf

LEMMA FirstSeenFields ==
  ASSUME NEW u, cur \in Scans
  PROVE  /\ FirstSeen(u) \in TrackOf /\ FirstSeen(u).first = cur
         /\ FirstSeen(u).last = cur /\ FirstSeen(u).n = 1
         /\ FirstSeen(u).end = "ACTIVE_AT_END"
BY DEF FirstSeen, TrackOf

LEMMA EndedFields ==
  ASSUME NEW u, NEW t \in TrackOf, Place, BatchEvents, Busy
  PROVE  /\ Ended(u, t) \in TrackOf /\ Ended(u, t).first = t.first
         /\ Ended(u, t).last = t.last /\ Ended(u, t).n = t.n
         /\ Ended(u, t).end # "ACTIVE_AT_END"
<1> DEFINE sinks == {e.dst : e \in {x \in batch.events : x.type = "MERGE" /\ x.src = u}}
<1>1. sinks \subseteq Uids \union {NoCell}
  <2>1. \A x \in batch.events : x.dst \in UidsIn(batch.uid) \union {NoCell}
    BY DEF BatchEvents
  <2>2. \A v \in UidsIn(batch.uid) : v \in Uids
    BY AtHand
  <2> QED
    BY <2>1, <2>2
<1>2. Ended(u, t) = IF sinks = {} THEN [t EXCEPT !.end = "TERMINATION"]
                    ELSE [t EXCEPT !.end = "MERGED", !.into = CHOOSE v \in sinks : TRUE]
  BY DEF Ended
<1> HIDE DEF sinks
<1>3. CASE sinks = {}
  BY <1>2, <1>3 DEF TrackOf
<1>4. ASSUME sinks # {}, NEW v \in sinks, v = CHOOSE w \in sinks : TRUE
      PROVE  Ended(u, t) = [t EXCEPT !.end = "MERGED", !.into = v]
  BY <1>2, <1>4
<1>5. CASE sinks # {}
  <2>1. PICK v \in sinks : v = CHOOSE w \in sinks : TRUE
    BY <1>5
  <2>2. Ended(u, t) = [t EXCEPT !.end = "MERGED", !.into = v] /\ v \in Uids \union {NoCell}
    BY <1>1, <1>4, <1>5, <2>1
  <2> QED
    BY <2>2 DEF TrackOf
<1> QED
  BY <1>3, <1>5

-----------------------------------------------------------------------------
(* The tables keep their keys, and every row its event                     *)

LEMMA WritesAfter ==
  ASSUME writes \in [Scans -> Nat], cur \in Scans, WriteScan
  PROVE  /\ writes' \in [Scans -> Nat] /\ writes'[cur] = writes[cur] + 1
         /\ \A s \in Scans : (s # cur => writes'[s] = writes[s]) /\ writes[s] <= writes'[s]
BY DEF WriteScan

LEMMA RowsNext ==
  ASSUME Place, Rows, [Next]_vars
  PROVE  Rows'
<1>0. input' = input /\ \A s : CellsOf(s)' = CellsOf(s)
  BY InputFixed DEF CellsOf
<1>1. CASE ~WriteScan
  <2>1. rows' = rows /\ tracks' = tracks /\ writes' = writes
    BY <1>1, TablesStill
  <2> QED
    BY <1>0, <2>1 DEF Rows
<1>2. CASE WriteScan
  <2>0. /\ Busy /\ pc = "tables" /\ rows \subseteq Row
        /\ \A r \in rows : r.label \in CellsOf(r.scan)
        /\ writes \in [Scans -> Nat] /\ cur \in Scans
    BY <1>2 DEF WriteScan, Busy, Rows, Place
  <2> DEFINE Kept(q) == q.scan # cur /\ \E r \in rows : r.scan # cur /\ q = Flagged(r)
             Made(q) == q.scan = cur /\ \E c \in CellsOf(cur) : q = NewRow(c)
  <2>1. \A q \in rows' : Kept(q) \/ Made(q)
    BY <1>2, <2>0, RowsAfter
  <2>2. \A q : Kept(q) => /\ q \in Row
                          /\ \E r \in rows : /\ r.scan = q.scan /\ r.label = q.label
                                             /\ r.uid = q.uid /\ q = Flagged(r)
    BY <2>0, FlaggedFields
  <2>3. \A q : Made(q) => /\ q \in Row /\ q.label \in CellsOf(cur)
                          /\ q.uid = batch.uid[q.label] /\ q.uid \in UidsIn(batch.uid)
                          /\ q = NewRow(q.label)
    BY <2>0, NewRowFields
  <2> HIDE DEF Kept, Made
  <2>4. rows' \subseteq Row /\ writes' \in [Scans -> Nat]
    BY <1>2, <2>0, <2>1, <2>2, <2>3, WritesAfter
  <2>5. ASSUME NEW q \in rows'
        PROVE  q.label \in CellsOf(q.scan)' /\ writes'[q.scan] >= 1 /\ q.uid \in DOMAIN tracks'
    <3>1. CASE Kept(q)
      <4>1. PICK r \in rows : r.scan = q.scan /\ r.label = q.label /\ r.uid = q.uid
        BY <2>2, <3>1
      <4>2. /\ r.label \in CellsOf(r.scan) /\ writes[r.scan] >= 1 /\ r.uid \in DOMAIN tracks
            /\ r.scan \in Scans
        BY DEF Rows, Row
      <4>3. writes[r.scan] \in Nat /\ writes'[r.scan] \in Nat /\ writes[r.scan] <= writes'[r.scan]
        BY <1>2, <2>0, <4>2, WritesAfter
      <4> QED
        BY <1>0, <1>2, <4>1, <4>2, <4>3, TracksAfter
    <3>2. CASE Made(q)
      <4>1. q.scan = cur /\ q.label \in CellsOf(cur) /\ q.uid \in UidsIn(batch.uid)
        BY <2>3, <3>2 DEF Made
      <4>2. writes'[cur] = writes[cur] + 1 /\ writes[cur] \in Nat
        BY <1>2, <2>0, WritesAfter
      <4> QED
        BY <1>0, <1>2, <4>1, <4>2, TracksAfter
    <3> QED
      BY <2>1, <3>1, <3>2
  <2>6. ASSUME NEW s \in Scans, NEW q \in rows', q.scan = s, NEW c \in CellsOf(s)'
        PROVE  \E r \in rows' : r.scan = s /\ r.label = c
    <3>1. CASE s = cur
      BY <1>0, <1>2, <2>0, <2>6, <3>1, RowsAfter, NewRowFields
    <3>2. CASE s # cur
      <4>1. \E r \in rows : r.scan = s
        BY <2>1, <2>2, <2>6, <3>2 DEF Made
      <4>2. PICK r \in rows : r.scan = s /\ r.label = c
        BY <1>0, <2>6, <4>1 DEF Rows
      <4>3. Flagged(r) \in rows' /\ Flagged(r).scan = s /\ Flagged(r).label = c
        BY <1>2, <2>0, <3>2, <4>2, RowsAfter, FlaggedFields
      <4> QED
        BY <4>3
    <3> QED
      BY <3>1, <3>2
  <2>7. ASSUME NEW p \in rows', NEW q \in rows', p.scan = q.scan,
               p.label = q.label \/ p.uid = q.uid
        PROVE  p = q
    <3>1. CASE p.scan = cur
      <4>1. Made(p) /\ Made(q)
        BY <2>1, <2>7, <3>1 DEF Kept
      <4>2. p.label = q.label
        BY <2>0, <2>3, <2>7, <4>1, AtHand
      <4> QED
        BY <2>3, <4>1, <4>2
    <3>2. CASE p.scan # cur
      <4>1. Kept(p) /\ Kept(q)
        BY <2>1, <2>7, <3>2 DEF Made
      <4>2. PICK r \in rows : /\ r.scan = p.scan /\ r.label = p.label
                              /\ r.uid = p.uid /\ p = Flagged(r)
        BY <2>2, <4>1
      <4>3. PICK t \in rows : /\ t.scan = q.scan /\ t.label = q.label
                              /\ t.uid = q.uid /\ q = Flagged(t)
        BY <2>2, <4>1
      <4>4. r = t
        BY <2>7, <4>2, <4>3 DEF Rows
      <4> QED
        BY <4>2, <4>3, <4>4
    <3> QED
      BY <3>1, <3>2
  <2> QED
    BY <2>4, <2>5, <2>6, <2>7 DEF Rows
<1> QED
  BY <1>1, <1>2

LEMMA EventsNext ==
  ASSUME Place, Rows, Events, [Next]_vars
  PROVE  Events'
<1>0. /\ writes \in [Scans -> Nat] /\ cur \in Scans /\ \A r \in rows : r.scan \in Scans
      /\ \A r \in rows : writes[r.scan] >= 1
  BY DEF Rows, Row, Place
<1>1. CASE ~WriteScan
  <2>1. events' = events /\ writes' = writes
    BY <1>1, TablesStill
  <2> QED
    BY <2>1 DEF Events
<1>2. CASE WriteScan
  <2>1. events' = events \union NewEvents
    BY <1>2 DEF WriteScan
  <2>2. /\ PrevInTable \in {0} \union Scans
        /\ PrevInTable # 0 => writes[PrevInTable] >= 1
    BY <1>0, PrevIsLatest
  <2>3. /\ writes' \in [Scans -> Nat] /\ writes'[cur] = writes[cur] + 1
        /\ \A s \in Scans : writes[s] <= writes'[s]
    BY <1>0, <1>2, WritesAfter
  <2>4. ASSUME NEW f \in events
        PROVE  /\ f.by \in Scans /\ f.write \in Nat \ {0} /\ f.write <= writes'[f.by]
               /\ f.from \in {0} \union Scans /\ (f.from # 0 => writes'[f.from] >= 1)
    <3>1. /\ f.by \in Scans /\ f.write \in Nat \ {0} /\ f.write <= writes[f.by]
          /\ f.from \in {0} \union Scans /\ (f.from # 0 => writes[f.from] >= 1)
      BY DEF Events
    <3>2. \A s \in Scans : writes[s] \in Nat /\ writes'[s] \in Nat /\ writes[s] <= writes'[s]
      BY <1>0, <2>3
    <3>3. f.write <= writes'[f.by]
      BY <3>1, <3>2
    <3>4. f.from # 0 => writes'[f.from] >= 1
      BY <3>1, <3>2
    <3> QED
      BY <3>1, <3>3, <3>4
  <2>5. ASSUME NEW f \in NewEvents
        PROVE  /\ f.by \in Scans /\ f.write \in Nat \ {0} /\ f.write <= writes'[f.by]
               /\ f.from \in {0} \union Scans /\ (f.from # 0 => writes'[f.from] >= 1)
    <3>1. /\ f.by = cur /\ f.write = writes[cur] + 1 /\ f.from \in {0, PrevInTable}
      BY EventRowFields
    <3>2. \A s \in Scans : writes[s] \in Nat /\ writes'[s] \in Nat /\ writes[s] <= writes'[s]
      BY <1>0, <2>3
    <3>3. f.from # 0 => f.from = PrevInTable /\ writes'[f.from] >= 1
      <4>1. ASSUME f.from # 0 PROVE f.from = PrevInTable /\ PrevInTable \in Scans
        BY <2>2, <3>1, <4>1
      <4> QED
        BY <2>2, <3>2, <4>1
    <3> QED
      BY <1>0, <2>2, <2>3, <3>1, <3>2, <3>3
  <2> QED
    BY <2>1, <2>4, <2>5 DEF Events
<1> QED
  BY <1>1, <1>2

LEMMA RowsComeNext ==
  ASSUME Place, BatchEvents, Rows, Events, RowsCome, [Next]_vars
  PROVE  RowsCome'
<1>0. /\ writes \in [Scans -> Nat] /\ cur \in Scans /\ rows \subseteq Row
      /\ \A r \in rows : r.label \in CellsOf(r.scan)
  BY DEF Rows, Place
<1>1. CASE ~WriteScan
  <2>1. rows' = rows /\ events' = events /\ writes' = writes
    BY <1>1, TablesStill
  <2> QED
    BY <2>1 DEF RowsCome, Comes
<1>2. CASE WriteScan
  <2>0. events' = events \union NewEvents /\ pc = "tables" /\ Busy
    BY <1>2 DEF WriteScan, Busy
  <2>1. \A f \in NewEvents : f.by = cur /\ f.write = writes[cur] + 1
    BY EventRowFields
  <2>2. ASSUME NEW q \in rows' PROVE \E e \in events' : Comes(q)' = {e}
    <3>1. ASSUME q.scan # cur, NEW r \in rows, r.scan # cur, q = Flagged(r)
          PROVE  \E e \in events' : Comes(q)' = {e}
      <4>1. r.scan \in Scans /\ q.scan = r.scan /\ q.uid = r.uid
        BY <1>0, <3>1, FlaggedFields DEF Row
      <4>2. writes'[q.scan] = writes[r.scan]
        BY <1>0, <1>2, <3>1, <4>1, WritesAfter
      <4>3. PICK e \in events : Comes(r) = {e}
        BY DEF RowsCome
      <4>4. \A f : f \in Comes(q)' <=> /\ f \in events' /\ f.by = q.scan
                                       /\ f.write = writes'[q.scan] /\ f.type \in Incoming
                                       /\ f.dst = q.uid
        BY DEF Comes
      <4>5. \A f : f \in Comes(q)' <=> f \in Comes(r)
        BY <2>0, <2>1, <3>1, <4>1, <4>2, <4>4 DEF Comes
      <4> QED
        BY <2>0, <4>3, <4>5
    <3>2. ASSUME q.scan = cur, NEW c \in CellsOf(cur), q = NewRow(c)
          PROVE  \E e \in events' : Comes(q)' = {e}
      <4>1. q.uid \in UidsIn(batch.uid)
        BY <2>0, <3>2, NewRowFields
      <4>2. PICK e \in batch.events : e.type \in Incoming /\ e.dst = q.uid
        BY <2>0, <4>1 DEF BatchEvents
      <4>3. /\ EventRow(e) \in NewEvents /\ EventRow(e).type = e.type
            /\ EventRow(e).dst = e.dst
        BY EventRowFields
      <4>4. writes'[cur] = writes[cur] + 1 /\ writes[cur] \in Nat
        BY <1>0, <1>2, WritesAfter
      <4>5. \A f \in events : f.by = cur => f.write # writes'[cur]
        BY <4>4 DEF Events
      <4>6. \A f : f \in Comes(q)' <=> /\ f \in events' /\ f.by = q.scan
                                       /\ f.write = writes'[q.scan] /\ f.type \in Incoming
                                       /\ f.dst = q.uid
        BY DEF Comes
      <4>7. EventRow(e) \in Comes(q)'
        BY <2>0, <2>1, <3>2, <4>2, <4>3, <4>4, <4>6
      <4>8. ASSUME NEW f \in Comes(q)' PROVE f = EventRow(e)
        <5>1. f \in NewEvents /\ f.type \in Incoming /\ f.dst = q.uid
          BY <2>0, <3>2, <4>5, <4>6
        <5>2. PICK g \in batch.events : f = EventRow(g)
          BY <5>1, EventRowFields
        <5>3. g.type \in Incoming /\ g.dst = e.dst
          BY <4>2, <5>1, <5>2, EventRowFields
        <5>4. g = e
          BY <2>0, <4>2, <5>3 DEF BatchEvents
        <5> QED
          BY <5>2, <5>4
      <4> QED
        BY <2>0, <4>3, <4>7, <4>8
    <3> QED
      BY <1>0, <1>2, <3>1, <3>2, RowsAfter
  <2> QED
    BY <2>2 DEF RowsCome
<1> QED
  BY <1>1, <1>2

LEMMA OthersNext ==
  ASSUME Place, BatchEvents, Others, [Next]_vars
  PROVE  Others'
<1>0. /\ cur \in Scans /\ hist \in 0 .. NScans /\ cur \in 0 .. NScans
      /\ complete \subseteq Scans /\ lost \subseteq Scans /\ lutPrev \in 0 .. NScans
  BY Nothing, ConstantsAssumption, SMTT(30) DEF Place, Others, Scans
<1>1. complete' \subseteq Scans
  BY <1>0 DEF Next, vars, Start, ProcessEnds, Skip, Take, RunSingle, RunPair, LinkRequired,
     WriteScan, Done, RunFails, TrackedThenRaised, PersistFails, MarkFailed
<1>2. lost' \subseteq Scans
  BY <1>0, LostGrows
<1>3. /\ lutPrev' \in 0 .. NScans
      /\ luts' \in [Scans -> [labels : 0 .. NScans, uids : 0 .. NScans]]
  <2>1. CASE RunPair
    <3>1. [labels |-> hist, uids |-> lutPrev] \in [labels : 0 .. NScans, uids : 0 .. NScans]
      BY <1>0
    <3> QED
      BY <1>0, <2>1, <3>1 DEF RunPair, Others
  <2>2. CASE ~RunPair
    <3>1. luts' = luts /\ (lutPrev' = lutPrev \/ lutPrev' = 0)
      BY <2>2 DEF Next, vars, memory, Start, ProcessEnds, Skip, Take, RunSingle,
         LinkRequired, WriteScan, Done, RunFails, TrackedThenRaised, PersistFails
    <3> QED
      BY <1>0, <3>1, ConstantsAssumption DEF Others
  <2> QED
    BY <2>1, <2>2
<1>4. ASSUME NEW u \in DOMAIN tracks' PROVE tracks'[u] \in TrackOf
  <2>1. CASE ~WriteScan
    BY <2>1, TablesStill DEF Others
  <2>2. CASE WriteScan
    <3>1. \A v \in DOMAIN tracks : tracks[v] \in TrackOf
      BY DEF Others
    <3>2. Busy
      BY <2>2 DEF WriteScan, Busy
    <3>3. CASE u \in UidsIn(batch.uid)
      BY <1>0, <2>2, <3>1, <3>3, TracksAfter, SeenAgainFields, FirstSeenFields
    <3>4. CASE u \notin UidsIn(batch.uid)
      BY <1>0, <2>2, <3>1, <3>2, <3>4, TracksAfter, EndedFields
    <3> QED
      BY <3>3, <3>4
  <2> QED
    BY <2>1, <2>2
<1> QED
  BY <1>1, <1>2, <1>3, <1>4 DEF Others

-----------------------------------------------------------------------------
(* A uid that ended is not held again                                      *)

LEMMA DueTyped ==
  ASSUME writes \in [Scans -> Nat], NEW u \in Uids
  PROVE  /\ u[1] \in Scans /\ writes[u[1]] \in Nat /\ Due(u) \in Nat /\ writes[u[1]] <= Due(u)
         /\ Due(u) = IF Unsaved /\ u[1] = cur THEN writes[u[1]] + 1 ELSE writes[u[1]]
<1>1. u[1] \in Scans
  BY DEF Uids
<1>2. writes[u[1]] \in Nat
  BY <1>1
<1> QED
  BY <1>1, <1>2 DEF Due

LEMMA HeldWhenIdle ==
  ASSUME Place, [Next]_vars
  PROVE  /\ Start \/ ProcessEnds => Held' = {}
         /\ LinkRequired /\ CellsOf(cur) = {} => Held' = {}
<1>1. CASE Start \/ ProcessEnds
  <2>1. prev' = NoTracks /\ pc' = "idle" /\ UidsIn(NoTracks.uid) = {}
    BY <1>1, NoUids DEF Start, ProcessEnds
  <2> QED
    BY <1>1, <2>1 DEF Held, Unsaved, LinkRequired, Start, ProcessEnds, UidsIn
<1>2. CASE LinkRequired /\ CellsOf(cur) = {}
  <2>1. Busy /\ prev' = prev /\ pc' = "idle"
    BY <1>2 DEF LinkRequired, Busy
  <2>2. UidsIn(prev.uid) = {}
    BY <1>2, <2>1, AtHand
  <2> QED
    BY <1>2, <2>1, <2>2 DEF Held, Unsaved, UidsIn
<1> QED
  BY <1>1, <1>2

(* The writes due to a held uid do not become fewer, unless its scan is     *)
(* lost.                                                                    *)
LEMMA DueNext ==
  ASSUME Place, writes \in [Scans -> Nat], NEW u \in Uids, [Next]_vars, Held' # {}
  PROVE  /\ Due(u) <= Due(u)' \/ u[1] \in lost'
         /\ Once(u)' => Once(u)
<1>0. /\ cur \in Scans /\ u[1] \in Scans /\ writes[u[1]] \in Nat /\ Due(u) \in Nat
      /\ Due(u) = IF Unsaved /\ u[1] = cur THEN writes[u[1]] + 1 ELSE writes[u[1]]
  BY DueTyped DEF Place
<1>1. Due(u)' = writes'[u[1]] + (IF Unsaved' /\ u[1] = cur' THEN 1 ELSE 0)
  BY DEF Due
<1>2. CASE WriteScan
  <2>1. /\ pc = "tables" /\ pc' = "after" /\ cur' = cur /\ lost' = lost
        /\ writes'[u[1]] = IF u[1] = cur THEN writes[u[1]] + 1 ELSE writes[u[1]]
    BY <1>0, <1>2, WritesAfter DEF WriteScan, aux
  <2>2. Due(u)' = Due(u)
    BY <1>0, <1>1, <2>1 DEF Unsaved
  <2> QED
    BY <1>0, <2>1, <2>2 DEF Once
<1>3. CASE ~WriteScan
  <2>1. writes' = writes /\ lost \subseteq lost'
    BY <1>3, TablesStill, LostGrows
  <2>2. ASSUME Unsaved, u[1] = cur
        PROVE  (Unsaved' /\ cur' = cur) \/ cur \in lost'
    <3>1. ~Start /\ ~ProcessEnds /\ ~(LinkRequired /\ CellsOf(cur) = {})
      BY HeldWhenIdle
    <3> QED
      BY <1>3, <2>2, <3>1 DEF Next, vars, memory, aux, Skip, Take, Handed,
         RunSingle, RunPair, LinkRequired, Done, RunFails, TrackedThenRaised, PersistFails,
         MarkFailed, Unsaved
  <2>3. CASE Unsaved /\ u[1] = cur
    BY <1>0, <1>1, <2>1, <2>2, <2>3 DEF Once
  <2>4. CASE ~(Unsaved /\ u[1] = cur)
    BY <1>0, <1>1, <2>1, <2>4 DEF Once
  <2> QED
    BY <2>3, <2>4
<1> QED
  BY <1>2, <1>3

(* A uid the tracker takes over from itself, or one born in the scan at     *)
(* hand.                                                                    *)
Continued(u) == /\ u \in Held
                /\ u \in UidsIn(prev'.uid) => u \in UidsIn(prev.uid) /\ prev.scan <= prev'.scan
JustBorn(u)  == /\ u \in Uids /\ u[1] = cur /\ pc = "run" /\ prev'.scan = cur
                /\ (Unsaved' /\ cur' = cur) \/ cur \in lost'

LEMMA HeldNext ==
  ASSUME Place, BatchEvents, [Next]_vars, NEW u \in Held'
  PROVE  Continued(u) \/ JustBorn(u)
<1>0. /\ ~Start /\ ~ProcessEnds /\ ~(LinkRequired /\ CellsOf(cur) = {})
      /\ prev.scan \in Nat /\ cur \in Nat /\ cur \in Scans /\ input \in Inputs
  <2>1. prev.scan \in {0} \union Scans /\ cur \in Scans /\ input \in Inputs
    BY DEF Place
  <2> QED
    BY <2>1, HeldWhenIdle, ScansNat
<1>1. u \in UidsIn(prev'.uid) \/ (Unsaved' /\ u \in Sources("TERMINATION")')
  BY DEF Held, UidsIn
<1>2. CASE RunPair \/ TrackedThenRaised
  <2>1. PICK b \in Tracked : TrackerMoves(b) /\ (Unsaved' => batch' = b)
    BY <1>2 DEF RunPair, TrackedThenRaised, MarkFailed, Unsaved
  <2>2. Accounts(b) /\ prev'.uid = b.uid /\ prev'.scan = cur /\ pc = "run"
    BY <1>2, <2>1, TrackedAccounts DEF TrackerMoves, RunPair, TrackedThenRaised
  <2>3. (Unsaved' /\ cur' = cur) \/ cur \in lost'
    BY <1>2 DEF RunPair, TrackedThenRaised, Unsaved
  <2>4. CASE u \in UidsIn(b.uid)
    <3>1. CASE u \in UidsIn(prev.uid) /\ prev.scan < cur
      BY <1>0, <2>2, <3>1 DEF Continued, Held
    <3>2. CASE \E c \in CellsOf(cur) : u = Born(c)
      BY <1>0, <2>2, <2>3, <3>2, BornUids DEF JustBorn
    <3> QED
      BY <2>2, <2>4, <3>1, <3>2 DEF Accounts
  <2>5. CASE u \notin UidsIn(b.uid)
    <3>1. \E e \in b.events : e.type = "TERMINATION" /\ e.src = u
      BY <1>1, <2>1, <2>2, <2>5 DEF Sources
    <3>2. u \in UidsIn(prev.uid)
      BY <2>2, <3>1 DEF Accounts
    <3> QED
      BY <2>2, <2>5, <3>2 DEF Continued, Held
  <2> QED
    BY <2>4, <2>5
<1>3. CASE ~(RunPair \/ TrackedThenRaised)
  <2>1. prev' = prev
    BY <1>0, <1>3 DEF Next, vars, memory, Skip, Take, RunSingle, LinkRequired, WriteScan,
       Done, RunFails, PersistFails
  <2>2. Unsaved' => Unsaved /\ batch' = batch
    BY <1>0, <1>3 DEF Next, vars, memory, Skip, Take, RunSingle, LinkRequired, WriteScan,
       Done, RunFails, PersistFails, MarkFailed, Unsaved
  <2> QED
    BY <1>0, <1>1, <2>1, <2>2 DEF Continued, Held, Sources
<1> QED
  BY <1>2, <1>3

LEMMA BirthsNext ==
  ASSUME Place, BatchEvents, Rows, Births, [Next]_vars
  PROVE  Births'
<1>0. writes \in [Scans -> Nat] /\ cur \in Scans
  BY DEF Rows, Place
<1>1. writes' \in [Scans -> Nat] /\ lost \subseteq lost' /\ cur \in Scans
      /\ \A s \in Scans : writes[s] \in Nat /\ writes[s] <= writes'[s]
  <2>1. CASE WriteScan
    BY <1>0, <2>1, WritesAfter, LostGrows
  <2>2. CASE ~WriteScan
    BY <1>0, <2>2, TablesStill, LostGrows
  <2> QED
    BY <2>1, <2>2
<1>2. ASSUME NEW u \in Held' PROVE u \in Uids /\ (Due(u)' >= 1 \/ u[1] \in lost')
  <2>1. CASE Continued(u)
    <3>1. u \in Uids /\ (Due(u) >= 1 \/ u[1] \in lost)
      BY <2>1 DEF Continued, Births
    <3>2. Due(u) \in Nat /\ Due(u)' \in Nat
      <4>1. u[1] \in Scans /\ writes'[u[1]] \in Nat
        BY <1>1, <3>1 DEF Uids
      <4> QED
        BY <1>0, <3>1, <4>1, DueTyped DEF Due
    <3> QED
      BY <1>0, <1>1, <1>2, <3>1, <3>2, DueNext
  <2>2. CASE JustBorn(u)
    <3>1. writes'[cur] \in Nat /\ u[1] = cur
      BY <1>0, <1>1, <2>2 DEF JustBorn
    <3> QED
      BY <2>2, <3>1 DEF JustBorn, Due
  <2> QED
    BY <1>2, <2>1, <2>2, HeldNext
<1>3. ASSUME NEW u \in DOMAIN tracks'
      PROVE  u \in Uids /\ (writes'[u[1]] >= 1 \/ u[1] \in lost')
  <2>1. CASE u \in DOMAIN tracks
    <3>1. u \in Uids /\ (writes[u[1]] >= 1 \/ u[1] \in lost)
      BY <2>1 DEF Births
    <3>2. u[1] \in Scans
      BY <3>1 DEF Uids
    <3> QED
      BY <1>1, <3>1, <3>2
  <2>2. CASE u \notin DOMAIN tracks
    <3>1. WriteScan /\ u \in UidsIn(batch.uid)
      BY <2>2, TablesStill, TracksAfter
    <3>2. u \in UidsIn(prev.uid) /\ pc' = "after" /\ prev' = prev
      BY <3>1, AtHand DEF WriteScan, Busy
    <3>3. u \in Held'
      BY <3>2 DEF Held, UidsIn
    <3>4. u \in Uids /\ (Due(u)' >= 1 \/ u[1] \in lost')
      BY <1>2, <3>3
    <3>5. Due(u)' = writes'[u[1]]
      <4>1. u[1] \in Scans /\ writes'[u[1]] \in Nat /\ ~Unsaved'
        BY <1>1, <3>2, <3>4 DEF Uids, Unsaved
      <4> QED
        BY <4>1 DEF Due
    <3> QED
      BY <3>4, <3>5
  <2> QED
    BY <2>1, <2>2
<1> QED
  BY <1>2, <1>3 DEF Births

LEMMA AliveNext ==
  ASSUME Place, BatchEvents, Rows, Others, Births, Alive, [Next]_vars
  PROVE  Alive'
<1>0. /\ writes \in [Scans -> Nat] /\ cur \in Scans /\ rows \subseteq Row
      /\ \A r \in rows : r.label \in CellsOf(r.scan) /\ r.uid \in DOMAIN tracks
      /\ \A u : ScansOf(u) \subseteq Nat
  <2>1. /\ writes \in [Scans -> Nat] /\ cur \in Scans /\ rows \subseteq Row
        /\ \A r \in rows : r.label \in CellsOf(r.scan) /\ r.uid \in DOMAIN tracks
    BY DEF Rows, Place
  <2>2. \A r \in rows : r.scan \in Scans
    BY <2>1 DEF Row
  <2> QED
    BY <2>1, <2>2, Nothing DEF ScansOf
<1>1. ASSUME NEW u \in Held', Once(u)'
      PROVE  /\ u \in DOMAIN tracks' => tracks'[u].end = "ACTIVE_AT_END"
             /\ u \in UidsIn(prev'.uid) => \A s \in ScansOf(u)' : s <= prev'.scan
  <2>1. CASE Continued(u) /\ ~WriteScan
    <3>1. u \in Held /\ u \in Uids
      BY <2>1 DEF Continued, Births
    <3>2. Once(u)
      BY <1>0, <1>1, <3>1, DueNext
    <3>3. tracks' = tracks /\ ScansOf(u)' = ScansOf(u)
      BY <2>1, TablesStill DEF ScansOf
    <3>4. u \in UidsIn(prev'.uid) => /\ \A s \in ScansOf(u) : s <= prev.scan
                                     /\ prev.scan <= prev'.scan
      BY <2>1, <3>2 DEF Continued, Alive
    <3>5. prev.scan \in Nat /\ prev'.scan \in Nat
      <4>1. Place'
        BY PlaceNext
      <4> QED
        <5>1. prev.scan \in {0} \union Scans /\ prev'.scan \in {0} \union Scans
          BY <4>1 DEF Place
        <5> QED
          BY <5>1, ScansNat
    <3>6. u \in UidsIn(prev'.uid) => \A s \in ScansOf(u) : s <= prev'.scan
      BY <1>0, <3>4, <3>5
    <3> QED
      BY <3>1, <3>2, <3>3, <3>6 DEF Alive
  <2>2. CASE JustBorn(u)
    <3>1. u[1] = cur /\ cur \notin lost' /\ Due(u)' <= 1 /\ Unsaved' /\ cur' = cur
          /\ pc = "run" /\ u \in Uids
      BY <1>1, <2>2 DEF JustBorn, Once
    <3>2. ~WriteScan
      BY <3>1 DEF WriteScan
    <3>3. writes' = writes /\ lost \subseteq lost' /\ tracks' = tracks /\ rows' = rows
      BY <3>2, TablesStill, LostGrows
    <3>4. writes[cur] + 1 <= 1 /\ writes[cur] \in Nat
      BY <1>0, <3>1, <3>3 DEF Due
    <3>5. u \notin DOMAIN tracks
      BY <3>1, <3>3, <3>4 DEF Births
    <3>6. ScansOf(u)' = {}
      BY <1>0, <3>3, <3>5 DEF ScansOf
    <3> QED
      BY <3>3, <3>5, <3>6
  <2>3. CASE WriteScan
    <3>1. /\ pc' = "after" /\ prev' = prev /\ Busy /\ UidsIn(batch.uid) = UidsIn(prev.uid)
          /\ prev.scan = cur
      BY <2>3, AtHand DEF WriteScan, Busy
    <3>2. u \in UidsIn(prev.uid) /\ u \in Held
      BY <1>1, <3>1 DEF Held, Unsaved, UidsIn
    <3>3. Once(u)
      BY <1>0, <1>1, <3>2, DueNext DEF Births
    <3>4. ScansOf(u)' = ScansOf(u) \union {cur}
      BY <1>0, <2>3, <3>1, <3>2, ScansOfAfter
    <3>5. \A s \in ScansOf(u)' : s <= prev'.scan
      BY <1>0, <3>1, <3>2, <3>3, <3>4, Nothing DEF Alive
    <3>6. tracks'[u] = IF u \in DOMAIN tracks THEN SeenAgain(tracks[u]) ELSE FirstSeen(u)
      BY <2>3, <3>1, <3>2, TracksAfter
    <3>7. CASE u \in DOMAIN tracks
      <4>1. tracks[u].end = "ACTIVE_AT_END"
        BY <3>2, <3>3, <3>7 DEF Alive
      <4>2. SeenAgain(tracks[u]).end = tracks[u].end
        BY <1>0, <3>7, SeenAgainFields DEF Others
      <4> QED
        BY <3>5, <3>6, <3>7, <4>1, <4>2
    <3>8. CASE u \notin DOMAIN tracks
      BY <1>0, <3>5, <3>6, <3>8, FirstSeenFields
    <3> QED
      BY <3>7, <3>8
  <2> QED
    BY <1>1, <2>1, <2>2, <2>3, HeldNext
<1>2. \A u \in UidsIn(prev'.uid) : u \in Held'
  BY DEF Held, UidsIn
<1> QED
  BY <1>1, <1>2 DEF Alive, UidsIn

-----------------------------------------------------------------------------
(* The invariant of the tables                                             *)

LEMMA Beginning ==
  ASSUME Init
  PROVE  /\ input \in Inputs /\ prev = NoTracks /\ prev.scan = 0 /\ ~up /\ pc = "idle" /\ cur = 1
         /\ ~Unsaved /\ ~Busy /\ Held = {} /\ UidsIn(prev.uid) = {}
         /\ rows = {} /\ events = {} /\ tracks = <<>> /\ DOMAIN tracks = {}
         /\ writes \in [Scans -> Nat] /\ \A s \in Scans : writes[s] = 0
<1>1. prev = NoTracks /\ pc = "idle" /\ ~Unsaved /\ ~Busy /\ prev.scan = 0
  BY Nothing DEF Init, Unsaved, Busy
<1>2. UidsIn(prev.uid) = {} /\ Held = {}
  BY <1>1, NoUids DEF Held
<1>3. tracks = <<>> /\ DOMAIN tracks = {}
  BY DEF Init
<1> QED
  BY <1>1, <1>2, <1>3 DEF Init

LEMMA TablesInit == ASSUME Init PROVE TablesInv
<1>1. Place
  BY PlaceInit
<1>2. luts \in [Scans -> [labels : 0 .. NScans, uids : 0 .. NScans]]
  <2>1. [labels |-> 0, uids |-> 0] \in [labels : 0 .. NScans, uids : 0 .. NScans]
    BY ConstantsAssumption
  <2> QED
    BY <2>1 DEF Init
<1>3. Others
  BY <1>2, Beginning, ConstantsAssumption DEF Init, Others
<1>4. Rows /\ Events /\ RowsCome
  BY Beginning DEF Rows, Events, RowsCome
<1>5. InStep /\ BatchEvents /\ Births /\ Alive
  BY Beginning DEF InStep, BatchEvents, Births, Alive
<1> QED
  BY <1>1, <1>3, <1>4, <1>5 DEF TablesInv

LEMMA TablesNext == ASSUME TablesInv, [Next]_vars PROVE TablesInv'
BY PlaceNext, InStepNext, BatchEventsNext, RowsNext, EventsNext, OthersNext, RowsComeNext,
   BirthsNext, AliveNext
   DEF TablesInv

(* Whatever is lost, raised or resumed, the rows keep the two keys of       *)
(* cells_by_scan, every row has its track and its event, and every uid was  *)
(* born in a scan that was written, lost or at hand.                        *)
THEOREM TablesInvariant == Spec => []TablesInv
<1>1. Init => TablesInv
  BY TablesInit
<1>2. TablesInv /\ [Next]_vars => TablesInv'
  BY TablesNext
<1> QED
  BY <1>1, <1>2, PTL DEF Spec

LEMMA TypesFromTables == ASSUME TablesInv PROVE TypeOK
<1>1. Place /\ Rows /\ Others /\ Births
  BY DEF TablesInv
<1>2. /\ input \in Inputs /\ up \in BOOLEAN /\ seen \subseteq Scans /\ cur \in Scans
      /\ hist \in 0 .. NScans /\ prev.scan \in 0 .. NScans
      /\ pc \in {"idle", "run", "link", "tables", "after"}
  <2>1. \A s \in {0} \union Scans : s \in 0 .. NScans
    BY ConstantsAssumption DEF Scans
  <2>2. /\ input \in Inputs /\ up \in BOOLEAN /\ seen \subseteq Scans /\ cur \in Scans
        /\ hist \in {0} \union seen /\ prev.scan \in {0} \union Scans
        /\ pc \in {"idle", "run", "link", "tables", "after"}
    BY <1>1 DEF Place
  <2> QED
    BY <2>1, <2>2
<1>3. UidsIn(prev.uid) \subseteq Uids
  BY <1>1, LabellingUids DEF Place
<1>4. pc \in {"tables", "after"} => DOMAIN batch.uid = CellsOf(cur)
  BY <1>1, AtHand DEF Busy
<1>5. /\ complete \subseteq Scans /\ lutPrev \in 0 .. NScans
      /\ luts \in [Scans -> [labels : 0 .. NScans, uids : 0 .. NScans]]
      /\ \A u \in DOMAIN tracks : u \in Uids /\ tracks[u] \in TrackOf
  BY <1>1 DEF Others, Births
<1>6. /\ \A r \in rows : r.label \in CellsOf(r.scan) /\ r.uid \in DOMAIN tracks
      /\ \A r, q \in rows : r.scan = q.scan /\ (r.label = q.label \/ r.uid = q.uid) => r = q
  BY <1>1 DEF Rows
<1> QED
  BY <1>2, <1>3, <1>4, <1>5, <1>6 DEF TypeOK

(* The state of the tracker and of the tables keeps its types and the two   *)
(* UNIQUE keys of cells_by_scan.                                            *)
THEOREM TracksTypes == Spec => []TypeOK
BY TablesInvariant, TypesFromTables, PTL

LEMMA EndedNext ==
  ASSUME TablesInv, [Next]_vars, NEW u \in DOMAIN tracks,
         tracks[u].end # "ACTIVE_AT_END", u[1] \notin lost, writes'[u[1]] <= 1
  PROVE  tracks'[u] = tracks[u]
<1>0. /\ writes \in [Scans -> Nat] /\ cur \in Scans /\ u \in Uids
  BY DEF TablesInv, Rows, Place, Births
<1>1. CASE ~WriteScan
  BY <1>1, TablesStill
<1>2. CASE WriteScan
  <2>1. Unsaved /\ Busy /\ UidsIn(batch.uid) = UidsIn(prev.uid)
    BY <1>2, AtHand DEF WriteScan, Unsaved, Busy, TablesInv
  <2>2. Due(u) = writes'[u[1]]
    BY <1>0, <1>2, <2>1, WritesAfter, DueTyped
  <2>3. u \notin Held
    BY <2>2 DEF TablesInv, Alive, Once
  <2>4. u \notin UidsIn(batch.uid) /\ u \notin Sources("TERMINATION")
    BY <2>1, <2>3 DEF Held
  <2> QED
    BY <1>2, <2>4, TracksAfter
<1> QED
  BY <1>1, <1>2

(* A track that was terminated or merged is never seen again, by this       *)
(* process or a resumed one, unless the scan of its birth was retried: no   *)
(* second cell gets its uid.                                                *)
THEOREM EndsAreFinalHolds == Spec => EndsAreFinal
<1>1. TablesInv /\ [Next]_vars
        => [\A u \in DOMAIN tracks :
              (tracks[u].end # "ACTIVE_AT_END" /\ u[1] \notin lost /\ writes'[u[1]] <= 1)
                => tracks'[u] = tracks[u]]_vars
  BY EndedNext
<1> QED
  BY <1>1, TablesInvariant, PTL DEF Spec, EndsAreFinal

-----------------------------------------------------------------------------
(* The tracks count the rows                                               *)

(* What CountsAgree says of one uid.                                        *)
CountOf(u) ==
  (\A s \in ScansOf(u) : writes[s] = 1) =>
    /\ tracks[u].n = Cardinality(ScansOf(u))
    /\ BornOnce(u) =>
         /\ tracks[u].first \in ScansOf(u) /\ tracks[u].last \in ScansOf(u)
         /\ \A s \in ScansOf(u) : tracks[u].first <= s /\ s <= tracks[u].last

LEMMA ScansOfTyped ==
  ASSUME TablesInv, NEW u
  PROVE  /\ ScansOf(u) \subseteq Scans /\ IsFiniteSet(ScansOf(u))
         /\ \A s \in ScansOf(u) : s \in Nat /\ writes[s] >= 1
         /\ u \notin DOMAIN tracks => ScansOf(u) = {}
<1>1. /\ rows \subseteq Row
      /\ \A r \in rows : writes[r.scan] >= 1 /\ r.uid \in DOMAIN tracks
  BY DEF TablesInv, Rows
<1>2. \A r \in rows : r.scan \in Scans
  BY <1>1 DEF Row
<1>3. ScansOf(u) \subseteq Scans /\ \A s \in ScansOf(u) : writes[s] >= 1
  BY <1>1, <1>2 DEF ScansOf
<1>4. IsFiniteSet(Scans)
  BY FS_Interval, ConstantsAssumption DEF Scans
<1>5. IsFiniteSet(ScansOf(u))
  BY <1>3, <1>4, FS_Subset
<1>6. \A s \in ScansOf(u) : s \in Nat
  BY <1>3, ScansNat
<1> QED
  BY <1>1, <1>3, <1>5, <1>6 DEF ScansOf

LEMMA CountsInit == ASSUME Init PROVE CountsAgree
BY Beginning DEF CountsAgree

LEMMA CountsNext ==
  ASSUME TablesInv, CountsAgree, [Next]_vars
  PROVE  CountsAgree'
<1>0. /\ writes \in [Scans -> Nat] /\ cur \in Scans /\ rows \subseteq Row /\ Place
      /\ \A r \in rows : r.label \in CellsOf(r.scan)
      /\ \A u \in DOMAIN tracks : tracks[u] \in TrackOf /\ u \in Uids
  BY DEF TablesInv, Rows, Place, Others, Births
<1>1. ASSUME ~WriteScan, NEW u \in DOMAIN tracks' PROVE CountOf(u)'
  <2>1. tracks' = tracks /\ writes' = writes /\ ScansOf(u)' = ScansOf(u) /\ lost \subseteq lost'
    BY <1>1, TablesStill, LostGrows DEF ScansOf
  <2>2. CountOf(u)
    BY <1>1, <2>1 DEF CountsAgree, CountOf
  <2>3. BornOnce(u)' => BornOnce(u)
    BY <2>1 DEF BornOnce
  <2> QED
    BY <2>1, <2>2, <2>3 DEF CountOf
<1>2. ASSUME WriteScan, NEW u \in DOMAIN tracks',
             \A s \in ScansOf(u)' : writes'[s] = 1
      PROVE  CountOf(u)'
  <2>0. /\ Busy /\ Unsaved /\ prev.scan = cur /\ UidsIn(batch.uid) = UidsIn(prev.uid)
        /\ lost' = lost /\ cur \in Nat
    BY <1>0, <1>2, AtHand, ScansNat DEF WriteScan, Busy, Unsaved, aux
  <2>1. /\ ScansOf(u) \subseteq Scans /\ IsFiniteSet(ScansOf(u))
        /\ \A s \in ScansOf(u) : s \in Nat /\ writes[s] >= 1
    BY ScansOfTyped
  <2>2. ScansOf(u) \subseteq ScansOf(u)'
    BY <1>0, <1>2, ScansOfAfter
  <2>3. cur \notin ScansOf(u)
    <3>1. ASSUME cur \in ScansOf(u) PROVE FALSE
      <4>1. writes'[cur] = 1 /\ writes[cur] >= 1 /\ writes[cur] \in Nat
        BY <1>0, <1>2, <2>1, <2>2, <3>1
      <4>2. writes'[cur] = writes[cur] + 1
        BY <1>0, <1>2, WritesAfter
      <4> QED
        BY <4>1, <4>2
    <3> QED
      BY <3>1
  <2>4. \A s \in ScansOf(u) : writes[s] = 1
    <3>1. ASSUME NEW s \in ScansOf(u) PROVE writes[s] = 1
      BY <1>0, <1>2, <2>1, <2>2, <2>3, WritesAfter
    <3> QED
      BY <3>1
  <2>5. BornOnce(u)' => BornOnce(u) /\ (u \in UidsIn(batch.uid) => Once(u))
    <3>1. ASSUME u \in Uids PROVE BornOnce(u)' => BornOnce(u) /\ Once(u)
      <4>1. u[1] \in Scans /\ writes[u[1]] \in Nat /\ writes'[u[1]] \in Nat
            /\ writes[u[1]] <= writes'[u[1]]
        BY <1>0, <1>2, <3>1, WritesAfter, DueTyped
      <4>2. Due(u) = writes'[u[1]]
        BY <1>0, <1>2, <2>0, <3>1, WritesAfter, DueTyped
      <4> QED
        BY <2>0, <4>1, <4>2 DEF BornOnce, Once
    <3>2. u \in Uids
      <4>1. \A v \in UidsIn(batch.uid) : v \in Uids
        BY <1>0, <2>0, AtHand
      <4> QED
        BY <1>0, <1>2, <4>1, TracksAfter
    <3> QED
      BY <3>1, <3>2
  <2>6. CASE u \in UidsIn(batch.uid) /\ u \in DOMAIN tracks
    <3>1. ScansOf(u)' = ScansOf(u) \union {cur}
      BY <1>0, <1>2, <2>6, ScansOfAfter
    <3>2. Cardinality(ScansOf(u)') = Cardinality(ScansOf(u)) + 1
      BY <2>1, <2>3, <3>1, FS_AddElement
    <3>3. /\ tracks'[u].first = tracks[u].first /\ tracks'[u].last = cur
          /\ tracks'[u].n = tracks[u].n + 1
      BY <1>0, <1>2, <2>6, TracksAfter, SeenAgainFields
    <3>4. /\ tracks[u].n = Cardinality(ScansOf(u))
          /\ BornOnce(u) =>
               /\ tracks[u].first \in ScansOf(u)
               /\ \A s \in ScansOf(u) : tracks[u].first <= s
      BY <2>4, <2>6 DEF CountsAgree
    <3>5. ASSUME BornOnce(u)'
          PROVE  /\ tracks[u].first \in ScansOf(u) /\ tracks[u].first <= cur
                 /\ \A s \in ScansOf(u) : tracks[u].first <= s /\ s <= cur
      <4>1. \A s \in ScansOf(u) : s <= cur
        BY <2>0, <2>5, <2>6, <3>5 DEF TablesInv, Alive
      <4> QED
        BY <2>5, <3>4, <3>5, <4>1
    <3> QED
      BY <2>0, <3>1, <3>2, <3>3, <3>4, <3>5 DEF CountOf
  <2>7. CASE u \in UidsIn(batch.uid) /\ u \notin DOMAIN tracks
    <3>1. ScansOf(u) = {} /\ ScansOf(u)' = {cur}
      BY <1>0, <1>2, <2>7, ScansOfAfter, ScansOfTyped
    <3>2. Cardinality(ScansOf(u)') = 1
      BY <3>1, FS_Singleton
    <3>3. tracks'[u].first = cur /\ tracks'[u].last = cur /\ tracks'[u].n = 1
      BY <1>0, <1>2, <2>7, TracksAfter, FirstSeenFields
    <3> QED
      BY <2>0, <3>1, <3>2, <3>3 DEF CountOf
  <2>8. CASE u \notin UidsIn(batch.uid)
    <3>1. u \in DOMAIN tracks /\ ScansOf(u)' = ScansOf(u)
      BY <1>0, <1>2, <2>8, ScansOfAfter, TracksAfter
    <3>2. /\ tracks'[u].first = tracks[u].first /\ tracks'[u].last = tracks[u].last
          /\ tracks'[u].n = tracks[u].n
      <4>1. BatchEvents
        BY DEF TablesInv
      <4> QED
        BY <1>0, <1>2, <2>0, <2>8, <3>1, <4>1, TracksAfter, EndedFields
    <3>3. CountOf(u)
      BY <3>1 DEF CountsAgree, CountOf
    <3> QED
      BY <2>4, <2>5, <3>1, <3>2, <3>3 DEF CountOf
  <2> QED
    BY <2>6, <2>7, <2>8
<1>3. \A u \in DOMAIN tracks' : CountOf(u)'
  BY <1>1, <1>2 DEF CountOf
<1> QED
  BY <1>3 DEF CountsAgree, CountOf

(* cell_tracks agrees with cells_by_scan, whatever failed or was resumed:   *)
(* n_scans counts the rows of a uid as long as none of its scans was        *)
(* written twice, first_seen and last_seen bound them as long as the scan   *)
(* of its birth was not retried.                                            *)
THEOREM CountsAgreeHolds == Spec => []CountsAgree
<1>1. Init => CountsAgree
  BY CountsInit
<1>2. TablesInv /\ CountsAgree /\ [Next]_vars => CountsAgree'
  BY CountsNext
<1> QED
  BY <1>1, <1>2, TablesInvariant, PTL DEF Spec

-----------------------------------------------------------------------------
(* The retroactive flags                                                   *)

LEMMA FlaggedFlags ==
  ASSUME NEW r \in Row
  PROVE  /\ Flagged(r).ended <=> r.ended \/ (r.scan = PrevInTable /\ r.uid \in Sources("TERMINATION"))
         /\ Flagged(r).split <=> r.split \/ (r.scan = PrevInTable /\ r.uid \in Sources("SPLIT"))
         /\ Flagged(r).merged <=> r.merged \/ (r.scan = PrevInTable /\ r.uid \in Sources("MERGE"))
<1>1. CASE r.scan = PrevInTable
  BY <1>1 DEF Flagged, Row
<1>2. CASE r.scan # PrevInTable
  BY <1>2 DEF Flagged, Row
<1> QED
  BY <1>1, <1>2

(* A write adds to what the events tell of a row of an earlier scan what    *)
(* the batch tells of the previous scan in the table.                       *)
LEMMA TellsAfter ==
  ASSUME TablesInv, WriteScan, NEW q, NEW r \in rows, q.scan = r.scan, q.uid = r.uid,
         NEW type \in {"TERMINATION", "SPLIT", "MERGE"}
  PROVE  Tells(type, q)' <=> Tells(type, r) \/ (r.scan = PrevInTable /\ r.uid \in Sources(type))
<1>1. events' = events \union NewEvents
  BY DEF WriteScan
<1>2. (\E f \in NewEvents : f.type = type /\ f.from = r.scan /\ f.src = r.uid)
        <=> (r.scan = PrevInTable /\ \E e \in batch.events : e.type = type /\ e.src = r.uid)
  <2>1. type # "INITIATION"
    OBVIOUS
  <2> QED
    BY <2>1, EventRowFields
<1>3. r.uid \in Sources(type) <=> \E e \in batch.events : e.type = type /\ e.src = r.uid
  BY DEF Sources
<1>4. Tells(type, q)' <=> \E f \in events' : f.type = type /\ f.from = r.scan /\ f.src = r.uid
  BY DEF Tells
<1> QED
  BY <1>1, <1>2, <1>3, <1>4 DEF Tells

LEMMA FlagsNext == ASSUME TablesInv, Flags, [Next]_vars PROVE Flags'
<1>0. /\ writes \in [Scans -> Nat] /\ cur \in Scans /\ rows \subseteq Row /\ Place /\ Events
      /\ \A r \in rows : r.label \in CellsOf(r.scan)
      /\ \A r \in rows : r.scan \in Scans
  BY DEF TablesInv, Rows, Row, Place
<1>1. CASE ~WriteScan
  <2>1. rows' = rows /\ events' = events /\ writes' = writes
    BY <1>1, TablesStill
  <2> QED
    BY <2>1, ZenonT(30) DEF Flags, Tells
<1>2. CASE WriteScan
  <2>1. ASSUME NEW q \in rows', writes'[q.scan] = 1, q.scan # cur,
               NEW r \in rows, q = Flagged(r)
        PROVE  /\ q.ended <=> Tells("TERMINATION", q)'
               /\ q.split <=> Tells("SPLIT", q)'
               /\ q.merged <=> Tells("MERGE", q)'
    <3>1. q.scan = r.scan /\ q.uid = r.uid /\ r \in Row
      BY <1>0, <2>1, FlaggedFields
    <3>2. writes[r.scan] = 1
      BY <1>0, <1>2, <2>1, <3>1, WritesAfter
    <3>3. /\ r.ended <=> Tells("TERMINATION", r)
          /\ r.split <=> Tells("SPLIT", r)
          /\ r.merged <=> Tells("MERGE", r)
      BY <3>2 DEF Flags
    <3>4. /\ Tells("TERMINATION", q)' <=>
               Tells("TERMINATION", r) \/ (r.scan = PrevInTable /\ r.uid \in Sources("TERMINATION"))
          /\ Tells("SPLIT", q)' <=>
               Tells("SPLIT", r) \/ (r.scan = PrevInTable /\ r.uid \in Sources("SPLIT"))
          /\ Tells("MERGE", q)' <=>
               Tells("MERGE", r) \/ (r.scan = PrevInTable /\ r.uid \in Sources("MERGE"))
      BY <1>2, <3>1, TellsAfter
    <3> QED
      BY <2>1, <3>1, <3>3, <3>4, FlaggedFlags
  <2>2. ASSUME NEW q \in rows', writes'[q.scan] = 1, q.scan = cur,
               NEW c \in CellsOf(cur), q = NewRow(c)
        PROVE  /\ q.ended = FALSE /\ q.split = FALSE /\ q.merged = FALSE
               /\ \A type : ~Tells(type, q)'
    <3>1. q.ended = FALSE /\ q.split = FALSE /\ q.merged = FALSE
      BY <2>2 DEF NewRow
    <3>2. writes[cur] = 0
      <4>1. writes'[cur] = writes[cur] + 1 /\ writes[cur] \in Nat
        BY <1>0, <1>2, WritesAfter
      <4> QED
        BY <2>2, <4>1
    <3>3. \A e \in events : e.from # cur
      BY <1>0, <3>2, Nothing DEF Events
    <3>4. PrevInTable # cur /\ cur # 0
      <4>1. PrevInTable # 0 => PrevInTable < cur
        BY <1>0, PrevIsLatest
      <4>2. cur \in Nat /\ cur # 0
        BY <1>0, Nothing
      <4> QED
        BY <4>1, <4>2
    <3>5. \A e \in NewEvents : e.from # cur
      BY <3>4, EventRowFields
    <3>6. \A e \in events' : e.from # q.scan
      BY <1>2, <2>2, <3>3, <3>5 DEF WriteScan
    <3> QED
      BY <3>1, <3>6 DEF Tells
  <2>3. ASSUME NEW q \in rows', writes'[q.scan] = 1
        PROVE  /\ q.ended = Tells("TERMINATION", q)'
               /\ q.split = Tells("SPLIT", q)'
               /\ q.merged = Tells("MERGE", q)'
    <3>1. Rows'
      BY RowsNext DEF TablesInv
    <3>2. q.ended \in BOOLEAN /\ q.split \in BOOLEAN /\ q.merged \in BOOLEAN
      BY <3>1 DEF Rows, Row
    <3>3. \A type : Tells(type, q)' \in BOOLEAN
      BY DEF Tells
    <3>4. /\ q.ended <=> Tells("TERMINATION", q)'
          /\ q.split <=> Tells("SPLIT", q)'
          /\ q.merged <=> Tells("MERGE", q)'
      BY <1>0, <1>2, <2>1, <2>2, <2>3, RowsAfter
    <3> QED
      BY <3>2, <3>3, <3>4
  <2> QED
    BY <2>3 DEF Flags
<1> QED
  BY <1>1, <1>2

-----------------------------------------------------------------------------
(* An undisturbed run                                                      *)

(* A step to an undisturbed state comes from one, with the process up if it *)
(* is, unless it starts the one process on empty tables.                    *)
LEMMA UndisturbedNext ==
  ASSUME Place, Fresh, [Next]_vars, Undisturbed'
  PROVE  \/ ~Start /\ Undisturbed /\ (up' => up)
         \/ Start /\ Began
<1>1. CASE Start
  <2>1. starts = 0
    BY <1>1 DEF Start, Undisturbed, Place
  <2> QED
    BY <1>1, <2>1 DEF Fresh, Began
<1>2. CASE ~Start
  <2>1. starts' = starts /\ (up' => up)
    BY <1>2 DEF Next, vars, memory, aux, ProcessEnds, Skip, Take, RunSingle, RunPair,
       LinkRequired, WriteScan, Done, RunFails, TrackedThenRaised, PersistFails
  <2>2. slipped => slipped'
    BY <1>2 DEF Next, vars, memory, aux, ProcessEnds, Skip, Take, Handed, RunSingle, RunPair,
       LinkRequired, WriteScan, Done, RunFails, TrackedThenRaised, PersistFails
  <2>3. lost \subseteq lost'
    BY LostGrows
  <2> QED
    BY <1>2, <2>1, <2>2, <2>3 DEF Undisturbed
<1> QED
  BY <1>1, <1>2

LEMMA FreshNext == ASSUME Place, Fresh, [Next]_vars PROVE Fresh'
<1>1. CASE Start
  BY <1>1 DEF Start, Fresh, Place
<1>2. CASE ~Start /\ ~UNCHANGED vars
  <2>1. up /\ starts' = starts
    BY <1>2 DEF Next, aux, ProcessEnds, Skip, Take, Handed, RunSingle, RunPair,
       LinkRequired, WriteScan, Done, RunFails, TrackedThenRaised, PersistFails, Place
  <2> QED
    BY <2>1 DEF Fresh, Began
<1>3. CASE UNCHANGED vars
  BY <1>3 DEF vars, memory, tables, aux, Fresh, Began
<1> QED
  BY <1>1, <1>2, <1>3

LEMMA PrevStill ==
  ASSUME rows' = rows, cur' = cur
  PROVE  PrevInTable' = PrevInTable /\ \A s : UidsOfScan(s)' = UidsOfScan(s)
BY DEF PrevInTable, Earlier, UidsOfScan, RowsOf

(* The tables are empty and the process is at its beginning.                *)
LEMMA StartsFresh ==
  ASSUME Start, Began
  PROVE  /\ rows' = {} /\ events' = {} /\ tracks' = <<>> /\ DOMAIN tracks' = {}
         /\ \A s \in Scans : writes'[s] = 0
         /\ pc' = "idle" /\ prev'.scan = 0 /\ UidsIn(prev'.uid) = {}
<1>1. /\ rows = {} /\ events = {} /\ tracks = <<>> /\ \A s \in Scans : writes[s] = 0
  BY DEF Began
<1>2. /\ rows' = rows /\ events' = events /\ tracks' = tracks /\ writes' = writes
      /\ pc' = "idle" /\ prev' = NoTracks
  BY DEF Start, tables
<1>3. DOMAIN tracks' = {}
  BY <1>1, <1>2
<1>4. UidsIn(prev'.uid) = {}
  BY <1>2, NoUids
<1> QED
  BY <1>1, <1>2, <1>3, <1>4, Nothing

(* What the scan at hand finds in the tables of an undisturbed run.         *)
LEMMA FirstWrite ==
  ASSUME TablesInv, InTables, Undisturbed, up, pc \in {"run", "link", "tables"}
  PROVE  /\ \A r \in rows : r.scan # cur /\ r.scan < cur /\ r.scan <= cur
         /\ \A e \in events : e.by # cur
<1>1. /\ writes[cur] = 0 /\ \A r \in rows : r.scan \in seen
      /\ \A x \in seen : x <= cur
  BY DEF TablesInv, InTables, InStep, Undisturbed
<1>2. /\ \A r \in rows : writes[r.scan] >= 1 /\ r.scan \in Scans
      /\ cur \in Scans
  BY DEF TablesInv, Rows, Row, Place
<1>3. \A r \in rows : r.scan # cur /\ r.scan < cur /\ r.scan <= cur
  <2>1. ASSUME NEW r \in rows PROVE r.scan # cur /\ r.scan <= cur
    BY <1>1, <1>2, <2>1
  <2>2. cur \in Nat /\ \A r \in rows : r.scan \in Nat
    BY <1>2, ScansNat
  <2> QED
    BY <2>1, <2>2
<1>4. \A e \in events : e.by # cur
  BY <1>1 DEF TablesInv, Events
<1> QED
  BY <1>3, <1>4

(* When the tracker takes a pair, the previous scan of the tables is its    *)
(* own, if that had cells.                                                  *)
LEMMA PrevIsTrackers ==
  ASSUME TablesInv, InTables, Undisturbed, up, pc = "run", UidsIn(prev.uid) # {}
  PROVE  PrevInTable = prev.scan /\ prev.scan # 0
<1>1. /\ UidsOfScan(prev.scan) = UidsIn(prev.uid) /\ \A r \in rows : r.scan <= prev.scan
  BY DEF InTables, Unsaved
<1>2. PICK r \in rows : r.scan = prev.scan
  BY <1>1 DEF UidsOfScan, RowsOf
<1>3. r.scan < cur /\ cur \in Scans /\ \A q \in rows : q.scan \in Scans
  BY FirstWrite DEF TablesInv, Rows, Row, Place
<1>4. PrevInTable # 0 /\ r.scan <= PrevInTable /\ \E q \in rows : q.scan = PrevInTable
  BY <1>3, PrevIsLatest
<1>5. PrevInTable \in Nat /\ r.scan \in Nat
  BY <1>3, <1>4, ScansNat
<1> QED
  BY <1>1, <1>2, <1>3, <1>4, <1>5, Nothing

LEMMA WritesInTables ==
  ASSUME TablesInv, InTables, Undisturbed, WriteScan
  PROVE  InTables'
<1>0. /\ pc = "tables" /\ pc' = "after" /\ cur' = cur /\ seen' = seen /\ prev' = prev
      /\ batch' = batch /\ up' = up /\ Busy /\ ~Unsaved'
  BY DEF WriteScan, Busy, Unsaved
<1>1. /\ Place /\ up /\ cur \in seen /\ cur \in Scans /\ prev.scan = cur
      /\ rows \subseteq Row /\ writes \in [Scans -> Nat]
      /\ \A r \in rows : r.label \in CellsOf(r.scan)
      /\ UidsIn(prev.uid) = UidsIn(batch.uid)
  BY <1>0, AtHand DEF TablesInv, Place, Rows
<1>2. /\ \A s \in Scans : writes[s] <= 1 /\ (s \notin seen => writes[s] = 0)
      /\ writes[cur] = 0 /\ \A r \in rows : r.scan \in seen
  BY <1>0, <1>1 DEF InTables
<1>3. \A s \in Scans : writes'[s] <= 1 /\ (s \notin seen' => writes'[s] = 0)
  BY <1>0, <1>1, <1>2, WritesAfter
<1>4. \A q \in rows' : q.scan \in seen /\ q.scan <= cur
  <2>1. \A x \in seen : x <= cur
    BY <1>0 DEF TablesInv, InStep, Undisturbed
  <2>2. \A q \in rows' : q.scan = cur \/ \E r \in rows : q = Flagged(r)
    BY <1>1, RowsAfter
  <2>3. \A r \in rows : Flagged(r).scan = r.scan
    BY <1>1, FlaggedFields
  <2> QED
    BY <1>1, <1>2, <2>1, <2>2, <2>3
<1>5. UidsOfScan(prev.scan)' = UidsIn(prev'.uid)
  <2>1. ASSUME NEW u
        PROVE  u \in UidsIn(batch.uid) <=> \E q \in rows' : q.scan = cur /\ q.uid = u
    <3>1. ASSUME NEW c \in CellsOf(cur), u = batch.uid[c]
          PROVE  \E q \in rows' : q.scan = cur /\ q.uid = u
      BY <1>0, <1>1, <3>1, RowsAfter, NewRowFields
    <3>2. ASSUME NEW q \in rows', q.scan = cur, q.uid = u PROVE u \in UidsIn(batch.uid)
      BY <1>0, <1>1, <3>2, RowsAfter, NewRowFields
    <3> QED
      BY <1>0, <1>1, <3>1, <3>2, AtHand
  <2>2. \A u : u \in UidsOfScan(prev.scan)' <=> \E q \in rows' : q.scan = prev'.scan /\ q.uid = u
    BY DEF UidsOfScan, RowsOf
  <2>3. \A u : u \in UidsOfScan(prev.scan)' <=> u \in UidsIn(prev'.uid)
    BY <1>0, <1>1, <2>1, <2>2
  <2> QED
    BY <2>3
<1> QED
  BY <1>0, <1>1, <1>3, <1>4, <1>5 DEF InTables, UidsIn

LEMMA InTablesNext ==
  ASSUME TablesInv, Fresh, InTables, [Next]_vars
  PROVE  InTables'
<1>0. /\ Place /\ cur \in Scans /\ seen \subseteq Scans /\ prev.scan \in {0} \union Scans
      /\ \A r \in rows : r.scan \in Scans
      /\ input' = input
  BY InputFixed DEF TablesInv, Place, Rows, Row
<1>1. CASE ~(Undisturbed' /\ up')
  BY <1>1 DEF InTables
<1>2. CASE Start /\ Began
  <2>1. /\ \A s \in Scans : writes'[s] = 0
        /\ rows' = {} /\ pc' = "idle" /\ UidsIn(prev'.uid) = {}
    BY <1>2, StartsFresh
  <2> QED
    BY <2>1 DEF InTables, Unsaved, UidsIn
<1>3. ASSUME Undisturbed', up', ~Start, Undisturbed, up
      PROVE  InTables'
  <2>0. /\ \A s \in Scans : writes[s] <= 1 /\ (s \notin seen => writes[s] = 0)
        /\ pc \in {"run", "link", "tables"} => writes[cur] = 0
        /\ \A r \in rows : r.scan \in seen /\ r.scan <= prev.scan
        /\ ~Unsaved /\ UidsIn(prev.uid) # {} => UidsOfScan(prev.scan) = UidsIn(prev.uid)
    BY <1>3 DEF InTables
  <2>1. CASE WriteScan
    BY <1>3, <2>1, WritesInTables
  <2>2. CASE RunPair
    <3>1. PICK b \in Tracked : batch' = b /\ TrackerMoves(b)
      BY <2>2 DEF RunPair
    <3>2. /\ prev'.scan = cur /\ pc = "run" /\ cur' = cur /\ rows' = rows /\ writes' = writes
          /\ seen' = seen /\ pc' = "link" /\ Unsaved'
      BY <2>2, <3>1 DEF RunPair, TrackerMoves, tables, Unsaved
    <3>3. \A r \in rows : r.scan <= cur
      BY <1>3, <3>2, FirstWrite
    <3>4. ASSUME NEW e \in b.events, e.type # "INITIATION"
          PROVE  PrevInTable # 0 /\ e.src \in UidsOfScan(PrevInTable)
      <4>1. e.src \in UidsIn(prev.uid)
        BY <1>0, <3>4, TrackedAccounts DEF Accounts
      <4>2. PrevInTable = prev.scan /\ prev.scan # 0
        BY <1>3, <3>2, <4>1, PrevIsTrackers
      <4> QED
        BY <2>0, <3>2, <4>1, <4>2 DEF Unsaved
    <3>5. \A e \in batch'.events : e.type # "INITIATION" =>
            PrevInTable' # 0 /\ e.src \in UidsOfScan(PrevInTable)'
      <4>1. PrevInTable' = PrevInTable /\ \A s : UidsOfScan(s)' = UidsOfScan(s)
        BY <3>2, PrevStill
      <4>2. UidsOfScan(PrevInTable)' = UidsOfScan(PrevInTable)
        BY <3>2, <4>1 DEF UidsOfScan, RowsOf
      <4> QED
        BY <3>1, <3>4, <4>1, <4>2
    <3> QED
      BY <2>0, <3>2, <3>3, <3>5 DEF InTables
  <2>3. ASSUME ~WriteScan, ~RunPair
        PROVE  InTables'
    <3>1. rows' = rows /\ writes' = writes
      BY <2>3, TablesStill
    <3>2. prev' = prev
      BY <1>3, <2>3 DEF Next, vars, memory, aux, ProcessEnds, Skip, Take, RunSingle,
         LinkRequired, Done, RunFails, TrackedThenRaised, PersistFails, Undisturbed
    <3>3. /\ seen \subseteq seen'
          /\ pc' \in {"run", "link", "tables"} => writes'[cur'] = 0
      <4>1. ASSUME NEW s \in Scans, Take(s) PROVE seen \subseteq seen' /\ writes'[cur'] = 0
        BY <2>0, <3>1, <4>1 DEF Take, Handed
      <4>2. ASSUME ~(\E s \in Scans : Take(s))
            PROVE  /\ seen \subseteq seen'
                   /\ pc' \in {"run", "link", "tables"} =>
                        pc \in {"run", "link", "tables"} /\ cur' = cur
        BY <1>3, <2>3, <4>2 DEF Next, vars, memory, ProcessEnds, Skip, Handed, RunSingle,
           LinkRequired, Done, RunFails, TrackedThenRaised, PersistFails, MarkFailed
      <4> QED
        BY <2>0, <3>1, <4>1, <4>2
    <3>4. /\ Unsaved' => Unsaved /\ cur' = cur /\ batch' = batch
          /\ ~Unsaved' => ~Unsaved \/ UidsIn(prev.uid) = {}
      <4>1. LinkRequired /\ CellsOf(cur) = {} => UidsIn(prev.uid) = {}
        BY <1>0, AtHand DEF LinkRequired, Busy
      <4>2. lost' = {}
        BY <1>3 DEF Undisturbed
      <4> QED
        BY <1>3, <2>3, <4>1, <4>2 DEF Next, vars, memory, aux, ProcessEnds, Skip, Take, Handed,
           RunSingle, LinkRequired, Done, RunFails, TrackedThenRaised, PersistFails, MarkFailed,
           Unsaved
    <3>5. ~Unsaved' /\ UidsIn(prev'.uid) # {} => UidsOfScan(prev.scan)' = UidsIn(prev'.uid)
      BY <2>0, <3>1, <3>2, <3>4 DEF UidsOfScan, RowsOf
    <3>6. Unsaved' => \A e \in batch'.events : e.type # "INITIATION" =>
                         PrevInTable' # 0 /\ e.src \in UidsOfScan(PrevInTable)'
      <4>1. ASSUME Unsaved' PROVE PrevInTable' = PrevInTable /\ UidsOfScan(PrevInTable)' = UidsOfScan(PrevInTable)
        BY <3>1, <3>4, <4>1, PrevStill DEF UidsOfScan, RowsOf
      <4> QED
        BY <1>3, <3>4, <4>1 DEF InTables
    <3>7. \A s \in Scans : writes'[s] <= 1 /\ (s \notin seen' => writes'[s] = 0)
      BY <2>0, <3>1, <3>3
    <3> QED
      BY <2>0, <3>1, <3>2, <3>3, <3>5, <3>6, <3>7 DEF InTables, UidsIn
  <2> QED
    BY <2>1, <2>2, <2>3
<1> QED
  BY <1>0, <1>1, <1>2, <1>3, UndisturbedNext

LEMMA CellsStill ==
  ASSUME [Next]_vars
  PROVE  /\ \A s : CellsOf(s)' = CellsOf(s)
         /\ EveryScanHasCells' <=> EveryScanHasCells
BY InputFixed DEF CellsOf, EveryScanHasCells

(* Where every scan has cells, the tracker holds some as soon as it has a   *)
(* scan.                                                                    *)
LEMMA HoldsCells ==
  ASSUME Place, EveryScanHasCells, prev.scan # 0
  PROVE  UidsIn(prev.uid) # {}
<1>1. prev.scan \in Scans /\ Labelling(prev.uid, prev.scan)
  BY DEF Place
<1>2. prev.uid \in [CellsOf(prev.scan) -> Uids]
  BY <1>1 DEF Labelling
<1>3. PICK c : c \in CellsOf(prev.scan)
  BY <1>1 DEF EveryScanHasCells
<1> QED
  BY <1>2, <1>3 DEF UidsIn

(* What an unsaved batch leaves of the batch and the tables.                *)
LEMMA UnsavedStill ==
  ASSUME [Next]_vars, Unsaved', ~RunPair
  PROVE  Unsaved /\ batch' = batch /\ cur' = cur /\ rows' = rows /\ tracks' = tracks
         /\ prev' = prev
<1>1. ~WriteScan
  BY DEF WriteScan, Unsaved
<1>2. rows' = rows /\ tracks' = tracks
  BY <1>1, TablesStill
<1> QED
  BY <1>1, <1>2 DEF Next, vars, memory, Start, ProcessEnds, Skip, Take, Handed, RunSingle,
     LinkRequired, Done, RunFails, TrackedThenRaised, PersistFails, MarkFailed, Unsaved

LEMMA GoesNext ==
  ASSUME TablesInv, Fresh, InTables, Goes, [Next]_vars
  PROVE  Goes'
<1> SUFFICES ASSUME Undisturbed', up', Unsaved', PrevInTable' # 0, EveryScanHasCells'
             PROVE  \A u \in UidsOfScan(PrevInTable)' :
                      \E e \in batch'.events : \A f \in batch'.events :
                        f.type \in Outgoing /\ f.src = u <=> f = e
  BY DEF Goes
<1>0. EveryScanHasCells /\ Place /\ \A r \in rows : r.scan \in Scans
  BY CellsStill DEF TablesInv, Rows, Row
<1>1. Undisturbed /\ up
  <2>1. ~Start
    BY DEF Start, Unsaved
  <2> QED
    BY <1>0, <2>1, UndisturbedNext
<1>2. CASE RunPair
  <2>1. PICK b \in Tracked : batch' = b
    BY <1>2 DEF RunPair
  <2>2. Accounts(b) /\ pc = "run" /\ rows' = rows /\ cur' = cur
    BY <1>0, <1>2, <2>1, TrackedAccounts DEF RunPair, tables
  <2>3. PrevInTable' = PrevInTable /\ UidsOfScan(PrevInTable)' = UidsOfScan(PrevInTable)
    BY <2>2, PrevStill DEF UidsOfScan, RowsOf
  <2>4. prev.scan # 0
    <3>1. PICK r \in rows : r.scan = PrevInTable
      BY <1>0, <2>3, PrevIsLatest DEF Place
    <3>2. r.scan <= prev.scan /\ r.scan \in Scans
      BY <1>0, <1>1 DEF InTables
    <3> QED
      BY <3>2 DEF Scans
  <2>5. UidsIn(prev.uid) # {}
    BY <1>0, <2>4, HoldsCells
  <2>6. PrevInTable = prev.scan /\ UidsOfScan(prev.scan) = UidsIn(prev.uid)
    BY <1>1, <2>2, <2>5, PrevIsTrackers DEF InTables, Unsaved
  <2>7. \A u \in UidsIn(prev.uid) : \E e \in b.events : \A f \in b.events :
          f.type \in Outgoing /\ f.src = u <=> f = e
    BY <2>2 DEF Accounts
  <2> QED
    BY <2>1, <2>3, <2>6, <2>7
<1>3. CASE ~RunPair
  <2>1. Unsaved /\ batch' = batch /\ cur' = cur /\ rows' = rows
    BY <1>3, UnsavedStill
  <2>2. PrevInTable' = PrevInTable /\ UidsOfScan(PrevInTable)' = UidsOfScan(PrevInTable)
    BY <2>1, PrevStill DEF UidsOfScan, RowsOf
  <2> QED
    BY <1>0, <1>1, <2>1, <2>2 DEF Goes
<1> QED
  BY <1>2, <1>3

(* The rows of an undisturbed run after a write.                            *)
LEMMA RowsOfRun ==
  ASSUME TablesInv, InTables, Undisturbed, WriteScan
  PROVE  /\ up /\ rows \subseteq Row /\ cur \in Scans
         /\ \A r \in rows : /\ r.scan \in Scans /\ r.scan < cur /\ r.scan # cur
                            /\ Flagged(r) \in rows'
                            /\ Flagged(r).scan = r.scan /\ Flagged(r).uid = r.uid
         /\ \A q \in rows' : \/ q.scan = cur
                             \/ \E r \in rows : q = Flagged(r)
         /\ \A e \in events : e.by # cur
         /\ events' = events \union NewEvents
<1>1. pc = "tables" /\ up /\ events' = events \union NewEvents
  BY DEF WriteScan, TablesInv, Place
<1>2. /\ Place /\ rows \subseteq Row /\ cur \in Scans /\ \A r \in rows : r.scan \in Scans
      /\ \A r \in rows : r.label \in CellsOf(r.scan)
  BY DEF TablesInv, Rows, Row, Place
<1>3. /\ \A r \in rows : r.scan # cur /\ r.scan < cur
      /\ \A e \in events : e.by # cur
  BY <1>1, FirstWrite
<1> QED
  BY <1>1, <1>2, <1>3, RowsAfter, FlaggedFields

LEMMA WritesGone ==
  ASSUME TablesInv, InTables, Goes, Gone, Undisturbed, EveryScanHasCells, WriteScan,
         NEW s \in Scans, NEW t \in Scans, Follows(s, t)', NEW q \in rows', q.scan = s
  PROVE  \E e \in events' : Leaves(q, t)' = {e}
<1>0. /\ up /\ cur \in Scans /\ \A r \in rows : /\ r.scan \in Scans /\ r.scan < cur /\ r.scan # cur
                            /\ Flagged(r) \in rows'
                            /\ Flagged(r).scan = r.scan /\ Flagged(r).uid = r.uid
      /\ \A p \in rows' : p.scan = cur \/ \E r \in rows : p = Flagged(r)
      /\ \A e \in events : e.by # cur
      /\ events' = events \union NewEvents
      /\ s \in Nat /\ t \in Nat /\ cur \in Nat
  BY RowsOfRun, ScansNat
<1>1. /\ s < t /\ (\E p \in rows' : p.scan = s) /\ (\E p \in rows' : p.scan = t)
      /\ \A p \in rows' : p.scan <= s \/ t <= p.scan
  BY DEF Follows
<1>2. \A p \in rows' : p.scan = cur \/ p.scan < cur
  BY <1>0
<1>3. s # cur
  <2>1. t = cur \/ t < cur
    BY <1>1, <1>2
  <2> QED
    BY <1>0, <1>1, <2>1
<1>4. PICK r \in rows : q = Flagged(r) /\ r.scan = s /\ r.uid = q.uid
  BY <1>0, <1>3
<1>5. \A e : e \in Leaves(q, t)' <=> /\ e \in events' /\ e.by = t /\ e.type \in Outgoing
                                     /\ e.src = q.uid /\ e.from = s
  BY DEF Leaves
<1>6. CASE t = cur
  <2>1. PrevInTable = s
    <3>1. PrevInTable # 0 /\ s <= PrevInTable /\ \E p \in rows : p.scan = PrevInTable
      BY <1>0, <1>4, PrevIsLatest
    <3>2. PICK p \in rows : p.scan = PrevInTable
      BY <3>1
    <3>3. p.scan <= s \/ cur <= p.scan
      BY <1>0, <1>1, <1>6
    <3>4. p.scan < cur /\ p.scan \in Nat
      BY <1>0, ScansNat
    <3> QED
      BY <1>0, <3>1, <3>2, <3>3, <3>4
  <2>2. s # 0 /\ Unsaved /\ r.uid \in UidsOfScan(s)
    BY <1>4, Nothing DEF WriteScan, Unsaved, UidsOfScan, RowsOf
  <2>3. PICK g \in batch.events : \A f \in batch.events :
          f.type \in Outgoing /\ f.src = r.uid <=> f = g
    BY <1>0, <2>1, <2>2 DEF Goes
  <2>4. g.type \in Outgoing /\ g.src = r.uid
    BY <2>3
  <2>5. \A type \in Outgoing : type # "INITIATION"
    BY DEF Outgoing
  <2>6. EventRow(g) \in Leaves(q, t)'
    <3>1. EventRow(g) \in NewEvents
      BY EventRowFields
    <3>2. /\ EventRow(g).by = cur /\ EventRow(g).type = g.type /\ EventRow(g).src = r.uid
          /\ EventRow(g).from = PrevInTable
      BY <2>4, <2>5, EventRowFields
    <3> QED
      BY <1>0, <1>4, <1>5, <1>6, <2>1, <2>4, <3>1, <3>2
  <2>7. ASSUME NEW e \in Leaves(q, t)' PROVE e = EventRow(g)
    <3>1. e \in NewEvents /\ e.type \in Outgoing /\ e.src = r.uid
      BY <1>0, <1>4, <1>5, <1>6
    <3>2. PICK f \in batch.events : e = EventRow(f)
      BY <3>1, EventRowFields
    <3>3. f.type \in Outgoing /\ f.src = r.uid
      BY <3>1, <3>2, EventRowFields
    <3> QED
      BY <2>3, <3>2, <3>3
  <2> QED
    BY <1>5, <2>6, <2>7
<1>7. CASE t # cur
  <2>1. Follows(s, t)
    <3>1. \E p \in rows : p.scan = t
      BY <1>0, <1>1, <1>7
    <3>2. \A p \in rows : p.scan <= s \/ t <= p.scan
      BY <1>0, <1>1
    <3> QED
      BY <1>1, <1>4, <3>1, <3>2 DEF Follows
  <2>2. PICK e \in events : Leaves(r, t) = {e}
    BY <1>4, <2>1 DEF Gone, RowsOf
  <2>3. \A f : f \in Leaves(q, t)' <=> f \in Leaves(r, t)
    <3>1. \A f \in NewEvents : f.by = cur
      BY EventRowFields
    <3> QED
      BY <1>0, <1>4, <1>5, <1>7, <3>1 DEF Leaves
  <2> QED
    BY <1>0, <2>2, <2>3
<1> QED
  BY <1>6, <1>7

LEMMA GoneNext ==
  ASSUME TablesInv, Fresh, InTables, Goes, Gone, [Next]_vars
  PROVE  Gone'
<1>0. EveryScanHasCells' <=> EveryScanHasCells
  BY CellsStill
<1>1. CASE ~Undisturbed' \/ ~EveryScanHasCells'
  BY <1>1 DEF Gone
<1>2. CASE Start /\ Began
  <2>1. rows' = {}
    BY <1>2, StartsFresh
  <2> QED
    BY <2>1 DEF Gone, RowsOf
<1>3. ASSUME Undisturbed', EveryScanHasCells', Undisturbed PROVE Gone'
  <2>1. CASE WriteScan
    BY <1>0, <1>3, <2>1, WritesGone DEF Gone, RowsOf
  <2>2. CASE ~WriteScan
    <3>1. rows' = rows /\ events' = events
      BY <2>2, TablesStill
    <3> QED
      BY <1>0, <1>3, <3>1 DEF Gone, RowsOf, Follows, Leaves
  <2> QED
    BY <2>1, <2>2
<1> QED
  BY <1>1, <1>2, <1>3, UndisturbedNext DEF TablesInv

LEMMA BackedNext ==
  ASSUME TablesInv, Fresh, InTables, Backed, [Next]_vars
  PROVE  Backed'
<1>1. CASE ~Undisturbed'
  BY <1>1 DEF Backed
<1>2. CASE Start /\ Began
  <2>1. events' = {}
    BY <1>2, StartsFresh
  <2> QED
    BY <2>1 DEF Backed
<1>3. ASSUME Undisturbed', Undisturbed PROVE Backed'
  <2>1. CASE WriteScan
    <3>0. /\ up /\ events' = events \union NewEvents
          /\ \A r \in rows : /\ Flagged(r) \in rows'
                             /\ Flagged(r).scan = r.scan /\ Flagged(r).uid = r.uid
      BY <1>3, <2>1, RowsOfRun
    <3>1. ASSUME NEW e \in events', e.from # 0
          PROVE  \E r \in rows : r.scan = e.from /\ r.uid = e.src
      <4>1. CASE e \in events
        BY <1>3, <3>1, <4>1 DEF Backed
      <4>2. CASE e \in NewEvents
        <5>1. PICK g \in batch.events : e = EventRow(g)
          BY <4>2, EventRowFields
        <5>2. g.type # "INITIATION" /\ e.from = PrevInTable /\ e.src = g.src
          BY <3>1, <5>1, EventRowFields
        <5>3. g.src \in UidsOfScan(PrevInTable)
          BY <1>3, <2>1, <3>0, <5>2 DEF InTables, WriteScan, Unsaved
        <5> QED
          BY <5>2, <5>3 DEF UidsOfScan, RowsOf
      <4> QED
        BY <3>0, <4>1, <4>2
    <3>2. \A e \in events' : e.from # 0 => \E r \in rows' : r.scan = e.from /\ r.uid = e.src
      BY <3>0, <3>1
    <3> QED
      BY <3>2 DEF Backed
  <2>2. CASE ~WriteScan
    BY <1>3, <2>2, TablesStill DEF Backed
  <2> QED
    BY <2>1, <2>2
<1> QED
  BY <1>1, <1>2, <1>3, UndisturbedNext DEF TablesInv

LEMMA WritesEnds ==
  ASSUME TablesInv, InTables, Ends, Undisturbed, EveryScanHasCells, WriteScan
  PROVE  Active' = UidsIn(prev'.uid)
<1>0. /\ pc = "tables" /\ Unsaved /\ Busy /\ up /\ prev' = prev
      /\ Place /\ BatchEvents /\ Others /\ cur \in Scans /\ writes \in [Scans -> Nat]
      /\ UidsIn(prev'.uid) = UidsIn(batch.uid) /\ UidsIn(prev.uid) = UidsIn(batch.uid)
  BY AtHand DEF WriteScan, Unsaved, Busy, TablesInv, Place, Rows, UidsIn
<1>1. \A u : u \in Active' <=> u \in DOMAIN tracks' /\ tracks'[u].end = "ACTIVE_AT_END"
  BY DEF Active
<1>2. ASSUME NEW u \in UidsIn(batch.uid) PROVE u \in Active'
  <2>1. CASE u \in DOMAIN tracks
    <3>1. u \in Held /\ u \in Uids
      BY <1>0, <1>2 DEF Held, TablesInv, Births
    <3>2. Once(u)
      <4>1. /\ u[1] \in Scans /\ writes[u[1]] <= 1 /\ writes[cur] = 0
            /\ writes[u[1]] \in Nat
        BY <1>0, <3>1, DueTyped DEF InTables
      <4>2. Due(u) <= 1
        BY <1>0, <3>1, <4>1, DueTyped
      <4> QED
        BY <4>2 DEF Once, Undisturbed
    <3>3. tracks[u].end = "ACTIVE_AT_END"
      BY <2>1, <3>1, <3>2 DEF TablesInv, Alive
    <3> QED
      BY <1>0, <1>1, <1>2, <2>1, <3>3, TracksAfter, SeenAgainFields DEF Others
  <2>2. CASE u \notin DOMAIN tracks
    BY <1>0, <1>1, <1>2, <2>2, TracksAfter, FirstSeenFields
  <2> QED
    BY <2>1, <2>2
<1>3. ASSUME NEW u \in Active', u \notin UidsIn(batch.uid) PROVE FALSE
  <2>1. u \in DOMAIN tracks /\ tracks'[u].end = "ACTIVE_AT_END" /\ tracks[u] \in TrackOf
    BY <1>0, <1>1, <1>3, TracksAfter DEF Others
  <2>2. u \notin Sources("TERMINATION") /\ tracks'[u] = tracks[u]
    BY <1>0, <1>3, <2>1, TracksAfter, EndedFields
  <2>3. u \in Active
    BY <2>1, <2>2 DEF Active
  <2> QED
    BY <1>0, <1>3, <2>2, <2>3 DEF Ends
<1> QED
  BY <1>0, <1>2, <1>3

LEMMA EndsNext ==
  ASSUME TablesInv, Fresh, InTables, Ends, [Next]_vars
  PROVE  Ends'
<1>0. (EveryScanHasCells' <=> EveryScanHasCells) /\ Place
  BY CellsStill DEF TablesInv
<1>1. CASE ~(Undisturbed' /\ up' /\ EveryScanHasCells')
  BY <1>1 DEF Ends
<1>2. CASE Start /\ Began
  <2>1. DOMAIN tracks' = {} /\ UidsIn(prev'.uid) = {} /\ ~Unsaved'
    BY <1>2, StartsFresh DEF Unsaved
  <2>2. Active' = {} /\ UidsIn(prev.uid)' = {}
    BY <2>1 DEF Active, UidsIn
  <2> QED
    BY <2>1, <2>2 DEF Ends
<1>3. ASSUME Undisturbed', up', EveryScanHasCells', ~Start, Undisturbed, up
      PROVE  Ends'
  <2>0. EveryScanHasCells /\ IF Unsaved THEN Active \subseteq UidsIn(prev.uid) \union Sources("TERMINATION")
                             ELSE Active = UidsIn(prev.uid)
    BY <1>0, <1>3 DEF Ends
  <2>1. CASE WriteScan
    <3>1. Active' = UidsIn(prev'.uid) /\ ~Unsaved'
      BY <1>3, <2>0, <2>1, WritesEnds DEF WriteScan, Unsaved
    <3> QED
      BY <3>1 DEF Ends, UidsIn
  <2>2. CASE RunPair
    <3>1. PICK b \in Tracked : batch' = b /\ TrackerMoves(b)
      BY <2>2 DEF RunPair
    <3>2. /\ Accounts(b) /\ prev'.uid = b.uid /\ Active' = Active /\ Unsaved' /\ ~Unsaved
          /\ Sources("TERMINATION")' = {e.src : e \in {x \in b.events : x.type = "TERMINATION"}}
      BY <1>0, <2>2, <3>1, TrackedAccounts DEF RunPair, TrackerMoves, tables, Active, Unsaved,
         Sources
    <3>3. \A u \in UidsIn(prev.uid) :
            u \in UidsIn(b.uid) \/ \E e \in b.events : e.type = "TERMINATION" /\ e.src = u
      BY <3>2 DEF Accounts
    <3>4. Active' \subseteq UidsIn(prev'.uid) \union Sources("TERMINATION")'
      BY <2>0, <3>2, <3>3
    <3> QED
      BY <3>2, <3>4 DEF Ends, UidsIn
  <2>3. CASE ~WriteScan /\ ~RunPair
    <3>1. tracks' = tracks /\ Active' = Active
      BY <2>3, TablesStill DEF Active
    <3>2. CASE Unsaved'
      <4>1. Unsaved /\ batch' = batch /\ prev' = prev
        BY <2>3, <3>2, UnsavedStill
      <4> QED
        BY <2>0, <3>1, <3>2, <4>1 DEF Ends, Sources, UidsIn
    <3>3. CASE ~Unsaved'
      <4>1. ~(LinkRequired /\ CellsOf(cur) = {})
        BY <1>0, <2>0 DEF EveryScanHasCells, Place
      <4>2. prev' = prev /\ ~Unsaved
        BY <1>3, <2>3, <3>3, <4>1 DEF Next, vars, memory, aux, ProcessEnds, Skip, Take, Handed,
           RunSingle, LinkRequired, Done, RunFails, TrackedThenRaised, PersistFails, MarkFailed,
           Unsaved, Undisturbed
      <4> QED
        BY <2>0, <3>1, <3>3, <4>2 DEF Ends, UidsIn
    <3> QED
      BY <3>2, <3>3
  <2> QED
    BY <2>1, <2>2, <2>3
<1> QED
  BY <1>0, <1>1, <1>2, <1>3, UndisturbedNext

LEMMA RunInit == ASSUME Init PROVE RunInv
<1>1. TablesInv
  BY TablesInit
<1>2. Fresh /\ Began
  BY Beginning DEF Fresh, Began
<1>3. Flags /\ InTables /\ Goes /\ Gone /\ Backed
  BY Beginning DEF Flags, InTables, Goes, Gone, RowsOf, Backed
<1>4. Active = {} /\ Ends
  BY Beginning DEF Active, Ends
<1> QED
  BY <1>1, <1>2, <1>3, <1>4 DEF RunInv

LEMMA RunNext == ASSUME RunInv, [Next]_vars PROVE RunInv'
BY TablesNext, FlagsNext, FreshNext, InTablesNext, GoesNext, GoneNext, BackedNext, EndsNext
   DEF RunInv, TablesInv

(* The tracker's memory and the tables tell the same history of a run.      *)
THEOREM RunInvariant == Spec => []RunInv
<1>1. Init => RunInv
  BY RunInit
<1>2. RunInv /\ [Next]_vars => RunInv'
  BY RunNext
<1> QED
  BY <1>1, <1>2, PTL DEF Spec

(* Every row comes from exactly one event of the write that made it, and,   *)
(* in a run no failure disturbed and no empty scan interrupted, goes on or  *)
(* ends by exactly one event of the next scan in the tables.                *)
THEOREM EventsAccountHolds == Spec => []EventsAccount
<1>1. ASSUME RunInv PROVE EventsAccount
  <2>1. ASSUME NEW r \in rows
        PROVE  Cardinality({e \in events : /\ e.by = r.scan /\ e.write = writes[r.scan]
                                           /\ e.type \in Incoming /\ e.dst = r.uid}) = 1
    <3>1. PICK e \in events : Comes(r) = {e}
      BY <1>1 DEF RunInv, TablesInv, RowsCome
    <3> QED
      BY <3>1, FS_Singleton DEF Comes
  <2>2. ASSUME Undisturbed, \A s \in Scans : CellsOf(s) # {}, NEW s \in Scans, NEW t \in Scans,
               Follows(s, t), NEW r \in {x \in rows : x.scan = s}
        PROVE  Cardinality({e \in events : /\ e.by = t /\ e.type \in Outgoing
                                           /\ e.src = r.uid /\ e.from = s}) = 1
    <3>1. PICK e \in events : Leaves(r, t) = {e}
      BY <1>1, <2>2 DEF RunInv, Gone, RowsOf, EveryScanHasCells
    <3>2. Leaves(r, t) = {x \in events : /\ x.by = t /\ x.type \in Outgoing
                                         /\ x.src = r.uid /\ x.from = s}
      BY DEF Leaves
    <3> QED
      BY <3>1, <3>2, FS_Singleton
  <2> QED
    BY <2>1, <2>2 DEF EventsAccount
<1> QED
  BY <1>1, RunInvariant, PTL

(* In an undisturbed run an event's source is a row of the scan it names,   *)
(* though the tables and the tracker find the previous scan each in its own *)
(* way, and in any run the retroactive flags of a scan written once say     *)
(* what the events say.                                                     *)
THEOREM LineageBackedHolds == Spec => []LineageBacked
<1>1. ASSUME RunInv PROVE LineageBacked
  <2>1. Backed /\ Flags
    BY <1>1 DEF RunInv
  <2> QED
    BY <2>1 DEF LineageBacked, Backed, Flags, Tells
<1> QED
  BY <1>1, RunInvariant, PTL

(* In an undisturbed run without empty scans the tracks still active in the *)
(* table are exactly the cells the tracker holds: no end is forgotten.      *)
THEOREM EndsRecordedHolds == Spec => []EndsRecorded
<1>1. ASSUME RunInv PROVE EndsRecorded
  <2>1. Ends
    BY <1>1 DEF RunInv
  <2> QED
    BY <2>1 DEF EndsRecorded, Ends, Active, Unsaved, EveryScanHasCells
<1> QED
  BY <1>1, RunInvariant, PTL

-----------------------------------------------------------------------------
(* The matching of one pair of scans.                                      *)
(*                                                                         *)
(* CellTracks takes the matching of two scans as any one-to-one map of     *)
(* cells; CellMatching is where it comes from.  The two share no constant  *)
(* and no variable: the results below hold for any two sets of cells and   *)
(* any validated graph between them.                                       *)

(* The invariant that carries the results: what is decided touches nothing   *)
(* that remains, and the first round of propagation sees the whole graph.    *)
Settled == \A e \in MatchedPairs, f \in remaining : e[1] # f[1] /\ e[2] # f[2]

Stages ==
  /\ stage \in {"frame", "edges"} => remaining = {} /\ forced = {}
  /\ stage \in {"frame", "edges", "peel"} => assigned = {}
  /\ stage = "peel" /\ forced = {} => remaining = Edges
  /\ stage \in {"assign", "done"} => New(remaining) = {}

Decided ==
  /\ Settled
  /\ Stages
  /\ OneToOne
  /\ ForcedHasNoRival
  /\ OneRoundIsEnough

MatchingInv == MatchTypeOK /\ Decided

(* What a round leaves has no pair that is unique on both sides: a rival     *)
(* that the round removed was itself forced, and took its neighbours along.  *)
LEMMA OneRound ==
  ASSUME NEW E
  PROVE  New({e \in E : ~Touches(e, New(E))}) = {}
<1> DEFINE R == {e \in E : ~Touches(e, New(E))}
<1> SUFFICES ASSUME NEW e \in New(R)
             PROVE  FALSE
    OBVIOUS
<1>1. e \in R /\ e \in E /\ ~Touches(e, New(E))
    BY DEF New
<1>2. e \notin New(E)
    BY <1>1 DEF Touches
<1>3. PICK f \in E : f # e /\ (f[1] = e[1] \/ f[2] = e[2])
    BY <1>1, <1>2 DEF New, OnlyOfPrev, OnlyOfCurr
<1>4. f \notin R
    BY <1>3 DEF New, OnlyOfPrev, OnlyOfCurr
<1>5. PICK n \in New(E) : f[1] = n[1] \/ f[2] = n[2]
    BY <1>4 DEF Touches
<1>6. f = n
    BY <1>5 DEF New, OnlyOfPrev, OnlyOfCurr
<1>7. Touches(e, New(E))
    BY <1>3, <1>5, <1>6 DEF Touches
<1> QED
    BY <1>1, <1>7

(* Assigning a component leaves no pair unique on both sides either, since   *)
(* no pair outside it shares a cell with one inside.                         *)
LEMMA GroupLeavesNoneNew ==
  ASSUME NEW E, NEW g \in Groups(E), New(E) = {}
  PROVE  New({e \in E : e[1] \notin g[1]}) = {}
<1> DEFINE R == {e \in E : e[1] \notin g[1]}
<1> SUFFICES ASSUME NEW e \in New(R)
             PROVE  FALSE
    OBVIOUS
<1>1. e \in R /\ e \in E /\ e[1] \notin g[1]
    BY DEF New
<1>2. \A x \in E : x[1] \in g[1] <=> x[2] \in g[2]
    BY DEF Groups
<1>3. PICK f \in E : f # e /\ (f[1] = e[1] \/ f[2] = e[2])
    BY <1>1 DEF New, OnlyOfPrev, OnlyOfCurr
<1>4. f \in R
    BY <1>1, <1>2, <1>3
<1> QED
    BY <1>3, <1>4 DEF New, OnlyOfPrev, OnlyOfCurr

(* A pair of a forced round has no rival in the graph of the round.          *)
LEMMA NewIsOneToOne ==
  ASSUME NEW E
  PROVE  /\ New(E) \subseteq E
         /\ OneToOneSet(New(E))
         /\ \A e \in New(E) : OnlyOfPrev(e, E) /\ OnlyOfCurr(e, E)
BY DEF New, OneToOneSet, OnlyOfPrev, OnlyOfCurr

(* What a component's assignment can be: validated pairs of its cells, no    *)
(* cell twice.                                                               *)
LEMMA OptimalIsOneToOne ==
  ASSUME NEW P, NEW Q, NEW M \in Optimal(P, Q)
  PROVE  /\ M \subseteq remaining
         /\ OneToOneSet(M)
         /\ \A e \in M : e[1] \in P /\ e[2] \in Q
<1>1. PICK N \in Assignments(P, Q) : M = N \cap remaining
    BY DEF Optimal
<1>2. N \subseteq P \X Q /\ OneToOneSet(N)
    BY <1>1 DEF Assignments, Sets!kSubset
<1> QED
    BY <1>1, <1>2 DEF OneToOneSet

LEMMA MatchingInvInit == MatchInit => MatchingInv
<1> SUFFICES ASSUME MatchInit
             PROVE  MatchingInv
    OBVIOUS
<1> USE DEF MatchInit
<1>1. cost \in CostFunctions
  <2>1. cost \in [{} -> Costs]
      OBVIOUS
  <2> QED
      BY <2>1 DEF CostFunctions
<1>2. MatchTypeOK
    BY <1>1 DEF MatchTypeOK
<1>3. Decided
    BY DEF Decided, Settled, Stages, OneToOne, OneToOneSet,
       ForcedHasNoRival, OneRoundIsEnough, MatchedPairs
<1> QED
    BY <1>2, <1>3 DEF MatchingInv, Decided

LEMMA MatchingInvNext == MatchingInv /\ [MatchNext]_matchVars => MatchingInv'
<1> SUFFICES ASSUME MatchingInv, [MatchNext]_matchVars
             PROVE  MatchingInv'
    OBVIOUS
<1>0. /\ MatchTypeOK /\ Settled /\ Stages
      /\ OneToOne /\ ForcedHasNoRival /\ OneRoundIsEnough
    BY DEF MatchingInv, Decided
<1>1. CASE ProjectionsMissing
  <2>1. MatchTypeOK'
      BY <1>0, <1>1 DEF ProjectionsMissing, MatchTypeOK, Edges,
         MinuteTimes, CostFunctions, Pairs
  <2>2. Decided'
      BY <1>0, <1>1 DEF Decided, ProjectionsMissing, Settled, Stages,
         OneToOne, OneToOneSet, ForcedHasNoRival,
         OneRoundIsEnough, MatchedPairs, New, Edges
  <2> QED
      BY <2>1, <2>2 DEF MatchingInv, Decided
<1>2. CASE SelectFrame
  <2>1. MatchTypeOK'
      BY <1>0, <1>2 DEF SelectFrame, MatchTypeOK, Edges,
         MinuteTimes, CostFunctions, Pairs
  <2>2. Decided'
      BY <1>0, <1>2 DEF Decided, SelectFrame, Settled, Stages, OneToOne,
         OneToOneSet, ForcedHasNoRival, OneRoundIsEnough,
         OnlyOfPrev, OnlyOfCurr, MatchedPairs, New,
         Edges
  <2> QED
      BY <2>1, <2>2 DEF MatchingInv, Decided
<1>3. CASE BuildEdges
  <2>1. MatchTypeOK'
      BY <1>0, <1>3 DEF BuildEdges, MatchTypeOK, Stages, Edges,
         MinuteTimes, CostFunctions, Pairs
  <2>2. Decided'
      BY <1>0, <1>3 DEF Decided, BuildEdges, Settled, Stages, OneToOne,
         OneToOneSet, ForcedHasNoRival, OneRoundIsEnough,
         MatchedPairs, Edges
  <2> QED
      BY <2>1, <2>2 DEF MatchingInv, Decided
<1>4. CASE Peel
  <2>1. forced = {} /\ remaining = Edges /\ assigned = {}
      BY <1>0, <1>4 DEF Peel, Stages, OneRoundIsEnough
  <2>2. forced' = New(Edges) /\ assigned' = {} /\ Edges' = Edges
      BY <1>4, <2>1 DEF Peel, Edges
  <2>3. remaining' = {e \in Edges : ~Touches(e, New(Edges))}
      BY <1>4, <2>1 DEF Peel
  <2>4. MatchTypeOK'
      BY <1>0, <1>4, <2>2, <2>3, NewIsOneToOne DEF Peel, MatchTypeOK,
         MinuteTimes, CostFunctions, Pairs
  <2>5. Settled'
      BY <2>2, <2>3 DEF Settled, MatchedPairs, Touches
  <2>6. New(remaining') = {}
      BY <2>3, OneRound
  <2>7. Stages'
      BY <1>4, <2>2, <2>6, NewIsOneToOne DEF Peel, Stages
  <2>8. OneToOne'
      BY <2>2, NewIsOneToOne DEF OneToOne, OneToOneSet, MatchedPairs
  <2>9. ForcedHasNoRival'
      BY <2>2, NewIsOneToOne DEF ForcedHasNoRival, OnlyOfPrev,
         OnlyOfCurr
  <2>10. OneRoundIsEnough'
      BY <2>6 DEF OneRoundIsEnough, New, OnlyOfPrev,
         OnlyOfCurr
  <2> QED
      BY <2>4, <2>5, <2>7, <2>8, <2>9, <2>10 DEF MatchingInv, Decided
<1>5. CASE PeelEnds
  <2>1. MatchTypeOK'
      BY <1>0, <1>5 DEF PeelEnds, MatchTypeOK, Edges,
         MinuteTimes, CostFunctions, Pairs
  <2>2. Decided'
      BY <1>0, <1>5 DEF Decided, PeelEnds, Settled, Stages, OneToOne,
         OneToOneSet, ForcedHasNoRival, OneRoundIsEnough,
         OnlyOfPrev, OnlyOfCurr, MatchedPairs, New,
         Edges
  <2> QED
      BY <2>1, <2>2 DEF MatchingInv, Decided
<1>6. CASE Assign
  <2>1. PICK g \in Components(remaining) :
          /\ \E M \in Optimal(g[1], g[2]) : assigned' = assigned \cup M
          /\ remaining' = {e \in remaining : e[1] \notin g[1]}
      BY <1>6 DEF Assign
  <2>2. PICK M \in Optimal(g[1], g[2]) : assigned' = assigned \cup M
      BY <2>1
  <2>3. /\ stage = "assign" /\ stage' = stage /\ times' = times /\ frame' = frame
        /\ cost' = cost /\ forced' = forced
      BY <1>6 DEF Assign
  <2>4. /\ M \subseteq remaining /\ OneToOneSet(M)
        /\ \A e \in M : e[1] \in g[1] /\ e[2] \in g[2]
      BY OptimalIsOneToOne
  <2>5. g \in Groups(remaining)
      BY DEF Components
  <2>6. \A e \in remaining : e[1] \in g[1] <=> e[2] \in g[2]
      BY <2>5 DEF Groups
  <2>7. MatchTypeOK'
      BY <1>0, <2>1, <2>2, <2>3, <2>4 DEF MatchTypeOK, Edges,
         MinuteTimes, CostFunctions, Pairs
  <2>8. Settled'
      BY <1>0, <2>1, <2>2, <2>3, <2>4, <2>6 DEF Settled, MatchedPairs
  <2>9. New(remaining') = {}
      BY <1>0, <2>1, <2>3, <2>5, GroupLeavesNoneNew DEF Stages
  <2>10. Stages'
      BY <2>3, <2>9 DEF Stages, New, OnlyOfPrev, OnlyOfCurr
  <2>11. OneToOne'
      BY <1>0, <2>2, <2>3, <2>4 DEF OneToOne, OneToOneSet,
         MatchedPairs, Settled
  <2>12. ForcedHasNoRival'
      BY <1>0, <2>3 DEF ForcedHasNoRival, OnlyOfPrev,
         OnlyOfCurr, Edges
  <2>13. OneRoundIsEnough'
      BY <2>9 DEF OneRoundIsEnough, New, OnlyOfPrev,
         OnlyOfCurr
  <2> QED
      BY <2>7, <2>8, <2>10, <2>11, <2>12, <2>13 DEF MatchingInv, Decided
<1>7. CASE AssignEnds
  <2>1. MatchTypeOK'
      BY <1>0, <1>7 DEF AssignEnds, MatchTypeOK, Edges,
         MinuteTimes, CostFunctions, Pairs
  <2>2. Decided'
      BY <1>0, <1>7 DEF Decided, AssignEnds, Settled, Stages, OneToOne,
         OneToOneSet, ForcedHasNoRival, OneRoundIsEnough,
         OnlyOfPrev, OnlyOfCurr, MatchedPairs, New,
         Edges
  <2> QED
      BY <2>1, <2>2 DEF MatchingInv, Decided
<1>8. CASE UNCHANGED matchVars
  <2>1. MatchTypeOK'
      BY <1>0, <1>8 DEF matchVars, MatchTypeOK, Edges,
         MinuteTimes, CostFunctions, Pairs
  <2>2. Decided'
      BY <1>0, <1>8 DEF Decided, matchVars, Settled, Stages, OneToOne,
         OneToOneSet, ForcedHasNoRival, OneRoundIsEnough,
         OnlyOfPrev, OnlyOfCurr, MatchedPairs, New,
         Edges
  <2> QED
      BY <2>1, <2>2 DEF MatchingInv, Decided
<1> QED
    BY <1>1, <1>2, <1>3, <1>4, <1>5, <1>6, <1>7, <1>8 DEF MatchNext

LEMMA MatchingInvariant == MatchSpec => []MatchingInv
BY MatchingInvInit, MatchingInvNext, PTL DEF MatchSpec

(* The variables keep their types, and every decided pair is a validated     *)
(* one: padding never becomes a match.                                       *)
THEOREM MatchingTypes == MatchSpec => []MatchTypeOK
<1>1. MatchingInv => MatchTypeOK
    BY DEF MatchingInv, Decided
<1> QED
    BY MatchingInvariant, <1>1, PTL

(* No cell of either scan is matched twice, by propagation, by assignment or *)
(* by one of each.                                                           *)
THEOREM MatchingIsOneToOne == MatchSpec => []OneToOne
<1>1. MatchingInv => OneToOne
    BY DEF MatchingInv, Decided
<1> QED
    BY MatchingInvariant, <1>1, PTL

(* What resolve() forces was without rivals in the whole validated graph.    *)
THEOREM ForcingIsHarmless == MatchSpec => []ForcedHasNoRival
<1>1. MatchingInv => ForcedHasNoRival
    BY DEF MatchingInv, Decided
<1> QED
    BY MatchingInvariant, <1>1, PTL

(* The loop of resolve() never forces a pair in a second round.              *)
THEOREM PropagationConvergesAtOnce == MatchSpec => []OneRoundIsEnough
<1>1. MatchingInv => OneRoundIsEnough
    BY DEF MatchingInv, Decided
<1> QED
    BY MatchingInvariant, <1>1, PTL

-----------------------------------------------------------------------------
(* The best matching: sums over sets, full assignments, and what the two   *)
(* stages add up to.                                                       *)

(* Induction over the naturals, the property being membership of a set.     *)
LEMMA SetInduction ==
  ASSUME NEW S, 0 \in S, \A n \in Nat : n \in S => n + 1 \in S
  PROVE  Nat \subseteq S
<1> SUFFICES ASSUME Nat \ S # {} PROVE FALSE
  OBVIOUS
<1>1. PICK m \in Nat \ S : \A k \in Nat \ S : m <= k
  BY LeastOfNaturals
<1>2. m # 0 /\ m - 1 \in Nat /\ ~(m <= m - 1) /\ (m - 1) + 1 = m
  BY <1>1
<1>3. m - 1 \in S
  BY <1>1, <1>2
<1> QED
  BY <1>1, <1>2, <1>3

(* Induction over the subsets of a finite set, the property being           *)
(* membership of a set.                                                     *)
LEMMA SubsetInduction ==
  ASSUME NEW S, IsFiniteSet(S), NEW W, {} \in W,
         \A T \in SUBSET S : \A x \in S \ T : T \in W => T \cup {x} \in W
  PROVE  SUBSET S \subseteq W
<1> DEFINE N == {n \in Nat : \E T \in SUBSET S : Cardinality(T) = n /\ T \notin W}
<1>1. ASSUME NEW T \in SUBSET S
      PROVE  IsFiniteSet(T) /\ Cardinality(T) \in Nat /\ (Cardinality(T) = 0 <=> T = {})
  BY FS_Subset, FS_CardinalityType, FS_EmptySet
<1> SUFFICES ASSUME N # {} PROVE FALSE
  BY <1>1
<1>2. PICK m \in N : \A k \in N : m <= k
  BY LeastOfNaturals
<1>3. PICK T \in SUBSET S : Cardinality(T) = m /\ T \notin W
  OBVIOUS
<1>4. PICK x : x \in T
  BY <1>1, <1>3
<1>5. Cardinality(T \ {x}) = m - 1 /\ m \in Nat /\ T \ {x} \in SUBSET S
  BY <1>1, <1>3, <1>4, FS_RemoveElement
<1>6. m - 1 \notin N
  BY <1>2, <1>5
<1>7. T \ {x} \in W
  BY <1>1, <1>5, <1>6
<1>8. (T \ {x}) \cup {x} \in W
  BY <1>4, <1>5, <1>7
<1> QED
  BY <1>3, <1>4, <1>8

(***************************************************************************)
(* Sums                                                                    *)
(***************************************************************************)
Chosen(s) == CHOOSE x \in s : TRUE

(* g[s] is the sum of w over s, for every s in D, taken in the order of     *)
(* CHOOSE as MapThenSumSet takes it.                                        *)
IsSum(w, D, g) ==
  g = [s \in D |-> IF s = {} THEN 0 ELSE w[Chosen(s)] + g[s \ {Chosen(s)}]]

SumOf(w, S) == (CHOOSE g : IsSum(w, SUBSET S, g))[S]

LEMMA SumExists ==
  ASSUME NEW w, NEW S, IsFiniteSet(S)
  PROVE  \E g : IsSum(w, SUBSET S, g)
<1> DEFINE D(n) == {s \in SUBSET S : Cardinality(s) <= n}
           I == {n \in Nat : \E g : IsSum(w, D(n), g)}
<1>1. ASSUME NEW s \in SUBSET S
      PROVE  /\ IsFiniteSet(s) /\ Cardinality(s) \in Nat /\ Cardinality(s) <= Cardinality(S)
             /\ Cardinality(s) = 0 <=> s = {}
  BY FS_Subset, FS_CardinalityType, FS_EmptySet
<1>2. 0 \in I
  <2> DEFINE g == [s \in D(0) |-> 0]
  <2>1. \A s \in D(0) : s = {}
    BY <1>1
  <2>2. IsSum(w, D(0), g)
    BY <2>1 DEF IsSum
  <2> QED
    BY <2>2
<1>3. ASSUME NEW n \in Nat, n \in I PROVE n + 1 \in I
  <2>1. PICK g : IsSum(w, D(n), g)
    BY <1>3
  <2>2. \A s \in D(n) : g[s] = IF s = {} THEN 0 ELSE w[Chosen(s)] + g[s \ {Chosen(s)}]
    BY <2>1 DEF IsSum
  <2> DEFINE h == [s \in D(n + 1) |-> IF s = {} THEN 0
                                      ELSE w[Chosen(s)] + g[s \ {Chosen(s)}]]
  <2>3. ASSUME NEW t \in D(n) PROVE t \in D(n + 1) /\ h[t] = g[t]
    <3>1. t \in D(n + 1)
      BY <1>1
    <3> QED
      BY <2>2, <3>1
  <2>4. ASSUME NEW s \in D(n + 1), s # {} PROVE s \ {Chosen(s)} \in D(n)
    <3>1. Chosen(s) \in s
      BY <2>4 DEF Chosen
    <3> QED
      BY <1>1, <3>1, FS_RemoveElement
  <2> HIDE DEF D
  <2>5. \A s \in D(n + 1) :
          h[s] = IF s = {} THEN 0 ELSE w[Chosen(s)] + h[s \ {Chosen(s)}]
    BY <2>3, <2>4
  <2>6. h = [s \in D(n + 1) |-> IF s = {} THEN 0 ELSE w[Chosen(s)] + h[s \ {Chosen(s)}]]
    <3>1. h = [s \in D(n + 1) |-> h[s]]
      OBVIOUS
    <3> HIDE DEF h
    <3> QED
      BY <2>5, <3>1
  <2>7. IsSum(w, D(n + 1), h)
    BY <2>6 DEF IsSum
  <2> QED
    BY <2>7
<1>4. Cardinality(S) \in I
  <2> HIDE DEF I
  <2>1. Cardinality(S) \in Nat
    BY <1>1
  <2> QED
    BY <1>2, <1>3, <2>1, SetInduction
<1>5. D(Cardinality(S)) = SUBSET S
  BY <1>1
<1> HIDE DEF D
<1> QED
  BY <1>4, <1>5

(* Two sums of a set agree.                                                 *)
LEMMA SumsAgree ==
  ASSUME NEW w, NEW S, IsFiniteSet(S), NEW T \in SUBSET S, NEW g, NEW h,
         IsSum(w, SUBSET S, g), IsSum(w, SUBSET T, h)
  PROVE  g[T] = h[T]
<1> DEFINE I == {n \in Nat : \A s \in SUBSET T : Cardinality(s) = n => g[s] = h[s]}
<1>1. ASSUME NEW s \in SUBSET T
      PROVE  /\ IsFiniteSet(s) /\ Cardinality(s) \in Nat /\ (Cardinality(s) = 0 <=> s = {})
             /\ g[s] = IF s = {} THEN 0 ELSE w[Chosen(s)] + g[s \ {Chosen(s)}]
             /\ h[s] = IF s = {} THEN 0 ELSE w[Chosen(s)] + h[s \ {Chosen(s)}]
  <2>1. s \in SUBSET S
    OBVIOUS
  <2>2. IsFiniteSet(s) /\ Cardinality(s) \in Nat /\ (Cardinality(s) = 0 <=> s = {})
    BY <2>1, FS_Subset, FS_CardinalityType, FS_EmptySet
  <2> QED
    BY <2>1, <2>2 DEF IsSum
<1>2. 0 \in I
  BY <1>1
<1>3. ASSUME NEW n \in Nat, n \in I PROVE n + 1 \in I
  <2> SUFFICES ASSUME NEW s \in SUBSET T, Cardinality(s) = n + 1 PROVE g[s] = h[s]
    OBVIOUS
  <2>1. s # {} /\ IsFiniteSet(s)
    <3>1. n + 1 # 0
      BY <1>3
    <3> QED
      BY <1>1, <3>1
  <2>2. Chosen(s) \in s
    BY <2>1 DEF Chosen
  <2>3. s \ {Chosen(s)} \in SUBSET T /\ Cardinality(s \ {Chosen(s)}) = n
    <3>1. PICK c : c = Chosen(s)
      OBVIOUS
    <3>2. Cardinality(s \ {c}) = Cardinality(s) - 1
      BY <2>1, <2>2, <3>1, FS_RemoveElement
    <3>3. (n + 1) - 1 = n
      BY <1>3
    <3> QED
      BY <3>1, <3>2, <3>3
  <2>4. g[s \ {Chosen(s)}] = h[s \ {Chosen(s)}]
    BY <1>3, <2>3
  <2> QED
    BY <1>1, <2>1, <2>4
<1>4. Cardinality(T) \in I
  <2> HIDE DEF I
  <2> QED
    BY <1>1, <1>2, <1>3, SetInduction
<1> QED
  BY <1>4

LEMMA SumChosen ==
  ASSUME NEW w, NEW S, IsFiniteSet(S)
  PROVE  SumOf(w, S) = IF S = {} THEN 0 ELSE w[Chosen(S)] + SumOf(w, S \ {Chosen(S)})
<1> DEFINE g == CHOOSE f : IsSum(w, SUBSET S, f)
           T == S \ {Chosen(S)}
           h == CHOOSE f : IsSum(w, SUBSET T, f)
<1>1. IsSum(w, SUBSET S, g)
  BY SumExists
<1>2. T \in SUBSET S /\ IsFiniteSet(T)
  BY FS_Subset
<1>3. IsSum(w, SUBSET T, h)
  BY <1>2, SumExists
<1>4. SumOf(w, S) = g[S] /\ SumOf(w, T) = h[T]
  BY DEF SumOf
<1> HIDE DEF g, h, T
<1>5. g[T] = h[T]
  BY <1>1, <1>2, <1>3, SumsAgree
<1>6. g[S] = IF S = {} THEN 0 ELSE w[Chosen(S)] + g[T]
  BY <1>1 DEF IsSum, T
<1> QED
  BY <1>4, <1>5, <1>6 DEF T

Weighs(w, S) == \A e \in S : w[e] \in Nat

(* The order of CHOOSE is none.                                             *)
LEMMA SumWithout ==
  ASSUME NEW w, NEW S, IsFiniteSet(S), Weighs(w, S)
  PROVE  /\ SumOf(w, S) \in Nat
         /\ \A x \in S : SumOf(w, S) = w[x] + SumOf(w, S \ {x})
<1> DEFINE P(T) == /\ SumOf(w, T) \in Nat
                   /\ \A x \in T : SumOf(w, T) = w[x] + SumOf(w, T \ {x})
           I == {n \in Nat : \A T \in SUBSET S : Cardinality(T) <= n => P(T)}
<1>1. ASSUME NEW T \in SUBSET S
      PROVE  IsFiniteSet(T) /\ Cardinality(T) \in Nat /\ (Cardinality(T) = 0 <=> T = {})
  BY FS_Subset, FS_CardinalityType, FS_EmptySet
<1>2. 0 \in I
  <2> SUFFICES ASSUME NEW T \in SUBSET S, Cardinality(T) <= 0 PROVE P(T)
    OBVIOUS
  <2>1. T = {}
    BY <1>1
  <2>2. SumOf(w, T) = 0
    BY <1>1, <2>1, SumChosen
  <2> QED
    BY <2>1, <2>2
<1>3. ASSUME NEW n \in Nat, n \in I PROVE n + 1 \in I
  <2> SUFFICES ASSUME NEW T \in SUBSET S, Cardinality(T) <= n + 1, T # {} PROVE P(T)
    <3>1. SumOf(w, {}) = 0
      BY FS_EmptySet, SumChosen
    <3> QED
      BY <3>1
  <2> DEFINE c == Chosen(T)
  <2>1. ASSUME NEW x \in T
        PROVE  /\ T \ {x} \in SUBSET S /\ P(T \ {x})
               /\ w[x] \in Nat
    <3>1. Cardinality(T \ {x}) = Cardinality(T) - 1
      BY <1>1, FS_RemoveElement
    <3>2. Cardinality(T \ {x}) <= n
      BY <1>1, <1>3, <3>1
    <3>3. \A U \in SUBSET S : Cardinality(U) <= n => P(U)
      BY <1>3
    <3> HIDE DEF P
    <3> QED
      BY <3>2, <3>3 DEF Weighs
  <2>3. c \in T
    BY DEF Chosen
  <2>4. SumOf(w, T) = w[c] + SumOf(w, T \ {c})
    BY <1>1, SumChosen
  <2> HIDE DEF c
  <2>5. SumOf(w, T) \in Nat
    BY <2>1, <2>3, <2>4
  <2>6. ASSUME NEW x \in T PROVE SumOf(w, T) = w[x] + SumOf(w, T \ {x})
    <3>1. CASE x = c
      BY <2>4, <3>1
    <3>2. CASE x # c
      <4> DEFINE U == (T \ {c}) \ {x}
      <4>1. x \in T \ {c} /\ c \in T \ {x}
        BY <2>3, <3>2
      <4>2. U = (T \ {x}) \ {c}
        OBVIOUS
      <4>3. SumOf(w, T \ {c}) = w[x] + SumOf(w, U)
        BY <2>1, <2>3, <4>1
      <4>4. SumOf(w, T \ {x}) = w[c] + SumOf(w, U) /\ SumOf(w, T \ {x}) \in Nat
        BY <2>1, <4>1, <4>2
      <4> HIDE DEF U
      <4>5. w[c] \in Nat /\ w[x] \in Nat /\ SumOf(w, T \ {c}) \in Nat
        BY <2>1, <2>3
      <4>6. SumOf(w, U) = SumOf(w, T \ {x}) - w[c]
        <5>1. U \in SUBSET S /\ Cardinality(U) <= n
          <6>1. IsFiniteSet(T \ {c}) /\ Cardinality(T \ {c}) = Cardinality(T) - 1
            BY <1>1, <2>3, FS_RemoveElement
          <6>2. Cardinality((T \ {c}) \ {x}) = Cardinality(T \ {c}) - 1
            BY <4>1, <6>1, FS_RemoveElement
          <6> QED
            BY <1>1, <1>3, <6>1, <6>2 DEF U
        <5>2. SumOf(w, U) \in Nat
          BY <1>3, <5>1
        <5> QED
          BY <4>4, <4>5, <5>2
      <4> QED
        BY <2>4, <4>3, <4>4, <4>5, <4>6
    <3> QED
      BY <3>1, <3>2
  <2> QED
    BY <2>5, <2>6
<1>4. Cardinality(S) \in I
  <2> HIDE DEF I
  <2> QED
    BY <1>1, <1>2, <1>3, SetInduction
<1> QED
  BY <1>4

LEMMA SumAdds ==
  ASSUME NEW w, NEW S, IsFiniteSet(S), NEW x, x \notin S, Weighs(w, S \cup {x})
  PROVE  /\ SumOf(w, {}) = 0
         /\ SumOf(w, S) \in Nat /\ SumOf(w, S \cup {x}) = w[x] + SumOf(w, S)
<1>1. IsFiniteSet(S \cup {x}) /\ (S \cup {x}) \ {x} = S
  BY FS_AddElement
<1>2. SumOf(w, S) \in Nat
  BY SumWithout DEF Weighs
<1>3. SumOf(w, S \cup {x}) = w[x] + SumOf(w, (S \cup {x}) \ {x})
  BY <1>1, SumWithout
<1> QED
  BY <1>1, <1>2, <1>3, FS_EmptySet, SumChosen

LEMMA SumUnion ==
  ASSUME NEW w, NEW S, NEW T, IsFiniteSet(S), IsFiniteSet(T), S \cap T = {},
         Weighs(w, S \cup T)
  PROVE  SumOf(w, S \cup T) = SumOf(w, S) + SumOf(w, T)
<1> DEFINE W == {U \in SUBSET T : SumOf(w, S \cup U) = SumOf(w, S) + SumOf(w, U)}
<1>1. SumOf(w, S) \in Nat /\ SumOf(w, {}) = 0
  BY SumWithout, FS_EmptySet, SumChosen DEF Weighs
<1>2. {} \in W
  BY <1>1
<1>3. ASSUME NEW U \in SUBSET T, NEW x \in T \ U, U \in W PROVE U \cup {x} \in W
  <2>1. IsFiniteSet(U) /\ IsFiniteSet(S \cup U)
    BY FS_Subset, FS_Union
  <2>2. SumOf(w, U) \in Nat /\ SumOf(w, U \cup {x}) = w[x] + SumOf(w, U) /\ w[x] \in Nat
    BY <2>1, SumAdds DEF Weighs
  <2>3. SumOf(w, (S \cup U) \cup {x}) = w[x] + SumOf(w, S \cup U)
    BY <2>1, SumAdds DEF Weighs
  <2>4. (S \cup U) \cup {x} = S \cup (U \cup {x})
    OBVIOUS
  <2>5. SumOf(w, S \cup U) = SumOf(w, S) + SumOf(w, U)
    BY <1>3
  <2>6. SumOf(w, S \cup (U \cup {x})) = SumOf(w, S) + SumOf(w, U \cup {x})
    <3>1. SumOf(w, S \cup (U \cup {x})) = w[x] + (SumOf(w, S) + SumOf(w, U))
      BY <2>3, <2>4, <2>5
    <3> QED
      BY <1>1, <2>2, <3>1
  <2> QED
    BY <2>6
<1>4. SUBSET T \subseteq W
  <2>1. \A U \in SUBSET T : \A x \in T \ U : U \in W => U \cup {x} \in W
    BY <1>3
  <2>2. IsFiniteSet(T)
    OBVIOUS
  <2> HIDE DEF W
  <2> QED
    BY ONLY <1>2, <2>1, <2>2, SubsetInduction
<1> QED
  BY <1>4

LEMMA Monotone ==
  ASSUME NEW k \in Nat, NEW a \in Nat, NEW b \in Nat, a <= b
  PROVE  k * a <= k * b
OBVIOUS

(* As many weights, each of them small against m, do not exceed m.          *)
LEMMA SumBelow ==
  ASSUME NEW w, NEW S, IsFiniteSet(S), Weighs(w, S), NEW k \in Nat, NEW m \in Nat,
         Cardinality(S) <= k, \A e \in S : k * w[e] <= m
  PROVE  SumOf(w, S) <= m
<1> DEFINE W == {U \in SUBSET S : k * SumOf(w, U) <= Cardinality(U) * m}
<1>1. ASSUME NEW U \in SUBSET S
      PROVE  IsFiniteSet(U) /\ Cardinality(U) \in Nat /\ SumOf(w, U) \in Nat
  BY FS_Subset, FS_CardinalityType, SumWithout DEF Weighs
<1>2. {} \in W
  <2>1. SumOf(w, {}) = 0 /\ Cardinality({}) = 0
    BY FS_EmptySet, SumChosen
  <2>2. k * 0 = 0 /\ 0 * m = 0
    OBVIOUS
  <2> QED
    BY <2>1, <2>2
<1>3. ASSUME NEW U \in SUBSET S, NEW x \in S \ U, U \in W PROVE U \cup {x} \in W
  <2>1. Cardinality(U \cup {x}) = Cardinality(U) + 1
    BY <1>1, FS_AddElement
  <2>2. SumOf(w, U \cup {x}) = w[x] + SumOf(w, U) /\ w[x] \in Nat
    BY <1>1, SumAdds DEF Weighs
  <2>3. k * w[x] <= m /\ k * SumOf(w, U) <= Cardinality(U) * m
    BY <1>3
  <2> DEFINE a == Cardinality(U)
             b == SumOf(w, U)
  <2>4. a \in Nat /\ b \in Nat
    BY <1>1
  <2> HIDE DEF a, b
  <2>5. k * (w[x] + b) = k * w[x] + k * b /\ (a + 1) * m = a * m + m
    BY <2>2, <2>4
  <2>6. k * (w[x] + b) <= (a + 1) * m
    <3>1. k * w[x] \in Nat /\ k * b \in Nat /\ a * m \in Nat
      BY <2>2, <2>4
    <3> QED
      BY <2>3, <2>5, <3>1 DEF a, b
  <2> QED
    BY <2>1, <2>2, <2>6 DEF a, b
<1>4. SUBSET S \subseteq W
  <2> HIDE DEF W
  <2> QED
    BY <1>2, <1>3, SubsetInduction
<1>5. k * SumOf(w, S) <= Cardinality(S) * m
  BY <1>4
<1> DEFINE a == Cardinality(S)
           b == SumOf(w, S)
<1>6. a \in Nat /\ b \in Nat /\ a <= k /\ k * b <= a * m
  BY <1>1, <1>5
<1> HIDE DEF a, b
<1>7. CASE k = 0
  <2>1. S = {}
    BY <1>6, <1>7, FS_EmptySet DEF a
  <2> QED
    BY <2>1, FS_EmptySet, SumChosen
<1>8. CASE k # 0
  <2>1. a * m <= k * m
    BY <1>6, Monotone
  <2>2. k * b <= k * m
    BY <1>6, <2>1
  <2>3. b >= m + 1 => k * b >= k * m + k
    <3> SUFFICES ASSUME b >= m + 1 PROVE k * b >= k * m + k
      OBVIOUS
    <3>1. k * (m + 1) <= k * b
      BY <1>6, Monotone
    <3> QED
      BY <1>6, <3>1
  <2>4. k * m \in Nat
    OBVIOUS
  <2>5. ~(b >= m + 1)
    BY <1>6, <1>8, <2>2, <2>3, <2>4
  <2> QED
    BY <1>6, <2>5 DEF b
<1> QED
  BY <1>7, <1>8

(* Cost and Total are such sums.                                            *)
LEMMA CostIsSum == \A M : Cost(M) = SumOf(cost, M)
BY DEF Cost, Sets!MapThenSumSet, Sets!MapThenFoldSet, SumOf, IsSum, Chosen

LEMMA TotalIsSum ==
  ASSUME NEW M, IsFiniteSet(M)
  PROVE  Total(M) = SumOf([e \in M |-> CellCost(e)], M)
<1> DEFINE w == [e \in M |-> CellCost(e)]
           Q(g) == g = [s \in SUBSET M |->
                          IF s = {} THEN 0
                          ELSE CellCost(Chosen(s)) + g[s \ {Chosen(s)}]]
           h == CHOOSE g : Q(g)
           f == CHOOSE g : IsSum(w, SUBSET M, g)
<1>1. Total(M) = h[M] /\ SumOf(w, M) = f[M]
  BY DEF Total, Sets!MapThenSumSet, Sets!MapThenFoldSet, SumOf, Chosen
<1>2. ASSUME NEW g PROVE Q(g) <=> IsSum(w, SUBSET M, g)
  <2>1. \A s \in SUBSET M : s # {} => CellCost(Chosen(s)) = w[Chosen(s)]
    BY DEF Chosen
  <2> HIDE DEF w
  <2>2. [s \in SUBSET M |-> IF s = {} THEN 0
                            ELSE CellCost(Chosen(s)) + g[s \ {Chosen(s)}]]
        = [s \in SUBSET M |-> IF s = {} THEN 0 ELSE w[Chosen(s)] + g[s \ {Chosen(s)}]]
    BY <2>1
  <2> QED
    BY <2>2 DEF IsSum
<1>3. IsSum(w, SUBSET M, f)
  BY SumExists
<1>4. Q(h)
  <2>1. Q(f)
    BY <1>2, <1>3
  <2> QED
    BY <2>1
<1>5. IsSum(w, SUBSET M, h)
  BY <1>2, <1>4
<1> HIDE DEF w, Q, h, f
<1>6. h[M] = f[M]
  BY <1>3, <1>5, SumsAgree
<1> QED
  BY <1>1, <1>6 DEF w

(* What the padded matrix totals: the pairs' costs, and the padding.        *)
LEMMA TotalSplits ==
  ASSUME NEW N, IsFiniteSet(N), Weighs(cost, N \cap remaining), Sentinel \in Nat
  PROVE  Total(N) = SumOf(cost, N \cap remaining) + Sentinel * Cardinality(N \ remaining)
<1> DEFINE w == [e \in N |-> CellCost(e)]
           W == {U \in SUBSET N : SumOf(w, U) = SumOf(cost, U \cap remaining)
                                    + Sentinel * Cardinality(U \ remaining)}
<1>0. /\ \A e \in N \cap remaining : w[e] = cost[e]
      /\ \A e \in N \ remaining : w[e] = Sentinel
  BY DEF CellCost
<1>1. Weighs(w, N)
  BY <1>0 DEF Weighs
<1> HIDE DEF w
<1>2. {} \in W
  <2>1. SumOf(w, {}) = 0 /\ SumOf(cost, {}) = 0 /\ Cardinality({}) = 0
    BY FS_EmptySet, SumChosen
  <2>2. Sentinel * 0 = 0 /\ {} \cap remaining = {} /\ {} \ remaining = {}
    OBVIOUS
  <2> QED
    BY <2>1, <2>2
<1>3. ASSUME NEW U \in SUBSET N, NEW x \in N \ U, U \in W PROVE U \cup {x} \in W
  <2> DEFINE R == U \cap remaining
             O == U \ remaining
  <2>1. IsFiniteSet(U) /\ IsFiniteSet(R) /\ IsFiniteSet(O) /\ Cardinality(O) \in Nat
    BY FS_Subset, FS_CardinalityType
  <2>2. /\ SumOf(w, U \cup {x}) = w[x] + SumOf(w, U)
        /\ w[x] \in Nat
    BY <1>1, <2>1, SumAdds DEF Weighs
  <2>3. SumOf(w, U) = SumOf(cost, R) + Sentinel * Cardinality(O)
    BY <1>3
  <2>4. SumOf(cost, R) \in Nat
    BY <2>1, SumWithout DEF Weighs
  <2>5. CASE x \in remaining
    <3>1. (U \cup {x}) \cap remaining = R \cup {x} /\ (U \cup {x}) \ remaining = O
      BY <2>5
    <3>2. x \notin R /\ Weighs(cost, R \cup {x}) /\ w[x] = cost[x]
      BY <1>0, <2>5 DEF Weighs
    <3> HIDE DEF R, O
    <3>3. SumOf(cost, R \cup {x}) = cost[x] + SumOf(cost, R)
      BY <2>1, <3>2, SumAdds
    <3>4. Sentinel * Cardinality(O) \in Nat
      BY <2>1
    <3>5. SumOf(w, U \cup {x}) = SumOf(cost, R \cup {x}) + Sentinel * Cardinality(O)
      BY <2>2, <2>3, <2>4, <3>2, <3>3, <3>4
    <3> QED
      BY <3>1, <3>5
  <2>6. CASE x \notin remaining
    <3>1. (U \cup {x}) \cap remaining = R /\ (U \cup {x}) \ remaining = O \cup {x}
      BY <2>6
    <3>2. x \notin O /\ w[x] = Sentinel
      BY <1>0, <2>6
    <3> HIDE DEF R, O
    <3>3. Cardinality(O \cup {x}) = Cardinality(O) + 1
      BY <2>1, <3>2, FS_AddElement
    <3>4. Sentinel * Cardinality(O) \in Nat
      BY <2>1
    <3>5. Sentinel * (Cardinality(O) + 1) = Sentinel * Cardinality(O) + Sentinel
      BY <2>1
    <3>6. SumOf(w, U \cup {x}) = SumOf(cost, R) + Sentinel * Cardinality(O \cup {x})
      BY <2>2, <2>3, <2>4, <3>2, <3>3, <3>4, <3>5
    <3> QED
      BY <3>1, <3>6
  <2> QED
    BY <2>5, <2>6
<1>4. SUBSET N \subseteq W
  <2>1. \A U \in SUBSET N : \A x \in N \ U : U \in W => U \cup {x} \in W
    BY <1>3
  <2> HIDE DEF W
  <2>2. IsFiniteSet(N)
    OBVIOUS
  <2> QED
    BY ONLY <1>2, <2>1, <2>2, SubsetInduction
<1>5. SumOf(w, N) = SumOf(cost, N \cap remaining) + Sentinel * Cardinality(N \ remaining)
  BY <1>4
<1> QED
  BY <1>5, TotalIsSum DEF w

(***************************************************************************)
(* Assignments                                                             *)
(***************************************************************************)
(* The library counts as this module does.                                  *)
LEMMA SameCount == \A s : Sets!Cardinality(s) = Cardinality(s)
BY DEF Sets!Cardinality, Cardinality

(* A one-to-one set of pairs is no larger than either side, and one that is *)
(* smaller leaves a cell of it free.                                        *)
LEMMA SidesBound ==
  ASSUME NEW P, NEW Q, IsFiniteSet(P), IsFiniteSet(Q), NEW O \in SUBSET (P \X Q),
         OneToOneSet(O)
  PROVE  /\ IsFiniteSet(O) /\ Cardinality(O) \in Nat
         /\ Cardinality(O) <= Cardinality(P) /\ Cardinality(O) <= Cardinality(Q)
         /\ Cardinality(O) < Cardinality(P) => \E p \in P : \A e \in O : e[1] # p
         /\ Cardinality(O) < Cardinality(Q) => \E q \in Q : \A e \in O : e[2] # q
<1> DEFINE f == [e \in O |-> e[1]]
           h == [e \in O |-> e[2]]
<1>1. \A e \in O : e[1] \in P /\ e[2] \in Q
  OBVIOUS
<1>2. f \in Injection(O, P) /\ h \in Injection(O, Q)
  BY <1>1 DEF Injection, IsInjective, OneToOneSet
<1>3. (\A p \in P : \E e \in O : e[1] = p) => f \in Surjection(O, P)
  BY <1>1 DEF Surjection
<1>4. (\A q \in Q : \E e \in O : e[2] = q) => h \in Surjection(O, Q)
  BY <1>1 DEF Surjection
<1> HIDE DEF f, h
<1>5. /\ IsFiniteSet(O) /\ Cardinality(O) <= Cardinality(P)
      /\ Cardinality(O) = Cardinality(P) <=> f \in Surjection(O, P)
  BY <1>2, FS_Injection
<1>6. /\ Cardinality(O) <= Cardinality(Q)
      /\ Cardinality(O) = Cardinality(Q) <=> h \in Surjection(O, Q)
  BY <1>2, FS_Injection
<1>7. Cardinality(O) \in Nat /\ Cardinality(P) \in Nat /\ Cardinality(Q) \in Nat
  BY <1>5, FS_CardinalityType
<1>8. Cardinality(O) < Cardinality(P) => \E p \in P : \A e \in O : e[1] # p
  BY <1>3, <1>5, <1>7
<1>9. Cardinality(O) < Cardinality(Q) => \E q \in Q : \A e \in O : e[2] # q
  BY <1>4, <1>6, <1>7
<1> QED
  BY <1>5, <1>6, <1>7, <1>8, <1>9

(* Every one-to-one set of pairs is part of a full assignment.              *)
LEMMA AssignmentExtends ==
  ASSUME NEW P, NEW Q, IsFiniteSet(P), IsFiniteSet(Q), NEW O \in SUBSET (P \X Q),
         OneToOneSet(O)
  PROVE  \E N \in Assignments(P, Q) : O \subseteq N
<1> DEFINE k == Smaller(Cardinality(P), Cardinality(Q))
           Partial == {M \in SUBSET (P \X Q) : OneToOneSet(M)}
           I == {n \in Nat : \A M \in Partial :
                   Cardinality(M) + n = k => \E N \in Assignments(P, Q) : M \subseteq N}
<1>1. k \in Nat /\ k <= Cardinality(P) /\ k <= Cardinality(Q)
  <2>1. Cardinality(P) \in Nat /\ Cardinality(Q) \in Nat
    BY FS_CardinalityType
  <2> QED
    BY <2>1 DEF Smaller
<1>2. ASSUME NEW M \in Partial
      PROVE  /\ IsFiniteSet(M) /\ Cardinality(M) \in Nat /\ Cardinality(M) <= k
             /\ Cardinality(M) < k => /\ \E p \in P : \A e \in M : e[1] # p
                                      /\ \E q \in Q : \A e \in M : e[2] # q
  <2>1. Cardinality(P) \in Nat /\ Cardinality(Q) \in Nat
    BY FS_CardinalityType
  <2>2. Cardinality(M) <= k
    BY <2>1, SidesBound DEF Smaller
  <2> QED
    BY <1>1, <2>1, <2>2, SidesBound
<1>3. \A M \in Partial : Cardinality(M) = k => M \in Assignments(P, Q)
  <2> SUFFICES ASSUME NEW M \in Partial, Cardinality(M) = k
               PROVE  M \in Assignments(P, Q)
    OBVIOUS
  <2>1. M \in Sets!kSubset(k, P \X Q)
    BY SameCount DEF Sets!kSubset
  <2> QED
    BY <2>1, SameCount DEF Assignments
<1> HIDE DEF k
<1>4. 0 \in I
  <2> SUFFICES ASSUME NEW M \in Partial, Cardinality(M) + 0 = k
               PROVE  M \in Assignments(P, Q)
    OBVIOUS
  <2>1. Cardinality(M) = k
    BY <1>2
  <2> QED
    BY <1>3, <2>1
<1>5. ASSUME NEW n \in Nat, n \in I PROVE n + 1 \in I
  <2> SUFFICES ASSUME NEW M \in Partial, Cardinality(M) + (n + 1) = k
               PROVE  \E N \in Assignments(P, Q) : M \subseteq N
    OBVIOUS
  <2>1. IsFiniteSet(M) /\ Cardinality(M) \in Nat /\ Cardinality(M) < k
    BY <1>2
  <2>2. PICK p \in P : \A e \in M : e[1] # p
    BY <1>2, <2>1
  <2>3. PICK q \in Q : \A e \in M : e[2] # q
    BY <1>2, <2>1
  <2> DEFINE U == M \cup {<<p, q>>}
  <2>4. U \in Partial
    <3>1. OneToOneSet(U)
      BY <2>2, <2>3 DEF OneToOneSet
    <3> QED
      BY <3>1
  <2>5. <<p, q>> \notin M
    BY <2>2
  <2>6. Cardinality(U) = Cardinality(M) + 1
    BY <2>1, <2>5, FS_AddElement
  <2>7. Cardinality(U) + n = k
    BY <2>1, <2>6
  <2>8. \A W \in Partial : Cardinality(W) + n = k =>
          \E N \in Assignments(P, Q) : W \subseteq N
    BY <1>5
  <2> HIDE DEF Partial
  <2>9. PICK N \in Assignments(P, Q) : U \subseteq N
    BY <2>4, <2>7, <2>8
  <2> QED
    BY <2>9
<1>6. O \in Partial
  OBVIOUS
<1>7. k - Cardinality(O) \in Nat /\ Cardinality(O) + (k - Cardinality(O)) = k
  BY <1>1, <1>2, <1>6
<1>8. k - Cardinality(O) \in I
  <2> HIDE DEF I
  <2> QED
    BY <1>4, <1>5, <1>7, SetInduction
<1> HIDE DEF Partial
<1> QED
  BY <1>6, <1>7, <1>8

(***************************************************************************)
(* The optimum                                                             *)
(***************************************************************************)
(* m is the best that can be made of the pairs of A: no one-to-one choice   *)
(* of them has more pairs, or as many at a lower cost.                      *)
Best(w, A, m) ==
  /\ m \subseteq A
  /\ \A M \in SUBSET A : OneToOneSet(M) =>
       \/ Cardinality(M) < Cardinality(m)
       \/ Cardinality(M) = Cardinality(m) /\ SumOf(w, m) <= SumOf(w, M)

(* Of two parts, the best of both together is that of each.                 *)
LEMMA BestOfParts ==
  ASSUME NEW w, NEW A, NEW B, IsFiniteSet(A), IsFiniteSet(B), A \cap B = {},
         Weighs(w, A \cup B), NEW a, NEW b, Best(w, A, a), Best(w, B, b)
  PROVE  Best(w, A \cup B, a \cup b)
<1>1. ASSUME NEW X \in SUBSET A, NEW Y \in SUBSET B
      PROVE  /\ Cardinality(X) \in Nat /\ Cardinality(Y) \in Nat
             /\ SumOf(w, X) \in Nat /\ SumOf(w, Y) \in Nat
             /\ Cardinality(X \cup Y) = Cardinality(X) + Cardinality(Y)
             /\ SumOf(w, X \cup Y) = SumOf(w, X) + SumOf(w, Y)
  <2>1. IsFiniteSet(X) /\ IsFiniteSet(Y) /\ X \cap Y = {}
    BY FS_Subset
  <2>2. Cardinality(X) \in Nat /\ Cardinality(Y) \in Nat
    BY <2>1, FS_CardinalityType
  <2>3. Weighs(w, X) /\ Weighs(w, Y) /\ Weighs(w, X \cup Y)
    BY DEF Weighs
  <2>4. SumOf(w, X) \in Nat /\ SumOf(w, Y) \in Nat
    BY <2>1, <2>3, SumWithout
  <2>5. Cardinality(X \cup Y) = Cardinality(X) + Cardinality(Y) - Cardinality({})
    BY <2>1, FS_Union
  <2>6. SumOf(w, X \cup Y) = SumOf(w, X) + SumOf(w, Y)
    BY <2>1, <2>3, SumUnion
  <2> QED
    BY <2>2, <2>4, <2>5, <2>6, FS_EmptySet
<1>2. a \in SUBSET A /\ b \in SUBSET B
  BY DEF Best
<1>3. ASSUME NEW M \in SUBSET (A \cup B), OneToOneSet(M)
      PROVE  \/ Cardinality(M) < Cardinality(a \cup b)
             \/ /\ Cardinality(M) = Cardinality(a \cup b)
                /\ SumOf(w, a \cup b) <= SumOf(w, M)
  <2> DEFINE X == M \cap A
             Y == M \cap B
  <2>1. X \in SUBSET A /\ Y \in SUBSET B /\ X \cup Y = M
    OBVIOUS
  <2>2. OneToOneSet(X) /\ OneToOneSet(Y)
    BY <1>3 DEF OneToOneSet
  <2> HIDE DEF X, Y
  <2>3. \/ Cardinality(X) < Cardinality(a)
        \/ Cardinality(X) = Cardinality(a) /\ SumOf(w, a) <= SumOf(w, X)
    BY <2>1, <2>2 DEF Best
  <2>4. \/ Cardinality(Y) < Cardinality(b)
        \/ Cardinality(Y) = Cardinality(b) /\ SumOf(w, b) <= SumOf(w, Y)
    BY <2>1, <2>2 DEF Best
  <2>5. /\ Cardinality(M) = Cardinality(X) + Cardinality(Y)
        /\ SumOf(w, M) = SumOf(w, X) + SumOf(w, Y)
        /\ Cardinality(X) \in Nat /\ Cardinality(Y) \in Nat
        /\ SumOf(w, X) \in Nat /\ SumOf(w, Y) \in Nat
    BY <1>1, <2>1
  <2>6. /\ Cardinality(a \cup b) = Cardinality(a) + Cardinality(b)
        /\ SumOf(w, a \cup b) = SumOf(w, a) + SumOf(w, b)
        /\ Cardinality(a) \in Nat /\ Cardinality(b) \in Nat
        /\ SumOf(w, a) \in Nat /\ SumOf(w, b) \in Nat
    BY <1>1, <1>2
  <2> QED
    BY <2>3, <2>4, <2>5, <2>6
<1> QED
  BY <1>2, <1>3 DEF Best

LEMMA EdgesTyped ==
  ASSUME MatchTypeOK
  PROVE  /\ Edges \subseteq Prevs \X Currs /\ IsFiniteSet(Edges)
         /\ \A e \in Edges : cost[e] \in Costs
         /\ Weighs(cost, Edges)
<1>1. PICK E \in SUBSET (Prevs \X Currs) : cost \in [E -> Costs]
  BY DEF MatchTypeOK, CostFunctions, Pairs
<1>2. Edges = E
  BY <1>1 DEF Edges
<1>3. IsFiniteSet(Prevs \X Currs)
  BY FS_Product, MatchingAssumption
<1>4. IsFiniteSet(E)
  BY <1>3, FS_Subset
<1> QED
  BY <1>1, <1>2, <1>4, MatchingAssumption DEF Weighs

(* No matching costs as much as one cell of padding.                        *)
LEMMA SmallMatchingsAreCheap ==
  ASSUME PaddingDearest, MatchTypeOK, NEW X, X \subseteq Edges, X # {},
         OneToOneSet(X)
  PROVE  SumOf(cost, X) < Sentinel
<1> DEFINE k == Smaller(Cardinality(Prevs), Cardinality(Currs))
<1>1. X \in SUBSET (Prevs \X Currs) /\ Weighs(cost, X) /\ \A e \in X : cost[e] \in Costs
  BY EdgesTyped DEF Weighs
<1>2. IsFiniteSet(Prevs) /\ IsFiniteSet(Currs) /\ Sentinel \in Nat
  BY MatchingAssumption
<1>3. /\ IsFiniteSet(X) /\ Cardinality(X) \in Nat
      /\ Cardinality(X) <= Cardinality(Prevs) /\ Cardinality(X) <= Cardinality(Currs)
  BY <1>1, <1>2, SidesBound
<1>4. k \in Nat /\ Cardinality(X) <= k
  <2>1. Cardinality(Prevs) \in Nat /\ Cardinality(Currs) \in Nat
    BY <1>2, FS_CardinalityType
  <2> QED
    BY <1>3, <2>1 DEF Smaller
<1>5. \A e \in X : k * cost[e] < Sentinel
  BY <1>1 DEF PaddingDearest
<1> HIDE DEF k
<1>6. \A e \in X : k * cost[e] <= Sentinel - 1
  <2> SUFFICES ASSUME NEW e \in X PROVE k * cost[e] <= Sentinel - 1
    OBVIOUS
  <2>1. cost[e] \in Nat
    BY <1>1 DEF Weighs
  <2>2. k * cost[e] \in Nat
    BY <1>4, <2>1
  <2> QED
    BY <1>2, <1>5, <2>2
<1>7. Sentinel - 1 \in Nat
  <2>1. PICK e : e \in X
    OBVIOUS
  <2>2. cost[e] \in Nat
    BY <1>1, <2>1 DEF Weighs
  <2>3. k * cost[e] \in Nat
    BY <1>4, <2>2
  <2> QED
    BY <1>2, <1>5, <2>1, <2>3
<1>8. SumOf(cost, X) <= Sentinel - 1
  <2> DEFINE m == Sentinel - 1
  <2>1. m \in Nat /\ \A e \in X : k * cost[e] <= m
    BY <1>6, <1>7
  <2> HIDE DEF m
  <2>2. SumOf(cost, X) <= m
    BY <1>1, <1>3, <1>4, <2>1, SumBelow
  <2> QED
    BY <2>2 DEF m
<1>9. SumOf(cost, X) \in Nat
  BY <1>1, <1>3, SumWithout
<1> QED
  BY <1>2, <1>8, <1>9

(* HungarianMatcher.match, per component: a matching of least total in the  *)
(* padded matrix is a best one of the component's pairs.                    *)
LEMMA OptimalIsBest ==
  ASSUME PaddingDearest, MatchTypeOK,
         NEW g \in Groups(remaining), NEW M \in Optimal(g[1], g[2])
  PROVE  Best(cost, {e \in remaining : e[1] \in g[1]}, M)
<1> DEFINE P == g[1]
           Q == g[2]
           R == {e \in remaining : e[1] \in P}
           k == Smaller(Cardinality(P), Cardinality(Q))
<1>1. /\ remaining \subseteq Edges /\ remaining \subseteq Prevs \X Currs
      /\ Weighs(cost, remaining)
  BY EdgesTyped DEF MatchTypeOK, Weighs
<1>2. P \subseteq {e[1] : e \in remaining} /\ Q \subseteq {e[2] : e \in remaining}
  BY DEF Groups
<1>3. \A e \in remaining : e[1] \in P <=> e[2] \in Q
  BY DEF Groups
<1>4. P \subseteq Prevs /\ Q \subseteq Currs
  BY <1>1, <1>2
<1>5. IsFiniteSet(P) /\ IsFiniteSet(Q)
  BY <1>4, FS_Subset, MatchingAssumption
<1>6. PICK N \in Assignments(P, Q) :
        M = N \cap remaining /\ \A O \in Assignments(P, Q) : Total(N) <= Total(O)
  BY DEF Optimal
<1>7. R \subseteq P \X Q /\ \A X \in SUBSET (P \X Q) : X \cap remaining \subseteq R
  BY <1>1, <1>3
<1> HIDE DEF P, Q, R
<1>8. k \in Nat
  <2>1. Cardinality(P) \in Nat /\ Cardinality(Q) \in Nat
    BY <1>5, FS_CardinalityType
  <2> QED
    BY <2>1 DEF Smaller
<1>9. ASSUME NEW X \in Assignments(P, Q)
      PROVE  /\ X \in SUBSET (P \X Q) /\ IsFiniteSet(X) /\ OneToOneSet(X)
             /\ Cardinality(X) = k
  <2>1. X \in SUBSET (P \X Q) /\ OneToOneSet(X) /\ Cardinality(X) = k
    BY SameCount DEF Assignments, Sets!kSubset
  <2> QED
    BY <1>5, <2>1, SidesBound
<1> HIDE DEF k
<1>10. ASSUME NEW X \in Assignments(P, Q)
       PROVE  LET Y == X \cap remaining
              IN /\ IsFiniteSet(Y) /\ Cardinality(Y) \in Nat /\ Cardinality(Y) <= k
                 /\ SumOf(cost, Y) \in Nat /\ (Y # {} => SumOf(cost, Y) < Sentinel)
                 /\ Total(X) = SumOf(cost, Y) + Sentinel * (k - Cardinality(Y))
  <2> DEFINE Y == X \cap remaining
             Z == X \ remaining
  <2>1. /\ X \in SUBSET (P \X Q) /\ IsFiniteSet(X) /\ OneToOneSet(X)
        /\ Cardinality(X) = k
    BY <1>9
  <2>2. IsFiniteSet(Y) /\ IsFiniteSet(Z) /\ Cardinality(Y) \in Nat /\ Cardinality(Z) \in Nat
    BY <2>1, FS_Subset, FS_CardinalityType
  <2>3. Weighs(cost, Y) /\ OneToOneSet(Y) /\ Y \subseteq Edges
    BY <1>1, <2>1 DEF Weighs, OneToOneSet
  <2>4. Cardinality(Y) + Cardinality(Z) = k
    <3>1. Y \cap Z = {} /\ Y \cup Z = X
      OBVIOUS
    <3> HIDE DEF Y, Z
    <3>2. Cardinality(X) = Cardinality(Y) + Cardinality(Z) - Cardinality({})
      BY <2>2, <3>1, FS_Union
    <3> QED
      BY <2>1, <2>2, <3>2, FS_EmptySet
  <2>5. Total(X) = SumOf(cost, Y) + Sentinel * Cardinality(Z)
    BY <2>1, <2>3, TotalSplits, MatchingAssumption
  <2> HIDE DEF Y, Z
  <2>6. SumOf(cost, Y) \in Nat /\ (Y # {} => SumOf(cost, Y) < Sentinel)
    BY <2>2, <2>3, SumWithout, SmallMatchingsAreCheap
  <2>7. Cardinality(Z) = k - Cardinality(Y) /\ Cardinality(Y) <= k
    BY <1>8, <2>2, <2>4
  <2>8. Total(X) = SumOf(cost, Y) + Sentinel * (k - Cardinality(Y))
    BY <2>5, <2>7
  <2>9. /\ IsFiniteSet(Y) /\ Cardinality(Y) \in Nat /\ Cardinality(Y) <= k
        /\ SumOf(cost, Y) \in Nat /\ (Y # {} => SumOf(cost, Y) < Sentinel)
        /\ Total(X) = SumOf(cost, Y) + Sentinel * (k - Cardinality(Y))
    BY <2>2, <2>6, <2>7, <2>8
  <2> QED
    BY <2>9 DEF Y
<1>11. ASSUME NEW O \in SUBSET R, OneToOneSet(O)
       PROVE  \/ Cardinality(O) < Cardinality(M)
              \/ Cardinality(O) = Cardinality(M) /\ SumOf(cost, M) <= SumOf(cost, O)
  <2>1. O \in SUBSET (P \X Q)
    BY <1>7
  <2>2. PICK X \in Assignments(P, Q) : O \subseteq X
    BY <1>5, <1>11, <2>1, AssignmentExtends
  <2> DEFINE Y == X \cap remaining
             a == Cardinality(M)
             b == Cardinality(Y)
             s == SumOf(cost, M)
             t == SumOf(cost, Y)
  <2>3. O \subseteq Y
    BY <2>2 DEF R
  <2>4. /\ a \in Nat /\ a <= k /\ s \in Nat
        /\ Total(N) = s + Sentinel * (k - a)
    BY <1>6, <1>10
  <2>5. /\ IsFiniteSet(Y) /\ b \in Nat /\ b <= k /\ t \in Nat /\ (Y # {} => t < Sentinel)
        /\ Total(X) = t + Sentinel * (k - b)
    BY <1>10
  <2>6. s + Sentinel * (k - a) <= t + Sentinel * (k - b)
    BY <1>6, <2>4, <2>5
  <2>7. IsFiniteSet(O) /\ Cardinality(O) \in Nat /\ Cardinality(O) <= b
    BY <2>3, <2>5, FS_Subset, FS_CardinalityType
  <2>8. b = 0 <=> Y = {}
    BY <2>5, FS_EmptySet
  <2>9. Cardinality(O) = b => O = Y
    BY <2>3, <2>5, FS_Subset
  <2>10. Sentinel \in Nat
    BY MatchingAssumption
  <2> HIDE DEF Y, a, b, s, t
  <2>11. b <= a
    <3> SUFFICES ASSUME a < b PROVE FALSE
      BY <2>4, <2>5
    <3>1. t < Sentinel
      BY <2>4, <2>5, <2>8
    <3>2. (k - b) + 1 <= k - a /\ (k - b) + 1 \in Nat /\ k - a \in Nat
      BY <1>8, <2>4, <2>5
    <3>3. Sentinel * ((k - b) + 1) <= Sentinel * (k - a)
      BY <2>10, <3>2, Monotone
    <3>4. Sentinel * ((k - b) + 1) = Sentinel * (k - b) + Sentinel
      BY <1>8, <2>5, <2>10
    <3>5. Sentinel * (k - b) \in Int /\ Sentinel * (k - a) \in Int
      BY <1>8, <2>4, <2>5, <2>10
    <3> QED
      BY <2>4, <2>5, <2>6, <2>10, <3>1, <3>3, <3>4, <3>5
  <2>12. CASE Cardinality(O) < a
    BY <2>12 DEF a
  <2>13. CASE Cardinality(O) = a
    <3>1. b = a /\ O = Y
      BY <2>4, <2>5, <2>7, <2>9, <2>11, <2>13
    <3>2. Sentinel * (k - a) \in Int
      BY <1>8, <2>4, <2>10
    <3>3. s <= t
      BY <2>4, <2>5, <2>6, <3>1, <3>2
    <3> QED
      BY <2>13, <3>1, <3>3 DEF a, s, t
  <2> QED
    BY <2>4, <2>5, <2>7, <2>11, <2>12, <2>13
<1>12. M \subseteq R
  BY <1>6, <1>7, <1>9
<1> QED
  BY <1>11, <1>12 DEF Best, R, P

(* Of the pairs decided so far, the matched ones are a best choice.          *)
Optimum ==
  /\ Best(cost, Edges \ remaining, MatchedPairs)
  /\ stage = "done" => remaining = {}

LEMMA OptimumInit == MatchInit => Optimum
<1> SUFFICES ASSUME MatchInit PROVE Optimum
  OBVIOUS
<1>1. Edges = {} /\ remaining = {} /\ MatchedPairs = {}
  BY DEF MatchInit, Edges, MatchedPairs
<1>2. SumOf(cost, {}) <= SumOf(cost, {})
  BY FS_EmptySet, SumChosen
<1>3. Best(cost, {}, {})
  BY <1>2 DEF Best
<1> QED
  BY <1>1, <1>3 DEF Optimum

LEMMA OptimumNext ==
  ASSUME PaddingDearest, MatchingInv, Optimum, [MatchNext]_matchVars
  PROVE  Optimum'
<1>0. MatchTypeOK /\ Stages /\ OneRoundIsEnough
  BY DEF MatchingInv, Decided
<1>1. CASE ProjectionsMissing
  BY <1>0, <1>1 DEF ProjectionsMissing, Stages, Optimum, Edges, MatchedPairs
<1>2. CASE SelectFrame
  BY <1>2 DEF SelectFrame, Optimum, Edges, MatchedPairs
<1>3. CASE BuildEdges
  <2>1. Edges' \ remaining' = {} /\ MatchedPairs' = {} /\ stage' = "peel"
    BY <1>0, <1>3 DEF BuildEdges, Stages, Edges, MatchedPairs
  <2>2. SumOf(cost', {}) <= SumOf(cost', {})
    BY FS_EmptySet, SumChosen
  <2>3. Best(cost', {}, {})
    BY <2>2 DEF Best
  <2> QED
    BY <2>1, <2>3 DEF Optimum
<1>4. CASE Peel
  <2> DEFINE E == Edges
             N == New(Edges)
  <2>1. forced = {} /\ remaining = E /\ assigned = {}
    BY <1>0, <1>4 DEF Peel, Stages, OneRoundIsEnough
  <2>2. /\ MatchedPairs' = N /\ Edges' = E /\ cost' = cost /\ stage' = "peel"
        /\ remaining' = {e \in E : ~Touches(e, N)}
    BY <1>4, <2>1 DEF Peel, Edges, MatchedPairs
  <2>3. Edges' \ remaining' = N
    BY <2>2, NewIsOneToOne DEF Touches, OnlyOfPrev, OnlyOfCurr
  <2>4. IsFiniteSet(N) /\ Weighs(cost, N)
    BY <1>0, NewIsOneToOne, EdgesTyped, FS_Subset DEF Weighs
  <2> HIDE DEF N
  <2>5. Best(cost, N, N)
    <3> SUFFICES ASSUME NEW M \in SUBSET N
                 PROVE  \/ Cardinality(M) < Cardinality(N)
                        \/ Cardinality(M) = Cardinality(N) /\ SumOf(cost, N) <= SumOf(cost, M)
      BY DEF Best
    <3>1. /\ Cardinality(M) <= Cardinality(N) /\ (Cardinality(M) = Cardinality(N) => M = N)
          /\ Cardinality(M) \in Nat /\ Cardinality(N) \in Nat /\ SumOf(cost, N) \in Nat
      BY <2>4, FS_Subset, FS_CardinalityType, SumWithout
    <3> QED
      BY <3>1
  <2> QED
    BY <2>2, <2>3, <2>5 DEF Optimum
<1>5. CASE PeelEnds
  BY <1>5 DEF PeelEnds, Optimum, Edges, MatchedPairs
<1>6. CASE Assign
  <2>1. PICK g \in Components(remaining) :
          /\ \E M \in Optimal(g[1], g[2]) : assigned' = assigned \cup M
          /\ remaining' = {e \in remaining : e[1] \notin g[1]}
    BY <1>6 DEF Assign
  <2>2. PICK M \in Optimal(g[1], g[2]) : assigned' = assigned \cup M
    BY <2>1
  <2>3. stage = "assign" /\ stage' = stage /\ cost' = cost /\ forced' = forced
    BY <1>6 DEF Assign
  <2> DEFINE A == Edges \ remaining
             R == {e \in remaining : e[1] \in g[1]}
  <2>4. g \in Groups(remaining)
    BY DEF Components
  <2>5. Best(cost, R, M)
    BY <1>0, <2>4, OptimalIsBest
  <2>6. Best(cost, A, MatchedPairs)
    BY DEF Optimum
  <2>7. Edges' = Edges /\ remaining \subseteq Edges
    BY <1>0, <2>3 DEF Edges, MatchTypeOK
  <2>8. Edges' \ remaining' = A \cup R /\ A \cap R = {} /\ A \cup R \subseteq Edges
    BY <2>1, <2>7
  <2>9. MatchedPairs' = MatchedPairs \cup M
    BY <2>2, <2>3 DEF MatchedPairs
  <2>10. IsFiniteSet(A) /\ IsFiniteSet(R) /\ Weighs(cost, A \cup R)
    BY <1>0, <2>8, EdgesTyped, FS_Subset DEF Weighs
  <2> HIDE DEF A, R
  <2>11. Best(cost, A \cup R, MatchedPairs \cup M)
    BY <2>5, <2>6, <2>8, <2>10, BestOfParts
  <2> QED
    BY <2>3, <2>8, <2>9, <2>11 DEF Optimum
<1>7. CASE AssignEnds
  BY <1>7 DEF AssignEnds, Optimum, Edges, MatchedPairs
<1>8. CASE UNCHANGED matchVars
  BY <1>8 DEF matchVars, Optimum, Edges, MatchedPairs
<1> QED
  BY <1>1, <1>2, <1>3, <1>4, <1>5, <1>6, <1>7, <1>8 DEF MatchNext

(* _resolve_matches: forcing the pairs without rivals, and assigning each    *)
(* component by itself, adds up to a one-to-one matching of the whole graph  *)
(* that no other has more pairs than, or as many at a lower cost; as long as *)
(* the padding is dearer than what one matching can cost.                    *)
THEOREM MatchingIsOptimal ==
  ASSUME PaddingDearest
  PROVE  MatchSpec => []GlobalOptimum
<1>1. MatchingInv /\ Optimum /\ [MatchNext]_matchVars => Optimum'
  BY OptimumNext
<1>2. MatchingInv /\ Optimum => GlobalOptimum
  <2> SUFFICES ASSUME MatchingInv, Optimum, stage = "done" PROVE
        /\ OneToOne
        /\ \A M \in SUBSET Edges :
             OneToOneSet(M) =>
               \/ Cardinality(M) < Cardinality(MatchedPairs)
               \/ /\ Cardinality(M) = Cardinality(MatchedPairs)
                  /\ Cost(MatchedPairs) <= Cost(M)
    BY DEF GlobalOptimum
  <2>1. Best(cost, Edges, MatchedPairs)
    <3>1. Edges \ {} = Edges
      OBVIOUS
    <3> QED
      BY <3>1 DEF Optimum
  <2>2. OneToOne
    BY DEF MatchingInv, Decided
  <2> QED
    BY <2>1, <2>2, CostIsSum DEF Best
<1> QED
  BY <1>1, <1>2, OptimumInit, MatchingInvariant, PTL DEF MatchSpec
=============================================================================
