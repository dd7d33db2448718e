--------------------------- MODULE StoreSessionProofs ---------------------------
(***************************************************************************)
(* What StoreSession promises of the tables of a collection, for any       *)
(* number of processes, runs, modules and faults.                          *)
(***************************************************************************)
EXTENDS StoreSession, FiniteSetTheorems, TLAPS

-----------------------------------------------------------------------------
(* The tables of a module                                                  *)

(* A module writes at least one table, and each of them is a table.         *)
LEMMA ItsTables ==
  ASSUME NEW m \in Modules
  PROVE  /\ TableCount(m) \in Nat \ {0}
         /\ \A i \in 1 .. TableCount(m) : TablesOf[m][i] \in TablesIn(m)
         /\ TablesIn(m) \subseteq Tables
<1>1. TableCount(m) \in Nat \ {0}
  BY SessionConstants
<1>2. \A i \in 1 .. TableCount(m) : TablesOf[m][i] \in TablesIn(m)
  BY DEF TablesIn
<1>3. TablesIn(m) \subseteq Tables
  BY DEF Tables
<1> QED
  BY <1>1, <1>2, <1>3

(* Two modules that name one table name the same tables, the same one first. *)
LEMMA SharedAlike ==
  ASSUME NEW m \in Modules, NEW n \in Modules,
         NEW t \in TablesIn(m), t \in TablesIn(n)
  PROVE  TablesIn(m) = TablesIn(n) /\ TablesOf[m][1] = TablesOf[n][1]
<1>1. CASE m = n
  BY <1>1
<1>2. CASE m # n
  <2>1. PICK i \in 1 .. TableCount(m) : t = TablesOf[m][i]
    BY DEF TablesIn
  <2>2. PICK j \in 1 .. TableCount(n) : t = TablesOf[n][j]
    BY DEF TablesIn
  <2>3. ~(TableCount(m) > 1) /\ ~(TableCount(n) > 1)
    BY <1>2, <2>1, <2>2, SessionConstants
  <2>4. TableCount(m) = 1 /\ TableCount(n) = 1
    BY <2>3, SessionConstants
  <2>5. i = 1 /\ j = 1
    BY <2>4
  <2> QED
    BY <2>1, <2>2, <2>4, <2>5 DEF TablesIn
<1> QED
  BY <1>1, <1>2

(* No declaration is the absent one: somebody made it.                      *)
LEMMA DeclarationPresent == Absent \notin Declaration
  BY SessionConstants DEF Absent, Declaration

-----------------------------------------------------------------------------
(* Types                                                                   *)

Freezing(p) == proc[p].pc \in {"create", "declare", "mirror"}

RunRow == [status : {"none", "running", "completed", "cancelled"}, cfg : Configs \cup {"none"}]

(* A process that freezes has a module, columns and a place in its tables.  *)
Typed ==
  /\ prod \in Snapshots /\ cat \in Snapshots
  /\ written \in [Tables -> SUBSET [owner : Modules, cols : Columns]]
  /\ run \in [Runs -> RunRow]
  /\ proc \in [Procs -> Process]
  /\ \A p \in Procs : Freezing(p) =>
       /\ proc[p].owner \in Modules /\ proc[p].cols \in Columns
       /\ proc[p].k \in 1 .. TableCount(proc[p].owner)

LEMMA TypedInit == Init => Typed
<1> SUFFICES ASSUME Init PROVE Typed
  OBVIOUS
<1>1. NoTables \in Snapshots
  BY DEF NoTables, Snapshots
<1>2. run \in [Runs -> RunRow]
  BY DEF Init, NoRun, RunRow
<1>3. FALSE \in BOOLEAN
  OBVIOUS
<1>4. Idle \in Process
  BY <1>1, <1>3 DEF Idle, Process, Places, Work
<1>5. \A p \in Procs : proc[p] = Idle
  BY DEF Init
<1>6. \A p \in Procs : ~Freezing(p)
  BY <1>5 DEF Freezing, Idle
<1> QED
  BY <1>1, <1>2, <1>4, <1>6 DEF Init, Typed

(* One process changes, to another state of a process.                      *)
LEMMA Alone ==
  ASSUME Typed, NEW p \in Procs, NEW x \in Process, proc' = [proc EXCEPT ![p] = x]
  PROVE  /\ proc' \in [Procs -> Process]
         /\ proc'[p] = x
         /\ \A q \in Procs \ {p} : proc'[q] = proc[q]
BY DEF Typed

(* A process goes to another place with all it has.                         *)
LEMMA Goes ==
  ASSUME Typed, NEW p \in Procs, NEW pc \in Places, Goto(p, pc)
  PROVE  /\ proc' \in [Procs -> Process]
         /\ proc'[p].pc = pc /\ proc'[p].owner = proc[p].owner
         /\ proc'[p].cols = proc[p].cols /\ proc'[p].k = proc[p].k
         /\ \A q \in Procs \ {p} : proc'[q] = proc[q]
<1> DEFINE x == [proc[p] EXCEPT !.pc = pc]
<1>1. x \in Process
  BY DEF Typed, Process
<1>2. proc' = [proc EXCEPT ![p] = x]
  BY DEF Goto, Typed
<1>3. x.pc = pc /\ x.owner = proc[p].owner /\ x.cols = proc[p].cols /\ x.k = proc[p].k
  BY DEF Typed, Process
<1> HIDE DEF x
<1> QED
  BY <1>1, <1>2, <1>3, Alone

(* A freeze broken off leaves the process without a module in hand.         *)
LEMMA Drops ==
  ASSUME Typed, NEW p \in Procs, ScanFails(p)
  PROVE  /\ proc' \in [Procs -> Process]
         /\ proc'[p].pc = "idle"
         /\ \A q \in Procs \ {p} : proc'[q] = proc[q]
<1> DEFINE x == [proc[p] EXCEPT !.pc = "idle", !.owner = "none", !.cols = {}, !.k = 0]
<1>0. proc[p] \in Process
  BY DEF Typed
<1>1. x \in Process
  BY <1>0 DEF Process, Places, Work
<1>2. proc' = [proc EXCEPT ![p] = x]
  BY DEF ScanFails, Typed
<1>3. x.pc = "idle"
  BY DEF Typed, Process
<1> HIDE DEF x
<1> QED
  BY <1>1, <1>2, <1>3, Alone

(* A process takes its next step of a freeze.                               *)
LEMMA Proceeds ==
  ASSUME Typed, NEW p \in Procs, NEW pc \in {"create", "declare", "mirror"},
         NEW owner \in Modules, NEW cols \in Columns, NEW k \in 1 .. TableCount(owner),
         proc' = [proc EXCEPT ![p] = [proc[p] EXCEPT !.pc = pc, !.owner = owner,
                                                     !.cols = cols, !.k = k]]
  PROVE  /\ proc' \in [Procs -> Process]
         /\ proc'[p].pc = pc /\ proc'[p].owner = owner
         /\ proc'[p].cols = cols /\ proc'[p].k = k
         /\ \A q \in Procs \ {p} : proc'[q] = proc[q]
<1> DEFINE x == [proc[p] EXCEPT !.pc = pc, !.owner = owner, !.cols = cols, !.k = k]
<1>0. k \in Nat
  BY ItsTables
<1>2. proc[p] \in Process
  BY DEF Typed
<1>1. x \in Process
  BY <1>0, <1>2 DEF Process, Places, Work
<1>3. x.pc = pc /\ x.owner = owner /\ x.cols = cols /\ x.k = k
  BY DEF Typed, Process
<1>4. proc' = [proc EXCEPT ![p] = x]
  OBVIOUS
<1> HIDE DEF x
<1> QED
  BY <1>1, <1>3, <1>4, Alone

-----------------------------------------------------------------------------
(* The steps, seen from the tables                                         *)

(* Tables or declarations of a freeze of p are there, and it is not done.   *)
Begun(p) ==
  \/ proc[p].pc \in {"declare", "mirror"}
  \/ proc[p].pc = "create" /\ proc[p].k > 1

(* Process p does anything but a step of a freeze.                          *)
Elsewhere(p) ==
  /\ tables' = tables /\ prod' = prod /\ cat' = cat
  /\ proc' \in [Procs -> Process]
  /\ \A q \in Procs \ {p} : proc'[q] = proc[q]
  /\ proc'[p].pc \notin {"create", "declare", "mirror"}
  /\ ~cut' => ~cut /\ ~Begun(p) /\ (proc[p].pc = "script" => script' = "ready")
  /\ script' = "partial" => script = "partial" \/ proc'[p].pc = "script"

Other(p) ==
  \/ Start(p) \/ Open(p) \/ Begin(p) \/ Record(p) \/ Dies(p) \/ StepRaises(p)
  \/ \E m \in Modules, cols \in Columns : WriteFrozen(p, m, cols)

LEMMA OtherElsewhere ==
  ASSUME Typed, NEW p \in Procs, Other(p)
  PROVE  Elsewhere(p)
<1> USE DEF collectionVars, registryVars, openVars, runHistory
<1>0. TRUE \in BOOLEAN /\ FALSE \in BOOLEAN
  OBVIOUS
<1>1. NoTables \in Snapshots
  BY DEF NoTables, Snapshots
<1>2. ASSUME NEW r \in Runs, NEW c \in Configs, NEW named \in BOOLEAN, Launch(p, r, c, named)
      PROVE  Elsewhere(p)
  <2>1. (IF named THEN Reload(r, c) ELSE c) \in Configs \cup {"none"}
    BY DEF Reload, Typed, RunRow
  <2>2. PICK g \in Configs \cup {"none"} :
          proc' = [proc EXCEPT ![p] = [Idle EXCEPT !.pc = "read", !.kind = "pipeline",
                                                   !.run = r, !.cfg = g]]
    BY <1>2, <2>1 DEF Launch
  <2> DEFINE x == [Idle EXCEPT !.pc = "read", !.kind = "pipeline", !.run = r, !.cfg = g]
  <2>3. x \in Process /\ x.pc = "read"
    BY <1>0, <1>1 DEF Idle, Process, Places, Work
  <2>4. proc' = [proc EXCEPT ![p] = x]
    BY <2>2
  <2> HIDE DEF x
  <2>5. proc' \in [Procs -> Process] /\ proc'[p].pc = "read"
        /\ \A q \in Procs \ {p} : proc'[q] = proc[q]
    BY <2>3, <2>4, Alone
  <2> QED
    BY <1>2, <2>5 DEF Launch, Elsewhere, Begun
<1>3. ASSUME NEW r \in Runs, Postprocess(p, r) PROVE Elsewhere(p)
  <2> DEFINE x == [Idle EXCEPT !.pc = "read", !.kind = "post", !.run = r, !.cfg = run[r].cfg]
  <2>1. run[r].cfg \in Configs \cup {"none"}
    BY DEF Typed, RunRow
  <2>3. x \in Process /\ x.pc = "read"
    BY <1>0, <1>1, <2>1 DEF Idle, Process, Places, Work
  <2>4. proc' = [proc EXCEPT ![p] = x]
    BY <1>3 DEF Postprocess
  <2> HIDE DEF x
  <2>5. proc' \in [Procs -> Process] /\ proc'[p].pc = "read"
        /\ \A q \in Procs \ {p} : proc'[q] = proc[q]
    BY <2>3, <2>4, Alone
  <2> QED
    BY <1>3, <2>5 DEF Postprocess, Elsewhere, Begun
<1>4. ASSUME ReadCatalog(p) PROVE Elsewhere(p)
  <2>1. CASE Goto(p, "gone")
    BY <1>4, <2>1, Goes DEF ReadCatalog, Elsewhere, Begun, Places, Work
  <2>2. CASE proc' = [proc EXCEPT ![p].pc = "compare", ![p].seen = cat]
    <3> DEFINE x == [proc[p] EXCEPT !.pc = "compare", !.seen = cat]
    <3>0. proc[p] \in Process /\ cat \in Snapshots
      BY DEF Typed
    <3>1. x \in Process /\ x.pc = "compare"
      BY <3>0 DEF Process, Places, Work
    <3>2. proc' = [proc EXCEPT ![p] = x]
      BY <2>2 DEF Typed
    <3> HIDE DEF x
    <3>3. proc' \in [Procs -> Process] /\ proc'[p].pc = "compare"
          /\ \A q \in Procs \ {p} : proc'[q] = proc[q]
      BY <3>1, <3>2, Alone
    <3> QED
      BY <1>4, <3>3 DEF ReadCatalog, Elsewhere, Begun
  <2> QED
    BY <1>4, <2>1, <2>2 DEF ReadCatalog
<1>5. ASSUME Compare(p) PROVE Elsewhere(p)
  <2>1. CASE Goto(p, "gone")
    BY <1>5, <2>1, Goes DEF Compare, Elsewhere, Begun, Places, Work
  <2>2. CASE proc' = [proc EXCEPT ![p].pc = "catalog", ![p].seen = NoTables]
    <3> DEFINE x == [proc[p] EXCEPT !.pc = "catalog", !.seen = NoTables]
    <3>0. proc[p] \in Process
      BY DEF Typed
    <3>1. x \in Process /\ x.pc = "catalog"
      BY <1>1, <3>0 DEF Process, Places, Work
    <3>2. proc' = [proc EXCEPT ![p] = x]
      BY <2>2 DEF Typed
    <3> HIDE DEF x
    <3>3. proc' \in [Procs -> Process] /\ proc'[p].pc = "catalog"
          /\ \A q \in Procs \ {p} : proc'[q] = proc[q]
      BY <3>1, <3>2, Alone
    <3> QED
      BY <1>5, <3>3 DEF Compare, Elsewhere, Begun
  <2> QED
    BY <1>5, <2>1, <2>2 DEF Compare
<1>6. ASSUME CreateCatalog(p) \/ RunScript(p) PROVE Elsewhere(p)
  <2>1. PICK pc \in {"lookup", "idle", "script"} :
          /\ Goto(p, pc)
          /\ script' = "partial" => script = "partial" \/ pc = "script"
    BY <1>6 DEF CreateCatalog, RunScript, Opened
  <2> QED
    BY <1>6, <2>1, Goes DEF CreateCatalog, RunScript, Elsewhere, Begun, Places, Work
<1>8. ASSUME Lookup(p) PROVE Elsewhere(p)
  <2>1. Exists(proc[p].run) \in BOOLEAN
    BY Zenon DEF Exists
  <2>2. PICK b \in BOOLEAN : proc' = [proc EXCEPT ![p].pc = "begin", ![p].found = b]
    BY <1>8, <2>1 DEF Lookup
  <2> DEFINE x == [proc[p] EXCEPT !.pc = "begin", !.found = b]
  <2>0. proc[p] \in Process
    BY DEF Typed
  <2>3. x \in Process /\ x.pc = "begin"
    BY <2>0 DEF Process, Places, Work
  <2>4. proc' = [proc EXCEPT ![p] = x]
    BY <2>2 DEF Typed
  <2> HIDE DEF x
  <2>5. proc' \in [Procs -> Process] /\ proc'[p].pc = "begin"
        /\ \A q \in Procs \ {p} : proc'[q] = proc[q]
    BY <2>3, <2>4, Alone
  <2> QED
    BY <1>8, <2>5 DEF Lookup, Elsewhere, Begun
<1>9. ASSUME ResumeRun(p) \/ BeginRun(p) PROVE Elsewhere(p)
  <2>1. PICK pc \in {"idle", "gone"} : Goto(p, pc)
    BY <1>9 DEF ResumeRun, BeginRun
  <2> QED
    BY <1>9, <2>1, Goes DEF ResumeRun, BeginRun, Elsewhere, Begun, Places, Work
<1>11. ASSUME NEW m \in Modules, NEW cols \in Columns, WriteFrozen(p, m, cols)
       PROVE  Elsewhere(p)
  BY <1>11 DEF WriteFrozen, Typed, Elsewhere, Begun
<1>16. ASSUME NEW error \in BOOLEAN, RecordModules(p, error) PROVE Elsewhere(p)
  BY <1>16 DEF RecordModules, Typed, Elsewhere, Begun
<1>17. ASSUME NEW status \in {"completed", "cancelled"}, Finalize(p, status)
       PROVE  Elsewhere(p)
  BY <1>17, Goes DEF Finalize, Elsewhere, Begun, Places, Work
<1>18. ASSUME FlushRaises(p) \/ PostDone(p) PROVE Elsewhere(p)
  BY <1>18, Goes DEF FlushRaises, PostDone, Elsewhere, Begun, Places, Work
<1>19. ASSUME Dies(p) \/ StepRaises(p) PROVE Elsewhere(p)
  <2>1. ~cut' => ~cut /\ ~InBetween(p)
    BY <1>19, Zenon DEF Dies, StepRaises
  <2>2. ~cut' => ~cut /\ ~Begun(p) /\ proc[p].pc # "script"
    BY <2>1 DEF InBetween, Begun
  <2>3. /\ proc' \in [Procs -> Process]
        /\ proc'[p].pc \in {"gone", "idle"}
        /\ \A q \in Procs \ {p} : proc'[q] = proc[q]
    BY <1>19, Goes, Drops DEF Dies, StepRaises, Places, Work
  <2> QED
    BY <1>19, <2>2, <2>3 DEF Dies, StepRaises, Elsewhere
<1> QED
  BY <1>2, <1>3, <1>4, <1>5, <1>6, <1>8, <1>9, <1>11, <1>16, <1>17, <1>18, <1>19
     DEF Other, Start, Open, Begin, Record

LEMMA NextIs ==
  ASSUME Next
  PROVE  \E p \in Procs :
           \/ Other(p) \/ CreateTable(p) \/ Declare(p) \/ Mirror(p)
           \/ \E m \in Modules, cols \in Columns : FirstFrame(p, m, cols)
BY DEF Next, Other, Write

(* The steps of a freeze, and where they leave the process.                 *)
LEMMA FirstFrameLeads ==
  ASSUME Typed, NEW p \in Procs, NEW m \in Modules, NEW cols \in Columns,
         FirstFrame(p, m, cols)
  PROVE  /\ proc' \in [Procs -> Process]
         /\ proc'[p].pc = "create" /\ proc'[p].owner = m
         /\ proc'[p].cols = cols /\ proc'[p].k = 1
         /\ \A q \in Procs \ {p} : proc'[q] = proc[q]
<1>1. 1 \in 1 .. TableCount(m)
  BY ItsTables
<1>2. proc' = [proc EXCEPT ![p] = [proc[p] EXCEPT !.pc = "create", !.owner = m,
                                                  !.cols = cols, !.k = 1]]
  BY DEF FirstFrame, Typed
<1> QED
  BY <1>1, <1>2, Proceeds

LEMMA CreateTableLeads ==
  ASSUME Typed, NEW p \in Procs, CreateTable(p), At(p) \notin tables
  PROVE  /\ proc' \in [Procs -> Process]
         /\ IF IsLast(p) THEN proc'[p].pc = "declare" /\ proc'[p].k = 1
                         ELSE proc'[p].pc = "create" /\ proc'[p].k = proc[p].k + 1
         /\ proc'[p].owner = proc[p].owner /\ proc'[p].cols = proc[p].cols
         /\ proc'[p].k \in 1 .. TableCount(proc[p].owner)
         /\ \A q \in Procs \ {p} : proc'[q] = proc[q]
<1> DEFINE m == proc[p].owner
           cols == proc[p].cols
<1>1. m \in Modules /\ cols \in Columns /\ proc[p].k \in 1 .. TableCount(m)
  BY DEF CreateTable, Typed, Freezing
<1>2. CASE IsLast(p)
  <2>1. 1 \in 1 .. TableCount(m)
    BY <1>1, ItsTables
  <2>2. proc' = [proc EXCEPT ![p] = [proc[p] EXCEPT !.pc = "declare", !.owner = m,
                                                    !.cols = cols, !.k = 1]]
    BY <1>2 DEF CreateTable, Typed, Process
  <2> HIDE DEF m, cols
  <2>3. /\ proc' \in [Procs -> Process]
        /\ proc'[p].pc = "declare" /\ proc'[p].owner = m
        /\ proc'[p].cols = cols /\ proc'[p].k = 1
        /\ \A q \in Procs \ {p} : proc'[q] = proc[q]
    BY <1>1, <2>1, <2>2, Proceeds
  <2> QED
    BY <1>2, <2>1, <2>3 DEF m, cols
<1>3. CASE ~IsLast(p)
  <2> DEFINE k == proc[p].k + 1
  <2>1. k \in 1 .. TableCount(m)
    BY <1>1, <1>3, ItsTables DEF IsLast
  <2>2. proc' = [proc EXCEPT ![p] = [proc[p] EXCEPT !.pc = "create", !.owner = m,
                                                    !.cols = cols, !.k = k]]
    BY <1>3 DEF CreateTable, Typed, Process
  <2> HIDE DEF m, cols, k
  <2>3. /\ proc' \in [Procs -> Process]
        /\ proc'[p].pc = "create" /\ proc'[p].owner = m
        /\ proc'[p].cols = cols /\ proc'[p].k = k
        /\ \A q \in Procs \ {p} : proc'[q] = proc[q]
    BY <1>1, <2>1, <2>2, Proceeds
  <2> QED
    BY <1>3, <2>1, <2>3 DEF m, cols, k
<1> QED
  BY <1>2, <1>3

LEMMA DeclareLeads ==
  ASSUME Typed, NEW p \in Procs, Declare(p), ~Declared(prod, At(p))
  PROVE  /\ proc' \in [Procs -> Process]
         /\ proc'[p].pc = "mirror" /\ proc'[p].owner = proc[p].owner
         /\ proc'[p].cols = proc[p].cols /\ proc'[p].k = proc[p].k
         /\ \A q \in Procs \ {p} : proc'[q] = proc[q]
BY Goes DEF Declare, Places, Work

LEMMA MirrorLeads ==
  ASSUME Typed, NEW p \in Procs, Mirror(p), ~IsLast(p)
  PROVE  /\ proc' \in [Procs -> Process]
         /\ proc'[p].pc = "declare" /\ proc'[p].owner = proc[p].owner
         /\ proc'[p].cols = proc[p].cols /\ proc'[p].k = proc[p].k + 1
         /\ proc'[p].k \in 1 .. TableCount(proc[p].owner)
         /\ \A q \in Procs \ {p} : proc'[q] = proc[q]
<1> DEFINE m == proc[p].owner
           cols == proc[p].cols
           k == proc[p].k + 1
<1>1. m \in Modules /\ cols \in Columns /\ proc[p].k \in 1 .. TableCount(m)
  BY DEF Mirror, Typed, Freezing
<1>2. k \in 1 .. TableCount(m)
  BY <1>1, ItsTables DEF IsLast
<1>3. proc' = [proc EXCEPT ![p] = [proc[p] EXCEPT !.pc = "declare", !.owner = m,
                                                  !.cols = cols, !.k = k]]
  BY DEF Mirror, WasLast, Typed, Process
<1> HIDE DEF m, cols, k
<1>4. /\ proc' \in [Procs -> Process]
      /\ proc'[p].pc = "declare" /\ proc'[p].owner = m
      /\ proc'[p].cols = cols /\ proc'[p].k = k
      /\ \A q \in Procs \ {p} : proc'[q] = proc[q]
  BY <1>1, <1>2, <1>3, Proceeds
<1> QED
  BY <1>2, <1>4 DEF m, cols, k

(* What a frame adds to a table is typed.                                   *)
LEMMA UpsertTyped ==
  ASSUME Typed, NEW m \in Modules, NEW cols \in Columns, Upsert(m, cols)
  PROVE  written' \in [Tables -> SUBSET [owner : Modules, cols : Columns]]
<1> DEFINE row == [owner |-> m, cols |-> cols]
           Rows == [owner : Modules, cols : Columns]
<1>1. row \in Rows
  OBVIOUS
<1>2. written' = [written EXCEPT ![TablesOf[m][1]] = @ \cup {row}]
  BY DEF Upsert
<1>3. written \in [Tables -> SUBSET Rows]
  BY DEF Typed
<1> HIDE DEF row, Rows
<1>4. written' \in [Tables -> SUBSET Rows]
  BY <1>1, <1>2, <1>3
<1> QED
  BY <1>4 DEF Rows

LEMMA TypedNext == Typed /\ [Next]_vars => Typed'
<1> SUFFICES ASSUME Typed, Next PROVE Typed'
  BY DEF Typed, vars, collectionVars, registryVars, openVars, runHistory, Freezing
<1> PICK p \in Procs :
           \/ Other(p) \/ CreateTable(p) \/ Declare(p) \/ Mirror(p)
           \/ \E m \in Modules, cols \in Columns : FirstFrame(p, m, cols)
  BY NextIs
<1> USE DEF collectionVars, registryVars, openVars, runHistory
<1>1. CASE Other(p)
  <2>1. Elsewhere(p)
    BY <1>1, OtherElsewhere
  <2>2. run' \in [Runs -> RunRow]
    <3>1. CASE UNCHANGED run
      BY <3>1 DEF Typed
    <3>2. CASE ResumeRun(p)
      BY <3>2 DEF ResumeRun, Typed, RunRow
    <3>3. CASE BeginRun(p)
      <4>1. proc[p].cfg \in Configs \cup {"none"}
        BY DEF Typed, Process
      <4> QED
        BY <3>3, <4>1 DEF BeginRun, Typed, RunRow
    <3>4. ASSUME NEW status \in {"completed", "cancelled"}, Finalize(p, status)
          PROVE  run' \in [Runs -> RunRow]
      BY <3>4 DEF Finalize, Typed, RunRow
    <3> QED
      BY <1>1, <3>1, <3>2, <3>3, <3>4
         DEF Other, Start, Launch, Postprocess, Open, ReadCatalog, Compare, CreateCatalog,
             RunScript, Begin, Lookup, Record, RecordModules, FlushRaises, PostDone, Dies,
             StepRaises, WriteFrozen
  <2>3. written' \in [Tables -> SUBSET [owner : Modules, cols : Columns]]
    <3>1. CASE UNCHANGED written
      BY <3>1 DEF Typed
    <3>2. ASSUME NEW m \in Modules, NEW cols \in Columns, WriteFrozen(p, m, cols)
          PROVE  written' \in [Tables -> SUBSET [owner : Modules, cols : Columns]]
      BY <3>2, UpsertTyped DEF WriteFrozen
    <3> QED
      BY <1>1, <3>1, <3>2
         DEF Other, Start, Launch, Postprocess, Open, ReadCatalog, Compare, CreateCatalog,
             RunScript, Begin, ResumeRun, BeginRun, Lookup, Record, RecordModules, Finalize,
             FlushRaises, PostDone, Dies, StepRaises
  <2> QED
    BY <2>1, <2>2, <2>3 DEF Elsewhere, Typed, Freezing
<1>2. ASSUME NEW m \in Modules, NEW cols \in Columns, FirstFrame(p, m, cols) PROVE Typed'
  <2>1. 1 \in 1 .. TableCount(m)
    BY ItsTables
  <2>2. /\ proc' \in [Procs -> Process]
        /\ proc'[p].owner = m /\ proc'[p].cols = cols /\ proc'[p].k = 1
        /\ \A q \in Procs \ {p} : proc'[q] = proc[q]
    BY <1>2, FirstFrameLeads
  <2>3. UNCHANGED <<prod, cat, written, run>>
    BY <1>2 DEF FirstFrame
  <2> QED
    BY <2>1, <2>2, <2>3 DEF Typed, Freezing
<1>3. CASE CreateTable(p)
  <2>1. CASE At(p) \in tables
    BY <1>3, <2>1, Drops DEF CreateTable, Typed, Freezing
  <2>2. CASE At(p) \notin tables
    BY <1>3, <2>2, CreateTableLeads DEF CreateTable, Typed, Freezing
  <2> QED
    BY <2>1, <2>2
<1>4. ASSUME Declare(p) \/ Mirror(p)
      PROVE  /\ proc[p].owner \in Modules /\ proc[p].cols \in Columns
             /\ proc[p].k \in 1 .. TableCount(proc[p].owner)
             /\ Snapshot(p) \in Declaration
  BY <1>4 DEF Declare, Mirror, Typed, Freezing, Snapshot, Declaration
<1>5. CASE Declare(p)
  <2>1. prod' \in Snapshots
    BY <1>4, <1>5 DEF Declare, Typed, Snapshots
  <2>2. CASE Declared(prod, At(p))
    BY <1>5, <2>1, <2>2, Drops DEF Declare, Typed, Freezing
  <2>3. CASE ~Declared(prod, At(p))
    BY <1>4, <1>5, <2>1, <2>3, DeclareLeads DEF Declare, Typed, Freezing
  <2> QED
    BY <2>2, <2>3
<1>6. CASE Mirror(p)
  <2>1. cat' \in Snapshots
    BY <1>4, <1>6 DEF Mirror, Mirrored, Typed, Snapshots
  <2>2. CASE IsLast(p)
    <3>1. ScanFails(p) /\ Upsert(proc[p].owner, proc[p].cols) /\ UNCHANGED <<prod, run>>
      BY <1>6, <2>2 DEF Mirror, WasLast
    <3>2. written' \in [Tables -> SUBSET [owner : Modules, cols : Columns]]
      BY <1>4, <1>6, <3>1, UpsertTyped
    <3> QED
      BY <2>1, <3>1, <3>2, Drops DEF Typed, Freezing
  <2>3. CASE ~IsLast(p)
    BY <1>4, <1>6, <2>1, <2>3, MirrorLeads DEF Mirror, WasLast, Typed, Freezing
  <2> QED
    BY <2>2, <2>3
<1> QED
  BY <1>1, <1>2, <1>3, <1>5, <1>6

-----------------------------------------------------------------------------
(* A freeze without cuts                                                   *)

(* What a table may be between and during the freezes.                      *)
Missing(t) == t \notin tables /\ prod[t] = Absent /\ cat[t] = Absent
Made(t)    == t \in tables /\ prod[t] = Absent /\ cat[t] = Absent
Half(p, t) == t \in tables /\ prod[t] = Snapshot(p) /\ cat[t] = Absent
Done(t)    == t \in tables /\ prod[t] # Absent /\ prod[t] = cat[t]

Table(p, i) == TablesOf[proc[p].owner][i]
Its(p)      == TablesIn(proc[p].owner)
Slots(p)    == 1 .. TableCount(proc[p].owner)

(* How far the tables are, for each place a freezing process may be in.     *)
Progress(p) ==
  \A i \in Slots(p) :
    /\ proc[p].pc = "create"  => IF i < proc[p].k THEN Made(Table(p, i))
                                                 ELSE Missing(Table(p, i))
    /\ proc[p].pc = "declare" => IF i < proc[p].k THEN Done(Table(p, i))
                                                 ELSE Made(Table(p, i))
    /\ proc[p].pc = "mirror"  => /\ i < proc[p].k => Done(Table(p, i))
                                 /\ i = proc[p].k => Half(p, Table(p, i))
                                 /\ i > proc[p].k => Made(Table(p, i))

(* Nobody is in the middle of the tables of m.                              *)
Whole(m) ==
  \/ \A t \in TablesIn(m) : Done(t)
  \/ \A t \in TablesIn(m) : Missing(t)

(* A freeze is one process's, and tables that are not whole are in one.     *)
Orderly ==
  /\ \A p \in Procs : Begun(p) => Progress(p)
  /\ \A p, q \in Procs : Begun(p) /\ Begun(q) /\ p # q => Its(p) # Its(q)
  /\ \A m \in Modules : Whole(m) \/ \E p \in Procs : Begun(p) /\ Its(p) = TablesIn(m)

(* A step that leaves the tables and the freezes in progress as they are.   *)
LEMMA OrderlyKept ==
  ASSUME Orderly, tables' = tables, prod' = prod, cat' = cat,
         \A q \in Procs : Begun(q)' <=> Begun(q),
         \A q \in Procs : Begun(q) => proc'[q] = proc[q]
  PROVE  Orderly'
<1>1. ASSUME NEW q \in Procs, Begun(q) PROVE Progress(q)' /\ Its(q)' = Its(q)
  <2>1. proc'[q] = proc[q] /\ Progress(q)
    BY <1>1 DEF Orderly
  <2>2. Slots(q)' = Slots(q) /\ Its(q)' = Its(q)
    BY <2>1 DEF Slots, Its
  <2>3. \A i \in Slots(q) :
          LET t == Table(q, i) IN
          /\ Table(q, i)' = t
          /\ Made(t)' = Made(t) /\ Missing(t)' = Missing(t) /\ Done(t)' = Done(t)
          /\ Half(q, t)' = Half(q, t)
    BY <2>1 DEF Table, Made, Missing, Done, Half, Snapshot
  <2> QED
    BY <2>1, <2>2, <2>3 DEF Progress
<1>2. \A m \in Modules : Whole(m)' <=> Whole(m)
  BY DEF Whole, Done, Missing
<1> QED
  BY <1>1, <1>2 DEF Orderly

(* A step of one freeze touches no table outside it.                        *)
LEMMA OrderlyAdvances ==
  ASSUME Typed, Orderly, NEW p \in Procs, NEW m \in Modules,
         \A t \in Tables \ TablesIn(m) :
           (t \in tables' <=> t \in tables) /\ prod'[t] = prod[t] /\ cat'[t] = cat[t],
         \A q \in Procs \ {p} : proc'[q] = proc[q],
         \A q \in Procs \ {p} : Begun(q) => Its(q) # TablesIn(m),
         Begun(p) => Its(p) = TablesIn(m),
         \/ Begun(p)' /\ Its(p)' = TablesIn(m) /\ Progress(p)'
         \/ ~Begun(p)' /\ Whole(m)'
  PROVE  Orderly'
<1>1. \A n \in Modules : TablesIn(n) # TablesIn(m) =>
         \A t \in TablesIn(n) : t \in Tables \ TablesIn(m)
  BY SharedAlike, ItsTables
<1>2. ASSUME NEW q \in Procs \ {p} PROVE (Begun(q)' <=> Begun(q)) /\ Its(q)' = Its(q)
  BY DEF Begun, Its
<1>3. ASSUME NEW q \in Procs \ {p}, Begun(q) PROVE Progress(q)'
  <2>1. proc[q].owner \in Modules
    BY <1>3 DEF Typed, Freezing, Begun
  <2>2. \A i \in Slots(q) : Table(q, i) \in Tables \ TablesIn(m)
    BY <1>1, <1>3, <2>1, ItsTables DEF Its, Slots, Table
  <2>3. Progress(q)
    BY <1>3 DEF Orderly
  <2>4. \A i \in Slots(q) : /\ Made(Table(q, i)) => Made(Table(q, i))'
                            /\ Missing(Table(q, i)) => Missing(Table(q, i))'
                            /\ Done(Table(q, i)) => Done(Table(q, i))'
                            /\ Half(q, Table(q, i)) => Half(q, Table(q, i))'
    BY <2>2 DEF Made, Missing, Done, Half, Snapshot, Table
  <2>5. Slots(q)' = Slots(q)
    BY DEF Slots
  <2> QED
    BY <2>3, <2>4, <2>5 DEF Progress
<1>4. \A r \in Procs : Begun(r)' => Progress(r)'
  BY <1>2, <1>3
<1>5. ASSUME NEW a \in Procs, NEW b \in Procs, Begun(a)', Begun(b)', a # b
      PROVE  Its(a)' # Its(b)'
  BY <1>2, <1>5 DEF Orderly
<1>6. ASSUME NEW n \in Modules
      PROVE  Whole(n)' \/ \E q \in Procs : Begun(q)' /\ Its(q)' = TablesIn(n)
  <2>1. CASE TablesIn(n) = TablesIn(m)
    <3>1. Whole(m)' => Whole(n)'
      BY <2>1 DEF Whole
    <3> QED
      BY <2>1, <3>1
  <2>2. CASE TablesIn(n) # TablesIn(m)
    <3>1. Whole(n) => Whole(n)'
      BY <1>1, <2>2 DEF Whole, Done, Missing
    <3>2. ASSUME NEW q \in Procs, Begun(q), Its(q) = TablesIn(n)
          PROVE  Begun(q)' /\ Its(q)' = TablesIn(n)
      BY <1>2, <2>2, <3>2
    <3> QED
      BY <3>1, <3>2 DEF Orderly
  <2> QED
    BY <2>1, <2>2
<1> QED
  BY <1>4, <1>5, <1>6 DEF Orderly

(* The first table of a freeze in progress is there.                        *)
LEMMA FirstTableThere ==
  ASSUME Typed, Orderly, NEW q \in Procs, Begun(q)
  PROVE  Table(q, 1) \in tables
<1>1. proc[q].owner \in Modules /\ proc[q].k \in Slots(q)
  BY DEF Typed, Freezing, Begun, Slots
<1>2. 1 \in Slots(q) /\ proc[q].k \in Nat /\ 1 <= proc[q].k
  BY <1>1, ItsTables DEF Slots
<1>3. Progress(q)
  BY DEF Orderly
<1>4. CASE proc[q].pc = "create"
  <2>1. 1 < proc[q].k
    BY <1>2, <1>4 DEF Begun
  <2> QED
    BY <1>2, <1>3, <1>4, <2>1 DEF Progress, Made
<1>5. CASE proc[q].pc = "declare"
  BY <1>2, <1>3, <1>5 DEF Progress, Made, Done
<1>6. CASE proc[q].pc = "mirror"
  <2>1. CASE 1 < proc[q].k
    BY <1>2, <1>3, <1>6, <2>1 DEF Progress, Done
  <2>2. CASE 1 = proc[q].k
    BY <1>2, <1>3, <1>6, <2>2 DEF Progress, Half
  <2> QED
    BY <1>2, <2>1, <2>2
<1> QED
  BY <1>4, <1>5, <1>6 DEF Begun

(* Whoever creates a table that is missing is alone with the tables it has  *)
(* made, and the rest are missing too.                                      *)
LEMMA CreatesAlone ==
  ASSUME Typed, Orderly, NEW p \in Procs, CreateTable(p), At(p) \notin tables
  PROVE  /\ \A i \in Slots(p) : IF i < proc[p].k THEN Made(Table(p, i))
                                                 ELSE Missing(Table(p, i))
         /\ \A q \in Procs \ {p} : Begun(q) => Its(q) # Its(p)
<1>1. proc[p].pc = "create" /\ proc[p].owner \in Modules /\ proc[p].k \in Slots(p)
  BY DEF CreateTable, Typed, Freezing, Slots
<1>2. proc[p].k \in Nat /\ 1 <= proc[p].k
  BY <1>1, ItsTables DEF Slots
<1>3. CASE proc[p].k > 1
  BY <1>1, <1>3 DEF Orderly, Begun, Progress
<1>4. CASE proc[p].k = 1
  <2>1. ~Begun(p) /\ At(p) = Table(p, 1) /\ At(p) \in Its(p)
    BY <1>1, <1>4, ItsTables DEF Begun, At, Table, Its, Slots
  <2>2. ASSUME NEW q \in Procs, Begun(q), Its(q) = Its(p) PROVE FALSE
    <3>1. proc[q].owner \in Modules
      BY <2>2 DEF Typed, Freezing, Begun
    <3>2. TablesOf[proc[q].owner][1] = TablesOf[proc[p].owner][1]
      BY <1>1, <2>1, <2>2, <3>1, SharedAlike DEF Its
    <3>3. Table(q, 1) = At(p)
      BY <2>1, <3>2 DEF Table
    <3> QED
      BY <2>2, <3>3, FirstTableThere
  <2>3. Whole(proc[p].owner)
    BY <1>1, <2>2 DEF Orderly, Its
  <2>4. \A t \in Its(p) : Missing(t)
    BY <2>1, <2>3 DEF Whole, Its, Done
  <2>5. \A i \in Slots(p) : ~(i < proc[p].k) /\ Missing(Table(p, i))
    BY <1>1, <1>4, <2>4, ItsTables DEF Its, Table, Slots
  <2> QED
    BY <2>2, <2>5
<1> QED
  BY <1>2, <1>3, <1>4

(* A step of a freeze changes At(p) and no other table of p.                *)
LEMMA OthersOfIts ==
  ASSUME Typed, NEW p \in Procs, Freezing(p)
  PROVE  /\ proc[p].owner \in Modules /\ proc[p].k \in Slots(p)
         /\ Slots(p) \subseteq Nat \ {0}
         /\ At(p) = Table(p, proc[p].k) /\ At(p) \in Its(p) /\ Its(p) \subseteq Tables
         /\ \A i \in Slots(p) : Table(p, i) \in Its(p)
         /\ \A i \in Slots(p) : i # proc[p].k => Table(p, i) # At(p)
         /\ \A t \in Its(p) : \E i \in Slots(p) : t = Table(p, i)
<1>1. proc[p].owner \in Modules /\ proc[p].k \in Slots(p)
  BY DEF Typed, Freezing, Slots
<1>2. /\ Slots(p) \subseteq Nat \ {0}
      /\ At(p) = Table(p, proc[p].k) /\ At(p) \in Its(p) /\ Its(p) \subseteq Tables
      /\ \A i \in Slots(p) : Table(p, i) \in Its(p)
  BY <1>1, ItsTables DEF Slots, At, Table, Its
<1>3. \A i \in Slots(p) : i # proc[p].k => Table(p, i) # At(p)
  BY <1>1, SessionConstants DEF Slots, At, Table
<1>4. \A t \in Its(p) : \E i \in Slots(p) : t = Table(p, i)
  BY DEF Its, Table, TablesIn, Slots
<1> QED
  BY <1>1, <1>2, <1>3, <1>4

LEMMA CreateTableOrderly ==
  ASSUME Typed, Orderly, NEW p \in Procs, CreateTable(p)
  PROVE  Orderly'
<1> DEFINE m == proc[p].owner
<1>1. Freezing(p) /\ proc[p].pc = "create" /\ prod' = prod /\ cat' = cat
  BY DEF CreateTable, Freezing
<1>2. CASE At(p) \in tables
  <2>1. ~Begun(p)
    BY <1>1, <1>2, OthersOfIts DEF Orderly, Begun, Progress, Missing
  <2>2. ScanFails(p) /\ tables' = tables
    BY <1>2 DEF CreateTable
  <2>3. proc'[p].pc = "idle" /\ \A q \in Procs \ {p} : proc'[q] = proc[q]
    BY <2>2, Drops
  <2>4. \A q \in Procs : Begun(q)' <=> Begun(q)
    BY <2>1, <2>3 DEF Begun
  <2>5. \A q \in Procs : Begun(q) => proc'[q] = proc[q]
    BY <2>1, <2>3
  <2> QED
    BY <1>1, <2>2, <2>4, <2>5, OrderlyKept
<1>3. CASE At(p) \notin tables
  <2>1. tables' = tables \cup {At(p)}
    BY <1>3 DEF CreateTable
  <2>2. /\ IF IsLast(p) THEN proc'[p].pc = "declare" /\ proc'[p].k = 1
                        ELSE proc'[p].pc = "create" /\ proc'[p].k = proc[p].k + 1
        /\ proc'[p].owner = m
        /\ \A q \in Procs \ {p} : proc'[q] = proc[q]
    BY <1>3, CreateTableLeads
  <2>3. Its(p)' = Its(p) /\ Slots(p)' = Slots(p) /\ \A i \in Slots(p) : Table(p, i)' = Table(p, i)
    BY <2>2 DEF Its, Slots, Table
  <2>4. \A i \in Slots(p) : IF i < proc[p].k + 1 THEN Made(Table(p, i))'
                                                 ELSE Missing(Table(p, i))'
    <3> TAKE i \in Slots(p)
    <3>1. i \in Nat /\ proc[p].k \in Nat
      BY <1>1, OthersOfIts
    <3>2. CASE i = proc[p].k
      <4>1. Missing(Table(p, i)) /\ Table(p, i) = At(p)
        BY <1>1, <1>3, <3>1, <3>2, CreatesAlone, OthersOfIts
      <4> QED
        BY <1>1, <2>1, <2>3, <3>1, <3>2, <4>1 DEF Made, Missing
    <3>3. CASE i # proc[p].k
      <4>1. IF i < proc[p].k THEN Made(Table(p, i)) ELSE Missing(Table(p, i))
        BY <1>3, CreatesAlone
      <4>2. Table(p, i) # At(p)
        BY <1>1, <3>3, OthersOfIts
      <4> QED
        BY <1>1, <2>1, <2>3, <3>1, <3>3, <4>1, <4>2 DEF Made, Missing
    <3> QED
      BY <3>2, <3>3
  <2>5. Begun(p)' /\ Progress(p)'
    <3>1. CASE IsLast(p)
      <4>1. \A i \in Slots(p) : i < proc[p].k + 1 /\ ~(i < 1)
        BY <1>1, <3>1, OthersOfIts DEF IsLast, Slots
      <4>2. proc'[p].pc = "declare" /\ proc'[p].k = 1
        BY <2>2, <3>1
      <4> QED
        BY <2>3, <2>4, <4>1, <4>2 DEF Begun, Progress
    <3>2. CASE ~IsLast(p)
      <4>1. proc[p].k \in Nat /\ proc[p].k > 0
        BY <1>1, OthersOfIts
      <4>2. proc'[p].pc = "create" /\ proc'[p].k = proc[p].k + 1
        BY <2>2, <3>2
      <4> QED
        BY <2>3, <2>4, <4>1, <4>2 DEF Begun, Progress
    <3> QED
      BY <3>1, <3>2
  <2>6. m \in Modules /\ At(p) \in TablesIn(m) /\ Its(p) = TablesIn(m)
    BY <1>1, OthersOfIts DEF Its
  <2>7. \A t \in Tables \ TablesIn(m) :
           (t \in tables' <=> t \in tables) /\ prod'[t] = prod[t] /\ cat'[t] = cat[t]
    BY <1>1, <2>1, <2>6
  <2>8. \A q \in Procs \ {p} : Begun(q) => Its(q) # TablesIn(m)
    BY <1>3, <2>6, CreatesAlone
  <2> HIDE DEF m
  <2> QED
    BY <2>2, <2>3, <2>5, <2>6, <2>7, <2>8, OrderlyAdvances
<1> QED
  BY <1>2, <1>3

LEMMA DeclareOrderly ==
  ASSUME Typed, Orderly, NEW p \in Procs, Declare(p)
  PROVE  Orderly' /\ ~Declared(prod, At(p))
<1> DEFINE m == proc[p].owner
<1>1. Freezing(p) /\ proc[p].pc = "declare" /\ tables' = tables /\ cat' = cat
  BY DEF Declare, Freezing
<1>2. Begun(p) /\ Progress(p)
  BY <1>1 DEF Begun, Orderly
<1>3. Made(At(p)) /\ ~Declared(prod, At(p))
  BY <1>1, <1>2, OthersOfIts DEF Progress, Made, Declared
<1>4. prod' = [prod EXCEPT ![At(p)] = Snapshot(p)]
  BY <1>3 DEF Declare
<1>5. /\ proc'[p].pc = "mirror" /\ proc'[p].owner = m
      /\ proc'[p].cols = proc[p].cols /\ proc'[p].k = proc[p].k
      /\ \A q \in Procs \ {p} : proc'[q] = proc[q]
  BY <1>3, DeclareLeads
<1>6. /\ Its(p)' = Its(p) /\ Slots(p)' = Slots(p) /\ Snapshot(p)' = Snapshot(p)
      /\ \A i \in Slots(p) : Table(p, i)' = Table(p, i)
  BY <1>5 DEF Its, Slots, Table, Snapshot
<1>7. m \in Modules /\ At(p) \in TablesIn(m) /\ Its(p) = TablesIn(m) /\ At(p) \in Tables
  BY <1>1, OthersOfIts DEF Its
<1>8. prod'[At(p)] = Snapshot(p) /\ \A t \in Tables \ {At(p)} : prod'[t] = prod[t]
  BY <1>4, <1>7 DEF Typed, Snapshots
<1>9. \A i \in Slots(p) : /\ i < proc[p].k => Done(Table(p, i))'
                          /\ i = proc[p].k => Half(p, Table(p, i))'
                          /\ i > proc[p].k => Made(Table(p, i))'
  <2> TAKE i \in Slots(p)
  <2>1. i \in Nat /\ proc[p].k \in Nat /\ Table(p, i) \in Tables
    BY <1>1, OthersOfIts
  <2>2. CASE i = proc[p].k
    <3>1. Table(p, i) = At(p)
      BY <1>1, <2>2, OthersOfIts
    <3>2. Half(p, Table(p, i))'
      BY <1>1, <1>3, <1>6, <1>8, <3>1 DEF Made, Half
    <3> QED
      BY <2>1, <2>2, <3>2
  <2>3. CASE i # proc[p].k
    <3>1. IF i < proc[p].k THEN Done(Table(p, i)) ELSE Made(Table(p, i))
      BY <1>1, <1>2 DEF Progress
    <3>2. Table(p, i) # At(p)
      BY <1>1, <2>3, OthersOfIts
    <3> QED
      BY <1>1, <1>6, <1>8, <2>1, <2>3, <3>1, <3>2 DEF Done, Made
  <2> QED
    BY <2>2, <2>3
<1>10. Begun(p)' /\ Progress(p)'
  BY <1>5, <1>6, <1>9 DEF Begun, Progress
<1>11. \A q \in Procs \ {p} : Begun(q) => Its(q) # TablesIn(m)
  BY <1>2, <1>7 DEF Orderly
<1>12. \A t \in Tables \ TablesIn(m) :
         (t \in tables' <=> t \in tables) /\ prod'[t] = prod[t] /\ cat'[t] = cat[t]
  BY <1>1, <1>7, <1>8
<1> HIDE DEF m
<1> QED
  BY <1>3, <1>5, <1>6, <1>7, <1>10, <1>11, <1>12, OrderlyAdvances

LEMMA MirrorOrderly ==
  ASSUME Typed, Orderly, NEW p \in Procs, Mirror(p)
  PROVE  Orderly'
<1>1. Freezing(p) /\ proc[p].pc = "mirror" /\ tables' = tables /\ prod' = prod
  BY DEF Mirror, Freezing
<1>0. PICK m \in Modules : m = proc[p].owner
  BY <1>1, OthersOfIts
<1>2. Begun(p) /\ Progress(p)
  BY <1>1 DEF Begun, Orderly
<1>3. m \in Modules /\ At(p) \in TablesIn(m) /\ Its(p) = TablesIn(m) /\ At(p) \in Tables
  BY <1>0, <1>1, OthersOfIts DEF Its
<1>4. cat'[At(p)] = Snapshot(p) /\ \A t \in Tables \ {At(p)} : cat'[t] = cat[t]
  BY <1>3 DEF Mirror, Mirrored, Typed, Snapshots
<1>5. Half(p, At(p)) /\ Snapshot(p) # Absent
  <2>1. Half(p, At(p))
    BY <1>1, <1>2, OthersOfIts DEF Progress
  <2>2. Snapshot(p) \in Declaration
    BY <1>1 DEF Typed, Freezing, Snapshot, Declaration
  <2> QED
    BY <2>1, <2>2, DeclarationPresent
<1>6. \A i \in Slots(p) : IF i < proc[p].k + 1 THEN Done(TablesOf[m][i])'
                                               ELSE Made(TablesOf[m][i])'
  <2> TAKE i \in Slots(p)
  <2>1. i \in Nat /\ proc[p].k \in Nat /\ Table(p, i) \in Tables
    BY <1>1, OthersOfIts
  <2>2. CASE i = proc[p].k
    <3>1. Table(p, i) = At(p)
      BY <1>1, <2>2, OthersOfIts
    <3>2. Done(TablesOf[m][i])'
      BY <1>0, <1>1, <1>4, <1>5, <3>1 DEF Done, Half, Table
    <3> QED
      BY <2>1, <2>2, <3>2
  <2>3. CASE i # proc[p].k
    <3>1. IF i < proc[p].k THEN Done(Table(p, i)) ELSE Made(Table(p, i))
      BY <1>1, <1>2, <2>1, <2>3 DEF Progress
    <3>2. Table(p, i) # At(p)
      BY <1>1, <2>3, OthersOfIts
    <3> QED
      BY <1>0, <1>1, <1>4, <2>1, <2>3, <3>1, <3>2 DEF Done, Made, Table
  <2> QED
    BY <2>2, <2>3
<1>7. \A q \in Procs \ {p} : Begun(q) => Its(q) # TablesIn(m)
  BY <1>2, <1>3 DEF Orderly
<1>8. \A t \in Tables \ TablesIn(m) :
        (t \in tables' <=> t \in tables) /\ prod'[t] = prod[t] /\ cat'[t] = cat[t]
  BY <1>1, <1>3, <1>4
<1>9. CASE IsLast(p)
  <2>1. ScanFails(p)
    BY <1>9 DEF Mirror, WasLast
  <2>2. proc'[p].pc = "idle" /\ \A q \in Procs \ {p} : proc'[q] = proc[q]
    BY <2>1, Drops
  <2>3. \A i \in Slots(p) : Done(TablesOf[m][i])'
    <3>1. \A i \in Slots(p) : i < proc[p].k + 1
      BY <1>1, <1>9, OthersOfIts DEF IsLast, Slots
    <3> QED
      BY <1>6, <3>1
  <2>4. Whole(m)'
    BY <1>0, <2>3 DEF Whole, TablesIn, Slots
  <2>5. ~Begun(p)'
    BY <2>2 DEF Begun
  <2> QED
    BY <1>3, <1>7, <1>8, <2>2, <2>4, <2>5, OrderlyAdvances
<1>10. CASE ~IsLast(p)
  <2>1. /\ proc'[p].pc = "declare" /\ proc'[p].owner = m /\ proc'[p].k = proc[p].k + 1
        /\ \A q \in Procs \ {p} : proc'[q] = proc[q]
    BY <1>0, <1>10, MirrorLeads
  <2>2. /\ Its(p)' = Its(p) /\ Slots(p)' = Slots(p)
        /\ \A i \in Slots(p) : Table(p, i)' = TablesOf[m][i]
    BY <1>0, <2>1 DEF Its, Slots, Table
  <2>3. Begun(p)' /\ Progress(p)'
    BY <1>6, <2>1, <2>2 DEF Begun, Progress, Done, Made
  <2> QED
    BY <1>3, <1>7, <1>8, <2>1, <2>2, <2>3, OrderlyAdvances
<1> QED
  BY <1>9, <1>10

-----------------------------------------------------------------------------
(* Usable until cut                                                        *)

(* Whoever created the file of catalog.db is about to fill it.              *)
ScriptHeld == script = "partial" => \E p \in Procs : proc[p].pc = "script"

(* The inductive invariant: unless a freeze or a script was cut, the tables *)
(* are whole or in one freeze, and catalog.db is filled or being filled.    *)
IInv == Typed /\ (~cut => Orderly /\ ScriptHeld)

LEMMA IInvInit == Init => IInv
<1> SUFFICES ASSUME Init PROVE IInv
  OBVIOUS
<1>1. \A p \in Procs : ~Begun(p)
  BY DEF Init, Begun, Idle
<1>2. \A m \in Modules : Whole(m)
  BY ItsTables DEF Init, Whole, Missing, NoTables
<1>3. ScriptHeld
  BY DEF Init, ScriptHeld
<1> QED
  BY <1>1, <1>2, <1>3, TypedInit DEF IInv, Orderly

LEMMA OrderlyNext ==
  ASSUME Typed, ~cut => Orderly /\ ScriptHeld, Next, ~cut'
  PROVE  Orderly' /\ ScriptHeld'
<1> PICK p \in Procs :
           \/ Other(p) \/ CreateTable(p) \/ Declare(p) \/ Mirror(p)
           \/ \E m \in Modules, cols \in Columns : FirstFrame(p, m, cols)
  BY NextIs
<1>1. CASE Other(p)
  <2>1. Elsewhere(p)
    BY <1>1, OtherElsewhere
  <2>2. ~cut
    BY <2>1, Zenon DEF Elsewhere
  <2>3. ~Begun(p) /\ (proc[p].pc = "script" => script' = "ready")
    BY <2>1, Zenon DEF Elsewhere
  <2>4. Orderly /\ ScriptHeld
    BY <2>2, Zenon
  <2>5. Orderly'
    <3>1. \A q \in Procs : Begun(q)' <=> Begun(q)
      BY <2>1, <2>3 DEF Elsewhere, Begun
    <3>2. \A q \in Procs : Begun(q) => proc'[q] = proc[q]
      BY <2>1, <2>3 DEF Elsewhere
    <3> QED
      BY <2>1, <2>4, <3>1, <3>2, OrderlyKept DEF Elsewhere
  <2>6. ScriptHeld'
    BY <2>1, <2>3, <2>4 DEF Elsewhere, ScriptHeld
  <2> QED
    BY <2>5, <2>6
<1>2. CASE ~Other(p)
  <2>1. /\ cut' = cut /\ script' = script /\ proc[p].pc # "script"
        /\ \A q \in Procs \ {p} : proc'[q] = proc[q]
    <3>1. ASSUME NEW m \in Modules, NEW cols \in Columns, FirstFrame(p, m, cols)
          PROVE  \A q \in Procs \ {p} : proc'[q] = proc[q]
      BY <3>1, FirstFrameLeads
    <3>2. ASSUME CreateTable(p) PROVE \A q \in Procs \ {p} : proc'[q] = proc[q]
      BY <3>2, CreateTableLeads, Drops DEF CreateTable
    <3>3. ASSUME Declare(p) PROVE \A q \in Procs \ {p} : proc'[q] = proc[q]
      BY <3>3, DeclareLeads, Drops DEF Declare
    <3>4. ASSUME Mirror(p) PROVE \A q \in Procs \ {p} : proc'[q] = proc[q]
      BY <3>4, MirrorLeads, Drops DEF Mirror, WasLast
    <3>5. \A q \in Procs \ {p} : proc'[q] = proc[q]
      BY <1>2, <3>1, <3>2, <3>3, <3>4
    <3>6. cut' = cut /\ script' = script /\ proc[p].pc # "script"
      BY <1>2 DEF FirstFrame, CreateTable, Declare, Mirror, collectionVars
    <3> QED
      BY <3>5, <3>6
  <2>2. ~cut
    BY <2>1
  <2>3. Orderly /\ ScriptHeld
    BY <2>2, Zenon
  <2>4. ScriptHeld'
    BY <2>1, <2>3 DEF ScriptHeld
  <2>5. ASSUME NEW m \in Modules, NEW cols \in Columns, FirstFrame(p, m, cols)
        PROVE  Orderly'
    <3>1. /\ proc'[p].pc = "create" /\ proc'[p].k = 1
          /\ \A q \in Procs \ {p} : proc'[q] = proc[q]
      BY <2>5, FirstFrameLeads
    <3>2. proc[p].pc = "idle" /\ tables' = tables /\ prod' = prod /\ cat' = cat
      BY <2>5 DEF FirstFrame, collectionVars
    <3>3. \A q \in Procs : Begun(q)' <=> Begun(q)
      BY <3>1, <3>2 DEF Begun
    <3>4. \A q \in Procs : Begun(q) => proc'[q] = proc[q]
      BY <3>1, <3>2 DEF Begun
    <3> QED
      BY <2>3, <3>2, <3>3, <3>4, OrderlyKept
  <2> QED
    BY <1>2, <2>3, <2>4, <2>5, CreateTableOrderly, DeclareOrderly, MirrorOrderly
<1> QED
  BY <1>1, <1>2

LEMMA IInvNext == IInv /\ [Next]_vars => IInv'
<1> SUFFICES ASSUME IInv, [Next]_vars PROVE IInv'
  OBVIOUS
<1>1. Typed'
  BY TypedNext DEF IInv
<1>2. CASE Next
  BY <1>1, <1>2, OrderlyNext, Zenon DEF IInv
<1>3. CASE UNCHANGED vars
  <2>1. cut' = cut /\ (Orderly' <=> Orderly) /\ (ScriptHeld' <=> ScriptHeld)
    BY <1>3 DEF vars, collectionVars, Orderly, ScriptHeld, Begun, Progress, Its, Slots, Table,
                Whole, Made, Missing, Half, Done, Snapshot
  <2> QED
    BY <1>1, <2>1 DEF IInv
<1> QED
  BY <1>2, <1>3

LEMMA IInvUsable == IInv => UsableUnlessCut
<1> SUFFICES ASSUME IInv, ~cut PROVE UsableUnlessCut
  BY Zenon DEF UsableUnlessCut
<1>1. Typed /\ Orderly /\ ScriptHeld
  BY Zenon DEF IInv
<1>2. ASSUME NEW t \in Tables
      PROVE  \/ t \in tables /\ Declared(prod, t) /\ prod[t] = cat[t]
             \/ t \notin tables /\ ~Declared(prod, t) /\ ~Declared(cat, t)
             \/ BeingFrozen(t)
  <2>1. PICK m \in Modules : t \in TablesIn(m)
    BY DEF Tables
  <2>2. CASE Whole(m)
    BY <2>1, <2>2 DEF Whole, Done, Missing, Declared
  <2>3. CASE ~Whole(m)
    <3>1. PICK p \in Procs : Begun(p) /\ Its(p) = TablesIn(m)
      BY <1>1, <2>3 DEF Orderly
    <3>2. InBetween(p) /\ proc[p].pc # "script"
      BY <3>1 DEF Begun, InBetween
    <3> QED
      BY <2>1, <3>1, <3>2 DEF BeingFrozen, Its
  <2> QED
    BY <2>2, <2>3
<1> QED
  BY <1>1, <1>2 DEF UsableUnlessCut, ScriptHeld

(* For any number of processes, modules and faults, a collection in which   *)
(* no freeze was cut short has every table declared alike in both           *)
(* databases, or in the hands of a process that is freezing it.             *)
THEOREM UsableHolds == Spec => []UsableUnlessCut
<1>1. Spec => []IInv
  BY IInvInit, IInvNext, PTL DEF Spec
<1> QED
  BY <1>1, IInvUsable, PTL

-----------------------------------------------------------------------------
(* Rows conform                                                            *)

(* A process past its first declaration is the one that made it.            *)
Stamped ==
  \A p \in Procs :
    proc[p].pc = "mirror" \/ (proc[p].pc = "declare" /\ proc[p].k > 1) =>
      prod[Table(p, 1)] = Snapshot(p)

(* The inductive invariant for the rows.                                    *)
RInv == Typed /\ Stamped /\ WritesConform

LEMMA RInvInit == Init => RInv
<1> SUFFICES ASSUME Init PROVE RInv
  OBVIOUS
<1>1. Stamped
  BY DEF Init, Stamped, Idle
<1>2. WritesConform
  BY DEF Init, WritesConform
<1> QED
  BY <1>1, <1>2, TypedInit DEF RInv

(* A declaration that is there is never changed.                            *)
LEMMA DeclarationsStay ==
  ASSUME Typed, Next
  PROVE  \A t \in Tables : Declared(prod, t) => prod'[t] = prod[t]
<1> PICK p \in Procs :
           \/ Other(p) \/ CreateTable(p) \/ Declare(p) \/ Mirror(p)
           \/ \E m \in Modules, cols \in Columns : FirstFrame(p, m, cols)
  BY NextIs
<1>1. CASE Other(p)
  BY <1>1, OtherElsewhere DEF Elsewhere
<1>2. CASE Declare(p)
  BY <1>2 DEF Declare, Typed, Snapshots
<1> QED
  BY <1>1, <1>2 DEF CreateTable, Mirror, FirstFrame, collectionVars

(* Rows go only into the first table of a module, and conform to it.        *)
LEMMA RowsConform ==
  ASSUME Typed, Stamped, Next
  PROVE  \A t \in Tables : \A w \in written'[t] :
           w \in written[t] \/ (/\ Declared(prod, t) /\ w.owner = prod[t].owner
                                /\ w.cols \subseteq prod[t].cols)
<1> DEFINE Fits(t, w) == /\ Declared(prod, t) /\ w.owner = prod[t].owner
                         /\ w.cols \subseteq prod[t].cols
<1> PICK p \in Procs :
           \/ Other(p) \/ CreateTable(p) \/ Declare(p) \/ Mirror(p)
           \/ \E m \in Modules, cols \in Columns : FirstFrame(p, m, cols)
  BY NextIs
<1> USE DEF collectionVars
<1>1. ASSUME NEW m \in Modules, NEW cols \in Columns, Upsert(m, cols),
             Fits(TablesOf[m][1], [owner |-> m, cols |-> cols])
      PROVE  \A t \in Tables : \A w \in written'[t] : w \in written[t] \/ Fits(t, w)
  <2> DEFINE row == [owner |-> m, cols |-> cols]
  <2>1. written' = [written EXCEPT ![TablesOf[m][1]] = @ \cup {row}]
    BY <1>1 DEF Upsert
  <2>2. \A t \in Tables : written'[t] = written[t]
                          \/ (t = TablesOf[m][1] /\ written'[t] = written[t] \cup {row})
    BY <2>1 DEF Typed
  <2> HIDE DEF row, Fits
  <2> QED
    BY <1>1, <2>2 DEF row
<1>2. CASE UNCHANGED written
  BY <1>2
<1>3. ASSUME NEW m \in Modules, NEW cols \in Columns, WriteFrozen(p, m, cols)
      PROVE  \A t \in Tables : \A w \in written'[t] : w \in written[t] \/ Fits(t, w)
  <2>1. Fits(TablesOf[m][1], [owner |-> m, cols |-> cols]) /\ Upsert(m, cols)
    BY <1>3 DEF WriteFrozen, Conforms, Declared
  <2> QED
    BY <1>1, <2>1
<1>4. ASSUME Mirror(p), IsLast(p)
      PROVE  \A t \in Tables : \A w \in written'[t] : w \in written[t] \/ Fits(t, w)
  <2> DEFINE m == proc[p].owner
             cols == proc[p].cols
  <2>1. m \in Modules /\ cols \in Columns /\ Snapshot(p) \in Declaration
    BY <1>4 DEF Mirror, Typed, Freezing, Snapshot, Declaration
  <2>2. prod[TablesOf[m][1]] = Snapshot(p)
    BY <1>4 DEF Mirror, Stamped, Table
  <2>3. Fits(TablesOf[m][1], [owner |-> m, cols |-> cols])
    BY <2>1, <2>2, DeclarationPresent DEF Snapshot, Declared
  <2>4. Upsert(m, cols)
    BY <1>4 DEF Mirror, WasLast
  <2> HIDE DEF m, cols, Fits
  <2> QED
    BY <1>1, <2>1, <2>3, <2>4
<1> QED
  BY <1>2, <1>3, <1>4
     DEF Other, Start, Launch, Postprocess, Open, ReadCatalog, Compare, CreateCatalog,
         RunScript, Begin, Lookup, ResumeRun, BeginRun, Record, RecordModules, Finalize,
         FlushRaises, PostDone, Dies, StepRaises, FirstFrame, CreateTable, Declare, Mirror,
         WasLast

LEMMA StampedNext == Typed /\ Stamped /\ Next => Stamped'
<1> SUFFICES ASSUME Typed, Stamped, Next PROVE Stamped'
  OBVIOUS
<1> PICK p \in Procs :
           \/ Other(p) \/ CreateTable(p) \/ Declare(p) \/ Mirror(p)
           \/ \E m \in Modules, cols \in Columns : FirstFrame(p, m, cols)
  BY NextIs
<1> DEFINE Past(q) == proc[q].pc = "mirror" \/ (proc[q].pc = "declare" /\ proc[q].k > 1)
<1>1. ASSUME NEW q \in Procs, Past(q), proc'[q].owner = proc[q].owner,
             proc'[q].cols = proc[q].cols
      PROVE  prod'[Table(q, 1)'] = Snapshot(q)'
  <2>1. proc[q].owner \in Modules /\ Snapshot(q) \in Declaration /\ Table(q, 1) \in Tables
    <3>1. proc[q].owner \in Modules /\ Snapshot(q) \in Declaration
      BY <1>1 DEF Typed, Freezing, Snapshot, Declaration
    <3> QED
      BY <3>1, ItsTables DEF Table
  <2>2. prod[Table(q, 1)] = Snapshot(q)
    BY <1>1 DEF Stamped
  <2>3. Declared(prod, Table(q, 1))
    BY <2>1, <2>2, DeclarationPresent DEF Declared
  <2>4. prod'[Table(q, 1)] = Snapshot(q)
    BY <2>1, <2>2, <2>3, DeclarationsStay
  <2> QED
    BY <1>1, <2>4 DEF Table, Snapshot
<1>2. /\ \A q \in Procs \ {p} : proc'[q] = proc[q]
      /\ Past(p)' => prod'[Table(p, 1)'] = Snapshot(p)'
  <2>1. CASE Other(p)
    BY <2>1, OtherElsewhere DEF Elsewhere
  <2>2. ASSUME NEW m \in Modules, NEW cols \in Columns, FirstFrame(p, m, cols)
        PROVE  ~Past(p)' /\ \A q \in Procs \ {p} : proc'[q] = proc[q]
    BY <2>2, FirstFrameLeads
  <2>3. ASSUME CreateTable(p)
        PROVE  ~Past(p)' /\ \A q \in Procs \ {p} : proc'[q] = proc[q]
    BY <2>3, CreateTableLeads, Drops DEF CreateTable
  <2>4. CASE Declare(p)
    <3>1. CASE Declared(prod, At(p))
      BY <2>4, <3>1, Drops DEF Declare
    <3>2. CASE ~Declared(prod, At(p))
      <4>1. /\ proc'[p].owner = proc[p].owner /\ proc'[p].cols = proc[p].cols
            /\ \A q \in Procs \ {p} : proc'[q] = proc[q]
        BY <2>4, <3>2, DeclareLeads
      <4>2. Freezing(p) /\ proc[p].pc = "declare"
        BY <2>4 DEF Declare, Freezing
      <4>3. CASE Past(p)
        BY <1>1, <4>1, <4>3
      <4>4. CASE ~Past(p)
        <5>1. proc[p].k = 1 /\ At(p) = Table(p, 1) /\ At(p) \in Tables
          BY <4>2, <4>4, OthersOfIts
        <5>2. prod'[At(p)] = Snapshot(p)
          BY <2>4, <3>2, <5>1 DEF Declare, Typed, Snapshots
        <5> QED
          BY <4>1, <5>1, <5>2 DEF Table, Snapshot
      <4> QED
        BY <4>3, <4>4
    <3> QED
      BY <3>1, <3>2
  <2>5. CASE Mirror(p)
    <3>1. CASE IsLast(p)
      BY <2>5, <3>1, Drops DEF Mirror, WasLast
    <3>2. CASE ~IsLast(p)
      <4>1. /\ proc'[p].owner = proc[p].owner /\ proc'[p].cols = proc[p].cols
            /\ \A q \in Procs \ {p} : proc'[q] = proc[q]
        BY <2>5, <3>2, MirrorLeads
      <4>2. Past(p)
        BY <2>5 DEF Mirror
      <4> QED
        BY <1>1, <4>1, <4>2
    <3> QED
      BY <3>1, <3>2
  <2> QED
    BY <2>1, <2>2, <2>3, <2>4, <2>5
<1>3. ASSUME NEW q \in Procs \ {p}, Past(q)' PROVE prod'[Table(q, 1)'] = Snapshot(q)'
  BY <1>1, <1>2, <1>3
<1> QED
  BY <1>2, <1>3 DEF Stamped

LEMMA RInvNext == RInv /\ [Next]_vars => RInv'
<1> SUFFICES ASSUME RInv, [Next]_vars PROVE RInv'
  OBVIOUS
<1>1. Typed'
  BY TypedNext DEF RInv
<1>2. CASE Next
  <2>1. Stamped'
    BY <1>2, StampedNext DEF RInv
  <2>2. WritesConform'
    BY <1>2, RowsConform, DeclarationsStay DEF RInv, WritesConform, Declared
  <2> QED
    BY <1>1, <2>1, <2>2 DEF RInv
<1>3. CASE UNCHANGED vars
  BY <1>1, <1>3 DEF RInv, vars, collectionVars, Stamped, Table, Snapshot, WritesConform, Declared
<1> QED
  BY <1>2, <1>3

(* For any number of processes and modules, every row of a table is of the  *)
(* module that froze it and has no column its declaration lacks, however    *)
(* the freezes and writes of several processes interleave or are cut.       *)
THEOREM WritesConformHolds == Spec => []WritesConform
<1>1. Spec => []RInv
  BY RInvInit, RInvNext, PTL DEF Spec
<1> QED
  BY <1>1, PTL DEF RInv

-----------------------------------------------------------------------------
(* Refused for a reason                                                    *)

(* What catalog.db said is what products.db says, unless the process opened *)
(* while another was mid-way.                                               *)
SeenIsNow ==
  ~cut => \A p \in Procs : proc[p].pc = "compare" /\ p \notin overlapped =>
            proc[p].seen = prod

(* The inductive invariant for the processes that are turned away.          *)
OInv == IInv /\ SeenIsNow /\ RefusedForReason

LEMMA OInvInit == Init => OInv
<1> SUFFICES ASSUME Init PROVE OInv
  OBVIOUS
<1>1. SeenIsNow
  BY DEF Init, SeenIsNow, Idle
<1>2. RefusedForReason
  BY DEF Init, RefusedForReason
<1> QED
  BY <1>1, <1>2, IInvInit DEF OInv

(* Between freezes the two databases say the same.                          *)
LEMMA AlikeUnlessMirror ==
  ASSUME Typed, Orderly, \A q \in Procs : proc[q].pc # "mirror"
  PROVE  cat = prod
<1>1. ASSUME NEW t \in Tables PROVE cat[t] = prod[t]
  <2>1. PICK m \in Modules : t \in TablesIn(m)
    BY DEF Tables
  <2>2. CASE Whole(m)
    BY <2>1, <2>2 DEF Whole, Done, Missing
  <2>3. CASE ~Whole(m)
    <3>1. PICK q \in Procs : Begun(q) /\ Its(q) = TablesIn(m)
      BY <2>3 DEF Orderly
    <3>2. PICK i \in Slots(q) : t = Table(q, i)
      BY <2>1, <3>1 DEF Its, TablesIn, Slots, Table
    <3>3. Progress(q)
      BY <3>1 DEF Orderly
    <3>4. proc[q].pc = "create" \/ proc[q].pc = "declare"
      BY <3>1 DEF Begun
    <3>5. Made(t) \/ Missing(t) \/ Done(t)
      BY <3>2, <3>3, <3>4 DEF Progress
    <3> QED
      BY <3>5 DEF Made, Missing, Done
  <2> QED
    BY <2>2, <2>3
<1>2. cat \in Snapshots /\ prod \in Snapshots
  BY DEF Typed
<1> QED
  BY <1>1, <1>2 DEF Snapshots

(* A process that reads while nobody is mid-way, and nothing was cut, reads *)
(* what both databases say.                                                 *)
LEMMA ReadsWhatIs ==
  ASSUME IInv, ~cut, NEW p \in Procs, ReadCatalog(p), ~MidWay(p)
  PROVE  script # "partial" /\ cat = prod
<1>1. Typed /\ Orderly /\ ScriptHeld
  BY Zenon DEF IInv
<1>2. proc[p].pc = "read"
  BY DEF ReadCatalog
<1>3. \A q \in Procs : proc[q].pc # "mirror" /\ proc[q].pc # "script"
  BY <1>2 DEF MidWay
<1> QED
  BY <1>1, <1>3, AlikeUnlessMirror DEF ScriptHeld

(* Only ReadCatalog brings a process to the comparison.                     *)
LEMMA ComparesAfterReading ==
  ASSUME Typed, NEW p \in Procs, ~ReadCatalog(p),
         \/ Other(p) \/ CreateTable(p) \/ Declare(p) \/ Mirror(p)
         \/ \E m \in Modules, cols \in Columns : FirstFrame(p, m, cols)
  PROVE  proc'[p].pc # "compare" /\ \A q \in Procs \ {p} : proc'[q] = proc[q]
<1> USE DEF Typed
<1>1. ASSUME NEW m \in Modules, NEW cols \in Columns, FirstFrame(p, m, cols)
      PROVE  proc'[p].pc # "compare" /\ \A q \in Procs \ {p} : proc'[q] = proc[q]
  BY <1>1, FirstFrameLeads
<1>2. CASE CreateTable(p)
  BY <1>2, CreateTableLeads, Drops DEF CreateTable
<1>3. CASE Declare(p)
  BY <1>3, DeclareLeads, Drops DEF Declare
<1>4. CASE Mirror(p)
  BY <1>4, MirrorLeads, Drops DEF Mirror, WasLast
<1>5. CASE Other(p)
  <2>1. \A q \in Procs \ {p} : proc'[q] = proc[q]
    BY <1>5, OtherElsewhere DEF Elsewhere
  <2>2. ASSUME NEW r \in Runs, \/ \E c \in Configs, named \in BOOLEAN : Launch(p, r, c, named)
                               \/ Postprocess(p, r)
        PROVE  proc'[p].pc = "read"
    <3>1. CASE Postprocess(p, r)
      BY <3>1 DEF Postprocess, Idle
    <3>2. ASSUME NEW c \in Configs, NEW named \in BOOLEAN, Launch(p, r, c, named)
          PROVE  proc'[p].pc = "read"
      BY <3>2 DEF Launch, Idle
    <3> QED
      BY <2>2, <3>1, <3>2
  <2>3. ASSUME Compare(p) PROVE proc'[p].pc \in {"catalog", "gone"}
    BY <2>3, Goes DEF Compare, Places, Work, Process
  <2>4. ASSUME CreateCatalog(p) \/ RunScript(p) PROVE proc'[p].pc \in {"lookup", "idle", "script"}
    BY <2>4, Goes DEF CreateCatalog, RunScript, Opened, Places, Work
  <2>5. ASSUME Lookup(p) PROVE proc'[p].pc = "begin"
    BY <2>5 DEF Lookup, Process
  <2>6. ASSUME ResumeRun(p) \/ BeginRun(p) PROVE proc'[p].pc \in {"idle", "gone"}
    BY <2>6, Goes DEF ResumeRun, BeginRun, Places, Work
  <2>7. ASSUME Record(p) PROVE proc'[p].pc \in {"idle", "gone"}
    BY <2>7, Goes DEF Record, RecordModules, Finalize, FlushRaises, PostDone, Places, Work
  <2>8. ASSUME Dies(p) \/ StepRaises(p) PROVE proc'[p].pc \in {"idle", "gone"}
    BY <2>8, Goes, Drops DEF Dies, StepRaises, Places, Work
  <2>9. ASSUME NEW m \in Modules, NEW cols \in Columns, WriteFrozen(p, m, cols)
        PROVE  proc'[p].pc = "idle"
    BY <2>9 DEF WriteFrozen
  <2> QED
    BY <1>5, <2>1, <2>2, <2>3, <2>4, <2>5, <2>6, <2>7, <2>8, <2>9
       DEF Other, Start, Open, Begin
<1> QED
  BY <1>1, <1>2, <1>3, <1>4, <1>5

(* What a step does to who was turned away, overlapped or cut.              *)
LEMMA OpeningGrows ==
  ASSUME Typed, NEW p \in Procs,
         \/ Other(p) \/ CreateTable(p) \/ Declare(p) \/ Mirror(p)
         \/ \E m \in Modules, cols \in Columns : FirstFrame(p, m, cols)
  PROVE  /\ cut => cut'
         /\ overlapped \subseteq overlapped'
         /\ refused' = refused \/ (ReadCatalog(p) /\ script = "partial")
                               \/ (Compare(p) /\ proc[p].seen # prod)
         /\ refused' \subseteq refused \cup {p}
         /\ prod' = prod \/ Opening \subseteq overlapped'
<1> USE DEF collectionVars, openVars
<1>1. CASE ReadCatalog(p)
  BY <1>1 DEF ReadCatalog
<1>2. CASE Compare(p)
  BY <1>2 DEF Compare
<1>3. CASE Dies(p) \/ StepRaises(p)
  <2>1. cut => cut'
    BY <1>3, Zenon DEF Dies, StepRaises
  <2> QED
    BY <1>3, <2>1 DEF Dies, StepRaises
<1>4. CASE Declare(p)
  BY <1>4 DEF Declare
<1>5. CASE Mirror(p)
  BY <1>5 DEF Mirror
<1>6. CASE UNCHANGED <<cut, openVars, prod>>
  BY <1>6
<1> QED
  BY <1>1, <1>2, <1>3, <1>4, <1>5, <1>6
     DEF Other, Start, Launch, Postprocess, Open, CreateCatalog, RunScript, Begin, Lookup,
         ResumeRun, BeginRun, Record, RecordModules, Finalize, FlushRaises, PostDone,
         WriteFrozen, FirstFrame, CreateTable

LEMMA SeenIsNowNext ==
  ASSUME OInv, Next, ~cut'
  PROVE  \A q \in Procs : proc'[q].pc = "compare" /\ q \notin overlapped' =>
           proc'[q].seen = prod'
<1> PICK p \in Procs :
           \/ Other(p) \/ CreateTable(p) \/ Declare(p) \/ Mirror(p)
           \/ \E m \in Modules, cols \in Columns : FirstFrame(p, m, cols)
  BY NextIs
<1>1. Typed /\ IInv
  BY DEF OInv, IInv
<1>2. /\ cut => cut'
      /\ overlapped \subseteq overlapped' /\ (prod' = prod \/ Opening \subseteq overlapped')
  BY <1>1, OpeningGrows
<1>3. ~cut
  BY <1>2, Zenon
<1>4. \A q \in Procs : proc[q].pc = "compare" /\ q \notin overlapped => proc[q].seen = prod
  BY <1>3, Zenon DEF OInv, SeenIsNow
<1>5. ASSUME NEW q \in Procs, proc'[q] = proc[q], proc'[q].pc = "compare", q \notin overlapped'
      PROVE  proc'[q].seen = prod'
  <2>1. q \in Opening
    BY <1>5 DEF Opening
  <2> QED
    BY <1>2, <1>4, <1>5, <2>1
<1>6. CASE ReadCatalog(p)
  <2>1. /\ \A q \in Procs \ {p} : proc'[q] = proc[q]
        /\ prod' = prod
    BY <1>1, <1>6, OtherElsewhere DEF Other, Open, Elsewhere
  <2>2. ASSUME p \notin overlapped', proc'[p].pc = "compare"
        PROVE  proc'[p].seen = prod'
    <3>1. ~MidWay(p)
      BY <1>6, <2>2 DEF ReadCatalog
    <3>2. script # "partial" /\ cat = prod
      BY <1>1, <1>3, <1>6, <3>1, ReadsWhatIs
    <3>3. proc'[p].seen = cat
      BY <1>1, <1>6, <3>2 DEF ReadCatalog, Typed, Process
    <3> QED
      BY <2>1, <3>2, <3>3
  <2> QED
    BY <1>5, <2>1, <2>2
<1>7. CASE ~ReadCatalog(p)
  BY <1>1, <1>5, <1>7, ComparesAfterReading
<1> QED
  BY <1>6, <1>7

LEMMA RefusedNext == OInv /\ Next => RefusedForReason'
<1> SUFFICES ASSUME OInv, Next PROVE RefusedForReason'
  OBVIOUS
<1> PICK p \in Procs :
           \/ Other(p) \/ CreateTable(p) \/ Declare(p) \/ Mirror(p)
           \/ \E m \in Modules, cols \in Columns : FirstFrame(p, m, cols)
  BY NextIs
<1>1. Typed /\ IInv
  BY DEF OInv, IInv
<1>2. /\ cut => cut'
      /\ overlapped \subseteq overlapped'
      /\ refused' = refused \/ (ReadCatalog(p) /\ script = "partial")
                            \/ (Compare(p) /\ proc[p].seen # prod)
      /\ refused' \subseteq refused \cup {p}
  BY <1>1, OpeningGrows
<1>3. \A q \in refused : cut' \/ q \in overlapped'
  BY <1>2, Zenon DEF OInv, RefusedForReason
<1>4. CASE cut
  BY <1>2, <1>4, Zenon DEF RefusedForReason
<1>5. CASE ~cut
  <2>1. CASE refused' = refused
    BY <1>3, <2>1 DEF RefusedForReason
  <2>2. CASE ReadCatalog(p) /\ script = "partial"
    <3>1. MidWay(p)
      BY <1>1, <1>5, <2>2, ReadsWhatIs
    <3>2. p \in overlapped'
      BY <2>2, <3>1 DEF ReadCatalog
    <3> QED
      BY <1>2, <1>3, <3>2 DEF RefusedForReason
  <2>3. CASE Compare(p) /\ proc[p].seen # prod
    <3>1. proc[p].pc = "compare"
      BY <2>3 DEF Compare
    <3>2. p \in overlapped
      BY <1>5, <2>3, <3>1, Zenon DEF OInv, SeenIsNow
    <3> QED
      BY <1>2, <1>3, <3>2 DEF RefusedForReason
  <2> QED
    BY <1>2, <2>1, <2>2, <2>3
<1> QED
  BY <1>4, <1>5

LEMMA OInvNext == OInv /\ [Next]_vars => OInv'
<1> SUFFICES ASSUME OInv, [Next]_vars PROVE OInv'
  OBVIOUS
<1>1. IInv'
  BY IInvNext DEF OInv
<1>2. CASE Next
  BY <1>1, <1>2, SeenIsNowNext, RefusedNext, Zenon DEF OInv, SeenIsNow
<1>3. CASE UNCHANGED vars
  BY <1>1, <1>3 DEF OInv, vars, collectionVars, openVars, SeenIsNow, RefusedForReason
<1> QED
  BY <1>2, <1>3

(* For any number of processes, modules and faults, a collection turns      *)
(* nobody away unless a freeze was cut short before, or another process was *)
(* between two durable steps while this one compared the two databases.     *)
THEOREM RefusedForReasonHolds == Spec => []RefusedForReason
<1>1. Spec => []OInv
  BY OInvInit, OInvNext, PTL DEF Spec
<1> QED
  BY <1>1, PTL DEF OInv

-----------------------------------------------------------------------------
(* The record of a run                                                     *)

Awake(p) == proc[p].pc \notin {"off", "gone"}

(* A process on a run has a configuration of its own, or the recorded one,  *)
(* which somebody brought.                                                  *)
Origin ==
  /\ \A r \in Runs : fresh[r] \subseteq Procs /\ IsFiniteSet(fresh[r])
  /\ \A r \in Runs : \A p \in fresh[r] : proc[p].pc # "off"
  /\ \A r \in Runs : Exists(r) => \E q \in fresh[r] : proc[q].cfg = run[r].cfg
  /\ \A p \in Procs : Awake(p) => proc[p].run \in Runs
  /\ \A p \in Procs, r \in Runs :
       Awake(p) /\ proc[p].kind = "pipeline" /\ proc[p].run = r =>
         p \in fresh[r] \/ (Exists(r) /\ proc[p].cfg = run[r].cfg)

(* Whoever works on a run is a user of it, and alone unless it is shared.   *)
Workers ==
  /\ \A p \in Procs : proc[p].pc \in {"lookup", "begin"} => proc[p].kind = "pipeline"
  /\ \A p \in Procs : proc[p].pc = "begin" /\ proc[p].found => Exists(proc[p].run)
  /\ \A p \in Procs, r \in Runs : WorksOn(p, r) =>
       /\ Exists(r) /\ p \in users[r]
       /\ run[r].status = "running" \/ r \in shared
  /\ \A p, q \in Procs, r \in Runs : p # q /\ WorksOn(p, r) /\ WorksOn(q, r) => r \in shared

(* A process uses one run, and its failure is on record while it is alone.  *)
Failures ==
  /\ \A r \in Runs : \A p \in users[r] : proc[p].pc # "off" /\ proc[p].run = r
  /\ \A p \in failed : proc[p].run \in Runs /\ p \in users[proc[p].run]
  /\ \A r \in Runs : \A p \in failed : users[r] = {p} => modules[r] = "failed"

HistoryTyped ==
  /\ modules \in [Runs -> {"none", "completed", "failed"}]
  /\ fresh \in [Runs -> SUBSET Procs] /\ users \in [Runs -> SUBSET Procs]
  /\ failed \subseteq Procs /\ shared \subseteq Runs

(* The inductive invariant for the record.                                  *)
HInv == Typed /\ HistoryTyped /\ Origin /\ Workers /\ Failures

LEMMA HInvInit == Init => HInv
<1> SUFFICES ASSUME Init PROVE HInv
  OBVIOUS
<1>1. HistoryTyped
  BY DEF Init, HistoryTyped
<1>2. Origin
  BY FS_EmptySet DEF Init, Origin, Exists, Awake, Idle
<1>3. Workers
  BY DEF Init, Workers, WorksOn, Work, Idle
<1>4. Failures
  BY DEF Init, Failures
<1> QED
  BY <1>1, <1>2, <1>3, <1>4, TypedInit DEF HInv

(* Two members make more than one.                                          *)
LEMMA TwoOfThem ==
  ASSUME NEW S, IsFiniteSet(S), NEW a \in S, NEW b \in S, a # b
  PROVE  Cardinality(S) > 1
<1>1. IsFiniteSet(S \ {a}) /\ Cardinality(S \ {a}) = Cardinality(S) - 1
  BY FS_RemoveElement
<1>2. S \ {a} # {}
  OBVIOUS
<1>3. Cardinality(S) \in Nat /\ Cardinality(S \ {a}) \in Nat
  BY <1>1, FS_CardinalityType
<1>4. Cardinality(S \ {a}) # 0
  BY <1>1, <1>2, FS_EmptySet
<1> QED
  BY <1>1, <1>3, <1>4

LEMMA HInvHonest == HInv => RunRecordHonest
<1> SUFFICES ASSUME HInv, NEW r \in Runs
             PROVE  /\ \A p \in Procs : WorksOn(p, r) =>
                         /\ proc[p].cfg = run[r].cfg \/ Cardinality(fresh[r]) > 1
                         /\ run[r].status = "running" \/ r \in shared
                    /\ \A p \in failed : users[r] = {p} => modules[r] = "failed"
  BY DEF RunRecordHonest
<1>1. ASSUME NEW p \in Procs, WorksOn(p, r), proc[p].cfg # run[r].cfg
      PROVE  Cardinality(fresh[r]) > 1
  <2>1. Awake(p) /\ proc[p].kind = "pipeline" /\ proc[p].run = r
    BY <1>1 DEF WorksOn, Awake, Work
  <2>2. p \in fresh[r]
    BY <1>1, <2>1 DEF HInv, Origin
  <2>3. Exists(r)
    BY <1>1 DEF HInv, Workers
  <2>4. PICK q \in fresh[r] : proc[q].cfg = run[r].cfg
    BY <2>3 DEF HInv, Origin
  <2>5. IsFiniteSet(fresh[r]) /\ p # q
    BY <1>1, <2>4 DEF HInv, Origin
  <2> QED
    BY <2>2, <2>4, <2>5, TwoOfThem
<1> QED
  BY <1>1 DEF HInv, Workers, Failures

(* A step of p that the registry does not see, and that puts p on no run.   *)
Carries(p) ==
  /\ proc'[p].kind = proc[p].kind /\ proc'[p].run = proc[p].run /\ proc'[p].cfg = proc[p].cfg
  /\ Awake(p) /\ proc'[p].pc # "off"
  /\ \A q \in Procs \ {p} : proc'[q] = proc[q]

Unseen(p) ==
  /\ UNCHANGED <<run, modules, failed, runHistory>>
  /\ Carries(p)
  /\ proc'[p].pc \in Work => proc[p].pc \in Work \/ proc[p].kind # "pipeline"
  /\ proc'[p].pc = "lookup" => proc[p].kind = "pipeline"
  /\ proc'[p].pc = "begin" => proc[p].pc = "lookup" /\ proc'[p].found = Exists(proc[p].run)

LEMMA GotoCarries ==
  ASSUME Typed, NEW p \in Procs, NEW pc \in Places \ {"off"}, Goto(p, pc), Awake(p)
  PROVE  Carries(p) /\ proc'[p].pc = pc
<1>1. proc[p] \in Process /\ proc' = [proc EXCEPT ![p].pc = pc]
  BY DEF Typed, Goto
<1> QED
  BY <1>1 DEF Carries, Process, Typed

LEMMA DropCarries ==
  ASSUME Typed, NEW p \in Procs, ScanFails(p), Awake(p)
  PROVE  Carries(p) /\ proc'[p].pc = "idle"
<1>1. proc[p] \in Process
  BY DEF Typed
<1> QED
  BY <1>1 DEF ScanFails, Carries, Process, Typed

LEMMA UnseenIs ==
  ASSUME Typed, NEW p \in Procs,
         \/ Open(p) \/ Lookup(p) \/ Write(p) \/ FlushRaises(p) \/ PostDone(p)
         \/ Dies(p) \/ StepRaises(p)
  PROVE  Unseen(p)
<1> USE DEF registryVars, runHistory
<1>0. proc[p] \in Process
  BY DEF Typed
<1>1. CASE ReadCatalog(p)
  <2>1. CASE Goto(p, "gone")
    BY <1>1, <2>1, GotoCarries DEF ReadCatalog, Unseen, Awake, Places, Work
  <2>2. CASE proc' = [proc EXCEPT ![p].pc = "compare", ![p].seen = cat]
    BY <1>0, <1>1, <2>2 DEF ReadCatalog, Unseen, Carries, Awake, Typed, Process, Work
  <2> QED
    BY <1>1, <2>1, <2>2 DEF ReadCatalog
<1>2. CASE Compare(p)
  <2>1. CASE Goto(p, "gone")
    BY <1>2, <2>1, GotoCarries DEF Compare, Unseen, Awake, Places, Work
  <2>2. CASE proc' = [proc EXCEPT ![p].pc = "catalog", ![p].seen = NoTables]
    BY <1>0, <1>2, <2>2 DEF Compare, Unseen, Carries, Awake, Typed, Process, Work
  <2> QED
    BY <1>2, <2>1, <2>2 DEF Compare
<1>3. CASE CreateCatalog(p) \/ RunScript(p)
  <2>1. Goto(p, Opened(p)) \/ Goto(p, "script")
    BY <1>3 DEF CreateCatalog, RunScript
  <2>2. Awake(p) /\ UNCHANGED <<run, modules, failed, runHistory>>
    BY <1>3 DEF CreateCatalog, RunScript, Awake
  <2>3. CASE Goto(p, "script")
    BY <2>2, <2>3, GotoCarries DEF Unseen, Places, Work
  <2>4. CASE Goto(p, Opened(p))
    <3>1. /\ Opened(p) \in {"lookup", "idle"}
          /\ Opened(p) = "lookup" <=> proc[p].kind = "pipeline"
      BY DEF Opened
    <3>2. Opened(p) \in Places \ {"off"}
      BY <3>1 DEF Places, Work
    <3>3. Carries(p) /\ proc'[p].pc = Opened(p)
      BY <2>2, <2>4, <3>2, GotoCarries
    <3> QED
      BY <2>2, <3>1, <3>3 DEF Unseen, Work
  <2> QED
    BY <2>1, <2>3, <2>4
<1>4. CASE Lookup(p)
  <2>1. Exists(proc[p].run) \in BOOLEAN
    BY Zenon DEF Exists
  <2> DEFINE b == Exists(proc[p].run)
  <2>2. proc' = [proc EXCEPT ![p].pc = "begin", ![p].found = b]
    BY <1>4 DEF Lookup
  <2>3. /\ proc[p].pc = "lookup" /\ UNCHANGED <<run, modules, failed, runHistory>>
    BY <1>4 DEF Lookup
  <2> HIDE DEF b
  <2>4. /\ proc'[p].found = b /\ proc'[p].pc = "begin" /\ Carries(p)
    BY <1>0, <2>2, <2>3 DEF Carries, Awake, Typed, Process
  <2> QED
    BY <2>3, <2>4 DEF Unseen, Work, b
<1>5. CASE FlushRaises(p) \/ PostDone(p)
  BY <1>5, GotoCarries DEF FlushRaises, PostDone, Unseen, Awake, Places, Work
<1>6. CASE Dies(p)
  BY <1>6, GotoCarries DEF Dies, Unseen, Awake, Places, Work
<1>7. CASE StepRaises(p)
  <2>1. Awake(p) /\ proc[p].pc \in Work
    BY <1>7 DEF StepRaises, Awake, Work
  <2> QED
    BY <1>7, <2>1, DropCarries DEF StepRaises, Unseen
<1>8. CASE Write(p)
  <2>0. /\ proc[p].pc \in Work /\ Awake(p) /\ UNCHANGED <<run, modules, failed, runHistory>>
    BY <1>8 DEF Write, WriteFrozen, FirstFrame, CreateTable, Declare, Mirror, Work, Awake
  <2>1. ASSUME Carries(p), proc'[p].pc \notin {"lookup", "begin"} PROVE Unseen(p)
    BY <2>0, <2>1 DEF Unseen, Work
  <2>2. ASSUME NEW m \in Modules, NEW cols \in Columns, WriteFrozen(p, m, cols)
        PROVE  Unseen(p)
    BY <2>0, <2>1, <2>2 DEF WriteFrozen, Carries, Work
  <2>3. ASSUME NEW m \in Modules, NEW cols \in Columns, FirstFrame(p, m, cols)
        PROVE  Unseen(p)
    BY <1>0, <2>0, <2>1, <2>3 DEF FirstFrame, Carries, Typed, Process
  <2>4. ASSUME CreateTable(p) PROVE Unseen(p)
    <3>1. CASE ScanFails(p)
      BY <2>0, <2>1, <3>1, DropCarries
    <3>2. CASE proc' = [proc EXCEPT ![p].pc = "declare", ![p].k = 1]
      BY <1>0, <2>0, <2>1, <3>2 DEF Carries, Typed, Process
    <3>3. CASE proc' = [proc EXCEPT ![p].k = @ + 1]
      BY <1>0, <2>0, <2>1, <2>4, <3>3 DEF CreateTable, Carries, Typed, Process
    <3> QED
      BY <2>4, <3>1, <3>2, <3>3 DEF CreateTable
  <2>5. ASSUME Declare(p) PROVE Unseen(p)
    <3>1. CASE ScanFails(p)
      BY <2>0, <2>1, <3>1, DropCarries
    <3>2. CASE Goto(p, "mirror")
      BY <2>0, <2>1, <3>2, GotoCarries DEF Places, Work
    <3> QED
      BY <2>5, <3>1, <3>2 DEF Declare
  <2>6. ASSUME Mirror(p) PROVE Unseen(p)
    <3>1. CASE ScanFails(p)
      BY <2>0, <2>1, <3>1, DropCarries
    <3>2. CASE proc' = [proc EXCEPT ![p].pc = "declare", ![p].k = @ + 1]
      BY <1>0, <2>0, <2>1, <3>2 DEF Carries, Typed, Process
    <3> QED
      BY <2>6, <3>1, <3>2 DEF Mirror
  <2> QED
    BY <1>8, <2>2, <2>3, <2>4, <2>5, <2>6 DEF Write
<1> QED
  BY <1>1, <1>2, <1>3, <1>4, <1>5, <1>6, <1>7, <1>8 DEF Open

LEMMA UnseenKeeps ==
  ASSUME HInv, NEW p \in Procs, Unseen(p)
  PROVE  HistoryTyped' /\ Origin' /\ Workers' /\ Failures'
<1> USE DEF runHistory
<1>1. /\ run' = run /\ modules' = modules /\ failed' = failed
      /\ fresh' = fresh /\ users' = users /\ shared' = shared
  BY DEF Unseen
<1>2. \A q \in Procs : /\ proc'[q].kind = proc[q].kind /\ proc'[q].run = proc[q].run
                       /\ proc'[q].cfg = proc[q].cfg
                       /\ Awake(q)' => Awake(q)
                       /\ proc[q].pc # "off" => proc'[q].pc # "off"
                       /\ \A r \in Runs : WorksOn(q, r)' => WorksOn(q, r)
                       /\ proc'[q].pc = "lookup" =>
                            proc[q].pc = "lookup" \/ proc[q].kind = "pipeline"
                       /\ proc'[q].pc = "begin" =>
                            \/ proc'[q] = proc[q]
                            \/ proc[q].pc = "lookup" /\ proc'[q].found = Exists(proc[q].run)
  BY DEF Unseen, Carries, Awake, WorksOn
<1>3. \A r : Exists(r)' <=> Exists(r)
  BY <1>1 DEF Exists
<1>4. HistoryTyped'
  BY <1>1 DEF HInv, HistoryTyped
<1>5. Origin'
  <2>1. \A r \in Runs : fresh[r] \subseteq Procs
    BY DEF HInv, Origin
  <2> QED
    BY <1>1, <1>2, <1>3, <2>1 DEF HInv, Origin
<1>6. Workers'
  BY <1>1, <1>2, <1>3 DEF HInv, Workers
<1>7. Failures'
  BY <1>1, <1>2 DEF HInv, HistoryTyped, Failures
<1> QED
  BY <1>4, <1>5, <1>6, <1>7

(* A process starts: with a configuration of its own, or the recorded one.  *)
Starts(p, r) ==
  /\ UNCHANGED <<run, modules, failed, users, shared>>
  /\ proc[p].pc = "off"
  /\ proc'[p].pc = "read" /\ proc'[p].run = r
  /\ \A q \in Procs \ {p} : proc'[q] = proc[q]
  /\ \/ proc'[p].kind = "post" /\ fresh' = fresh
     \/ Exists(r) /\ proc'[p].cfg = run[r].cfg /\ fresh' = fresh
     \/ fresh' = [fresh EXCEPT ![r] = @ \cup {p}]

LEMMA StartIs ==
  ASSUME Typed, NEW p \in Procs, NEW r \in Runs,
         \/ \E c \in Configs, named \in BOOLEAN : Launch(p, r, c, named)
         \/ Postprocess(p, r)
  PROVE  Starts(p, r)
<1> USE DEF registryVars, runHistory
<1>1. CASE Postprocess(p, r)
  BY <1>1 DEF Postprocess, Starts, Typed, Idle
<1>2. ASSUME NEW c \in Configs, NEW named \in BOOLEAN, Launch(p, r, c, named)
      PROVE  Starts(p, r)
  <2> DEFINE g == IF named THEN Reload(r, c) ELSE c
  <2>1. /\ UNCHANGED <<run, modules, failed, users, shared>>
        /\ proc[p].pc = "off"
        /\ \/ named /\ Exists(r) /\ fresh' = fresh
           \/ fresh' = [fresh EXCEPT ![r] = @ \cup {p}]
    BY <1>2 DEF Launch
  <2>2. named /\ Exists(r) => g = run[r].cfg
    BY DEF Reload
  <2>3. proc' = [proc EXCEPT ![p] = [Idle EXCEPT !.pc = "read", !.kind = "pipeline",
                                                 !.run = r, !.cfg = g]]
    BY <1>2 DEF Launch
  <2> HIDE DEF g
  <2>4. /\ proc'[p].pc = "read" /\ proc'[p].run = r /\ proc'[p].cfg = g
        /\ \A q \in Procs \ {p} : proc'[q] = proc[q]
    BY <2>3 DEF Typed, Idle
  <2> QED
    BY <2>1, <2>2, <2>4, Zenon DEF Starts
<1> QED
  BY <1>1, <1>2

LEMMA StartKeeps ==
  ASSUME HInv, NEW p \in Procs, NEW r \in Runs, Starts(p, r)
  PROVE  HistoryTyped' /\ Origin' /\ Workers' /\ Failures'
<1>1. /\ run' = run /\ modules' = modules /\ failed' = failed
      /\ users' = users /\ shared' = shared
      /\ fresh' = fresh \/ fresh' = [fresh EXCEPT ![r] = @ \cup {p}]
  BY DEF Starts
<1>2. /\ proc[p].pc = "off" /\ proc'[p].pc = "read" /\ proc'[p].run = r
      /\ \A q \in Procs \ {p} : proc'[q] = proc[q]
  BY DEF Starts
<1>3. \A s : Exists(s)' <=> Exists(s)
  BY <1>1 DEF Exists
<1>4. \A s \in Runs : p \notin fresh[s] /\ p \notin users[s] /\ fresh[s] \subseteq Procs
  BY <1>2 DEF HInv, Origin, Failures
<1>5. \A s \in Runs : fresh'[s] = fresh[s] \/ (s = r /\ fresh'[s] = fresh[s] \cup {p})
  BY <1>1 DEF HInv, HistoryTyped
<1>6. HistoryTyped'
  BY <1>1 DEF HInv, HistoryTyped
<1>7. Origin'
  <2>1. \A s \in Runs : fresh'[s] \subseteq Procs /\ IsFiniteSet(fresh'[s])
    BY <1>4, <1>5, FS_AddElement DEF HInv, Origin
  <2>2. \A s \in Runs : \A q \in fresh'[s] : proc'[q].pc # "off"
    BY <1>2, <1>4, <1>5 DEF HInv, Origin
  <2>3. \A s \in Runs : Exists(s)' => \E q \in fresh'[s] : proc'[q].cfg = run'[s].cfg
    <3>1. ASSUME NEW s \in Runs, Exists(s)
          PROVE  \E q \in fresh'[s] : proc'[q].cfg = run[s].cfg
      <4>1. PICK q \in fresh[s] : proc[q].cfg = run[s].cfg
        BY <3>1 DEF HInv, Origin
      <4>2. q # p /\ q \in Procs /\ q \in fresh'[s]
        BY <1>4, <1>5, <4>1
      <4> QED
        BY <1>2, <4>1, <4>2
    <3> QED
      BY <1>1, <1>3, <3>1
  <2>4. \A q \in Procs : Awake(q)' => proc'[q].run \in Runs
    BY <1>2 DEF HInv, Origin, Awake
  <2>5. ASSUME NEW q \in Procs, NEW s \in Runs,
               Awake(q)', proc'[q].kind = "pipeline", proc'[q].run = s
        PROVE  q \in fresh'[s] \/ (Exists(s)' /\ proc'[q].cfg = run'[s].cfg)
    <3>1. CASE q = p
      <4>1. \/ Exists(r) /\ proc'[p].cfg = run[r].cfg
            \/ fresh' = [fresh EXCEPT ![r] = @ \cup {p}]
        BY <2>5, <3>1, Zenon DEF Starts
      <4>2. fresh' = [fresh EXCEPT ![r] = @ \cup {p}] => p \in fresh'[r]
        BY DEF HInv, HistoryTyped
      <4>3. s = r
        BY <1>2, <2>5, <3>1
      <4>4. CASE fresh' = fresh
        BY <1>1, <1>3, <3>1, <4>1, <4>2, <4>3, <4>4
      <4> QED
        BY <1>1, <3>1, <4>2, <4>3, <4>4
    <3>2. CASE q # p
      <4>1. proc'[q] = proc[q] /\ Awake(q) /\ proc[q].run \in Runs
        BY <1>2, <2>5, <3>2 DEF Awake, HInv, Origin
      <4> QED
        BY <1>1, <1>3, <1>5, <2>5, <4>1 DEF HInv, Origin
    <3> QED
      BY <3>1, <3>2
  <2> QED
    BY <2>1, <2>2, <2>3, <2>4, <2>5 DEF Origin
<1>8. Workers'
  <2>1. \A q \in Procs, s \in Runs : WorksOn(q, s)' => WorksOn(q, s)
    BY <1>2 DEF WorksOn, Work
  <2>2. \A q \in Procs : proc'[q].pc \in {"lookup", "begin"} => proc'[q] = proc[q]
    BY <1>2
  <2> QED
    BY <1>1, <1>3, <2>1, <2>2 DEF HInv, Workers
<1>9. Failures'
  <2>1. p \notin failed
    BY <1>4 DEF HInv, Failures
  <2>2. \A s \in Runs : \A q \in users[s] : proc'[q] = proc[q]
    BY <1>2, <1>4 DEF HInv, HistoryTyped
  <2>3. \A q \in failed : proc'[q] = proc[q]
    BY <1>2, <2>1 DEF HInv, HistoryTyped
  <2> QED
    BY <1>1, <2>2, <2>3 DEF HInv, Failures
<1> QED
  BY <1>6, <1>7, <1>8, <1>9

(* A process joins the run it was started for.                              *)
Joins(p, r) ==
  /\ UNCHANGED <<modules, failed, fresh>>
  /\ Carries(p) /\ proc[p].pc = "begin" /\ proc'[p].pc = "idle"
  /\ users' = [users EXCEPT ![r] = @ \cup {p}]
  /\ \/ /\ Exists(r) /\ run' = [run EXCEPT ![r].status = "running"]
        /\ shared' = IF \E q \in Procs \ {p} : WorksOn(q, r) THEN shared \cup {r} ELSE shared
     \/ /\ ~Exists(r) /\ run' = [run EXCEPT ![r] = [status |-> "running", cfg |-> proc[p].cfg]]
        /\ shared' = shared

LEMMA BeginIs ==
  ASSUME HInv, NEW p \in Procs, ResumeRun(p) \/ BeginRun(p)
  PROVE  Joins(p, proc[p].run) \/ Unseen(p)
<1> USE DEF registryVars, runHistory
<1>1. proc[p].pc = "begin" /\ Awake(p) /\ Typed
  BY DEF ResumeRun, BeginRun, Awake, HInv
<1>2. ASSUME Goto(p, "idle") PROVE Carries(p) /\ proc'[p].pc = "idle"
  BY <1>1, <1>2, GotoCarries DEF Places, Work
<1>3. CASE ResumeRun(p)
  <2>1. Exists(proc[p].run)
    BY <1>3 DEF ResumeRun, HInv, Workers
  <2> QED
    BY <1>1, <1>2, <1>3, <2>1 DEF ResumeRun, Joins
<1>4. CASE BeginRun(p)
  <2>1. CASE Exists(proc[p].run)
    <3>1. Goto(p, "gone") /\ UNCHANGED <<run, modules, failed, runHistory>>
      BY <1>4, <2>1 DEF BeginRun
    <3> QED
      BY <1>1, <3>1, GotoCarries DEF Unseen, Places, Work
  <2>2. CASE ~Exists(proc[p].run)
    BY <1>1, <1>2, <1>4, <2>2 DEF BeginRun, Joins
  <2> QED
    BY <2>1, <2>2
<1> QED
  BY <1>3, <1>4

LEMMA JoinKeeps ==
  ASSUME HInv, NEW p \in Procs, NEW r \in Runs, r = proc[p].run, Joins(p, r)
  PROVE  HistoryTyped' /\ Origin' /\ Workers' /\ Failures'
<1>1. /\ modules' = modules /\ failed' = failed /\ fresh' = fresh
      /\ proc[p].pc = "begin" /\ proc'[p].pc = "idle"
      /\ proc'[p].kind = proc[p].kind /\ proc'[p].run = r /\ proc'[p].cfg = proc[p].cfg
      /\ \A q \in Procs \ {p} : proc'[q] = proc[q]
  BY DEF Joins, Carries
<1>2. \A s \in Runs : users'[s] = IF s = r THEN users[s] \cup {p} ELSE users[s]
  BY DEF Joins, HInv, HistoryTyped
<1>3. /\ run'[r].status = "running" /\ \A s \in Runs \ {r} : run'[s] = run[s]
      /\ IF Exists(r) THEN run'[r].cfg = run[r].cfg ELSE run'[r].cfg = proc[p].cfg
  <2>1. run \in [Runs -> RunRow]
    BY DEF HInv, Typed
  <2>2. CASE Exists(r)
    <3>1. run' = [run EXCEPT ![r].status = "running"]
      BY <2>2 DEF Joins
    <3> QED
      BY <2>1, <2>2, <3>1 DEF RunRow
  <2>3. CASE ~Exists(r)
    <3>1. run' = [run EXCEPT ![r] = [status |-> "running", cfg |-> proc[p].cfg]]
      BY <2>3 DEF Joins
    <3> QED
      BY <2>1, <2>3, <3>1
  <2> QED
    BY <2>2, <2>3
<1>4. \A s \in Runs : Exists(s) => Exists(s)'
  BY <1>3 DEF Exists, NoRun
<1>5. Exists(r)' /\ \A s \in Runs \ {r} : Exists(s)' <=> Exists(s)
  BY <1>3 DEF Exists, NoRun
<1>6. /\ shared' = shared \/ shared' = shared \cup {r}
      /\ \A q \in Procs \ {p} : WorksOn(q, r) => r \in shared'
  <2>1. CASE Exists(r)
    BY <2>1 DEF Joins
  <2>2. CASE ~Exists(r)
    BY <2>2 DEF Joins, HInv, Workers
  <2> QED
    BY <2>1, <2>2
<1>7. \A q \in Procs : /\ proc'[q].kind = proc[q].kind /\ proc'[q].run = proc[q].run
                       /\ proc'[q].cfg = proc[q].cfg
                       /\ Awake(q)' => Awake(q)
                       /\ proc'[q].pc = "off" => proc[q].pc = "off"
                       /\ proc'[q].pc \in {"lookup", "begin"} => proc'[q] = proc[q]
                       /\ \A s \in Runs : WorksOn(q, s)' => WorksOn(q, s) \/ (q = p /\ s = r)
  BY <1>1 DEF Awake, WorksOn
<1>8. HistoryTyped'
  BY <1>1, <1>2, <1>6 DEF HInv, HistoryTyped, Joins
<1>9. Origin'
  <2>1. \A s \in Runs : fresh[s] \subseteq Procs
    BY DEF HInv, Origin
  <2>2. \A q \in Procs, s \in Runs :
          Awake(q)' /\ proc'[q].kind = "pipeline" /\ proc'[q].run = s =>
            q \in fresh[s] \/ (Exists(s) /\ proc[q].cfg = run[s].cfg)
    BY <1>7 DEF HInv, Origin
  <2>3. \A s \in Runs : Exists(s)' => \E q \in fresh[s] : proc[q].cfg = run'[s].cfg
    <3>1. ASSUME ~Exists(r) PROVE p \in fresh[r]
      <4>1. Awake(p) /\ proc[p].kind = "pipeline"
        BY <1>1 DEF Awake, HInv, Workers
      <4> QED
        BY <3>1, <4>1 DEF HInv, Origin
    <3>2. CASE Exists(r)
      BY <1>3, <1>5, <3>2 DEF HInv, Origin
    <3>3. CASE ~Exists(r)
      BY <1>3, <1>5, <3>1, <3>3 DEF HInv, Origin
    <3> QED
      BY <3>2, <3>3
  <2>4. \A s \in Runs : Exists(s) => run'[s].cfg = run[s].cfg
    BY <1>3
  <2> QED
    BY <1>1, <1>4, <1>7, <2>1, <2>2, <2>3, <2>4 DEF HInv, Origin
<1>10. Workers'
  <2>1. \A q \in Procs, s \in Runs : WorksOn(q, s)' =>
          /\ Exists(s)' /\ q \in users'[s]
          /\ run'[s].status = "running" \/ s \in shared'
    <3>1. ASSUME NEW q \in Procs, NEW s \in Runs, WorksOn(q, s)'
          PROVE  Exists(s)' /\ q \in users'[s]
      <4>1. CASE q = p
        <5>1. s = r
          BY <1>1, <3>1, <4>1 DEF WorksOn
        <5> QED
          BY <1>2, <1>5, <4>1, <5>1
      <4>2. CASE q # p
        <5>1. WorksOn(q, s)
          BY <1>1, <3>1, <4>2 DEF WorksOn
        <5>2. Exists(s) /\ q \in users[s]
          BY <5>1 DEF HInv, Workers
        <5> QED
          BY <1>2, <1>4, <5>2
      <4> QED
        BY <4>1, <4>2
    <3>2. ASSUME NEW q \in Procs, NEW s \in Runs \ {r}, WorksOn(q, s)'
          PROVE  run'[s].status = "running" \/ s \in shared'
      <4>1. WorksOn(q, s) /\ run'[s] = run[s]
        BY <1>3, <1>7, <3>2
      <4> QED
        BY <1>6, <4>1 DEF HInv, Workers
    <3> QED
      BY <1>3, <3>1, <3>2
  <2>2. \A q, o \in Procs, s \in Runs :
          q # o /\ WorksOn(q, s)' /\ WorksOn(o, s)' => s \in shared'
    BY <1>6, <1>7 DEF HInv, Workers
  <2>3. \A q \in Procs : proc[q].pc = "begin" /\ proc'[q] = proc[q] => proc[q].run \in Runs
    BY DEF HInv, Origin, Awake
  <2> QED
    BY <1>4, <1>7, <2>1, <2>2, <2>3 DEF HInv, Workers
<1>11. Failures'
  <2>1. \A s \in Runs : users[s] \subseteq Procs
    BY DEF HInv, HistoryTyped
  <2>2. p \in failed => p \in users[r]
    BY DEF HInv, Failures
  <2>3. \A q \in failed : users'[r] = {q} => users[r] = {q}
    BY <1>2, <2>2
  <2>4. failed \subseteq Procs
    BY DEF HInv, HistoryTyped
  <2>5. \A s \in Runs : \A q \in users'[s] : proc'[q].pc # "off" /\ proc'[q].run = s
    <3>0. \A s \in Runs : \A q \in users[s] : proc[q].pc # "off" /\ proc[q].run = s
      BY DEF HInv, Failures
    <3>1. ASSUME NEW s \in Runs, NEW q \in users'[s]
          PROVE  proc'[q].pc # "off" /\ proc'[q].run = s
      <4>1. CASE q \in users[s]
        BY <1>7, <2>1, <3>0, <4>1
      <4>2. CASE q \notin users[s]
        <5>1. s = r /\ q = p
          BY <1>2, <3>1, <4>2
        <5> QED
          BY <1>1, <5>1
      <4> QED
        BY <4>1, <4>2
    <3> QED
      BY <3>1
  <2>6. \A q \in failed : proc'[q].run \in Runs /\ q \in users'[proc'[q].run]
    <3>1. ASSUME NEW q \in failed
          PROVE  proc'[q].run \in Runs /\ q \in users'[proc'[q].run]
      <4>1. proc[q].run \in Runs /\ q \in users[proc[q].run] /\ q \in Procs
        BY <2>4 DEF HInv, Failures
      <4>2. proc'[q].run = proc[q].run
        BY <1>7, <4>1
      <4> QED
        BY <1>2, <4>1, <4>2
    <3> QED
      BY <3>1
  <2>7. \A s \in Runs : \A q \in failed : users'[s] = {q} => modules[s] = "failed"
    BY <1>2, <2>3 DEF HInv, Failures
  <2> QED
    BY <1>1, <2>5, <2>6, <2>7 DEF Failures
<1> QED
  BY <1>8, <1>9, <1>10, <1>11

(* A scan is recorded.                                                      *)
LEMMA RecordKeeps ==
  ASSUME HInv, NEW p \in Procs, NEW error \in BOOLEAN, RecordModules(p, error)
  PROVE  HistoryTyped' /\ Origin' /\ Workers' /\ Failures'
<1> USE DEF runHistory
<1> DEFINE r == proc[p].run
<1>1. /\ run' = run /\ proc' = proc /\ fresh' = fresh /\ users' = users /\ shared' = shared
      /\ failed' = IF error THEN failed \cup {p} ELSE failed
      /\ modules' = [modules EXCEPT ![r] = ModuleStatus(p, error)]
  BY DEF RecordModules
<1>2. WorksOn(p, r) /\ r \in Runs
  BY DEF RecordModules, WorksOn, Work, HInv, Origin, Awake
<1>3. p \in users[r]
  BY <1>2 DEF HInv, Workers
<1>4. ModuleStatus(p, error) \in {"completed", "failed"}
  BY DEF ModuleStatus
<1>5. HistoryTyped'
  BY <1>1, <1>4 DEF HInv, HistoryTyped
<1>6. Origin'
  BY <1>1 DEF HInv, Origin, Exists, Awake
<1>7. Workers'
  BY <1>1 DEF HInv, Workers, Exists, WorksOn
<1> HIDE DEF r
<1>8. Failures'
  <2>1. \A q \in failed' : q \in failed \/ q = p
    BY <1>1
  <2>2. \A q \in failed' : proc[q].run \in Runs /\ q \in users[proc[q].run]
    BY <1>2, <1>3, <2>1 DEF HInv, Failures, r
  <2>3. ASSUME NEW s \in Runs, NEW q \in failed', users[s] = {q}
        PROVE  modules'[s] = "failed"
    <3>1. CASE s = r
      <4>1. q = p
        BY <1>3, <2>3, <3>1
      <4>2. ModuleStatus(p, error) = "failed"
        BY <1>1, <2>3, <4>1 DEF ModuleStatus
      <4> QED
        BY <1>1, <3>1, <4>2 DEF HInv, HistoryTyped
    <3>2. CASE s # r
      <4>1. modules'[s] = modules[s]
        BY <1>1, <3>2 DEF HInv, HistoryTyped
      <4>2. q # p
        BY <2>3, <3>2 DEF HInv, Failures, r
      <4> QED
        BY <2>1, <2>3, <4>1, <4>2 DEF HInv, Failures
    <3> QED
      BY <3>1, <3>2
  <2> QED
    BY <1>1, <2>2, <2>3 DEF HInv, Failures
<1> QED
  BY <1>5, <1>6, <1>7, <1>8

(* A process finalizes its run.                                             *)
LEMMA FinalizeKeeps ==
  ASSUME HInv, NEW p \in Procs, NEW status \in {"completed", "cancelled"}, Finalize(p, status)
  PROVE  HistoryTyped' /\ Origin' /\ Workers' /\ Failures'
<1> USE DEF runHistory, openVars, collectionVars
<1> DEFINE r == proc[p].run
<1>1. /\ modules' = modules /\ failed' = failed
      /\ fresh' = fresh /\ users' = users /\ shared' = shared
      /\ run' = run \/ (/\ run[r].status = "running"
                        /\ run' = [run EXCEPT ![r].status = status])
  BY DEF Finalize
<1>2. WorksOn(p, r) /\ r \in Runs /\ Awake(p) /\ Goto(p, "gone")
  BY DEF Finalize, WorksOn, Work, HInv, Origin, Awake
<1>3. Carries(p) /\ proc'[p].pc = "gone"
  BY <1>2, GotoCarries DEF HInv, Places, Work
<1>4. \A q \in Procs : /\ proc'[q].kind = proc[q].kind /\ proc'[q].run = proc[q].run
                       /\ proc'[q].cfg = proc[q].cfg
                       /\ Awake(q)' => Awake(q)
                       /\ proc'[q].pc = "off" => proc[q].pc = "off"
                       /\ proc'[q].pc \in {"lookup", "begin"} => proc'[q] = proc[q]
                       /\ \A s \in Runs : WorksOn(q, s)' => WorksOn(q, s) /\ q # p
  BY <1>3 DEF Carries, Awake, WorksOn, Work
<1>5. \A s \in Runs : run'[s].cfg = run[s].cfg /\ (s # r => run'[s] = run[s])
  BY <1>1 DEF HInv, Typed, RunRow
<1>6. \A s \in Runs : Exists(s)' <=> Exists(s)
  <2>1. CASE run' = run
    BY <2>1 DEF Exists
  <2>2. CASE run[r].status = "running" /\ run' = [run EXCEPT ![r].status = status]
    <3>1. run'[r].status = status /\ \A s \in Runs \ {r} : run'[s] = run[s]
      BY <1>2, <2>2 DEF HInv, Typed, RunRow
    <3> QED
      BY <2>2, <3>1 DEF Exists, NoRun
  <2> QED
    BY <1>1, <2>1, <2>2
<1>7. HistoryTyped'
  BY <1>1 DEF HInv, HistoryTyped
<1> HIDE DEF r
<1>8. Origin'
  <2>1. \A s \in Runs : fresh[s] \subseteq Procs
    BY DEF HInv, Origin
  <2> QED
    BY <1>1, <1>4, <1>5, <1>6, <2>1 DEF HInv, Origin
<1>9. Workers'
  <2>1. ASSUME NEW q \in Procs, NEW s \in Runs, WorksOn(q, s)'
        PROVE  run'[s].status = "running" \/ s \in shared
    <3>1. WorksOn(q, s) /\ q # p
      BY <1>4, <2>1
    <3>2. CASE s = r
      BY <1>2, <3>1, <3>2 DEF HInv, Workers
    <3>3. CASE s # r
      BY <1>5, <3>1, <3>3 DEF HInv, Workers
    <3> QED
      BY <3>2, <3>3
  <2>2. \A q \in Procs : proc[q].pc = "begin" /\ proc'[q] = proc[q] => proc[q].run \in Runs
    BY DEF HInv, Origin, Awake
  <2> QED
    BY <1>1, <1>4, <1>6, <2>1, <2>2 DEF HInv, Workers
<1>10. Failures'
  <2>1. \A s \in Runs : users[s] \subseteq Procs
    BY DEF HInv, HistoryTyped
  <2>2. failed \subseteq Procs
    BY DEF HInv, HistoryTyped
  <2> QED
    BY <1>1, <1>4, <2>1, <2>2 DEF HInv, Failures
<1> QED
  BY <1>7, <1>8, <1>9, <1>10

LEMMA HInvNext == HInv /\ [Next]_vars => HInv'
<1> SUFFICES ASSUME HInv, [Next]_vars PROVE HInv'
  OBVIOUS
<1>1. Typed'
  BY TypedNext DEF HInv
<1>2. ASSUME NEW p \in Procs, Start(p) \/ Open(p) \/ Begin(p) \/ Write(p) \/ Record(p)
                              \/ Dies(p) \/ StepRaises(p)
      PROVE  HistoryTyped' /\ Origin' /\ Workers' /\ Failures'
  <2>0. Typed
    BY DEF HInv
  <2>1. CASE Start(p)
    BY <2>0, <2>1, StartIs, StartKeeps DEF Start
  <2>2. CASE ResumeRun(p) \/ BeginRun(p)
    <3>1. proc[p].run \in Runs
      BY <2>2 DEF ResumeRun, BeginRun, HInv, Origin, Awake
    <3> QED
      BY <2>2, <3>1, BeginIs, JoinKeeps, UnseenKeeps
  <2>3. ASSUME NEW error \in BOOLEAN, RecordModules(p, error)
        PROVE  HistoryTyped' /\ Origin' /\ Workers' /\ Failures'
    BY <2>3, RecordKeeps
  <2>4. ASSUME NEW status \in {"completed", "cancelled"}, Finalize(p, status)
        PROVE  HistoryTyped' /\ Origin' /\ Workers' /\ Failures'
    BY <2>4, FinalizeKeeps
  <2>5. CASE \/ Open(p) \/ Lookup(p) \/ Write(p) \/ FlushRaises(p) \/ PostDone(p)
             \/ Dies(p) \/ StepRaises(p)
    BY <2>0, <2>5, UnseenIs, UnseenKeeps
  <2> QED
    BY <1>2, <2>1, <2>2, <2>3, <2>4, <2>5 DEF Begin, Record
<1>3. CASE UNCHANGED vars
  BY <1>1, <1>3 DEF HInv, HistoryTyped, Origin, Workers, Failures, Exists, Awake, WorksOn,
                    vars, registryVars, runHistory
<1> QED
  BY <1>1, <1>2, <1>3 DEF Next, HInv

(* For any number of processes, runs and faults, the registry tells the     *)
(* truth about a run: the configuration of the processes on it, that it is  *)
(* running while one works, and a module's failure, but for the cases in    *)
(* which two processes brought a configuration for, or worked on, one run.  *)
THEOREM RunRecordHonestHolds == Spec => []RunRecordHonest
<1>1. Spec => []HInv
  BY HInvInit, HInvNext, PTL DEF Spec
<1> QED
  BY <1>1, HInvHonest, PTL
===============================================================================
