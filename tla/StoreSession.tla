------------------------------ MODULE StoreSession ------------------------------
(***************************************************************************)
(* What a process does to a store as a whole: it opens a collection, which *)
(* compares the table declarations of products.db with their mirror in     *)
(* catalog.db; begins or continues a run in registry.db; writes tables,    *)
(* the first write of a table freezing its columns in both databases; and  *)
(* finalizes the run.                                                      *)
(*                                                                         *)
(* No transaction spans two databases, and a CREATE TABLE commits by       *)
(* itself: between two durable steps the process may die, a step may raise *)
(* (a locked database, a full disk), and another process may act: another  *)
(* pipeline, or adapt postprocess, which works on the latest run.          *)
(*                                                                         *)
(* A process is one life of one program.  Rows are abstracted to who wrote *)
(* a table with which columns; column types, keys and time stamps are left *)
(* out; a declaration is identified by the process that froze it, which    *)
(* stands for its frozen_at.                                               *)
(***************************************************************************)
EXTENDS Integers, Sequences, FiniteSets

CONSTANTS
    Procs,      \* process lives
    Runs,       \* run ids
    Configs,    \* configurations
    Modules,    \* modules that write tables
    TablesOf,   \* TablesOf[m]: what m writes; the tracker has several tables
    Columns,    \* the sets of columns a frame may have
    Nobody,     \* no process
    MaxFaults   \* bound: deaths and steps that raise

TableCount(m) == Len(TablesOf[m])

ASSUME SessionConstants ==
    /\ Nobody \notin Procs /\ MaxFaults \in Nat
    /\ DOMAIN TablesOf = Modules
    /\ \A m \in Modules :
         /\ TableCount(m) \in Nat \ {0}
         /\ \A i, j \in 1..TableCount(m) : TablesOf[m][i] = TablesOf[m][j] => i = j
    \* nobody but the tracker may name its tables: _TRACKSTORE_TABLES
    /\ \A m, n \in Modules : m # n /\ TableCount(m) > 1 =>
         \A i \in 1..TableCount(m), j \in 1..TableCount(n) :
             TablesOf[m][i] # TablesOf[n][j]

VARIABLES
    \* ---- collections/<id>/ ----
    script,     \* catalog.db: absent, a file without its tables, or ready
    tables,     \* tables of products.db
    prod,       \* table_schemas in products.db
    cat,        \* table_schemas in catalog.db
    written,    \* who upserted which columns into a table
    \* ---- registry.db ----
    run,        \* runs: status and config_json
    modules,    \* run_modules.status of one module
    \* ---- processes ----
    proc,       \* where each process is
    failed,     \* StoreExecutionHistory._failed holds the module
    \* ---- history ----
    faults,     \* deaths and raises so far
    cut,        \* one of them fell between the steps of a freeze, or of catalog.db
    refused,    \* processes that Store.collection turned away
    overlapped, \* processes that opened while another one was mid-way
    fresh,      \* fresh[r]: processes that came with a configuration of their own
    users,      \* users[r]: processes that began or continued r
    shared      \* runs continued while another process was working on them

collectionVars == <<script, tables, prod, cat, written>>
registryVars == <<run, modules>>
openVars == <<refused, overlapped>>
runHistory == <<fresh, users, shared>>
vars == <<collectionVars, registryVars, proc, failed, faults, cut, openVars, runHistory>>

TablesIn(m) == {TablesOf[m][i] : i \in 1..TableCount(m)}
Tables == UNION {TablesIn(m) : m \in Modules}

Declaration == [by : Procs, owner : Modules, cols : Columns]
Absent == [by |-> Nobody, owner |-> "none", cols |-> {}]
Snapshots == [Tables -> Declaration \cup {Absent}]
Declared(snap, t) == snap[t] # Absent
NoTables == [t \in Tables |-> Absent]

NoRun == [status |-> "none", cfg |-> "none"]
Exists(r) == run[r] # NoRun

Work == {"idle", "create", "declare", "mirror"}
Places == {"off", "read", "compare", "catalog", "script", "lookup", "begin", "gone"} \cup Work
Idle == [pc |-> "off", kind |-> "none", run |-> "none", cfg |-> "none", seen |-> NoTables,
         found |-> FALSE, owner |-> "none", cols |-> {}, k |-> 0]

Process ==
    [pc : Places, kind : {"none", "pipeline", "post"}, run : Runs \cup {"none"},
     cfg : Configs \cup {"none"}, seen : Snapshots,
     found : BOOLEAN, owner : Modules \cup {"none"}, cols : Columns \cup {{}}, k : Nat]

TypeOK ==
    /\ script \in {"absent", "partial", "ready"}
    /\ tables \subseteq Tables
    /\ prod \in Snapshots /\ cat \in Snapshots
    /\ written \in [Tables -> SUBSET [owner : Modules, cols : Columns]]
    /\ run \in [Runs -> [status : {"running", "completed", "cancelled"}, cfg : Configs]
                        \cup {NoRun}]
    /\ modules \in [Runs -> {"none", "completed", "failed"}]
    /\ proc \in [Procs -> Process]
    /\ \A p \in Procs :
         /\ proc[p].pc \in Work \ {"idle"} =>
              /\ proc[p].owner \in Modules /\ proc[p].cols \in Columns
              /\ proc[p].k \in 1..TableCount(proc[p].owner)
         /\ proc[p].pc \in Work \cup {"lookup", "begin"} => script = "ready"
         /\ proc[p].pc \in Work => Exists(proc[p].run)
    /\ failed \subseteq Procs /\ faults \in 0..MaxFaults /\ cut \in BOOLEAN
    /\ refused \subseteq Procs /\ overlapped \subseteq Procs
    /\ fresh \in [Runs -> SUBSET Procs] /\ users \in [Runs -> SUBSET Procs]
    /\ shared \subseteq Runs

Init ==
    /\ script = "absent" /\ tables = {} /\ prod = NoTables /\ cat = NoTables
    /\ written = [t \in Tables |-> {}]
    /\ run = [r \in Runs |-> NoRun] /\ modules = [r \in Runs |-> "none"]
    /\ proc = [p \in Procs |-> Idle] /\ failed = {}
    /\ faults = 0 /\ cut = FALSE /\ refused = {} /\ overlapped = {}
    /\ fresh = [r \in Runs |-> {}] /\ users = [r \in Runs |-> {}] /\ shared = {}

Goto(p, pc) == proc' = [proc EXCEPT ![p].pc = pc]

\* p has begun r and is alive.
WorksOn(p, r) == proc[p].pc \in Work /\ proc[p].kind = "pipeline" /\ proc[p].run = r

(***************************************************************************)
(* Starting                                                                *)
(***************************************************************************)
\* Mutant: a run that is continued takes the configuration of the command line.
ReloadIgnored(r, c) == c

\* _load_run_config: the recorded configuration of an existing run.
Reload(r, c) == IF Exists(r) THEN run[r].cfg ELSE c

\* init_runtime_config: --run-id names a run and reuses its configuration if it
\* exists; without it the id is the minute and the radar, whoever had it.
Launch(p, r, c, named) ==
    /\ proc[p].pc = "off"
    /\ proc' = [proc EXCEPT ![p] =
           [Idle EXCEPT !.pc = "read", !.kind = "pipeline", !.run = r,
                        !.cfg = IF named THEN Reload(r, c) ELSE c]]
    /\ fresh' = IF named /\ Exists(r) THEN fresh ELSE [fresh EXCEPT ![r] = @ \cup {p}]
    /\ UNCHANGED <<collectionVars, registryVars, failed, faults, cut, openVars, users, shared>>

\* _open_store: adapt postprocess takes the latest run of the store.
Postprocess(p, r) ==
    /\ proc[p].pc = "off" /\ Exists(r)
    /\ proc' = [proc EXCEPT ![p] = [Idle EXCEPT !.pc = "read", !.kind = "post", !.run = r,
                                               !.cfg = run[r].cfg]]
    /\ UNCHANGED <<collectionVars, registryVars, failed, faults, cut, openVars, runHistory>>

(***************************************************************************)
(* Store.collection                                                        *)
(***************************************************************************)
\* Another process is between two durable steps.
MidWay(p) ==
    \E q \in Procs \ {p} : proc[q].pc = "script" \/ proc[q].pc = "mirror"

Opening == {p \in Procs : proc[p].pc = "compare"}

\* _snapshot_fingerprints of catalog.db: a file without its tables raises.
ReadCatalog(p) ==
    /\ proc[p].pc = "read"
    /\ overlapped' = IF MidWay(p) THEN overlapped \cup {p} ELSE overlapped
    /\ IF script = "partial"
       THEN Goto(p, "gone") /\ refused' = refused \cup {p}
       ELSE /\ proc' = [proc EXCEPT ![p].pc = "compare", ![p].seen = cat]
            /\ UNCHANGED refused
    /\ UNCHANGED <<collectionVars, registryVars, failed, faults, cut, runHistory>>

\* _snapshot_fingerprints of products.db, and the comparison.
Compare(p) ==
    /\ proc[p].pc = "compare"
    /\ IF proc[p].seen = prod
       THEN proc' = [proc EXCEPT ![p].pc = "catalog", ![p].seen = NoTables] /\ UNCHANGED refused
       ELSE Goto(p, "gone") /\ refused' = refused \cup {p}
    /\ UNCHANGED <<collectionVars, registryVars, failed, faults, cut, overlapped, runHistory>>

Opened(p) == IF proc[p].kind = "pipeline" THEN "lookup" ELSE "idle"

\* Catalog(collection_dir): the connection creates the file ...
CreateCatalog(p) ==
    /\ proc[p].pc = "catalog"
    /\ IF script = "ready" THEN Goto(p, Opened(p)) /\ UNCHANGED script
       ELSE Goto(p, "script") /\ script' = "partial"
    /\ UNCHANGED <<tables, prod, cat, written, registryVars, failed, faults, cut, openVars,
                   runHistory>>

\* ... and the script its tables.
RunScript(p) ==
    /\ proc[p].pc = "script"
    /\ script' = "ready"
    /\ Goto(p, Opened(p))
    /\ UNCHANGED <<tables, prod, cat, written, registryVars, failed, faults, cut, openVars,
                   runHistory>>

(***************************************************************************)
(* _record_run_start                                                       *)
(***************************************************************************)
Lookup(p) ==
    /\ proc[p].pc = "lookup"
    /\ proc' = [proc EXCEPT ![p].pc = "begin", ![p].found = Exists(proc[p].run)]
    /\ UNCHANGED <<collectionVars, registryVars, failed, faults, cut, openVars, runHistory>>

\* resume_run reopens any run, a live one included.
ResumeRun(p) ==
    LET r == proc[p].run IN
    /\ proc[p].pc = "begin" /\ proc[p].found
    /\ run' = [run EXCEPT ![r].status = "running"]
    /\ Goto(p, "idle")
    /\ users' = [users EXCEPT ![r] = @ \cup {p}]
    /\ shared' = IF \E q \in Procs \ {p} : WorksOn(q, r) THEN shared \cup {r} ELSE shared
    /\ UNCHANGED <<collectionVars, modules, failed, faults, cut, openVars, fresh>>

\* begin_run: an id that appeared meanwhile raises out of start().
BeginRun(p) ==
    LET r == proc[p].run IN
    /\ proc[p].pc = "begin" /\ ~proc[p].found
    /\ IF Exists(r)
       THEN Goto(p, "gone") /\ UNCHANGED <<run, users>>
       ELSE /\ run' = [run EXCEPT ![r] = [status |-> "running", cfg |-> proc[p].cfg]]
            /\ Goto(p, "idle")
            /\ users' = [users EXCEPT ![r] = @ \cup {p}]
    /\ UNCHANGED <<collectionVars, modules, failed, faults, cut, openVars, fresh, shared>>

(***************************************************************************)
(* Writing: TableWriter.write and TrackStore.write_scan                    *)
(***************************************************************************)
\* The table p is at.
At(p) == TablesOf[proc[p].owner][proc[p].k]
IsLast(p) == proc[p].k = TableCount(proc[p].owner)

\* The table whose columns come from the frame; those of the others are fixed.
Upsert(m, cols) ==
    written' = [written EXCEPT ![TablesOf[m][1]] = @ \cup {[owner |-> m, cols |-> cols]}]

\* Mutant: the owner is not compared.
ConformsAnyOwner(m, cols, decl) == cols \subseteq decl.cols

\* The owner is the same, and no column is new.
Conforms(m, cols, decl) == decl.owner = m /\ cols \subseteq decl.cols

\* A frame for a table that is frozen: written, or refused and the scan fails.
WriteFrozen(p, m, cols) ==
    LET decl == prod[TablesOf[m][1]] IN
    /\ proc[p].pc = "idle" /\ decl # Absent
    /\ Conforms(m, cols, decl)
    /\ Upsert(m, cols)
    /\ UNCHANGED <<script, tables, prod, cat, registryVars, proc, failed, faults, cut, openVars,
                   runHistory>>

\* The first frame: frozen() found nothing.
FirstFrame(p, m, cols) ==
    /\ proc[p].pc = "idle" /\ ~Declared(prod, TablesOf[m][1])
    /\ proc' = [proc EXCEPT ![p].pc = "create", ![p].owner = m, ![p].cols = cols, ![p].k = 1]
    /\ UNCHANGED <<collectionVars, registryVars, failed, faults, cut, openVars, runHistory>>

ScanFails(p) == proc' = [proc EXCEPT ![p].pc = "idle", ![p].owner = "none", ![p].cols = {},
                                     ![p].k = 0]

\* CREATE TABLE: one after the other, each committed; an existing one raises.
CreateTable(p) ==
    /\ proc[p].pc = "create"
    /\ IF At(p) \in tables
       THEN ScanFails(p) /\ UNCHANGED tables
       ELSE /\ tables' = tables \cup {At(p)}
            /\ proc' = IF IsLast(p) THEN [proc EXCEPT ![p].pc = "declare", ![p].k = 1]
                       ELSE [proc EXCEPT ![p].k = @ + 1]
    /\ UNCHANGED <<script, prod, cat, written, registryVars, failed, faults, cut, openVars,
                   runHistory>>

\* _snapshot_row: computed once for both databases.
Snapshot(p) == [by |-> p, owner |-> proc[p].owner, cols |-> proc[p].cols]

\* INSERT INTO table_schemas of products.db.
Declare(p) ==
    /\ proc[p].pc = "declare"
    /\ IF Declared(prod, At(p))
       THEN ScanFails(p) /\ UNCHANGED prod
       ELSE prod' = [prod EXCEPT ![At(p)] = Snapshot(p)] /\ Goto(p, "mirror")
    /\ overlapped' = overlapped \cup Opening
    /\ UNCHANGED <<script, tables, cat, written, registryVars, failed, faults, cut, refused,
                   runHistory>>

\* Mutant: one table short.
WasLastEarly(p) == proc[p].k >= TableCount(proc[p].owner) - 1

\* The loop over the declarations is at its end.
WasLast(p) == IsLast(p)

\* Mutant: the mirror is stamped with a time of its own.
MirroredLater(p) == [Snapshot(p) EXCEPT !.by = Nobody]
Mirrored(p) == Snapshot(p)

\* Catalog.register_table_schema; after the last table the rows are upserted.
Mirror(p) ==
    /\ proc[p].pc = "mirror"
    /\ cat' = [cat EXCEPT ![At(p)] = Mirrored(p)]
    /\ IF WasLast(p)
       THEN ScanFails(p) /\ Upsert(proc[p].owner, proc[p].cols)
       ELSE proc' = [proc EXCEPT ![p].pc = "declare", ![p].k = @ + 1] /\ UNCHANGED written
    /\ overlapped' = overlapped \cup Opening
    /\ UNCHANGED <<script, tables, prod, registryVars, failed, faults, cut, refused, runHistory>>

(***************************************************************************)
(* Execution history                                                       *)
(***************************************************************************)
\* _failed of this process.
ModuleStatus(p, error) == IF error \/ p \in failed THEN "failed" ELSE "completed"

\* record_modules after a scan.
RecordModules(p, error) ==
    /\ proc[p].pc = "idle" /\ proc[p].kind = "pipeline"
    /\ failed' = IF error THEN failed \cup {p} ELSE failed
    /\ modules' = [modules EXCEPT ![proc[p].run] = ModuleStatus(p, error)]
    /\ UNCHANGED <<collectionVars, run, proc, faults, cut, openVars, runHistory>>

\* finalize_run; a run finalized already raises, which is logged.
Finalize(p, status) ==
    LET r == proc[p].run IN
    /\ proc[p].pc = "idle" /\ proc[p].kind = "pipeline"
    /\ run' = IF run[r].status = "running" THEN [run EXCEPT ![r].status = status] ELSE run
    /\ Goto(p, "gone")
    /\ UNCHANGED <<collectionVars, modules, failed, faults, cut, openVars, runHistory>>

\* record_warnings or record_errors raises: finalize_run is not reached.
FlushRaises(p) ==
    /\ proc[p].pc = "idle" /\ proc[p].kind = "pipeline" /\ faults < MaxFaults
    /\ faults' = faults + 1
    /\ Goto(p, "gone")
    /\ UNCHANGED <<collectionVars, registryVars, failed, cut, openVars, runHistory>>

PostDone(p) ==
    /\ proc[p].pc = "idle" /\ proc[p].kind = "post"
    /\ Goto(p, "gone")
    /\ UNCHANGED <<collectionVars, registryVars, failed, faults, cut, openVars, runHistory>>

(***************************************************************************)
(* Faults                                                                  *)
(***************************************************************************)
\* Some of the steps of a freeze, or of catalog.db, are done and some are not.
InBetween(p) ==
    \/ proc[p].pc \in {"script", "mirror", "declare"}
    \/ proc[p].pc = "create" /\ proc[p].k > 1

Dies(p) ==
    /\ proc[p].pc \notin {"off", "gone"} /\ faults < MaxFaults
    /\ Goto(p, "gone")
    /\ faults' = faults + 1 /\ cut' = (cut \/ InBetween(p))
    /\ UNCHANGED <<collectionVars, registryVars, failed, openVars, runHistory>>

\* A step of a freeze raises: the scan fails and the process goes on.
StepRaises(p) ==
    /\ proc[p].pc \in Work \ {"idle"} /\ faults < MaxFaults
    /\ ScanFails(p)
    /\ faults' = faults + 1 /\ cut' = (cut \/ InBetween(p))
    /\ UNCHANGED <<collectionVars, registryVars, failed, openVars, runHistory>>

(***************************************************************************)
(* The specification                                                       *)
(***************************************************************************)
Start(p) ==
    \E r \in Runs : \/ \E c \in Configs, named \in BOOLEAN : Launch(p, r, c, named)
                    \/ Postprocess(p, r)
Open(p) == ReadCatalog(p) \/ Compare(p) \/ CreateCatalog(p) \/ RunScript(p)
Begin(p) == Lookup(p) \/ ResumeRun(p) \/ BeginRun(p)
Write(p) ==
    \/ \E m \in Modules, cols \in Columns : WriteFrozen(p, m, cols) \/ FirstFrame(p, m, cols)
    \/ CreateTable(p) \/ Declare(p) \/ Mirror(p)
Record(p) ==
    \/ \E error \in BOOLEAN : RecordModules(p, error)
    \/ \E status \in {"completed", "cancelled"} : Finalize(p, status)
    \/ FlushRaises(p) \/ PostDone(p)

Next == \E p \in Procs : Start(p) \/ Open(p) \/ Begin(p) \/ Write(p) \/ Record(p)
                         \/ Dies(p) \/ StepRaises(p)

Spec == Init /\ [][Next]_vars

(***************************************************************************)
(* Properties                                                              *)
(***************************************************************************)
\* Somebody alive is about to complete the declarations of table t.
BeingFrozen(t) == \E p \in Procs : InBetween(p) /\ proc[p].pc # "script"
                                   /\ t \in TablesIn(proc[p].owner)

\* The store stays usable, whoever opens and writes it at the same time, as
\* long as no death or raise falls inside a freeze: every table that exists is
\* declared, alike in both databases, or is just being frozen.  Once one did,
\* the next open may be refused for good, or every later freeze raise.
\* (products.py freeze, register_external; track_store.py _ensure_frozen;
\* store.py validate_collection)
UsableUnlessCut ==
    ~cut =>
      /\ \A t \in Tables : \/ t \in tables /\ Declared(prod, t) /\ prod[t] = cat[t]
                           \/ t \notin tables /\ ~Declared(prod, t) /\ ~Declared(cat, t)
                           \/ BeingFrozen(t)
      /\ script = "partial" => \E p \in Procs : proc[p].pc = "script"

\* A collection turns a process away only if a freeze was cut before, or if
\* another process was between two steps while this one was opening.
\* (store.py collection, validate_collection)
RefusedForReason == \A p \in refused : cut \/ p \in overlapped

\* No module writes into a table of another one, and no row has a column its
\* table does not have, even if two processes freeze the table at once.
\* (products.py TableWriter.write, freeze)
WritesConform ==
    \A t \in Tables : \A w \in written[t] :
        Declared(prod, t) /\ w.owner = prod[t].owner /\ w.cols \subseteq prod[t].cols

\* The registry tells the truth about a run: its configuration is that of every
\* process on it, unless two processes brought one for the same id; while one
\* works the run is running, unless two worked on it; and a module that failed
\* is recorded as failed, unless another process continued the run.
\* (orchestrator.py _record_run_start, store_registry.py, execution_history.py)
RunRecordHonest ==
    \A r \in Runs :
        /\ \A p \in Procs : WorksOn(p, r) =>
             /\ proc[p].cfg = run[r].cfg \/ Cardinality(fresh[r]) > 1
             /\ run[r].status = "running" \/ r \in shared
        /\ \A p \in failed : users[r] = {p} => modules[r] = "failed"
=============================================================================
