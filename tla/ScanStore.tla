------------------------------- MODULE ScanStore -------------------------------
(***************************************************************************)
(* The store of one collection: the objects directory, the catalog         *)
(* (catalog.db) and the product tables (products.db), as the two writing   *)
(* threads of a process fill them:                                         *)
(*                                                                         *)
(*   acq   the source thread in StoreAcquirer (runtime/acquire.py);        *)
(*   proc  the processor thread in process_file and StoreOutputRouter      *)
(*         (runtime/processor.py, persistence/output_router.py).           *)
(*                                                                         *)
(* Every step is one durable write: a rename into objects/, or one         *)
(* committed transaction of catalog.db or of products.db (the shared       *)
(* connection is locked for the length of a catalog method).  The process  *)
(* may end between any two of them, and a later process may resume the     *)
(* same run or start another one over the same raw volumes.                *)
(*                                                                         *)
(* An artifact_id is drawn when the object is published; ids are numbered  *)
(* in that order.  Two scans never share a nominal second here, one        *)
(* process at a time writes the collection, and a scan's bytes come from   *)
(* one source_uri.  Which scans are listed, and in which order they are    *)
(* retried, is the business of PipelineThreads: any scan not yet queued    *)
(* may be acquired next.                                                   *)
(***************************************************************************)
EXTENDS Integers, Sequences

CONSTANTS
  NScans,          (* scans that exist for the collection                    *)
  Quiet,           (* those of them that show no cell                        *)
  Runs,            (* run ids                                                *)
  NoRun,           (* no process is running                                  *)
  MaxStarts,       (* bound on processes started                             *)
  MaxFaults        (* bound on raised errors in one behaviour                *)

ASSUME ConstantsAssumption ==
  /\ NScans \in Nat \ {0}
  /\ Quiet \subseteq 1 .. NScans
  /\ NoRun \notin Runs
  /\ MaxStarts \in Nat
  /\ MaxFaults \in Nat

Scans == 1 .. NScans
Keys  == Runs \X Scans

ObjectProducts == {"gridded3d", "segmentation2d"}
TableProducts  == {"cell_stats", "tracking", "cell_volume_stats"}
Products       == ObjectProducts \union TableProducts

(* REQUIRED_SCAN_PRODUCTS *)
Required == {"gridded3d", "segmentation2d", "cell_stats"}

Kinds == {"single", "quiet", "cells"}

(* What the modules declare to persist, in the order the router writes it,   *)
(* by what the scan gave: nothing but the grid when the modules that need a  *)
(* pair were skipped, no table rows when no cell was found.  The auxiliary   *)
(* cell_adjacency table behaves as cell_volume_stats and is left out.        *)
Plan ==
  [single |-> <<"gridded3d">>,
   quiet  |-> <<"gridded3d", "segmentation2d">>,
   cells  |-> <<"gridded3d", "cell_stats", "segmentation2d", "tracking",
                "cell_volume_stats">>]

VARIABLES
  objects,         (* number of files published in objects/: ids 1..objects  *)
  artifacts,       (* rows of the artifacts table                            *)
  lineage,         (* <<child, parent>> rows of artifact_lineage             *)
  status,          (* the status column of scans, or "absent"                *)
  links,           (* rows of scan_products; artifact 0 stands for a table   *)
  rows,            (* the product tables that hold rows of a scan            *)
  me,              (* the run of the live process, or NoRun                  *)
  known,           (* scans this process has queued                          *)
  queue,           (* messages between the two threads                       *)
  acq, proc,       (* the two threads                                        *)
  primed           (* _scan_history is not empty                             *)

(* What the properties need to remember of the past; no action reads these. *)
VARIABLES
  cut,             (* scans in the processor's hands when a process ended    *)
  failedOnce,      (* scans whose processing raised                          *)
  starts, faults

disk     == <<objects, artifacts, lineage, status, links, rows>>
aux      == <<cut, failedOnce, starts, faults>>
vars     == <<disk, me, known, queue, acq, proc, primed, aux>>

Idle == [pc |-> "idle", scan |-> 1, id |-> 0]
Rest == [pc |-> "idle", scan |-> 1, id |-> 0, todo |-> <<>>]

Init ==
  /\ objects = 0 /\ artifacts = {} /\ lineage = {}
  /\ status = [k \in Keys |-> "absent"]
  /\ links = {} /\ rows = {}
  /\ me = NoRun /\ known = {} /\ queue = <<>>
  /\ acq = Idle /\ proc = Rest /\ primed = FALSE
  /\ cut = {} /\ failedOnce = {} /\ starts = 0 /\ faults = 0

Fault == faults < MaxFaults /\ faults' = faults + 1

NewId == objects + 1

(* commit: os.replace of the staged bytes. *)
Publish == objects' = NewId

-----------------------------------------------------------------------------
(***************************************************************************)
(* The process.                                                            *)
(***************************************************************************)

(* begin_run or resume_run: the threads start with nothing but the disk. *)
Start(r) ==
  /\ me = NoRun /\ starts < MaxStarts
  /\ me' = r /\ starts' = starts + 1
  /\ known' = {} /\ queue' = <<>> /\ acq' = Idle /\ proc' = Rest
  /\ primed' = FALSE
  /\ UNCHANGED <<disk, cut, failedOnce, faults>>

InFlight == <<me, proc.scan>>

(* An exit, a kill or a crash, wherever the daemon threads are. *)
ProcessEnds ==
  /\ me # NoRun
  /\ me' = NoRun
  /\ cut' = IF proc.pc = "idle" THEN cut ELSE cut \union {InFlight}
  /\ known' = {} /\ queue' = <<>> /\ acq' = Idle /\ proc' = Rest
  /\ primed' = FALSE
  /\ UNCHANGED <<disk, failedOnce, starts, faults>>

-----------------------------------------------------------------------------
(***************************************************************************)
(* Acquisition.                                                            *)
(***************************************************************************)

AcqFrame == UNCHANGED <<lineage, links, rows, me, proc, primed, cut, failedOnce, starts>>

(* find_artifact_by_scan(scan, "raw_volume"), find_by_source_uri: of any run. *)
RawOf(s) == {a \in artifacts : a.type = "raw_volume" /\ a.scan = s}

(* Mutant: the lookup is confined to the run, as find_artifact is. *)
AcquiredInRun(s) == \E a \in RawOf(s) : a.run = me

Acquired(s) == RawOf(s) # {}

(* acquire_existing, and acquire_file when the uri is cataloged. *)
AcqReuse(s) ==
  /\ me # NoRun /\ acq.pc = "idle" /\ s \notin known
  /\ Acquired(s)
  /\ acq' = [acq EXCEPT !.pc = "register", !.scan = s]
  /\ UNCHANGED <<objects, artifacts, status, known, queue, faults>>
  /\ AcqFrame

(* acquire_file: the bytes are staged and renamed into objects/. *)
AcqPublish(s) ==
  /\ me # NoRun /\ acq.pc = "idle" /\ s \notin known
  /\ ~Acquired(s)
  /\ Publish
  /\ acq' = [pc |-> "catalog", scan |-> s, id |-> NewId]
  /\ UNCHANGED <<artifacts, status, known, queue, faults>>
  /\ AcqFrame

AcqCatalog ==
  /\ acq.pc = "catalog"
  /\ artifacts' = artifacts \union
       {[id |-> acq.id, type |-> "raw_volume", run |-> me, scan |-> acq.scan]}
  /\ acq' = [acq EXCEPT !.pc = "register"]
  /\ UNCHANGED <<objects, status, known, queue, faults>>
  /\ AcqFrame

(* Mutant: the upsert resets the status of a scan that is registered again. *)
RegisteredAnew(k) == [status EXCEPT ![k] = "pending"]

(* register_scan: an upsert that leaves the status of a known scan alone. *)
Registered(k) == [status EXCEPT ![k] = IF @ = "absent" THEN "pending" ELSE @]

(* _register, then result_queue.put: both are lost or kept together, since   *)
(* the queue dies with the process.                                          *)
AcqRegister ==
  /\ acq.pc = "register"
  /\ status' = Registered(<<me, acq.scan>>)
  /\ queue' = Append(queue, acq.scan)
  /\ known' = known \union {acq.scan}
  /\ acq' = Idle
  /\ UNCHANGED <<objects, artifacts, faults>>
  /\ AcqFrame

(* Any write raises: the pass ends, and a later pass meets the scan again. *)
AcqRaises ==
  /\ acq.pc # "idle"
  /\ Fault
  /\ acq' = Idle
  /\ UNCHANGED <<objects, artifacts, status, known, queue>>
  /\ AcqFrame

AcqNext ==
  \/ \E s \in Scans : AcqReuse(s) \/ AcqPublish(s)
  \/ AcqCatalog \/ AcqRegister \/ AcqRaises

-----------------------------------------------------------------------------
(***************************************************************************)
(* Processing one scan.                                                    *)
(***************************************************************************)

ProcFrame == UNCHANGED <<me, known, acq, cut, starts>>

(* process_file: a scan the catalog holds complete for this run is skipped. *)
ProcSkip ==
  /\ proc.pc = "idle" /\ queue # <<>>
  /\ status[<<me, Head(queue)>>] = "complete"
  /\ queue' = Tail(queue)
  /\ UNCHANGED <<disk, proc, primed, failedOnce, faults>>
  /\ ProcFrame

ProcTake ==
  /\ proc.pc = "idle" /\ queue # <<>>
  /\ status[<<me, Head(queue)>>] # "complete"
  /\ queue' = Tail(queue)
  /\ proc' = [proc EXCEPT !.pc = "run", !.scan = Head(queue)]
  /\ UNCHANGED <<disk, primed, failedOnce, faults>>
  /\ ProcFrame

(* The modules that need a pair are skipped without a prior scan or after a  *)
(* long gap; how many cells there are is a function of the scan.             *)
KindsOf(s) ==
  {"single"} \union (IF primed THEN {IF s \in Quiet THEN "quiet" ELSE "cells"} ELSE {})

(* The executors run and the scan enters the history. *)
ProcRun ==
  /\ proc.pc = "run"
  /\ \E kind \in KindsOf(proc.scan) :
       proc' = [proc EXCEPT !.pc = "persist", !.todo = Plan[kind]]
  /\ primed' = TRUE
  /\ UNCHANGED <<disk, queue, failedOnce, faults>>
  /\ ProcFrame

Product == Head(proc.todo)

Persisting == proc.pc = "persist" /\ proc.todo # <<>>

(* _write_netcdf up to os.replace; a scan without a raw volume raises. *)
ProcPublish ==
  /\ Persisting /\ Product \in ObjectProducts
  /\ RawOf(proc.scan) # {}
  /\ Publish
  /\ proc' = [proc EXCEPT !.pc = "catalog", !.id = NewId]
  /\ UNCHANGED <<artifacts, lineage, status, links, rows, queue, primed,
                 failedOnce, faults>>
  /\ ProcFrame

(* Mutant: the row is linked without its lineage. *)
LineageLeftOut == "link"

(* commit: the lineage edges follow the row, the link follows the commit. *)
AfterRow == "lineage"

(* register_artifact *)
ProcCatalog ==
  /\ proc.pc = "catalog"
  /\ artifacts' = artifacts \union
       {[id |-> proc.id, type |-> Product, run |-> me, scan |-> proc.scan]}
  /\ proc' = [proc EXCEPT !.pc = AfterRow]
  /\ UNCHANGED <<objects, lineage, status, links, rows, queue, primed,
                 failedOnce, faults>>
  /\ ProcFrame

(* add_lineage to the scan's raw volume, of whichever run acquired it. *)
ProcLineage ==
  /\ proc.pc = "lineage"
  /\ \E raw \in RawOf(proc.scan) :
       /\ \A a \in RawOf(proc.scan) : a.id <= raw.id
       /\ lineage' = lineage \union {<<proc.id, raw.id>>}
  /\ proc' = [proc EXCEPT !.pc = "link"]
  /\ UNCHANGED <<objects, artifacts, status, links, rows, queue, primed,
                 failedOnce, faults>>
  /\ ProcFrame

(* TableWriter.write or TrackStore.write_scan: one products.db transaction. *)
ProcWriteRows ==
  /\ Persisting /\ Product \in TableProducts
  /\ rows' = rows \union {<<InFlight, Product>>}
  /\ proc' = [proc EXCEPT !.pc = "link", !.id = 0]
  /\ UNCHANGED <<objects, artifacts, lineage, status, links, queue, primed,
                 failedOnce, faults>>
  /\ ProcFrame

LinksOf(k) == {l \in links : l.key = k}

NewLink == [key |-> InFlight, product |-> Product, artifact |-> proc.id]

(* Mutant: a new link displaces the scan's other links. *)
RelinkedAlone == (links \ LinksOf(InFlight)) \union {NewLink}

(* Mutant: the first link of a product stays. *)
LinkedOnce ==
  links \union (IF \E l \in LinksOf(InFlight) : l.product = Product THEN {} ELSE {NewLink})

(* The upsert on (run_id, scan_id, product). *)
Relinked ==
  {l \in links : l.key # InFlight \/ l.product # Product} \union {NewLink}

(* link_scan_product: completeness is recomputed in the same transaction. *)
ProcLink ==
  /\ proc.pc = "link"
  /\ links' = Relinked
  /\ status' = [status EXCEPT ![InFlight] =
       IF Required \subseteq {l.product : l \in {x \in links' : x.key = InFlight}}
       THEN "complete" ELSE @]
  /\ proc' = [proc EXCEPT !.pc = "persist", !.todo = Tail(@)]
  /\ UNCHANGED <<objects, artifacts, lineage, rows, queue, primed, failedOnce,
                 faults>>
  /\ ProcFrame

(* Mutant: nothing more is written once the scan is complete. *)
AllWrittenOrComplete == proc.todo = <<>> \/ status[InFlight] = "complete"

AllWritten == proc.todo = <<>>

ProcDone ==
  /\ proc.pc = "persist" /\ AllWritten
  /\ proc' = Rest
  /\ UNCHANGED <<disk, queue, primed, failedOnce, faults>>
  /\ ProcFrame

(* A module or a write raises anywhere in _run_scan. *)
ProcFails ==
  /\ proc.pc \in {"run", "persist", "catalog", "lineage", "link"}
  /\ Fault
  /\ proc' = [proc EXCEPT !.pc = "failed"]
  /\ failedOnce' = failedOnce \union {InFlight}
  /\ UNCHANGED <<disk, queue, primed>>
  /\ ProcFrame

Marked == [status EXCEPT ![InFlight] = "failed"]

(* mark_scan_failed *)
ProcMarkFailed ==
  /\ proc.pc = "failed"
  /\ status' = Marked
  /\ proc' = Rest
  /\ UNCHANGED <<objects, artifacts, lineage, links, rows, queue, primed,
                 failedOnce, faults>>
  /\ ProcFrame

(* mark_scan_failed raises too, of the same outage: caught here or in        *)
(* _run_loop, and the scan keeps its status.                                 *)
ProcMarkRaises ==
  /\ proc.pc = "failed"
  /\ proc' = Rest
  /\ UNCHANGED <<disk, queue, primed, failedOnce, faults>>
  /\ ProcFrame

ProcNext ==
  \/ ProcSkip \/ ProcTake \/ ProcRun \/ ProcPublish \/ ProcCatalog \/ ProcLineage
  \/ ProcWriteRows \/ ProcLink \/ ProcDone \/ ProcFails \/ ProcMarkFailed
  \/ ProcMarkRaises

Next == (\E r \in Runs : Start(r)) \/ ProcessEnds \/ AcqNext \/ ProcNext

Spec == Init /\ [][Next]_vars

-----------------------------------------------------------------------------
(***************************************************************************)
(* Properties.                                                             *)
(***************************************************************************)

Ids == 1 .. objects

Artifact == [id : Ids, type : ObjectProducts \union {"raw_volume"},
             run : Runs, scan : Scans]

Link == [key : Keys, product : Products, artifact : Ids \union {0}]

AcqState == [pc : {"idle", "catalog", "register"}, scan : Scans, id : Ids \union {0}]

ProcState ==
  [pc : {"idle", "run", "persist", "catalog", "lineage", "link", "failed"},
   scan : Scans, id : Ids \union {0}, todo : Seq(Products)]

(* The types of the tables; a cataloged id names a published object.         *)
(* (objects.py commit publishes the bytes before it writes the row.)         *)
TypeOK ==
  /\ objects \in Nat
  /\ artifacts \subseteq Artifact
  /\ lineage \subseteq Ids \X Ids
  /\ status \in [Keys -> {"absent", "pending", "complete", "failed"}]
  /\ links \subseteq Link
  /\ rows \subseteq Keys \X TableProducts
  /\ me \in Runs \union {NoRun}
  /\ known \subseteq Scans /\ queue \in Seq(Scans)
  /\ acq \in AcqState /\ proc \in ProcState
  /\ primed \in BOOLEAN
  /\ cut \subseteq Keys /\ failedOnce \subseteq Keys
  /\ starts \in Nat /\ faults \in Nat

(* The object a link names is cataloged for that product of that scan and    *)
(* derives from a raw volume of the same scan.                               *)
ObjectBacked(l) ==
  \E a \in artifacts :
    /\ a.id = l.artifact /\ a.type = l.product
    /\ <<a.run, a.scan>> = l.key
    /\ \E raw \in RawOf(a.scan) : <<a.id, raw.id>> \in lineage

Backed(l) ==
  IF l.product \in ObjectProducts THEN ObjectBacked(l)
  ELSE l.artifact = 0 /\ <<l.key, l.product>> \in rows

(* Whenever a process dies, and whatever a re-run replaces, a product the    *)
(* catalog links can be opened and traced to its scan's raw volume           *)
(* (output_router.py _write_netcdf and _write_table link last).              *)
LinksBacked == \A l \in links : Backed(l)

(* A reader can open exactly the products that are linked and backed. *)
ReadableOf(k) == {l.product : l \in {x \in LinksOf(k) : Backed(x)}}

Readable == [k \in Keys |-> ReadableOf(k)]

(* A scan is complete only with its required products readable, and one that *)
(* has them is complete unless a failure was recorded since                  *)
(* (collection_catalog.sql: "complete only when all REQUIRED_SCAN_PRODUCTS   *)
(* are linked"; register_scan must not reset it when a run is resumed).      *)
CompleteExactly ==
  \A k \in Keys :
    /\ status[k] = "complete" => Required \subseteq ReadableOf(k)
    /\ Required \subseteq ReadableOf(k) => status[k] \in {"complete", "failed"}

(* One raw volume is cataloged per scan, whatever crashes between the rename *)
(* and the row, and however many runs read the scan (acquire.py: "once, at   *)
(* the source boundary").                                                    *)
OneRawPerScan ==
  \A a, b \in artifacts :
    a.type = "raw_volume" /\ b.type = "raw_volume" /\ a.scan = b.scan => a = b

BeingProcessed(k) == proc.pc # "idle" /\ k = InFlight

(* A complete scan nobody is working on has its tracks and its volume        *)
(* statistics too, unless a process ended or a write raised in the middle of *)
(* it: completeness is reached before they are written, and such a scan is   *)
(* never taken again (processor.py process_file).                            *)
TracksUnlessCut ==
  \A k \in Keys :
    status[k] = "complete" /\ ~BeingProcessed(k)
      => TableProducts \subseteq ReadableOf(k) \/ k \in cut \union failedOnce

(* open_scan_raster: the artifact created last, whatever the links say. *)
OpenedRaster(k, product) ==
  LET rasters == {a \in artifacts : a.type = product /\ <<a.run, a.scan>> = k}
  IN  {a \in rasters : \A b \in rasters : b.id <= a.id}

LinkNames(k, a) == \E l \in LinksOf(k) : l.product = a.type /\ l.artifact = a.id

(* The raster that a reader opens of a scan is the one the scan's link       *)
(* names, also if the scan was processed before without a pair and left      *)
(* rasters behind, unless it is being processed, or was cut or failed        *)
(* (store_client.py open_scan_raster; collection_catalog.py                  *)
(* link_scan_product).                                                       *)
RasterIsLinked ==
  \A k \in Keys, product \in ObjectProducts :
    \A a \in OpenedRaster(k, product) :
      LinkNames(k, a) \/ BeingProcessed(k) \/ k \in cut \union failedOnce

(* A process changes nothing a reader sees of another run's scans, though    *)
(* runs share raw volumes and tables.                                        *)
RunIsolation ==
  [][\A k \in Keys : k[1] # me =>
       status'[k] = status[k] /\ ReadableOf(k)' = ReadableOf(k)]_vars

Ledger == INSTANCE ScanLedger WITH phase <- status, readable <- Readable

(* The store keeps the promise of ScanLedger to its readers: products only   *)
(* accumulate, and a status changes only with a registration, a link or a    *)
(* recorded failure.                                                         *)
LedgerSpec == Ledger!Spec
===============================================================================
