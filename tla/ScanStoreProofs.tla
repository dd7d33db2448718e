---------------------------- MODULE ScanStoreProofs ----------------------------
(***************************************************************************)
(* Proofs about ScanStore, for any number of scans, runs, process starts   *)
(* and errors.                                                             *)
(*                                                                         *)
(* The tables only grow, so a backed link stays backed; what has to be     *)
(* carried through an interleaving is what each thread holds in its hands  *)
(* between two writes.  Owned, Registered, Staged and Fresh say that.      *)
(***************************************************************************)
EXTENDS ScanStore, TLAPS

(* Only a live process has anything in its threads or its queue. *)
Owned ==
  acq.pc # "idle" \/ proc.pc # "idle" \/ queue # <<>> => me \in Runs

(* Whatever is queued or in the processor's hands has its row in scans. *)
InHand ==
  /\ \A i \in 1 .. Len(queue) : status[<<me, queue[i]>>] # "absent"
  /\ proc.pc # "idle" => status[InFlight] # "absent"

Row == [id |-> proc.id, type |-> Product, run |-> me, scan |-> proc.scan]

(* What the processor has written of the product it is persisting. *)
Staged ==
  /\ proc.pc \in {"catalog", "lineage", "link"} => proc.todo # <<>>
  /\ proc.pc \in {"catalog", "lineage"} =>
       Product \in ObjectProducts /\ proc.id \in Ids
  /\ proc.pc = "lineage" => Row \in artifacts
  /\ proc.pc = "link" => Backed(NewLink)

(* The raw volume being published is the first of its scan. *)
Fresh ==
  acq.pc = "catalog" => RawOf(acq.scan) = {} /\ acq.id \in Ids

IInv ==
  /\ TypeOK /\ Owned /\ InHand /\ Staged /\ Fresh
  /\ LinksBacked /\ OneRawPerScan /\ CompleteExactly

-----------------------------------------------------------------------------
(* Every step starts or ends a process or is a step of one of its threads. *)
LEMMA StoreSteps ==
  [Next]_vars => (\E r \in Runs : Start(r)) \/ ProcessEnds \/ AcqNext \/ ProcNext
                 \/ UNCHANGED vars
  BY DEF Next

(* A source step leaves the processor and what it writes alone. *)
LEMMA AcqKeeps ==
  AcqNext => UNCHANGED <<lineage, links, rows, me, proc, primed, cut, failedOnce, starts>>
  BY DEF AcqNext, AcqFrame, AcqReuse, AcqPublish, AcqCatalog, AcqRegister, AcqRaises

(* A processor step leaves the source alone. *)
LEMMA ProcKeeps == ProcNext => UNCHANGED <<me, known, acq, cut, starts>>
  BY DEF ProcNext, ProcFrame, ProcSkip, ProcTake, ProcRun, ProcPublish, ProcCatalog,
         ProcLineage, ProcWriteRows, ProcLink, ProcDone, ProcFails, ProcMarkFailed,
         ProcMarkRaises

(* Every product planned for a scan is one of the products. *)
LEMMA PlanType == \A kind \in Kinds : Plan[kind] \in Seq(Products)
<1>1. /\ <<"gridded3d">> \in Seq(Products)
      /\ <<"gridded3d", "segmentation2d">> \in Seq(Products)
      /\ <<"gridded3d", "cell_stats", "segmentation2d", "tracking", "cell_volume_stats">>
           \in Seq(Products)
  BY DEF Products, ObjectProducts, TableProducts
<1>2. /\ Plan["single"] = <<"gridded3d">>
      /\ Plan["quiet"] = <<"gridded3d", "segmentation2d">>
      /\ Plan["cells"] = <<"gridded3d", "cell_stats", "segmentation2d", "tracking",
                           "cell_volume_stats">>
  BY DEF Plan
<1>3. QED
  BY <1>1, <1>2 DEF Kinds

(* The first element and the rest of a sequence that is not empty. *)
LEMMA HeadTail ==
  ASSUME NEW S, NEW q \in Seq(S), q # <<>>
  PROVE  Head(q) \in S /\ Tail(q) \in Seq(S)
  OBVIOUS

(* Published objects stay, and ids are never reused. *)
LEMMA ObjectsGrow == TypeOK /\ [Next]_vars => objects' \in Nat /\ objects <= objects'
<1> SUFFICES ASSUME TypeOK, [Next]_vars PROVE objects' \in Nat /\ objects <= objects'
  OBVIOUS
<1>1. objects' = objects \/ objects' = objects + 1
  BY DEF Next, Start, ProcessEnds, AcqNext, AcqReuse, AcqPublish, AcqCatalog, AcqRegister,
         AcqRaises, ProcNext, ProcSkip, ProcTake, ProcRun, ProcPublish, ProcCatalog,
         ProcLineage, ProcWriteRows, ProcLink, ProcDone, ProcFails, ProcMarkFailed,
         ProcMarkRaises, Publish, NewId, disk, vars
<1>2. QED
  BY <1>1 DEF TypeOK

(* What is typed stays typed when objects are added. *)
LEMMA TypesGrow ==
  TypeOK /\ [Next]_vars =>
    /\ Ids \subseteq Ids' /\ Artifact \subseteq Artifact' /\ Link \subseteq Link'
    /\ AcqState \subseteq AcqState' /\ ProcState \subseteq ProcState'
<1> SUFFICES ASSUME TypeOK, [Next]_vars
             PROVE  /\ Ids \subseteq Ids' /\ Artifact \subseteq Artifact' /\ Link \subseteq Link'
                    /\ AcqState \subseteq AcqState' /\ ProcState \subseteq ProcState'
  OBVIOUS
<1>1. Ids \subseteq Ids'
  BY ObjectsGrow DEF Ids, TypeOK
<1>2. Artifact \subseteq Artifact'
  BY <1>1 DEF Artifact
<1>3. Link \subseteq Link'
  BY <1>1 DEF Link
<1>4. AcqState \subseteq AcqState' /\ ProcState \subseteq ProcState'
  BY <1>1 DEF AcqState, ProcState
<1>5. QED
  BY <1>1, <1>2, <1>3, <1>4

(* A thread at rest is well typed. *)
LEMMA AtRest ==
  /\ Idle \in AcqState /\ Rest \in ProcState
  /\ Idle \in AcqState' /\ Rest \in ProcState'
<1>1. <<>> \in Seq(Products) /\ 1 \in Scans
  BY ConstantsAssumption DEF Scans
<1>2. QED
  BY <1>1 DEF Idle, Rest, AcqState, ProcState

(* Each step keeps the tables and the threads typed; a product in hand makes *)
(* the list of products it heads a non-empty one.                            *)
LEMMA TypeStep == TypeOK /\ Owned /\ Staged /\ Fresh /\ [Next]_vars => TypeOK'
<1> SUFFICES ASSUME TypeOK, Owned, Staged, Fresh, [Next]_vars PROVE TypeOK'
  OBVIOUS
<1> USE ConstantsAssumption
<1>0. /\ Ids \subseteq Ids' /\ Artifact \subseteq Artifact' /\ Link \subseteq Link'
      /\ AcqState \subseteq AcqState' /\ ProcState \subseteq ProcState' /\ objects' \in Nat
  BY ObjectsGrow, TypesGrow
<1>1. ASSUME NEW r \in Runs, Start(r) PROVE TypeOK'
  <2>1. primed' \in BOOLEAN /\ queue' \in Seq(Scans) /\ known' \subseteq Scans
    <3>1. primed' \in BOOLEAN
      BY <1>1, Zenon DEF Start
    <3>2. queue' \in Seq(Scans) /\ known' \subseteq Scans
      BY <1>1 DEF Start
    <3>3. QED
      BY <3>1, <3>2
  <2>2. acq' \in AcqState' /\ proc' \in ProcState'
    BY <1>1, AtRest DEF Start
  <2>3. UNCHANGED disk /\ me' \in Runs /\ starts' \in Nat /\ UNCHANGED <<cut, failedOnce, faults>>
    BY <1>1 DEF Start, TypeOK
  <2>4. QED
    BY <1>0, <2>1, <2>2, <2>3 DEF TypeOK, disk
<1>2. CASE ProcessEnds
  <2>1. proc.pc # "idle" => InFlight \in Keys
    BY <1>2 DEF ProcessEnds, InFlight, Keys, TypeOK, Owned, ProcState
  <2>2. primed' \in BOOLEAN /\ queue' \in Seq(Scans) /\ known' \subseteq Scans
    <3>1. primed' \in BOOLEAN
      BY <1>2, Zenon DEF ProcessEnds
    <3>2. queue' \in Seq(Scans) /\ known' \subseteq Scans
      BY <1>2 DEF ProcessEnds
    <3>3. QED
      BY <3>1, <3>2
  <2>3. acq' \in AcqState' /\ proc' \in ProcState'
    BY <1>2, AtRest DEF ProcessEnds
  <2>4. /\ UNCHANGED disk /\ me' = NoRun /\ cut' \subseteq Keys
        /\ UNCHANGED <<starts, failedOnce, faults>>
    BY <1>2, <2>1 DEF ProcessEnds, TypeOK
  <2>5. QED
    BY <1>0, <2>2, <2>3, <2>4 DEF TypeOK, disk
<1>3. CASE AcqNext
  <2>0. UNCHANGED <<lineage, links, rows, me, proc, primed, cut, failedOnce, starts>>
    BY <1>3, AcqKeeps
  <2>1. ASSUME NEW s \in Scans, AcqReuse(s) PROVE TypeOK'
    BY <1>0, <2>0, <2>1 DEF TypeOK, AcqReuse, AcqState
  <2>2. ASSUME NEW s \in Scans, AcqPublish(s) PROVE TypeOK'
    <3>1. NewId \in Ids'
      BY <2>2 DEF TypeOK, AcqPublish, Publish, NewId, Ids
    <3>2. QED
      BY <1>0, <2>0, <2>2, <3>1 DEF TypeOK, AcqPublish, AcqState
  <2>3. CASE AcqCatalog
    <3>1. artifacts' \subseteq Artifact
      BY <2>3 DEF TypeOK, AcqCatalog, Artifact, AcqState, Owned, Fresh
    <3>2. QED
      BY <1>0, <2>0, <2>3, <3>1 DEF TypeOK, AcqCatalog, AcqState
  <2>4. CASE AcqRegister
    <3>1. status' \in [Keys -> {"absent", "pending", "complete", "failed"}]
      BY <2>4 DEF TypeOK, AcqRegister, Registered
    <3>2. queue' \in Seq(Scans) /\ known' \subseteq Scans
      BY <2>4 DEF TypeOK, AcqRegister, AcqState
    <3>3. QED
      BY <1>0, <2>0, <2>4, <3>1, <3>2, AtRest DEF TypeOK, AcqRegister, AcqState
  <2>5. CASE AcqRaises
    BY <1>0, <2>0, <2>5, AtRest DEF TypeOK, AcqRaises, Fault
  <2>6. QED
    BY <1>3, <2>1, <2>2, <2>3, <2>4, <2>5 DEF AcqNext
<1>4. CASE ProcNext
  <2>0. UNCHANGED <<me, known, acq, cut, starts>>
    BY <1>4, ProcKeeps
  <2>1. CASE ProcSkip
    BY <1>0, <2>0, <2>1, HeadTail DEF TypeOK, ProcSkip, disk
  <2>2. CASE ProcTake
    <3>1. Head(queue) \in Scans /\ Tail(queue) \in Seq(Scans)
      BY <2>2, HeadTail DEF TypeOK, ProcTake, ProcState
    <3>2. QED
      BY <1>0, <2>0, <2>2, <3>1 DEF TypeOK, ProcTake, disk, ProcState
  <2>3. CASE ProcRun
    <3>1. PICK kind \in Kinds : proc' = [proc EXCEPT !.pc = "persist", !.todo = Plan[kind]]
      BY <2>3 DEF ProcRun, Kinds, KindsOf
    <3>2. QED
      BY <1>0, <2>0, <2>3, <3>1, PlanType DEF TypeOK, ProcRun, disk, ProcState
  <2>4. CASE ProcPublish
    <3>1. NewId \in Ids'
      BY <2>4 DEF TypeOK, ProcPublish, Publish, NewId, Ids
    <3>2. QED
      BY <1>0, <2>0, <2>4, <3>1 DEF TypeOK, ProcPublish, ProcState
  <2>5. CASE ProcCatalog
    <3>1. artifacts' \subseteq Artifact
      BY <2>5 DEF TypeOK, ProcCatalog, Artifact, ProcState, Owned, Staged
    <3>2. QED
      BY <1>0, <2>0, <2>5, <3>1 DEF TypeOK, ProcCatalog, AfterRow, ProcState
  <2>6. CASE ProcLineage
    <3>1. lineage' \subseteq Ids \X Ids
      BY <2>6 DEF TypeOK, ProcLineage, Artifact, RawOf, Staged
    <3>2. QED
      BY <1>0, <2>0, <2>6, <3>1 DEF TypeOK, ProcLineage, ProcState
  <2>7. CASE ProcWriteRows
    <3>1. rows' \subseteq Keys \X TableProducts
      BY <2>7 DEF TypeOK, ProcWriteRows, Persisting, InFlight, Keys, Owned, ProcState
    <3>2. QED
      BY <1>0, <2>0, <2>7, <3>1 DEF TypeOK, ProcWriteRows, ProcState
  <2>8. CASE ProcLink
    <3>1. proc.todo # <<>> /\ proc.todo \in Seq(Products) /\ InFlight \in Keys
      BY <2>8 DEF TypeOK, ProcLink, Staged, InFlight, Keys, Owned, ProcState
    <3>2. Product \in Products /\ Tail(proc.todo) \in Seq(Products)
      BY <3>1, HeadTail DEF Product
    <3>3. links' \subseteq Link
      <4>1. NewLink \in Link
        BY <3>1, <3>2 DEF NewLink, Link, TypeOK, ProcState
      <4>2. QED
        BY <2>8, <4>1 DEF TypeOK, ProcLink, Relinked
    <3>4. status' \in [Keys -> {"absent", "pending", "complete", "failed"}]
      BY <2>8 DEF TypeOK, ProcLink
    <3>5. QED
      BY <1>0, <2>0, <2>8, <3>2, <3>3, <3>4 DEF TypeOK, ProcLink, ProcState
  <2>9. CASE ProcDone
    BY <1>0, <2>0, <2>9, AtRest DEF TypeOK, ProcDone, disk
  <2>10. CASE ProcFails
    <3>1. InFlight \in Keys
      BY <2>10 DEF TypeOK, ProcFails, InFlight, Keys, Owned, ProcState
    <3>2. proc' \in ProcState
      BY <2>10 DEF TypeOK, ProcFails, ProcState
    <3>3. failedOnce' \subseteq Keys /\ faults' \in Nat
      BY <2>10, <3>1 DEF TypeOK, ProcFails, Fault
    <3>4. QED
      BY <1>0, <2>0, <2>10, <3>2, <3>3 DEF TypeOK, ProcFails, disk
  <2>11. CASE ProcMarkFailed
    BY <1>0, <2>0, <2>11, AtRest DEF TypeOK, ProcMarkFailed, Marked
  <2>12. CASE ProcMarkRaises
    BY <1>0, <2>0, <2>12, AtRest DEF TypeOK, ProcMarkRaises, disk
  <2>13. QED
    BY <1>4, <2>1, <2>2, <2>3, <2>4, <2>5, <2>6, <2>7, <2>8, <2>9, <2>10, <2>11, <2>12
       DEF ProcNext
<1>5. CASE UNCHANGED vars
  BY <1>5 DEF TypeOK, vars, disk, aux, Ids, Artifact, Link, AcqState, ProcState
<1>6. QED
  BY <1>1, <1>2, <1>3, <1>4, <1>5, StoreSteps

-----------------------------------------------------------------------------
(* A process that ends leaves nothing in its threads, and a thread acts only *)
(* while its process lives.                                                  *)
LEMMA OwnedStep == TypeOK /\ Owned /\ [Next]_vars => Owned'
<1> SUFFICES ASSUME TypeOK, Owned, [Next]_vars PROVE Owned'
  OBVIOUS
<1>1. ASSUME NEW r \in Runs, Start(r) PROVE Owned'
  BY <1>1 DEF Start, Owned
<1>2. CASE ProcessEnds
  BY <1>2 DEF ProcessEnds, Owned, Idle, Rest
<1>3. CASE AcqNext
  <2>1. me \in Runs /\ me' = me
    BY <1>3, AcqKeeps
       DEF AcqNext, AcqReuse, AcqPublish, AcqCatalog, AcqRegister, AcqRaises, Owned, TypeOK
  <2>2. QED
    BY <2>1 DEF Owned
<1>4. CASE ProcNext
  <2>1. me \in Runs /\ me' = me
    BY <1>4, ProcKeeps
       DEF ProcNext, ProcSkip, ProcTake, ProcRun, ProcPublish, ProcCatalog, ProcLineage,
           ProcWriteRows, ProcLink, ProcDone, ProcFails, ProcMarkFailed, ProcMarkRaises,
           Persisting, Owned
  <2>2. QED
    BY <2>1 DEF Owned
<1>5. CASE UNCHANGED vars
  BY <1>5 DEF Owned, vars
<1>6. QED
  BY <1>1, <1>2, <1>3, <1>4, <1>5, StoreSteps

(* The status of a scan that has a row never becomes "absent" again. *)
LEMMA RegisteredStays ==
  TypeOK /\ Owned /\ [Next]_vars =>
    \A k \in Keys : status[k] # "absent" => status'[k] # "absent"
<1> SUFFICES ASSUME TypeOK, Owned, [Next]_vars, NEW k \in Keys, status[k] # "absent"
             PROVE  status'[k] # "absent"
  OBVIOUS
<1>1. CASE UNCHANGED status
  BY <1>1
<1>2. CASE AcqRegister
  BY <1>2 DEF AcqRegister, Registered, TypeOK
<1>3. CASE ProcLink
  BY <1>3 DEF ProcLink, TypeOK
<1>4. CASE ProcMarkFailed
  BY <1>4 DEF ProcMarkFailed, Marked, TypeOK
<1>5. UNCHANGED status \/ AcqRegister \/ ProcLink \/ ProcMarkFailed
  BY DEF Next, Start, ProcessEnds, AcqNext, AcqReuse, AcqPublish, AcqCatalog, AcqRaises,
         ProcNext, ProcSkip, ProcTake, ProcRun, ProcPublish, ProcCatalog, ProcLineage,
         ProcWriteRows, ProcDone, ProcFails, ProcMarkRaises, disk, vars
<1>6. QED
  BY <1>1, <1>2, <1>3, <1>4, <1>5

(* What can be read of a sequence after an element is appended or removed. *)
LEMMA AppendReads ==
  ASSUME NEW S, NEW q \in Seq(S), NEW e \in S
  PROVE  /\ Len(Append(q, e)) = Len(q) + 1
         /\ \A i \in 1 .. Len(q) : Append(q, e)[i] = q[i]
         /\ Append(q, e)[Len(q) + 1] = e
  OBVIOUS

LEMMA TailReads ==
  ASSUME NEW S, NEW q \in Seq(S), q # <<>>
  PROVE  /\ Len(q) \in Nat \ {0} /\ Head(q) = q[1]
         /\ Len(Tail(q)) = Len(q) - 1
         /\ \A i \in 1 .. Len(Tail(q)) : Tail(q)[i] = q[i + 1]
  OBVIOUS

(* A scan is registered before it is queued, queued before it is taken. *)
LEMMA InHandStep == TypeOK /\ Owned /\ InHand /\ [Next]_vars => InHand'
<1> SUFFICES ASSUME TypeOK, Owned, InHand, [Next]_vars PROVE InHand'
  OBVIOUS
<1>0. \A k \in Keys : status[k] # "absent" => status'[k] # "absent"
  BY RegisteredStays
<1>1. CASE (\E r \in Runs : Start(r)) \/ ProcessEnds
  BY <1>1 DEF Start, ProcessEnds, Rest, InHand
<1>2. ASSUME me' = me, me \in Runs, proc' = proc \/ (proc'.pc = "idle"), queue' = queue
      PROVE  InHand'
  BY <1>0, <1>2 DEF InHand, InFlight, TypeOK, ProcState, Keys
<1>3. CASE AcqRegister
  <2>1. acq.scan \in Scans /\ me \in Runs /\ me' = me /\ proc' = proc
    BY <1>3 DEF AcqRegister, AcqFrame, TypeOK, AcqState, Owned
  <2>2. status'[<<me, acq.scan>>] # "absent"
    BY <1>3, <2>1 DEF AcqRegister, Registered, TypeOK, Keys
  <2>3. \A i \in 1 .. Len(queue') : status'[<<me, queue'[i]>>] # "absent"
    <3>1. queue' = Append(queue, acq.scan) /\ queue \in Seq(Scans)
      BY <1>3 DEF AcqRegister, TypeOK
    <3>2. \A i \in 1 .. Len(queue) : queue[i] \in Scans
      BY <3>1
    <3>3. /\ Len(queue) \in Nat /\ Len(queue') = Len(queue) + 1
          /\ \A i \in 1 .. Len(queue) : queue'[i] = queue[i]
          /\ queue'[Len(queue) + 1] = acq.scan
      BY <2>1, <3>1, AppendReads
    <3>4. \A i \in 1 .. Len(queue) : status[<<me, queue[i]>>] # "absent"
      BY DEF InHand
    <3>5. \A i \in 1 .. Len(queue) : status'[<<me, queue[i]>>] # "absent"
      BY <1>0, <2>1, <3>2, <3>4 DEF Keys
    <3>6. ASSUME NEW i \in 1 .. Len(queue') PROVE status'[<<me, queue'[i]>>] # "absent"
      <4>1. CASE i \in 1 .. Len(queue)
        BY <3>3, <3>5, <4>1
      <4>2. CASE i = Len(queue) + 1
        BY <2>2, <3>3, <4>2
      <4>3. QED
        BY <3>3, <4>1, <4>2
    <3>7. QED
      BY <3>6
  <2>4. QED
    BY <1>0, <2>1, <2>3 DEF InHand, InFlight, TypeOK, ProcState, Keys
<1>4. CASE ProcSkip \/ ProcTake
  <2>1. /\ queue \in Seq(Scans) /\ queue # <<>> /\ queue' = Tail(queue)
        /\ me' = me /\ me \in Runs /\ status' = status
        /\ proc'.pc # "idle" => proc'.scan = Head(queue)
    BY <1>4, ProcKeeps DEF ProcNext, ProcSkip, ProcTake, TypeOK, ProcState, Owned, disk
  <2>2. status[<<me, Head(queue)>>] # "absent"
    BY <2>1, TailReads DEF InHand
  <2>3. \A i \in 1 .. Len(queue') : status'[<<me, queue'[i]>>] # "absent"
    BY <2>1, TailReads DEF InHand
  <2>4. QED
    BY <2>1, <2>2, <2>3 DEF InHand, InFlight
<1>5. ASSUME ProcNext, queue' = queue, proc.pc # "idle", proc'.pc # "idle" => proc'.scan = proc.scan
      PROVE  InHand'
  <2>1. me' = me /\ me \in Runs /\ proc.scan \in Scans /\ queue \in Seq(Scans)
    BY <1>5, ProcKeeps DEF TypeOK, ProcState, Owned
  <2>2. \A i \in 1 .. Len(queue) : status'[<<me, queue[i]>>] # "absent"
    BY <1>0, <2>1 DEF InHand, Keys
  <2>3. status'[<<me, proc.scan>>] # "absent"
    BY <1>0, <1>5, <2>1 DEF InHand, InFlight, Keys
  <2>4. QED
    BY <1>5, <2>1, <2>2, <2>3 DEF InHand, InFlight
<1>6. CASE AcqNext
  BY <1>2, <1>3, <1>6, AcqKeeps
     DEF AcqNext, AcqReuse, AcqPublish, AcqCatalog, AcqRaises, Owned, TypeOK
<1>7. CASE ProcNext
  <2>1. CASE ProcSkip \/ ProcTake
    BY <1>4, <2>1
  <2>2. CASE ProcDone \/ ProcMarkFailed \/ ProcMarkRaises
    BY <1>5, <1>7, <2>2 DEF ProcDone, ProcMarkFailed, ProcMarkRaises, Rest
  <2>3. CASE ProcRun \/ ProcPublish \/ ProcCatalog \/ ProcLineage \/ ProcWriteRows \/ ProcLink
             \/ ProcFails
    <3>1. queue' = queue /\ proc.pc # "idle" /\ proc'.scan = proc.scan
      BY <2>3 DEF ProcRun, ProcPublish, ProcCatalog, ProcLineage, ProcWriteRows, ProcLink,
                  ProcFails, Persisting, TypeOK, ProcState
    <3>2. QED
      BY <1>5, <1>7, <3>1
  <2>4. QED
    BY <1>7, <2>1, <2>2, <2>3 DEF ProcNext
<1>8. CASE UNCHANGED vars
  BY <1>8 DEF InHand, InFlight, vars, disk
<1>9. QED
  BY <1>1, <1>6, <1>7, <1>8, StoreSteps

-----------------------------------------------------------------------------
(* The tables only grow. *)
LEMMA TablesGrow ==
  [Next]_vars => artifacts \subseteq artifacts' /\ lineage \subseteq lineage' /\ rows \subseteq rows'
  BY DEF Next, Start, ProcessEnds, AcqNext, AcqFrame, AcqReuse, AcqPublish, AcqCatalog,
         AcqRegister, AcqRaises, ProcNext, ProcSkip, ProcTake, ProcRun, ProcPublish,
         ProcCatalog, ProcLineage, ProcWriteRows, ProcLink, ProcDone, ProcFails,
         ProcMarkFailed, ProcMarkRaises, disk, vars

(* So a link that can be followed can always be followed. *)
LEMMA BackedStays == [Next]_vars => \A l : Backed(l) => Backed(l)'
  BY TablesGrow DEF Backed, ObjectBacked, RawOf

(* Each product is written before it is linked, in the order of the commit. *)
LEMMA StagedStep == TypeOK /\ Owned /\ Staged /\ [Next]_vars => Staged'
<1> SUFFICES ASSUME TypeOK, Owned, Staged, [Next]_vars PROVE Staged'
  OBVIOUS
<1>1. ASSUME UNCHANGED <<proc, me>> PROVE Staged'
  <2>1. Ids \subseteq Ids' /\ artifacts \subseteq artifacts'
    BY TypesGrow, TablesGrow
  <2>2. NewLink' = NewLink /\ Row' = Row /\ Product' = Product
    BY <1>1 DEF NewLink, Row, Product, InFlight
  <2>3. Backed(NewLink) => Backed(NewLink)'
    BY <2>2, BackedStays DEF Backed, ObjectBacked, RawOf
  <2>4. QED
    BY <1>1, <2>1, <2>2, <2>3 DEF Staged
<1>2. ASSUME proc'.pc \in {"idle", "run", "persist", "failed"} PROVE Staged'
  BY <1>2 DEF Staged
<1>3. CASE ProcPublish
  <2>1. proc'.pc = "catalog" /\ proc'.todo = proc.todo /\ proc'.id = NewId
    BY <1>3 DEF ProcPublish, TypeOK, ProcState
  <2>2. NewId \in Ids'
    BY <1>3 DEF ProcPublish, Publish, NewId, Ids, TypeOK
  <2>3. QED
    BY <1>3, <2>1, <2>2 DEF ProcPublish, Persisting, Staged, Product
<1>4. CASE ProcCatalog
  <2>1. /\ proc'.pc = "lineage" /\ proc'.todo = proc.todo /\ proc'.id = proc.id
        /\ proc'.scan = proc.scan /\ me' = me /\ objects' = objects
    BY <1>4 DEF ProcCatalog, ProcFrame, AfterRow, TypeOK, ProcState
  <2>2. Row' \in artifacts'
    BY <1>4, <2>1 DEF ProcCatalog, Row, Product
  <2>3. QED
    BY <1>4, <2>1, <2>2 DEF ProcCatalog, Staged, Product, Ids
<1>5. CASE ProcLineage
  <2>1. /\ proc'.pc = "link" /\ proc'.todo = proc.todo /\ proc'.id = proc.id
        /\ proc'.scan = proc.scan /\ me' = me /\ artifacts' = artifacts
    BY <1>5 DEF ProcLineage, ProcFrame, TypeOK, ProcState
  <2>2. Row \in artifacts' /\ Row' = Row /\ NewLink' = NewLink /\ Product \in ObjectProducts
    BY <1>5, <2>1 DEF ProcLineage, Staged, Row, NewLink, Product, InFlight
  <2>3. \E raw \in RawOf(proc.scan)' : <<proc.id, raw.id>> \in lineage'
    BY <1>5, <2>1 DEF ProcLineage, RawOf
  <2>4. Backed(NewLink)'
    BY <2>1, <2>2, <2>3 DEF Backed, ObjectBacked, NewLink, Row, InFlight, Product, RawOf
  <2>5. QED
    BY <1>5, <2>1, <2>4 DEF ProcLineage, Staged
<1>6. CASE ProcWriteRows
  <2>1. /\ proc'.pc = "link" /\ proc'.todo = proc.todo /\ proc'.id = 0
        /\ proc'.scan = proc.scan /\ me' = me /\ proc.todo # <<>>
    BY <1>6 DEF ProcWriteRows, ProcFrame, Persisting, TypeOK, ProcState
  <2>2. Product \notin ObjectProducts /\ <<InFlight, Product>> \in rows'
    BY <1>6 DEF ProcWriteRows, ObjectProducts, TableProducts
  <2>3. Backed(NewLink)'
    BY <2>1, <2>2 DEF Backed, NewLink, InFlight, Product
  <2>4. QED
    BY <2>1, <2>3 DEF Staged
<1>7. CASE (\E r \in Runs : Start(r)) \/ ProcessEnds
  BY <1>2, <1>7 DEF Start, ProcessEnds, Rest
<1>8. CASE AcqNext \/ UNCHANGED vars
  BY <1>1, <1>8, AcqKeeps DEF vars
<1>9. CASE ProcNext
  <2>1. CASE ProcSkip
    BY <1>1, <2>1 DEF ProcSkip, ProcFrame
  <2>2. CASE ProcTake \/ ProcRun \/ ProcLink \/ ProcDone \/ ProcFails \/ ProcMarkFailed
             \/ ProcMarkRaises
    <3>1. proc'.pc \in {"idle", "run", "persist", "failed"}
      <4>1. CASE ProcTake
        BY <4>1 DEF ProcTake, TypeOK, ProcState
      <4>2. CASE ProcRun
        BY <4>2 DEF ProcRun, TypeOK, ProcState
      <4>3. CASE ProcLink
        BY <4>3 DEF ProcLink, TypeOK, ProcState
      <4>4. CASE ProcDone \/ ProcFails \/ ProcMarkFailed \/ ProcMarkRaises
        BY <4>4 DEF ProcDone, ProcFails, ProcMarkFailed, ProcMarkRaises, Rest, TypeOK, ProcState
      <4>5. QED
        BY <2>2, <4>1, <4>2, <4>3, <4>4
    <3>2. QED
      BY <1>2, <3>1
  <2>3. QED
    BY <1>3, <1>4, <1>5, <1>6, <1>9, <2>1, <2>2 DEF ProcNext
<1>10. QED
  BY <1>7, <1>8, <1>9, StoreSteps

(* A raw volume is published only for a scan that has none cataloged. *)
LEMMA RawStep ==
  TypeOK /\ Staged /\ Fresh /\ OneRawPerScan /\ [Next]_vars => Fresh' /\ OneRawPerScan'
<1> SUFFICES ASSUME TypeOK, Staged, Fresh, OneRawPerScan, [Next]_vars
             PROVE  Fresh' /\ OneRawPerScan'
  OBVIOUS
<1>0. Ids \subseteq Ids'
  BY TypesGrow
<1>1. ASSUME UNCHANGED <<acq, artifacts>> PROVE Fresh' /\ OneRawPerScan'
  BY <1>0, <1>1 DEF Fresh, OneRawPerScan, RawOf
<1>2. ASSUME artifacts' = artifacts, acq'.pc # "catalog" PROVE Fresh' /\ OneRawPerScan'
  BY <1>2 DEF Fresh, OneRawPerScan
<1>3. ASSUME NEW s \in Scans, AcqPublish(s) PROVE Fresh' /\ OneRawPerScan'
  <2>1. RawOf(s) = {} /\ NewId \in Ids'
    BY <1>3 DEF AcqPublish, Acquired, Publish, NewId, Ids, TypeOK
  <2>2. QED
    BY <1>3, <2>1 DEF AcqPublish, Fresh, OneRawPerScan, RawOf
<1>4. CASE AcqCatalog
  <2>1. RawOf(acq.scan) = {} /\ acq'.pc = "register"
    BY <1>4 DEF AcqCatalog, Fresh, TypeOK, AcqState
  <2>2. QED
    BY <1>4, <2>1 DEF AcqCatalog, Fresh, OneRawPerScan, RawOf
<1>5. CASE ProcCatalog
  <2>1. Product # "raw_volume" /\ acq' = acq
    BY <1>5 DEF ProcCatalog, ProcFrame, ObjectProducts, Staged
  <2>2. QED
    BY <1>0, <1>5, <2>1 DEF ProcCatalog, Fresh, OneRawPerScan, RawOf
<1>6. CASE (\E r \in Runs : Start(r)) \/ ProcessEnds
  BY <1>2, <1>6 DEF Start, ProcessEnds, Idle, disk
<1>7. CASE AcqNext
  <2>1. ASSUME NEW s \in Scans, AcqReuse(s) PROVE Fresh' /\ OneRawPerScan'
    BY <1>2, <2>1 DEF AcqReuse, TypeOK, AcqState
  <2>2. CASE AcqRegister \/ AcqRaises
    BY <1>2, <2>2 DEF AcqRegister, AcqRaises, Idle
  <2>3. QED
    BY <1>3, <1>4, <1>7, <2>1, <2>2 DEF AcqNext
<1>8. CASE ProcNext
  BY <1>1, <1>5, <1>8, ProcKeeps
     DEF ProcNext, ProcSkip, ProcTake, ProcRun, ProcPublish, ProcLineage, ProcWriteRows,
         ProcLink, ProcDone, ProcFails, ProcMarkFailed, ProcMarkRaises, disk
<1>9. QED
  BY <1>1, <1>6, <1>7, <1>8, StoreSteps DEF vars, disk

-----------------------------------------------------------------------------
Linked(k) == {l.product : l \in LinksOf(k)}

(* When every link is backed, what can be read is what is linked. *)
LEMMA ReadableIsLinked == LinksBacked => \A k : ReadableOf(k) = Linked(k)
  BY DEF LinksBacked, LinksOf, ReadableOf, Linked

(* Only link_scan_product changes the links, by the product in hand. *)
LEMMA LinksChange ==
  [Next]_vars => UNCHANGED links \/ (ProcLink /\ links' = Relinked)
  BY DEF Next, Start, ProcessEnds, AcqNext, AcqFrame, AcqReuse, AcqPublish, AcqCatalog,
         AcqRegister, AcqRaises, ProcNext, ProcSkip, ProcTake, ProcRun, ProcPublish,
         ProcCatalog, ProcLineage, ProcWriteRows, ProcLink, ProcDone, ProcFails,
         ProcMarkFailed, ProcMarkRaises, disk, vars

LEMMA LinksStep == Staged /\ LinksBacked /\ [Next]_vars => LinksBacked'
<1> SUFFICES ASSUME Staged, LinksBacked, [Next]_vars, NEW l \in links' PROVE Backed(l)'
  BY DEF LinksBacked
<1>1. l \in links \/ (ProcLink /\ l = NewLink)
  BY LinksChange DEF Relinked
<1>2. Backed(l)
  BY <1>1 DEF LinksBacked, Staged, ProcLink
<1>3. QED
  BY <1>2, BackedStays

(* The link displaces at most the same product's link of the same scan. *)
LEMMA LinkedAfter ==
  ASSUME ProcLink
  PROVE  \A k : Linked(k)' = IF k = InFlight THEN Linked(k) \union {Product} ELSE Linked(k)
<1>1. links' = {l \in links : l.key # InFlight \/ l.product # Product} \union {NewLink}
  BY DEF ProcLink, Relinked
<1>2. NewLink.key = InFlight /\ NewLink.product = Product
  BY DEF NewLink
<1>3. QED
  BY <1>1, <1>2 DEF Linked, LinksOf

(* A status changes with a registration, a link or a recorded failure, for   *)
(* one scan.                                                                 *)
LEMMA StatusChange ==
  ASSUME TypeOK, Owned, [Next]_vars
  PROVE  \/ UNCHANGED status
         \/ \E k \in Keys : /\ status[k] = "absent" /\ k[1] = me /\ UNCHANGED links
                            /\ status' = [status EXCEPT ![k] = "pending"]
         \/ ProcLink
         \/ /\ InFlight \in Keys /\ proc.pc = "failed" /\ UNCHANGED links
            /\ status' = [status EXCEPT ![InFlight] = "failed"]
<1>1. CASE AcqRegister
  <2>1. <<me, acq.scan>> \in Keys /\ UNCHANGED links
    BY <1>1 DEF AcqRegister, AcqFrame, Keys, TypeOK, AcqState, Owned
  <2>2. status' = [status EXCEPT ![<<me, acq.scan>>] = IF @ = "absent" THEN "pending" ELSE @]
    BY <1>1 DEF AcqRegister, Registered
  <2>3. CASE status[<<me, acq.scan>>] = "absent"
    BY <2>1, <2>2, <2>3
  <2>4. CASE status[<<me, acq.scan>>] # "absent"
    BY <2>1, <2>2, <2>4 DEF TypeOK
  <2>5. QED
    BY <2>3, <2>4
<1>2. CASE ProcMarkFailed
  BY <1>2 DEF ProcMarkFailed, Marked, InFlight, Keys, TypeOK, ProcState, Owned
<1>3. UNCHANGED status \/ AcqRegister \/ ProcLink \/ ProcMarkFailed
  BY DEF Next, Start, ProcessEnds, AcqNext, AcqReuse, AcqPublish, AcqCatalog, AcqRaises,
         ProcNext, ProcSkip, ProcTake, ProcRun, ProcPublish, ProcCatalog, ProcLineage,
         ProcWriteRows, ProcDone, ProcFails, ProcMarkRaises, disk, vars
<1>4. QED
  BY <1>1, <1>2, <1>3

(* Completeness is recomputed with every link, and only there granted. *)
LEMMA CompleteStep ==
  TypeOK /\ Owned /\ Staged /\ LinksBacked /\ CompleteExactly /\ [Next]_vars => CompleteExactly'
<1> SUFFICES ASSUME TypeOK, Owned, Staged, LinksBacked, CompleteExactly, [Next]_vars,
                    NEW k \in Keys
             PROVE  /\ status'[k] = "complete" => Required \subseteq ReadableOf(k)'
                    /\ Required \subseteq ReadableOf(k)' => status'[k] \in {"complete", "failed"}
  BY DEF CompleteExactly, Keys
<1>1. ReadableOf(k) = Linked(k) /\ ReadableOf(k)' = Linked(k)'
  <2>1. LinksBacked'
    BY LinksStep
  <2>2. QED
    BY <2>1, ReadableIsLinked DEF ReadableOf, Linked, LinksBacked, LinksOf
<1>2. /\ status[k] = "complete" => Required \subseteq Linked(k)
      /\ Required \subseteq Linked(k) => status[k] \in {"complete", "failed"}
  BY <1>1 DEF CompleteExactly
<1>3. CASE ProcLink
  <2>1. Linked(k)' = IF k = InFlight THEN Linked(k) \union {Product} ELSE Linked(k)
    BY <1>3, LinkedAfter
  <2>2. k = InFlight => Linked(k)' = {l.product : l \in {x \in links' : x.key = InFlight}}
    BY DEF Linked, LinksOf
  <2>3. status'[k] = IF k = InFlight /\ Required \subseteq Linked(k)' THEN "complete" ELSE status[k]
    BY <1>3, <2>2 DEF ProcLink, TypeOK
  <2>4. QED
    BY <1>1, <1>2, <2>1, <2>3
<1>4. CASE UNCHANGED links
  <2>1. Linked(k)' = Linked(k)
    BY <1>4 DEF Linked, LinksOf
  <2>2. status'[k] = status[k] \/ (status[k] = "absent" /\ status'[k] = "pending")
        \/ status'[k] = "failed" \/ ProcLink
    BY StatusChange DEF TypeOK
  <2>3. QED
    BY <1>1, <1>2, <1>3, <2>1, <2>2
<1>5. QED
  BY <1>3, <1>4, LinksChange

-----------------------------------------------------------------------------
LEMMA InitHolds == Init => IInv
<1> SUFFICES ASSUME Init PROVE IInv
  OBVIOUS
<1>1. TypeOK
  <2>1. primed \in BOOLEAN
    BY Zenon DEF Init
  <2>2. acq \in AcqState /\ proc \in ProcState
    BY AtRest DEF Init
  <2>3. QED
    BY <2>1, <2>2 DEF Init, TypeOK, Keys
<1>2. Owned /\ InHand /\ Staged /\ Fresh
  BY DEF Init, Owned, InHand, Staged, Fresh, Idle, Rest
<1>3. LinksBacked /\ OneRawPerScan
  BY DEF Init, LinksBacked, OneRawPerScan
<1>4. CompleteExactly
  <2>1. \A k : ReadableOf(k) = {}
    BY DEF Init, ReadableOf, LinksOf
  <2>2. QED
    BY <2>1 DEF Init, CompleteExactly, Required
<1>5. QED
  BY <1>1, <1>2, <1>3, <1>4 DEF IInv

LEMMA StepHolds == IInv /\ [Next]_vars => IInv'
  BY TypeStep, OwnedStep, InHandStep, StagedStep, RawStep, LinksStep, CompleteStep DEF IInv

(* The tables and the threads are well typed in every reachable state, and a *)
(* cataloged id always names a published object (objects.py commit).         *)
THEOREM TypeCorrect == Spec => []TypeOK
<1>1. IInv => TypeOK
  BY DEF IInv
<1>2. QED
  BY <1>1, InitHolds, StepHolds, PTL DEF Spec

(* IInv is an inductive invariant of the store. *)
THEOREM Invariance == Spec => []IInv
  BY InitHolds, StepHolds, PTL DEF Spec

(* Whatever crashes, every linked product can be opened and traced to its    *)
(* scan's raw volume (output_router.py, _write_netcdf and _write_table).     *)
THEOREM LinksBackedHolds == Spec => []LinksBacked
<1>1. IInv => LinksBacked
  BY DEF IInv
<1>2. QED
  BY <1>1, Invariance, PTL

(* A scan is complete exactly when its required products can be read, unless *)
(* a failure was recorded since (collection_catalog.py link_scan_product).   *)
THEOREM CompleteExactlyHolds == Spec => []CompleteExactly
<1>1. IInv => CompleteExactly
  BY DEF IInv
<1>2. QED
  BY <1>1, Invariance, PTL

(* One raw volume is cataloged per scan, over all runs (acquire.py).         *)
THEOREM OneRawPerScanHolds == Spec => []OneRawPerScan
<1>1. IInv => OneRawPerScan
  BY DEF IInv
<1>2. QED
  BY <1>1, Invariance, PTL

-----------------------------------------------------------------------------
(* How what a reader sees of a scan changes in a step. *)
LEMMA ReadableChange ==
  ASSUME IInv, [Next]_vars
  PROVE  /\ \A k : ReadableOf(k)' = Linked(k)'
         /\ ~ProcLink => \A k : ReadableOf(k)' = ReadableOf(k)
         /\ ProcLink => \A k : ReadableOf(k)' =
                          IF k = InFlight THEN ReadableOf(k) \union {Product} ELSE ReadableOf(k)
<1>1. \A k : ReadableOf(k) = Linked(k)
  BY ReadableIsLinked DEF IInv
<1>2. \A k : ReadableOf(k)' = Linked(k)'
  <2>1. LinksBacked'
    BY LinksStep DEF IInv
  <2>2. QED
    BY <2>1 DEF ReadableOf, Linked, LinksBacked, LinksOf
<1>3. ASSUME ~ProcLink PROVE \A k : ReadableOf(k)' = ReadableOf(k)
  <2>1. \A k : Linked(k)' = Linked(k)
    BY <1>3, LinksChange DEF Linked, LinksOf
  <2>2. QED
    BY <1>1, <1>2, <2>1
<1>4. ASSUME ProcLink
      PROVE  \A k : ReadableOf(k)' =
               IF k = InFlight THEN ReadableOf(k) \union {Product} ELSE ReadableOf(k)
  <2>1. \A k : Linked(k)' = IF k = InFlight THEN Linked(k) \union {Product} ELSE Linked(k)
    BY <1>4, LinkedAfter
  <2>2. QED
    BY <1>1, <1>2, <2>1
<1>5. QED
  BY <1>2, <1>3, <1>4

(* A process changes nothing a reader sees of another run's scans            *)
(* (every statement of collection_catalog.py names the run).                 *)
THEOREM RunIsolationHolds == Spec => RunIsolation
<1>1. ASSUME IInv, [Next]_vars
      PROVE  [\A k \in Keys : k[1] # me =>
                status'[k] = status[k] /\ ReadableOf(k)' = ReadableOf(k)]_vars
  <2> SUFFICES ASSUME NEW k \in Keys, k[1] # me
               PROVE  status'[k] = status[k] /\ ReadableOf(k)' = ReadableOf(k)
    OBVIOUS
  <2>1. k # InFlight
    BY DEF InFlight
  <2>2. ReadableOf(k)' = ReadableOf(k)
    BY <1>1, <2>1, ReadableChange
  <2>3. status'[k] = status[k]
    <3>1. CASE ProcLink
      BY <1>1, <2>1, <3>1 DEF ProcLink, IInv, TypeOK
    <3>2. CASE ~ProcLink
      BY <1>1, <2>1, <3>2, StatusChange DEF IInv, TypeOK
    <3>3. QED
      BY <3>1, <3>2
  <2>4. QED
    BY <2>2, <2>3
<1>2. QED
  BY <1>1, Invariance, PTL DEF Spec, RunIsolation

(* Every step of the store is a step of the ledger or leaves it alone. *)
LEMMA LedgerStep == IInv /\ [Next]_vars => [Ledger!Next]_Ledger!ledger
<1> SUFFICES ASSUME IInv, [Next]_vars PROVE [Ledger!Next]_Ledger!ledger
  OBVIOUS
<1> DEFINE Same == \A k : ReadableOf(k)' = ReadableOf(k)
<1>1. Same => Readable' = Readable
  BY DEF Readable, Keys
<1>2. TypeOK /\ Owned /\ InHand /\ Staged
  BY DEF IInv
<1>3. CASE ProcLink
  <2>1. InFlight \in Keys /\ Product \in Products /\ status[InFlight] # "absent"
    BY <1>2, <1>3, HeadTail
       DEF ProcLink, InFlight, Keys, Product, Staged, Owned, InHand, TypeOK, ProcState
  <2>2. Readable' = [Readable EXCEPT ![InFlight] = @ \union {Product}]
    <3>1. Readable' = [k \in Keys |-> ReadableOf(k)']
      BY DEF Readable, Keys
    <3>2. \A k : ReadableOf(k)' = IF k = InFlight THEN ReadableOf(k) \union {Product}
                                 ELSE ReadableOf(k)
      BY <1>3, ReadableChange DEF ProcLink
    <3>3. QED
      BY <2>1, <3>1, <3>2 DEF Readable
  <2>3. status' = [status EXCEPT ![InFlight] =
                     IF Required \subseteq Readable'[InFlight] THEN "complete" ELSE @]
    <3>1. \A k : k = InFlight =>
            Linked(k)' = {l.product : l \in {x \in links' : x.key = InFlight}}
      BY DEF Linked, LinksOf
    <3>2. \A k \in Keys : Readable'[k] = Linked(k)'
      BY ReadableChange DEF Readable, Keys
    <3>3. QED
      BY <1>3, <2>1, <3>1, <3>2 DEF ProcLink
  <2>4. QED
    BY <2>1, <2>2, <2>3 DEF Ledger!Next, Ledger!Attach
<1>4. CASE ~ProcLink
  <2>1. Readable' = Readable
    BY <1>1, <1>4, ReadableChange
  <2>2. CASE UNCHANGED status
    BY <2>1, <2>2 DEF Ledger!ledger
  <2>3. ASSUME NEW k \in Keys, status[k] = "absent", status' = [status EXCEPT ![k] = "pending"]
        PROVE  Ledger!Next
    BY <2>1, <2>3 DEF Ledger!Next, Ledger!Register
  <2>4. ASSUME InFlight \in Keys, proc.pc = "failed", status' = [status EXCEPT ![InFlight] = "failed"]
        PROVE  Ledger!Next
    BY <1>2, <2>1, <2>4 DEF Ledger!Next, Ledger!Fail, InHand
  <2>5. QED
    BY <1>2, <1>4, <2>2, <2>3, <2>4, StatusChange
<1>5. QED
  BY <1>3, <1>4

(* The store implements the ledger it promises its readers. *)
THEOREM ImplementsLedger == Spec => LedgerSpec
<1>1. Init => Ledger!Init
  BY DEF Init, Ledger!Init, Readable, ReadableOf, LinksOf
<1>2. QED
  BY <1>1, LedgerStep, Invariance, PTL DEF Spec, LedgerSpec, Ledger!Spec

-----------------------------------------------------------------------------
(***************************************************************************)
(* What is left behind when the processor puts a scan down: its newest     *)
(* rasters are linked, and it has all its tables or none.  Both rest on    *)
(* the order of a plan and on what the processor holds between the row and *)
(* the link of one product.                                                *)
(***************************************************************************)
Writing == {"persist", "catalog", "lineage", "link"}

(* What can be left of a plan. *)
Rests ==
  {<<>>, <<"gridded3d">>,
   <<"gridded3d", "segmentation2d">>, <<"segmentation2d">>,
   <<"gridded3d", "cell_stats", "segmentation2d", "tracking", "cell_volume_stats">>,
   <<"cell_stats", "segmentation2d", "tracking", "cell_volume_stats">>,
   <<"segmentation2d", "tracking", "cell_volume_stats">>,
   <<"tracking", "cell_volume_stats">>, <<"cell_volume_stats">>}

OnPlan == proc.pc \in Writing => proc.todo \in Rests

FailureKept == proc.pc = "failed" => InFlight \in failedOnce

(* The raster in hand is newer than every raster cataloged before it. *)
Newest ==
  \A a \in artifacts :
    a.type \in ObjectProducts =>
      /\ proc.pc = "catalog" => a.id < proc.id
      /\ proc.pc \in {"lineage", "link"} /\ Product \in ObjectProducts => a.id <= proc.id

Undisturbed(k) == k \notin cut \union failedOnce

(* The raster a reader opens is linked, or it is the one in hand. *)
RasterFollows ==
  \A k \in Keys, product \in ObjectProducts :
    Undisturbed(k) => \A a \in OpenedRaster(k, product) :
      LinkNames(k, a) \/ (proc.pc \in {"lineage", "link"} /\ k = InFlight /\ product = Product)

Elements(q) == {q[i] : i \in 1 .. Len(q)}

ToWrite(k) == IF proc.pc \in Writing /\ k = InFlight THEN Elements(proc.todo) ELSE {}

(* A scan with cell statistics has the other tables, or is about to. *)
TablesFollow ==
  \A k \in Keys :
    Undisturbed(k) /\ "cell_stats" \in Linked(k) => TableProducts \subseteq Linked(k) \union ToWrite(k)

Following == OnPlan /\ FailureKept /\ Newest /\ RasterFollows /\ TablesFollow
(* A rest of a plan loses its head and stays one; after the cell statistics  *)
(* come the other tables.                                                    *)
LEMMA RestParts ==
  ASSUME NEW q \in Rests, q # <<>>
  PROVE  /\ Tail(q) \in Rests
         /\ Elements(q) \subseteq {Head(q)} \union Elements(Tail(q))
         /\ Head(q) = "cell_stats" => TableProducts \subseteq {Head(q)} \union Elements(Tail(q))
<1>1. q \in Seq(Products)
  <2>1. /\ <<>> \in Seq(Products) /\ <<"gridded3d">> \in Seq(Products)
        /\ <<"gridded3d", "segmentation2d">> \in Seq(Products)
        /\ <<"segmentation2d">> \in Seq(Products)
        /\ <<"cell_volume_stats">> \in Seq(Products)
        /\ <<"tracking", "cell_volume_stats">> \in Seq(Products)
    BY DEF Products, ObjectProducts, TableProducts
  <2>2. /\ <<"segmentation2d", "tracking", "cell_volume_stats">> \in Seq(Products)
        /\ <<"cell_stats", "segmentation2d", "tracking", "cell_volume_stats">> \in Seq(Products)
        /\ <<"gridded3d", "cell_stats", "segmentation2d", "tracking", "cell_volume_stats">>
              \in Seq(Products)
    BY DEF Products, ObjectProducts, TableProducts
  <2>3. QED
    BY <2>1, <2>2 DEF Rests
<1>0. /\ Len(q) \in Nat \ {0} /\ Head(q) = q[1] /\ Len(Tail(q)) = Len(q) - 1
      /\ \A i \in 1 .. Len(Tail(q)) : Tail(q)[i] = q[i + 1]
  BY <1>1, TailReads
<1>2. Elements(q) \subseteq {Head(q)} \union Elements(Tail(q))
  <2> SUFFICES ASSUME NEW i \in 1 .. Len(q), i # 1 PROVE q[i] \in Elements(Tail(q))
    BY <1>1, TailReads DEF Elements
  <2>1. i - 1 \in 1 .. Len(Tail(q)) /\ Tail(q)[i - 1] = q[i]
    BY <1>1, TailReads
  <2>2. QED
    BY <2>1 DEF Elements
<1>3. CASE q \in {<<"gridded3d">>, <<"segmentation2d">>, <<"cell_volume_stats">>}
  <2>1. Len(q) = 1 /\ q[1] # "cell_stats"
    BY <1>3
  <2>2. Tail(q) = <<>> /\ Head(q) # "cell_stats"
    <3>1. Len(Tail(q)) = 0 /\ Head(q) = q[1]
      BY <1>0, <2>1
    <3>2. \A s \in Seq(Products) : Len(s) = 0 => s = <<>>
      OBVIOUS
    <3>3. Tail(q) \in Seq(Products)
      BY <1>1, HeadTail
    <3>4. QED
      BY <2>1, <3>1, <3>2, <3>3
  <2>3. QED
    BY <1>2, <2>2 DEF Rests
<1>4. CASE q = <<"gridded3d", "segmentation2d">>
  <2>1. Tail(q) = <<"segmentation2d">> /\ Head(q) = "gridded3d"
    BY <1>4
  <2>2. QED
    BY <1>2, <2>1 DEF Rests
<1>5. CASE q = <<"tracking", "cell_volume_stats">>
  <2>1. Tail(q) = <<"cell_volume_stats">> /\ Head(q) = "tracking"
    BY <1>5
  <2>2. QED
    BY <1>2, <2>1 DEF Rests
<1>6. CASE q = <<"segmentation2d", "tracking", "cell_volume_stats">>
  <2>1. Tail(q) = <<"tracking", "cell_volume_stats">> /\ Head(q) = "segmentation2d"
    BY <1>6
  <2>2. QED
    BY <1>2, <2>1 DEF Rests
<1>7. CASE q = <<"cell_stats", "segmentation2d", "tracking", "cell_volume_stats">>
  <2>1. Tail(q) = <<"segmentation2d", "tracking", "cell_volume_stats">> /\ Head(q) = "cell_stats"
    BY <1>7
  <2>2. /\ Len(Tail(q)) = 3
        /\ Tail(q)[2] = "tracking" /\ Tail(q)[3] = "cell_volume_stats"
    <3>1. Len(q) = 4 /\ q[3] = "tracking" /\ q[4] = "cell_volume_stats"
      BY <1>7
    <3>2. Len(Tail(q)) = 3
      BY <1>0, <3>1
    <3>3. Tail(q)[2] = q[3] /\ Tail(q)[3] = q[4]
      BY <1>0, <3>2
    <3>4. QED
      BY <3>1, <3>2, <3>3
  <2>3. "tracking" \in Elements(Tail(q)) /\ "cell_volume_stats" \in Elements(Tail(q))
    <3>1. \A s, i : i \in 1 .. Len(s) => s[i] \in Elements(s)
      BY Zenon DEF Elements
    <3>2. 2 \in 1 .. Len(Tail(q)) /\ 3 \in 1 .. Len(Tail(q))
      BY <2>2
    <3>3. QED
      BY <2>2, <3>1, <3>2, Zenon
  <2>4. QED
    BY <1>2, <2>1, <2>3 DEF Rests, TableProducts
<1>8. CASE q = <<"gridded3d", "cell_stats", "segmentation2d", "tracking", "cell_volume_stats">>
  <2>1. Tail(q) = <<"cell_stats", "segmentation2d", "tracking", "cell_volume_stats">>
        /\ Head(q) = "gridded3d"
    BY <1>8
  <2>2. QED
    BY <1>2, <2>1 DEF Rests
<1>9. QED
  BY <1>3, <1>4, <1>5, <1>6, <1>7, <1>8 DEF Rests

(* A plan is a rest of itself. *)
LEMMA PlansRest == \A kind \in Kinds : Plan[kind] \in Rests
  BY DEF Kinds, Plan, Rests

(* How a processor step moves through the product in hand. *)
LEMMA ProcLeads ==
  ASSUME TypeOK, ProcNext
  PROVE  \/ ProcSkip /\ proc' = proc
         \/ ProcTake /\ proc.pc = "idle" /\ proc'.pc = "run"
         \/ ProcRun /\ proc.pc = "run" /\ proc'.pc = "persist" /\ proc'.todo \in Rests
              /\ proc'.scan = proc.scan
         \/ ProcPublish /\ proc.pc = "persist" /\ proc'.pc = "catalog" /\ proc'.id = objects + 1
              /\ proc'.todo = proc.todo /\ proc'.scan = proc.scan
         \/ ProcCatalog /\ proc.pc = "catalog" /\ proc'.pc = "lineage"
              /\ proc'.id = proc.id /\ proc'.todo = proc.todo /\ proc'.scan = proc.scan
         \/ ProcLineage /\ proc.pc = "lineage" /\ proc'.pc = "link"
              /\ proc'.id = proc.id /\ proc'.todo = proc.todo /\ proc'.scan = proc.scan
         \/ ProcWriteRows /\ proc.pc = "persist" /\ proc'.pc = "link"
              /\ proc'.todo = proc.todo /\ proc'.scan = proc.scan
         \/ ProcLink /\ proc.pc = "link" /\ proc'.pc = "persist"
              /\ proc'.todo = Tail(proc.todo) /\ proc'.scan = proc.scan
         \/ ProcDone /\ proc.pc = "persist" /\ proc.todo = <<>> /\ proc'.pc = "idle"
         \/ ProcFails /\ proc'.pc = "failed" /\ proc'.scan = proc.scan
              /\ failedOnce' = failedOnce \union {InFlight}
         \/ (ProcMarkFailed \/ ProcMarkRaises) /\ proc.pc = "failed" /\ proc'.pc = "idle"
<1>0. proc \in ProcState
  BY DEF TypeOK
<1>1. CASE ProcSkip \/ ProcTake
  BY <1>0, <1>1 DEF ProcSkip, ProcTake, ProcState
<1>2. CASE ProcRun
  <2>1. PICK kind \in Kinds : proc' = [proc EXCEPT !.pc = "persist", !.todo = Plan[kind]]
    BY <1>2 DEF ProcRun, Kinds, KindsOf
  <2>2. Plan[kind] \in Rests
    BY PlansRest
  <2>3. QED
    BY <1>0, <1>2, <2>1, <2>2 DEF ProcRun, ProcState
<1>3. CASE ProcPublish
  BY <1>0, <1>3 DEF ProcPublish, Persisting, NewId, ProcState
<1>4. CASE ProcCatalog \/ ProcLineage
  BY <1>0, <1>4 DEF ProcCatalog, ProcLineage, AfterRow, ProcState
<1>5. CASE ProcWriteRows
  BY <1>0, <1>5 DEF ProcWriteRows, Persisting, ProcState
<1>6. CASE ProcLink
  BY <1>0, <1>6 DEF ProcLink, ProcState
<1>7. CASE ProcDone
  BY <1>7 DEF ProcDone, AllWritten, Rest
<1>8. CASE ProcFails
  BY <1>0, <1>8 DEF ProcFails, ProcState
<1>9. CASE ProcMarkFailed \/ ProcMarkRaises
  BY <1>9 DEF ProcMarkFailed, ProcMarkRaises, Rest
<1>10. QED
  BY <1>1, <1>2, <1>3, <1>4, <1>5, <1>6, <1>7, <1>8, <1>9 DEF ProcNext

(* Outside the processor the links stay and only raw volumes are cataloged;  *)
(* a process that ends remembers the scan it had in hand.                    *)
LEMMA OthersKeep ==
  ASSUME TypeOK, Owned, [Next]_vars, ~ProcNext
  PROVE  /\ UNCHANGED <<links, failedOnce>>
         /\ artifacts \subseteq artifacts'
         /\ \A a \in artifacts' : a \in artifacts \/ a.type = "raw_volume"
         /\ \/ UNCHANGED <<me, proc, cut>>
            \/ /\ proc'.pc = "idle" /\ cut \subseteq cut'
               /\ proc.pc # "idle" => InFlight \in cut'
<1>1. ASSUME NEW r \in Runs, Start(r)
      PROVE  UNCHANGED <<links, failedOnce, artifacts, cut>> /\ proc'.pc = "idle" /\ proc.pc = "idle"
  BY <1>1, ConstantsAssumption DEF Start, disk, Rest, Owned
<1>2. CASE ProcessEnds
  BY <1>2 DEF ProcessEnds, disk, Rest
<1>3. CASE AcqNext
  <2>1. \/ UNCHANGED artifacts
        \/ artifacts' = artifacts \union
             {[id |-> acq.id, type |-> "raw_volume", run |-> me, scan |-> acq.scan]}
    BY <1>3 DEF AcqNext, AcqReuse, AcqPublish, AcqCatalog, AcqRegister, AcqRaises
  <2>2. UNCHANGED <<links, failedOnce, me, proc, cut>>
    BY <1>3, AcqKeeps
  <2>3. QED
    BY <2>1, <2>2
<1>4. CASE UNCHANGED vars
  BY <1>4 DEF vars, disk, aux
<1>5. QED
  BY <1>1, <1>2, <1>3, <1>4, StoreSteps

(* What is left to write heads a rest of a plan, and a failure is on record. *)
LEMMA PlanStep ==
  IInv /\ OnPlan /\ FailureKept /\ [Next]_vars => OnPlan' /\ FailureKept'
<1> SUFFICES ASSUME IInv, OnPlan, FailureKept, [Next]_vars PROVE OnPlan' /\ FailureKept'
  OBVIOUS
<1>0. TypeOK /\ Staged /\ Owned
  BY DEF IInv
<1>1. CASE ProcNext
  <2>0. me' = me /\ failedOnce \subseteq failedOnce'
    BY <1>1, ProcKeeps DEF ProcNext, ProcSkip, ProcTake, ProcRun, ProcPublish, ProcCatalog,
       ProcLineage, ProcWriteRows, ProcLink, ProcDone, ProcFails, ProcMarkFailed, ProcMarkRaises
  <2>1. proc.pc = "link" => Tail(proc.todo) \in Rests
    BY <1>0, RestParts DEF OnPlan, Writing, Staged
  <2>2. OnPlan'
    BY <1>0, <1>1, <2>1, ProcLeads DEF OnPlan, Writing
  <2>3. FailureKept'
    BY <1>0, <1>1, <2>0, ProcLeads DEF FailureKept, InFlight
  <2>4. QED
    BY <2>2, <2>3
<1>2. CASE ~ProcNext
  BY <1>0, <1>2, OthersKeep DEF OnPlan, FailureKept, Writing, InFlight
<1>3. QED
  BY <1>1, <1>2
(* In the processor, only register_artifact adds an artifact, and only       *)
(* link_scan_product touches the links.                                      *)
LEMMA ProcWrites ==
  ASSUME ProcNext
  PROVE  /\ UNCHANGED <<me, cut>> /\ failedOnce \subseteq failedOnce'
         /\ UNCHANGED artifacts \/ (ProcCatalog /\ artifacts' = artifacts \union {Row})
         /\ UNCHANGED links \/ (ProcLink /\ links' = Relinked)
<1>1. UNCHANGED <<me, cut>> /\ failedOnce \subseteq failedOnce'
  BY ProcKeeps DEF ProcNext, ProcSkip, ProcTake, ProcRun, ProcPublish, ProcCatalog, ProcLineage,
     ProcWriteRows, ProcLink, ProcDone, ProcFails, ProcMarkFailed, ProcMarkRaises
<1>2. UNCHANGED artifacts \/ (ProcCatalog /\ artifacts' = artifacts \union {Row})
  BY DEF ProcNext, ProcSkip, ProcTake, ProcRun, ProcPublish, ProcCatalog, ProcLineage,
     ProcWriteRows, ProcLink, ProcDone, ProcFails, ProcMarkFailed, ProcMarkRaises, disk, Row
<1>3. UNCHANGED links \/ (ProcLink /\ links' = Relinked)
  BY DEF ProcNext, ProcSkip, ProcTake, ProcRun, ProcPublish, ProcCatalog, ProcLineage,
     ProcWriteRows, ProcLink, ProcDone, ProcFails, ProcMarkFailed, ProcMarkRaises, disk
<1>4. QED
  BY <1>1, <1>2, <1>3

(* A published object is newer than every cataloged one, and of the threads  *)
(* only the processor catalogs rasters.                                      *)
LEMMA NewestStep == IInv /\ Newest /\ [Next]_vars => Newest'
<1> SUFFICES ASSUME IInv, Newest, [Next]_vars, NEW a \in artifacts', a.type \in ObjectProducts
             PROVE  /\ proc'.pc = "catalog" => a.id < proc'.id
                    /\ proc'.pc \in {"lineage", "link"} /\ Product' \in ObjectProducts
                          => a.id <= proc'.id
  BY DEF Newest
<1>0. TypeOK /\ Owned /\ Staged
  BY DEF IInv
<1>1. a \in artifacts => /\ proc.pc = "catalog" => a.id < proc.id
                         /\ proc.pc \in {"lineage", "link"} /\ Product \in ObjectProducts
                               => a.id <= proc.id
  BY DEF Newest
<1>2. a \in artifacts => a.id \in Int /\ a.id <= objects
  BY <1>0 DEF TypeOK, Artifact, Ids
<1>3. CASE ~ProcNext
  <2>1. "raw_volume" \notin ObjectProducts
    BY DEF ObjectProducts
  <2>2. a \in artifacts /\ (UNCHANGED proc \/ proc'.pc = "idle")
    BY <1>0, <1>3, <2>1, OthersKeep
  <2>3. QED
    BY <1>1, <2>2 DEF Product
<1>4. CASE ProcNext
  <2>1. CASE ProcCatalog
    <3>1. /\ proc.pc = "catalog" /\ proc'.pc = "lineage" /\ proc'.id = proc.id
          /\ artifacts' = artifacts \union {Row}
      BY <1>0, <2>1 DEF ProcCatalog, Row, TypeOK, ProcState, AfterRow
    <3>2. proc.id \in Int
      BY <1>0, <3>1 DEF Staged, Ids
    <3>3. CASE a \in artifacts
      BY <1>1, <1>2, <3>1, <3>2, <3>3
    <3>4. CASE a = Row
      BY <3>1, <3>2, <3>4 DEF Row
    <3>5. QED
      BY <3>1, <3>3, <3>4
  <2>2. CASE ~ProcCatalog
    <3>1. a \in artifacts
      BY <1>4, <2>2, ProcWrites
    <3>2. CASE ProcWriteRows
      <4>1. proc'.pc = "link" /\ Product' = Product /\ Product \notin ObjectProducts
        BY <1>0, <3>2 DEF ProcWriteRows, Persisting, Product, TypeOK, ProcState, ObjectProducts,
                          TableProducts
      <4>2. QED
        BY <4>1
    <3>3. CASE ~ProcWriteRows
      <4>1. \/ proc' = proc
            \/ proc'.pc = "catalog" /\ proc'.id = objects + 1
            \/ proc.pc = "lineage" /\ proc'.pc = "link" /\ proc'.id = proc.id /\ Product' = Product
            \/ proc'.pc \in {"idle", "run", "persist", "failed"}
        BY <1>0, <1>4, <2>2, <3>3, ProcLeads DEF Product
      <4>2. QED
        BY <1>0, <1>1, <1>2, <3>1, <4>1 DEF TypeOK, Product
    <3>4. QED
      BY <3>2, <3>3
  <2>3. QED
    BY <2>1, <2>2
<1>5. QED
  BY <1>3, <1>4

(* The newest raster of a scan when no raster is added. *)
LEMMA SameRaster ==
  ASSUME NEW k, NEW product \in ObjectProducts, artifacts \subseteq artifacts',
         \A b \in artifacts' : b \in artifacts \/ b.type # product \/ <<b.run, b.scan>> # k
  PROVE  OpenedRaster(k, product)' = OpenedRaster(k, product)
<1>1. {a \in artifacts' : a.type = product /\ <<a.run, a.scan>> = k}
        = {a \in artifacts : a.type = product /\ <<a.run, a.scan>> = k}
  OBVIOUS
<1>2. QED
  BY <1>1, Zenon DEF OpenedRaster

(* A link names the raster in hand at last, and no other link is touched. *)
LEMMA RasterLinked ==
  ASSUME IInv, Newest, RasterFollows, ProcLink, links' = Relinked,
         NEW k \in Keys, NEW product \in ObjectProducts, Undisturbed(k),
         NEW a \in OpenedRaster(k, product)
  PROVE  LinkNames(k, a)'
<1>0. /\ a \in artifacts /\ a.type = product
      /\ \A b \in artifacts : b.type = product /\ <<b.run, b.scan>> = k => b.id <= a.id
  BY DEF OpenedRaster
<1>1. CASE k = InFlight /\ product = Product
  <2>1. NewLink.product \in ObjectProducts /\ Backed(NewLink)
    BY <1>1 DEF IInv, Staged, ProcLink, NewLink
  <2>2. PICK b \in artifacts : b.id = proc.id /\ b.type = product /\ <<b.run, b.scan>> = k
    BY <1>1, <2>1 DEF Backed, ObjectBacked, NewLink
  <2>3. a.id <= proc.id /\ a.id \in Int /\ b.id \in Int
    BY <1>0, <1>1 DEF Newest, ProcLink, IInv, TypeOK, Artifact, Ids
  <2>4. a.id = proc.id
    BY <1>0, <2>2, <2>3
  <2>5. NewLink \in links' /\ NewLink.key = k /\ NewLink.product = a.type
        /\ NewLink.artifact = a.id
    BY <1>0, <1>1, <2>4 DEF NewLink, Relinked
  <2>6. QED
    BY <2>5 DEF LinkNames, LinksOf
<1>2. CASE k # InFlight \/ product # Product
  <2>1. PICK l \in links : l.key = k /\ l.product = a.type /\ l.artifact = a.id
    BY <1>2 DEF RasterFollows, LinkNames, LinksOf
  <2>2. l \in links'
    BY <1>0, <1>2, <2>1 DEF Relinked
  <2>3. QED
    BY <2>1, <2>2 DEF LinkNames, LinksOf
<1>3. QED
  BY <1>1, <1>2

LEMMA RasterStep ==
  IInv /\ FailureKept /\ Newest /\ RasterFollows /\ [Next]_vars => RasterFollows'
<1> DEFINE InHandOf(k, product) ==
      proc.pc \in {"lineage", "link"} /\ k = InFlight /\ product = Product
<1> SUFFICES ASSUME IInv, FailureKept, Newest, RasterFollows, [Next]_vars,
                    NEW k \in Keys, NEW product \in ObjectProducts, Undisturbed(k)',
                    NEW a \in OpenedRaster(k, product)'
             PROVE  LinkNames(k, a)' \/ InHandOf(k, product)'
  BY DEF RasterFollows, Keys
<1>0. TypeOK /\ Owned /\ Staged
  BY DEF IInv
<1>1. product # "raw_volume"
  BY DEF ObjectProducts
<1>2. a \in OpenedRaster(k, product) /\ Undisturbed(k) => LinkNames(k, a) \/ InHandOf(k, product)
  BY DEF RasterFollows
<1>3. CASE ~ProcNext
  <2>1. a \in OpenedRaster(k, product)
    BY <1>0, <1>1, <1>3, OthersKeep, SameRaster
  <2>2. UNCHANGED links /\ Undisturbed(k)
    BY <1>0, <1>3, OthersKeep DEF Undisturbed
  <2>3. InHandOf(k, product) => InHandOf(k, product)'
    BY <1>0, <1>3, OthersKeep DEF Undisturbed, InFlight, Product
  <2>4. QED
    BY <1>2, <2>1, <2>2, <2>3 DEF LinkNames, LinksOf
<1>4. CASE ProcNext
  <2>0. Undisturbed(k) /\ me' = me
    BY <1>4, ProcWrites DEF Undisturbed
  <2>1. CASE ProcCatalog
    <3>1. /\ proc.pc = "catalog" /\ proc'.pc = "lineage" /\ InFlight' = InFlight
          /\ Product' = Product /\ artifacts' = artifacts \union {Row} /\ UNCHANGED links
      BY <1>0, <2>0, <2>1 DEF ProcCatalog, Row, TypeOK, ProcState, AfterRow, InFlight, Product
    <3>2. CASE k = InFlight /\ product = Product
      BY <3>1, <3>2
    <3>3. CASE k # InFlight \/ product # Product
      <4>1. Row.type = Product /\ <<Row.run, Row.scan>> = InFlight
        BY DEF Row, InFlight
      <4>2. a \in OpenedRaster(k, product)
        BY <3>1, <3>3, <4>1, SameRaster
      <4>3. QED
        BY <1>2, <2>0, <3>1, <4>2 DEF LinkNames, LinksOf
    <3>4. QED
      BY <3>2, <3>3
  <2>2. CASE ~ProcCatalog
    <3>1. a \in OpenedRaster(k, product)
      BY <1>4, <2>2, ProcWrites, SameRaster
    <3>2. CASE ProcLink
      BY <1>4, <2>0, <3>1, <3>2, ProcWrites, RasterLinked DEF ProcLink
    <3>3. CASE ~ProcLink
      <4>1. UNCHANGED links
        BY <1>4, <3>3, ProcWrites
      <4>2. InHandOf(k, product) => InHandOf(k, product)'
        BY <1>0, <1>4, <2>0, <2>2, <3>3, ProcLeads DEF Undisturbed, InFlight, Product
      <4>3. QED
        BY <1>2, <2>0, <3>1, <4>1, <4>2 DEF LinkNames, LinksOf
    <3>4. QED
      BY <3>2, <3>3
  <2>3. QED
    BY <2>1, <2>2
<1>5. QED
  BY <1>3, <1>4

LEMMA TablesStep ==
  IInv /\ OnPlan /\ TablesFollow /\ [Next]_vars => TablesFollow'
<1> SUFFICES ASSUME IInv, OnPlan, TablesFollow, [Next]_vars,
                    NEW k \in Keys, Undisturbed(k)', "cell_stats" \in Linked(k)'
             PROVE  TableProducts \subseteq Linked(k)' \union ToWrite(k)'
  BY DEF TablesFollow, Keys
<1>0. TypeOK /\ Owned /\ Staged
  BY DEF IInv
<1>1. Undisturbed(k) /\ "cell_stats" \in Linked(k)
        => TableProducts \subseteq Linked(k) \union ToWrite(k)
  BY DEF TablesFollow
<1>2. CASE ~ProcNext
  <2>1. Linked(k)' = Linked(k) /\ Undisturbed(k)
    BY <1>0, <1>2, OthersKeep DEF Linked, LinksOf, Undisturbed
  <2>2. ToWrite(k) \subseteq ToWrite(k)'
    BY <1>0, <1>2, OthersKeep DEF ToWrite, Writing, Undisturbed, InFlight
  <2>3. QED
    BY <1>1, <2>1, <2>2
<1>3. CASE ProcNext
  <2>0. Undisturbed(k) /\ me' = me
    BY <1>3, ProcWrites DEF Undisturbed
  <2>1. CASE ProcLink
    <3>1. /\ proc.pc = "link" /\ proc'.pc = "persist" /\ InFlight' = InFlight
          /\ proc.todo # <<>> /\ proc.todo \in Rests /\ proc'.todo = Tail(proc.todo)
      BY <1>0, <2>0, <2>1 DEF ProcLink, Staged, OnPlan, Writing, TypeOK, ProcState, InFlight
    <3>2. Linked(k)' = IF k = InFlight THEN Linked(k) \union {Product} ELSE Linked(k)
      BY <2>1, LinkedAfter
    <3>3. CASE k = InFlight
      <4>1. ToWrite(k) = Elements(proc.todo) /\ ToWrite(k)' = Elements(Tail(proc.todo))
        BY <3>1, <3>3 DEF ToWrite, Writing, Elements
      <4>2. /\ Elements(proc.todo) \subseteq {Product} \union Elements(Tail(proc.todo))
            /\ Product = "cell_stats"
                 => TableProducts \subseteq {Product} \union Elements(Tail(proc.todo))
        BY <3>1, RestParts DEF Product
      <4>3. QED
        BY <1>1, <2>0, <3>2, <3>3, <4>1, <4>2
    <3>4. CASE k # InFlight
      <4>1. ToWrite(k) = {}
        BY <3>4 DEF ToWrite
      <4>2. QED
        BY <1>1, <2>0, <3>2, <3>4, <4>1
    <3>5. QED
      BY <3>3, <3>4
  <2>2. CASE ~ProcLink
    <3>1. Linked(k)' = Linked(k)
      BY <1>3, <2>2, ProcWrites DEF Linked, LinksOf
    <3>2. ToWrite(k) \subseteq ToWrite(k)'
      <4>1. \/ proc' = proc
            \/ proc.pc \in Writing /\ proc'.pc \in Writing /\ proc'.todo = proc.todo
                 /\ proc'.scan = proc.scan
            \/ proc.pc \notin Writing
            \/ proc.todo = <<>>
            \/ failedOnce' = failedOnce \union {InFlight}
        BY <1>0, <1>3, <2>2, ProcLeads DEF Writing
      <4>2. Elements(<<>>) = {}
        BY DEF Elements
      <4>3. QED
        BY <2>0, <4>1, <4>2 DEF ToWrite, InFlight, Undisturbed
    <3>3. QED
      BY <1>1, <2>0, <3>1, <3>2
  <2>3. QED
    BY <2>1, <2>2
<1>4. QED
  BY <1>2, <1>3

(* Following is preserved wherever IInv holds. *)
LEMMA FollowingStep == IInv /\ Following /\ [Next]_vars => Following'
  BY PlanStep, NewestStep, RasterStep, TablesStep DEF Following

LEMMA FollowingInit == Init => Following
  BY DEF Init, Following, OnPlan, FailureKept, Newest, RasterFollows, TablesFollow, Rest, Writing,
         OpenedRaster, Linked, LinksOf

(* For a scan neither cut short nor failed, the raster a reader opens is the *)
(* one it links or the one being published, and cell statistics come with    *)
(* the other tables or with the pass that still writes them.                 *)
THEOREM FollowingHolds == Spec => []Following
  BY Invariance, FollowingInit, FollowingStep, PTL DEF Spec

(* The raster that open_scan_raster returns of a scan nobody works on is the *)
(* one the scan's link names, however often the scan was processed, unless a *)
(* process ended or a write raised in the middle of it.                      *)
THEOREM RasterIsLinkedHolds == Spec => []RasterIsLinked
<1>1. Following => RasterIsLinked
  BY DEF Following, RasterFollows, RasterIsLinked, Undisturbed, BeingProcessed
<1>2. QED
  BY <1>1, FollowingHolds, PTL

(* A complete scan nobody works on has its tracks and volume statistics,     *)
(* though link_scan_product calls it complete before they are written,       *)
(* unless a process ended or a write raised in the middle of it.             *)
THEOREM TracksUnlessCutHolds == Spec => []TracksUnlessCut
<1>1. ASSUME IInv, Following, NEW k \in Keys, status[k] = "complete", ~BeingProcessed(k),
             Undisturbed(k)
      PROVE  TableProducts \subseteq ReadableOf(k)
  <2>1. ReadableOf(k) = Linked(k)
    BY <1>1, ReadableIsLinked DEF IInv
  <2>2. "cell_stats" \in Linked(k)
    BY <1>1, <2>1 DEF IInv, CompleteExactly, Required
  <2>3. ToWrite(k) = {}
    BY <1>1 DEF BeingProcessed, ToWrite, Writing
  <2>4. QED
    BY <1>1, <2>1, <2>2, <2>3 DEF Following, TablesFollow
<1>2. IInv /\ Following => TracksUnlessCut
  BY <1>1 DEF TracksUnlessCut, Undisturbed
<1>3. QED
  BY <1>2, Invariance, FollowingHolds, PTL
===============================================================================
