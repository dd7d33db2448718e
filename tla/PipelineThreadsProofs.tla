------------------------ MODULE PipelineThreadsProofs ------------------------
(***************************************************************************)
(* Proofs about PipelineThreads, for every number of scans, queue size,    *)
(* configuration and number of failures.                                   *)
(*                                                                         *)
(* The inductive invariant is IInv.  Its parts say                         *)
(*   Typed      types, and the range of the source's loop variable;        *)
(*   QueueInv   what was queued, what the source remembers and where its   *)
(*              loop stands agree;                                         *)
(*   PassInv    what a pass has walked so far, and what "complete" means;  *)
(*   ProcInv    every message taken has an outcome, is in flight or was    *)
(*              abandoned after the grace period;                          *)
(*   StopInv    what is known in each phase of the shutdown.               *)
(***************************************************************************)
EXTENDS PipelineThreads, TLAPS

InLog == {log[i] : i \in 1 .. Len(log)}

Starting == orch \in {"begin", "create_source", "build_processor"}

(* The phases of the orchestrator after it told the source to stop. *)
StopPhase == orch \in {"stop_join_source", "stop_processor", "join_processor",
                       "summary", "finalize", "close", "dead"}

Typed ==
  /\ TypeOK
  /\ src \in {"acquire", "put"} => idx <= passEnd
  /\ orch \in {"finalize"} => summary # "none"

QueueInv ==
  /\ QueuedOnce
  /\ Aws => known = InLog
  /\ ~Aws => known = {} /\ src # "poll" /\ \A i \in 1 .. Len(log) : log[i] < idx
  /\ src \in {"acquire", "put"} => idx \notin InLog
  /\ src = "unborn" => Len(log) = 0
  /\ orch \in {"begin", "create_source"} => src = "unborn"

Attempted == Scans \subseteq InLog \cup dlFailed

PassInv ==
  /\ srcComplete => src \in {"exit", "dead"}
  /\ srcStop => srcComplete \/ StopPhase
  /\ orch \in {"join_source", "drain"} => srcComplete /\ Historical
  /\ exitReason = "drained" => srcComplete /\ QSize = 0
  /\ Historical /\ src \in {"scan", "acquire", "put"} =>
       passEnd = NScans /\ \A s \in 1 .. idx - 1 : s \in InLog \cup dlFailed
  /\ Historical /\ srcComplete /\ ~fetchFailed =>
       Attempted \/ (StopPhase /\ exitReason # "drained")

ProcInv ==
  /\ Starting => proc = "unborn"
  /\ proc = "busy" => taken > 0
  /\ \A i \in 1 .. taken : \/ outcome[log[i]] # "none"
                           \/ proc = "busy" /\ i = taken
                           \/ "proc" \in graceExpired

StopInv ==
  /\ orch \in {"summary", "finalize", "close", "dead"} /\ ProcAlive => "proc" \in graceExpired
  /\ summary # "none" => orch \in {"finalize", "close", "dead"}
  /\ stopRequested => interrupted
  /\ cli \in {"join_term", "interrupted"} => interrupted
  /\ askedInLoop => stopRequested
  /\ askedInLoop /\ summary # "none" => summary = "cancelled"
  /\ orch \notin {"begin", "close", "dead"} => run = "running"
  /\ askedInLoop /\ summary # "none" => run # "completed"

LateInv ==
  /\ lateTakes <= 1
  /\ procStop /\ proc = "get" => lateTakes = 0
  /\ lateTakes > 0 => procStop

IInv == Typed /\ QueueInv /\ PassInv /\ ProcInv /\ StopInv /\ LateInv

-----------------------------------------------------------------------------
(* The types of the variables, as one fact for the provers. *)
USE DEF Scans, RunStatuses, SrcStates, ProcStates, OrchStates, CliStates, ExitReasons, Outcomes,
        Historical, Aws, Finite, QSize, QueueHasRoom, SrcAlive, ProcAlive

(* The steps of each thread, with the variables the other threads own. *)
USE DEF SrcFrame, ProcFrame, OrchFrame, SrcSame, FlagSame, CliFrame, ThreadsSame, Fault, Leave,
        srcVars, procVars, orchVars, cliVars, auxSrc

(* Append on a sequence of S: its type, its length, its elements. *)
LEMMA AppendFacts ==
  ASSUME NEW S, NEW s \in Seq(S), NEW e \in S
  PROVE  /\ Append(s, e) \in Seq(S)
         /\ Len(Append(s, e)) = Len(s) + 1
         /\ \A i \in 1 .. Len(s) : Append(s, e)[i] = s[i]
         /\ Append(s, e)[Len(s) + 1] = e
  OBVIOUS

(* What is in the sequence after an Append. *)
LEMMA AppendElements ==
  ASSUME NEW S, NEW s \in Seq(S), NEW e \in S
  PROVE  {Append(s, e)[i] : i \in 1 .. Len(Append(s, e))} = {s[i] : i \in 1 .. Len(s)} \cup {e}
<1> DEFINE t == Append(s, e)
<1>1. /\ Len(s) \in Nat /\ Len(t) = Len(s) + 1 /\ t[Len(s) + 1] = e
      /\ \A i \in 1 .. Len(s) : t[i] = s[i]
  BY ONLY s \in Seq(S), e \in S, AppendFacts
<1> HIDE DEF t
<1>2. 1 .. Len(t) = (1 .. Len(s)) \cup {Len(s) + 1}
  BY ONLY <1>1
<1>3. \A x : x \in {t[i] : i \in 1 .. Len(t)} <=> x \in {s[i] : i \in 1 .. Len(s)} \/ x = e
  BY ONLY <1>1, <1>2
<1>4. {t[i] : i \in 1 .. Len(t)} = {s[i] : i \in 1 .. Len(s)} \cup {e}
  BY <1>3, Zenon
<1>5. QED
  BY <1>4 DEF t

(* The length and the elements of a sequence over S. *)
LEMMA ElementsOfSeq ==
  ASSUME NEW S, NEW s \in Seq(S)
  PROVE  Len(s) \in Nat /\ \A i \in 1 .. Len(s) : s[i] \in S
  OBVIOUS

(* The initial states have their types. *)
LEMMA InitTyped == Init => Typed
<1> SUFFICES ASSUME Init PROVE Typed
  OBVIOUS
<1>1. /\ srcStop \in BOOLEAN /\ srcComplete \in BOOLEAN /\ procStop \in BOOLEAN
      /\ interrupted \in BOOLEAN /\ stopRequested \in BOOLEAN /\ fetchFailed \in BOOLEAN
      /\ forced \in BOOLEAN /\ askedInLoop \in BOOLEAN /\ storeOpen \in BOOLEAN
  BY Zenon DEF Init
<1>2. log \in Seq(Scans) /\ Len(log) = 0
  BY DEF Init
<1>3. outcome \in [Scans -> Outcomes]
  BY DEF Init
<1>4. QED
  BY <1>1, <1>2, <1>3, ConstantsAssumption DEF Init, Typed, TypeOK

(* Each step of each thread keeps the types. *)
LEMMA TypedStep == Typed /\ [Next]_vars => Typed'
<1> SUFFICES ASSUME Typed, [Next]_vars PROVE Typed'
  OBVIOUS
<1> USE ConstantsAssumption DEF Typed, TypeOK
<1>1. ASSUME SrcLeave PROVE Typed'
  BY <1>1 DEF SrcLeave
<1>2. ASSUME SrcFetch PROVE Typed'
  BY <1>2 DEF SrcFetch, LatestFrom
<1>3. ASSUME SrcFetchFails PROVE Typed'
  BY <1>3 DEF SrcFetchFails
<1>4. ASSUME SrcPassEnds PROVE Typed'
  BY <1>4 DEF SrcPassEnds, PassOver
<1>5. ASSUME SrcPassStopped PROVE Typed'
  BY <1>5 DEF SrcPassStopped
<1>6. ASSUME SrcSkipKnown PROVE Typed'
  BY <1>6 DEF SrcSkipKnown
<1>7. ASSUME SrcTurnToScan PROVE Typed'
  BY <1>7 DEF SrcTurnToScan
<1>8. ASSUME SrcAcquire PROVE Typed'
  BY <1>8 DEF SrcAcquire
<1>9. ASSUME SrcDownloadFails PROVE Typed'
  BY <1>9 DEF SrcDownloadFails
<1>10. ASSUME SrcAcquireRaises PROVE Typed'
  BY <1>10 DEF SrcAcquireRaises
<1>11. ASSUME SrcPut PROVE Typed'
  BY AppendFacts, <1>11 DEF SrcPut, KnownAfterPut
<1>12. ASSUME SrcExit PROVE Typed'
  BY <1>12 DEF SrcExit
<1>13. ASSUME ProcCheck PROVE Typed'
  BY <1>13 DEF ProcCheck
<1>14. ASSUME ProcGet PROVE Typed'
  BY <1>14 DEF ProcGet
<1>15. ASSUME ProcGetEmpty PROVE Typed'
  BY <1>15 DEF ProcGetEmpty
<1>16. ASSUME ProcScanDone PROVE Typed'
  <2>1. outcome' \in [Scans -> Outcomes]
    BY <1>16 DEF ProcScanDone
  <2>2. proc' \in ProcStates
    BY <1>16 DEF ProcScanDone, ProcAfterScan
  <2>3. QED
    BY <1>16, <2>1, <2>2 DEF ProcScanDone
<1>17. ASSUME ProcScanFails PROVE Typed'
  <2>1. outcome' \in [Scans -> Outcomes]
    BY <1>17 DEF ProcScanFails
  <2>2. proc' \in ProcStates
    BY <1>17 DEF ProcScanFails, ProcAfterScan
  <2>3. QED
    BY <1>17, <2>1, <2>2 DEF ProcScanFails
<1>18. ASSUME ProcContractViolation PROVE Typed'
  <2>1. outcome' \in [Scans -> Outcomes]
    BY <1>18 DEF ProcContractViolation
  <2>2. proc' \in ProcStates
    BY <1>18 DEF ProcContractViolation, ProcAfterScan
  <2>3. QED
    BY <1>18, <2>1, <2>2 DEF ProcContractViolation
<1>19. ASSUME OrchBegin PROVE Typed'
  BY <1>19 DEF OrchBegin
<1>20. ASSUME OrchCreateSource PROVE Typed'
  BY <1>20 DEF OrchCreateSource
<1>21. ASSUME OrchBuildProcessor PROVE Typed'
  BY <1>21 DEF OrchBuildProcessor
<1>22. ASSUME OrchStartRaises PROVE Typed'
  BY <1>22 DEF OrchStartRaises
<1>23. ASSUME OrchLoop PROVE Typed'
  BY <1>23 DEF OrchLoop
<1>24. ASSUME OrchCheckComplete PROVE Typed'
  <2>1. srcStop' \in BOOLEAN
    BY <1>24, Zenon DEF OrchCheckComplete
  <2>2. QED
    BY <1>24, <2>1 DEF OrchCheckComplete
<1>25. ASSUME OrchCheckAlive PROVE Typed'
  BY <1>25 DEF OrchCheckAlive
<1>26. ASSUME OrchJoinSource PROVE Typed'
  BY <1>26 DEF OrchJoinSource
<1>27. ASSUME OrchDrain PROVE Typed'
  BY <1>27 DEF OrchDrain, Drained
<1>28. ASSUME OrchStopSource PROVE Typed'
  <2>1. srcStop' \in BOOLEAN
    BY <1>28, Zenon DEF OrchStopSource
  <2>2. QED
    BY <1>28, <2>1 DEF OrchStopSource
<1>29. ASSUME OrchStopJoinSource PROVE Typed'
  BY <1>29 DEF OrchStopJoinSource, JoinReturns
<1>30. ASSUME OrchStopProcessor PROVE Typed'
  <2>1. procStop' \in BOOLEAN
    BY <1>30, Zenon DEF OrchStopProcessor
  <2>2. QED
    BY <1>30, <2>1 DEF OrchStopProcessor
<1>31. ASSUME OrchJoinProcessor PROVE Typed'
  BY <1>31 DEF OrchJoinProcessor, JoinReturns
<1>32. ASSUME OrchSummary PROVE Typed'
  BY <1>32 DEF OrchSummary
<1>33. ASSUME OrchFinalize PROVE Typed'
  BY <1>33 DEF OrchFinalize
<1>34. ASSUME OrchClose PROVE Typed'
  <2>1. storeOpen' \in BOOLEAN
    BY <1>34, Zenon DEF OrchClose
  <2>2. QED
    BY <1>34, <2>1 DEF OrchClose
<1>35. ASSUME CliSigterm PROVE Typed'
  BY <1>35 DEF CliSigterm
<1>36. ASSUME CliSigint PROVE Typed'
  BY <1>36 DEF CliSigint
<1>37. ASSUME CliRequestStop PROVE Typed'
  BY <1>37 DEF CliRequestStop
<1>38. ASSUME CliJoined PROVE Typed'
  BY <1>38 DEF CliJoined
<1>39. ASSUME CliGiveUp PROVE Typed'
  BY <1>39 DEF CliGiveUp
<1>40. ASSUME CliFinally PROVE Typed'
  <2>1. storeOpen' \in BOOLEAN
    BY <1>40, Zenon DEF CliFinally
  <2>2. QED
    BY <1>40, <2>1 DEF CliFinally
<1>41. ASSUME ProcessExit PROVE Typed'
  BY <1>41 DEF ProcessExit
<1>42. ASSUME UNCHANGED vars PROVE Typed'
  BY <1>42 DEF vars
<1>43. QED
  BY <1>1, <1>2, <1>3, <1>4, <1>5, <1>6, <1>7, <1>8, <1>9, <1>10, <1>11, <1>12, <1>13, <1>14, <1>15, <1>16, <1>17, <1>18, <1>19, <1>20, <1>21, <1>22, <1>23, <1>24, <1>25, <1>26, <1>27, <1>28, <1>29, <1>30, <1>31, <1>32, <1>33, <1>34, <1>35, <1>36, <1>37, <1>38, <1>39, <1>40, <1>41, <1>42 DEF Next, SrcNext, ProcNext, OrchNext, CliNext, Terminated

(* TypeOK holds in every reachable state: the queue stays within its bound   *)
(* and the source's loop variable within its listing, for every instance.    *)
THEOREM TypeCorrect == Spec => []TypeOK
<1>1. Typed => TypeOK
  BY DEF Typed
<1>2. QED
  BY InitTyped, TypedStep, <1>1, PTL DEF Spec

-----------------------------------------------------------------------------
(* What the processor and the main thread leave alone. *)
LEMMA ProcKeeps ==
  ProcNext => UNCHANGED <<conf, src, srcComplete, idx, passEnd, known, srcStop, log,
                          orch, exitReason, summary, run, askedInLoop,
                          cli, interrupted, stopRequested, forced,
                          dlFailed, fetchFailed, graceExpired>>
  BY DEF ProcNext, ProcCheck, ProcGet, ProcGetEmpty, ProcScanDone, ProcScanFails,
         ProcContractViolation

MainNext == CliSigterm \/ CliSigint \/ CliNext

LEMMA MainKeeps ==
  MainNext => /\ UNCHANGED <<conf, srcComplete, idx, passEnd, known, srcStop, log,
                              orch, exitReason, summary, run, askedInLoop,
                              outcome, taken, lateTakes, procStop,
                              dlFailed, fetchFailed, graceExpired>>
              /\ src' = src \/ (src' = "dead" /\ SrcAlive)
              /\ proc' = proc \/ (proc' = "dead" /\ ProcAlive /\ orch = "dead")
  BY DEF MainNext, CliNext, CliSigterm, CliSigint, CliRequestStop, CliJoined, CliGiveUp,
         CliFinally, ProcessExit

(* Every step is a source step, a processor step, an orchestrator step, a    *)
(* step of the main thread, or leaves all variables unchanged.               *)
LEMMA StepCases ==
  [Next]_vars => SrcNext \/ ProcNext \/ OrchNext \/ MainNext \/ UNCHANGED vars
  BY DEF Next, MainNext, Terminated

(* Orchestrator steps other than starting the source leave it alone. *)
LEMMA OrchKeeps ==
  OrchNext => /\ UNCHANGED <<conf, srcComplete, known, log, outcome, taken, lateTakes,
                              cli, interrupted, stopRequested, forced, dlFailed, fetchFailed>>
              /\ \/ UNCHANGED <<src, idx, passEnd>>
                 \/ OrchCreateSource
  BY DEF OrchNext, OrchBegin, OrchCreateSource, OrchBuildProcessor, OrchStartRaises, OrchLoop,
         OrchCheckComplete, OrchCheckAlive, OrchJoinSource, OrchDrain, OrchStopSource,
         OrchStopJoinSource, OrchStopProcessor, OrchJoinProcessor, OrchSummary, OrchFinalize,
         OrchClose

-----------------------------------------------------------------------------
(* Initially nothing is queued, nothing runs and nothing was lost. *)
LEMMA InitRest == Init => QueueInv /\ PassInv /\ ProcInv /\ StopInv /\ LateInv
<1> SUFFICES ASSUME Init PROVE QueueInv /\ PassInv /\ ProcInv /\ StopInv /\ LateInv
  OBVIOUS
<1> USE ConstantsAssumption DEF Init
<1>1. QueueInv
  BY DEF QueueInv, QueuedOnce, InLog
<1>2. PassInv
  BY DEF PassInv
<1>3. ProcInv
  BY DEF ProcInv, Starting
<1>4. StopInv
  BY DEF StopInv
<1>5. LateInv
  BY DEF LateInv
<1>6. QED
  BY <1>1, <1>2, <1>3, <1>4, <1>5

(* A scan is queued only if it is not known, and what is known was queued.   *)
(* Only the put changes the log; every other step leaves it alone.           *)
LEMMA QueueStep == Typed /\ QueueInv /\ [Next]_vars => QueueInv'
<1> SUFFICES ASSUME Typed, QueueInv, [Next]_vars PROVE QueueInv'
  OBVIOUS
<1>1. ASSUME SrcPut PROVE QueueInv'
  <2>1. /\ log \in Seq(Scans) /\ idx \in Scans /\ idx \notin InLog
        /\ orch \notin {"begin", "create_source"}
    BY <1>1, ConstantsAssumption DEF SrcPut, Typed, TypeOK, QueueInv
  <2>2. /\ Len(log') = Len(log) + 1
        /\ \A i \in 1 .. Len(log) : log'[i] = log[i]
        /\ log'[Len(log) + 1] = idx
    BY <2>1, <1>1, AppendFacts DEF SrcPut
  <2>3. QueuedOnce'
    BY <2>1, <2>2 DEF QueueInv, QueuedOnce, InLog
  <2>4. InLog' = InLog \cup {idx}
    BY ONLY <2>1, <1>1, AppendElements DEF InLog, SrcPut
  <2>5. idx \in Int /\ idx' = idx + 1
    BY <1>1, <2>1, ConstantsAssumption DEF SrcPut
  <2>6. ~Aws => \A i \in 1 .. Len(log') : log'[i] < idx'
    <3> SUFFICES ASSUME ~Aws, NEW i \in 1 .. Len(log') PROVE log'[i] < idx'
      OBVIOUS
    <3>1. \A j \in 1 .. Len(log) : log[j] \in Int /\ log[j] < idx
      BY <2>1, ConstantsAssumption DEF QueueInv
    <3>2. QED
      BY <3>1, <2>1, <2>2, <2>5
  <2>7. QED
    BY <1>1, <2>1, <2>3, <2>4, <2>6 DEF SrcPut, KnownAfterPut, QueueInv
<1> USE DEF QueueInv, QueuedOnce, InLog
<1>2. ASSUME SrcTurnToScan PROVE QueueInv'
  BY <1>2 DEF SrcTurnToScan, Typed, TypeOK
<1>3. ASSUME SrcFetch \/ SrcFetchFails PROVE QueueInv'
  BY <1>3 DEF SrcFetch, SrcFetchFails
<1>4. ASSUME SrcSkipKnown PROVE QueueInv'
  BY <1>4 DEF SrcSkipKnown, Typed, TypeOK
<1>5. ASSUME SrcAcquire \/ SrcAcquireRaises \/ SrcDownloadFails PROVE QueueInv'
  BY <1>5 DEF SrcAcquire, SrcAcquireRaises, SrcDownloadFails
<1>6. ASSUME SrcLeave \/ SrcPassEnds \/ SrcPassStopped \/ SrcExit PROVE QueueInv'
  BY <1>6 DEF SrcLeave, SrcPassEnds, SrcPassStopped, SrcExit
<1>7. ASSUME ProcNext PROVE QueueInv'
  BY <1>7, ProcKeeps
<1>8. ASSUME OrchCreateSource PROVE QueueInv'
  BY <1>8 DEF OrchCreateSource, Typed, TypeOK
<1>9. ASSUME OrchNext, UNCHANGED <<src, idx, passEnd>> PROVE QueueInv'
  <2>1. orch' \in {"begin", "create_source"} => orch = "begin"
    BY <1>9 DEF OrchNext, OrchBegin, OrchCreateSource, OrchBuildProcessor, OrchStartRaises,
         OrchLoop, OrchCheckComplete, OrchCheckAlive, OrchJoinSource, OrchDrain,
         OrchStopSource, OrchStopJoinSource, OrchStopProcessor, OrchJoinProcessor,
         OrchSummary, OrchFinalize, OrchClose
  <2>2. QED
    BY <1>9, <2>1, OrchKeeps
<1>10. ASSUME MainNext PROVE QueueInv'
  BY <1>10, MainKeeps
<1>11. ASSUME UNCHANGED vars PROVE QueueInv'
  BY <1>11 DEF vars
<1>12. QED
  BY <1>1, <1>2, <1>3, <1>4, <1>5, <1>6, <1>7, <1>8, <1>9, <1>10, <1>11, OrchKeeps, StepCases
     DEF SrcNext

(* What is known in each phase of the shutdown.  A stop asked for while the  *)
(* loop ran has set the interrupt flag first, so the status read afterwards  *)
(* is "cancelled"; a worker alive past stop() outlived its grace period.     *)
LEMMA StopStep == Typed /\ ProcInv /\ StopInv /\ [Next]_vars => StopInv'
<1> SUFFICES ASSUME Typed, ProcInv, StopInv, [Next]_vars PROVE StopInv'
  OBVIOUS
<1> USE DEF StopInv
<1>1. ASSUME SrcNext PROVE StopInv'
  <2>1. UNCHANGED <<proc, graceExpired, summary, orch, stopRequested, interrupted, cli,
                    askedInLoop, run>>
    BY <1>1 DEF SrcNext, SrcLeave, SrcFetch, SrcFetchFails, SrcPassEnds, SrcPassStopped,
         SrcSkipKnown, SrcTurnToScan, SrcAcquire, SrcDownloadFails, SrcAcquireRaises, SrcPut,
         SrcExit
  <2>2. QED
    BY <2>1
<1>2. ASSUME ProcNext PROVE StopInv'
  <2>1. ProcAlive' => ProcAlive
    BY <1>2 DEF ProcNext, ProcCheck, ProcGet, ProcGetEmpty, ProcScanDone, ProcScanFails,
         ProcContractViolation
  <2>2. QED
    BY <1>2, <2>1, ProcKeeps
<1>3. ASSUME OrchBegin \/ OrchCreateSource \/ OrchBuildProcessor PROVE StopInv'
  BY <1>3 DEF OrchBegin, OrchCreateSource, OrchBuildProcessor
<1>4. ASSUME OrchStartRaises PROVE StopInv'
  BY <1>4 DEF OrchStartRaises, ProcInv, Starting
<1>5. ASSUME OrchLoop \/ OrchCheckComplete \/ OrchCheckAlive \/ OrchJoinSource \/ OrchDrain
      PROVE StopInv'
  BY <1>5 DEF OrchLoop, OrchCheckComplete, OrchCheckAlive, OrchJoinSource, OrchDrain
<1>6. ASSUME OrchStopSource PROVE StopInv'
  BY <1>6 DEF OrchStopSource
<1>7. ASSUME OrchStopJoinSource PROVE StopInv'
  BY <1>7 DEF OrchStopJoinSource
<1>8. ASSUME OrchStopProcessor PROVE StopInv'
  BY <1>8 DEF OrchStopProcessor
<1>9. ASSUME OrchJoinProcessor PROVE StopInv'
  BY <1>9 DEF OrchJoinProcessor
<1>10. ASSUME OrchSummary PROVE StopInv'
  BY <1>10 DEF OrchSummary
<1>11. ASSUME OrchFinalize PROVE StopInv'
  BY <1>11 DEF OrchFinalize
<1>12. ASSUME OrchClose PROVE StopInv'
  BY <1>12 DEF OrchClose
<1>13. ASSUME CliSigterm \/ CliSigint PROVE StopInv'
  BY <1>13 DEF CliSigterm, CliSigint
<1>14. ASSUME CliRequestStop PROVE StopInv'
  BY <1>14 DEF CliRequestStop
<1>15. ASSUME CliJoined \/ CliGiveUp \/ CliFinally PROVE StopInv'
  BY <1>15 DEF CliJoined, CliGiveUp, CliFinally
<1>16. ASSUME ProcessExit PROVE StopInv'
  BY <1>16 DEF ProcessExit
<1>17. ASSUME UNCHANGED vars PROVE StopInv'
  BY <1>17 DEF vars
<1>18. QED
  BY <1>1, <1>2, <1>3, <1>4, <1>5, <1>6, <1>7, <1>8, <1>9, <1>10, <1>11, <1>12, <1>13, <1>14,
     <1>15, <1>16, <1>17, StepCases DEF OrchNext, MainNext, CliNext

(* Every message taken from the queue has an outcome, is in flight, or was   *)
(* abandoned with the processor after its grace period.                      *)
LEMMA ProcStep == Typed /\ StopInv /\ ProcInv /\ [Next]_vars => ProcInv'
<1> SUFFICES ASSUME Typed, StopInv, ProcInv, [Next]_vars PROVE ProcInv'
  OBVIOUS
<1>0. /\ log \in Seq(Scans) /\ taken \in 0 .. Len(log) /\ outcome \in [Scans -> Outcomes]
      /\ Len(log) \in Nat /\ \A i \in 1 .. Len(log) : log[i] \in Scans
  <2>1. log \in Seq(Scans) /\ taken \in 0 .. Len(log) /\ outcome \in [Scans -> Outcomes]
    BY Zenon DEF Typed, TypeOK
  <2>2. QED
    BY ONLY <2>1, ElementsOfSeq
<1>1. ASSUME SrcPut PROVE ProcInv'
  <2>1. \A i \in 1 .. taken : log'[i] = log[i]
    BY <1>0, <1>1, AppendFacts, ConstantsAssumption DEF SrcPut, Typed, TypeOK
  <2>2. UNCHANGED <<orch, proc, taken, outcome, graceExpired>>
    BY <1>1 DEF SrcPut
  <2>3. QED
    BY <2>1, <2>2 DEF ProcInv, Starting
<1>2. ASSUME SrcNext, UNCHANGED log PROVE ProcInv'
  <2>1. UNCHANGED <<orch, proc, taken, outcome, graceExpired>>
    BY <1>2 DEF SrcNext, SrcLeave, SrcFetch, SrcFetchFails, SrcPassEnds, SrcPassStopped,
         SrcSkipKnown, SrcTurnToScan, SrcAcquire, SrcDownloadFails, SrcAcquireRaises, SrcPut,
         SrcExit
  <2>2. QED
    BY <1>2, <2>1 DEF ProcInv, Starting
<1>3. SrcNext => SrcPut \/ UNCHANGED log
  BY DEF SrcNext, SrcLeave, SrcFetch, SrcFetchFails, SrcPassEnds, SrcPassStopped,
         SrcSkipKnown, SrcTurnToScan, SrcAcquire, SrcDownloadFails, SrcAcquireRaises, SrcExit
<1>4. ASSUME ProcCheck \/ ProcGetEmpty PROVE ProcInv'
  BY <1>0, <1>4 DEF ProcInv, Starting, ProcCheck, ProcGetEmpty
<1>5. ASSUME ProcGet PROVE ProcInv'
  BY <1>0, <1>5 DEF ProcInv, Starting, ProcGet
<1>6. ASSUME ProcScanDone \/ ProcScanFails \/ ProcContractViolation PROVE ProcInv'
  <2>1. /\ proc = "busy" /\ taken \in 1 .. Len(log) /\ proc' # "unborn"
        /\ UNCHANGED <<log, taken, orch, graceExpired>>
    BY <1>0, <1>6 DEF ProcInv, Starting, ProcScanDone, ProcScanFails, ProcContractViolation,
         ProcAfterScan
  <2>2. \E o \in Outcomes \ {"none"} : outcome' = [outcome EXCEPT ![log[taken]] = o]
    BY <1>6 DEF ProcScanDone, ProcScanFails, ProcContractViolation, InFlight
  <2>3. outcome'[log[taken]] # "none"
    BY <1>0, <2>1, <2>2
  <2>4. \A i \in 1 .. taken : outcome[log[i]] # "none" => outcome'[log[i]] # "none"
    BY <1>0, <2>1, <2>2
  <2>5. /\ Starting' => proc' = "unborn"
        /\ proc' = "busy" => taken' > 0
    BY <1>0, <2>1 DEF ProcInv, Starting
  <2>6. QED
    BY <1>0, <2>1, <2>3, <2>4, <2>5 DEF ProcInv
<1>7. ASSUME OrchNext PROVE ProcInv'
  <2>1. /\ proc = "busy" => proc' = "busy"
        /\ proc' = "busy" => proc = "busy"
        /\ Starting' => Starting /\ proc' = proc
        /\ graceExpired \subseteq graceExpired'
    BY <1>7 DEF OrchNext, OrchBegin, OrchCreateSource, OrchBuildProcessor, OrchStartRaises,
         OrchLoop, OrchCheckComplete, OrchCheckAlive, OrchJoinSource, OrchDrain,
         OrchStopSource, OrchStopJoinSource, OrchStopProcessor, OrchJoinProcessor,
         OrchSummary, OrchFinalize, OrchClose, ProcInv, Starting
  <2>2. UNCHANGED <<log, taken, outcome>>
    BY <1>7, OrchKeeps
  <2>3. QED
    BY <2>1, <2>2 DEF ProcInv
<1>8. ASSUME MainNext PROVE ProcInv'
  <2>1. /\ proc' = proc \/ (proc' = "dead" /\ ~Starting /\ "proc" \in graceExpired)
        /\ UNCHANGED <<orch, log, taken, outcome, graceExpired>>
    BY <1>8, MainKeeps DEF StopInv, Starting
  <2>2. Starting' = Starting
    BY <2>1 DEF Starting
  <2>3. QED
    BY <1>0, <2>1, <2>2 DEF ProcInv
<1>9. ASSUME UNCHANGED vars PROVE ProcInv'
  BY <1>9 DEF vars, ProcInv, Starting
<1>10. QED
  BY <1>1, <1>2, <1>3, <1>4, <1>5, <1>6, <1>7, <1>8, <1>9, StepCases DEF ProcNext

(* Only a get() already waiting when the processor is told to stop can still *)
(* take a message.                                                           *)
LEMMA LateStep == Typed /\ LateInv /\ [Next]_vars => LateInv'
<1> SUFFICES ASSUME Typed, LateInv, [Next]_vars PROVE LateInv'
  OBVIOUS
<1>0. lateTakes \in Nat
  BY DEF Typed, TypeOK
<1> USE DEF LateInv
<1>1. ASSUME SrcNext PROVE LateInv'
  <2>1. UNCHANGED <<lateTakes, procStop, proc>>
    BY <1>1 DEF SrcNext, SrcLeave, SrcFetch, SrcFetchFails, SrcPassEnds, SrcPassStopped,
         SrcSkipKnown, SrcTurnToScan, SrcAcquire, SrcDownloadFails, SrcAcquireRaises, SrcPut,
         SrcExit
  <2>2. QED
    BY <2>1
<1>2. ASSUME ProcCheck \/ ProcGetEmpty PROVE LateInv'
  BY <1>0, <1>2 DEF ProcCheck, ProcGetEmpty
<1>3. ASSUME ProcGet PROVE LateInv'
  BY <1>0, <1>3 DEF ProcGet
<1>4. ASSUME ProcScanDone \/ ProcScanFails PROVE LateInv'
  BY <1>0, <1>4 DEF ProcScanDone, ProcScanFails, ProcAfterScan
<1>5. ASSUME ProcContractViolation PROVE LateInv'
  BY <1>0, <1>5 DEF ProcContractViolation, ProcAfterScan
<1>6. ASSUME OrchNext PROVE LateInv'
  <2>1. /\ procStop => procStop'
        /\ proc' = "get" => proc = "get"
    BY <1>6 DEF OrchNext, OrchBegin, OrchCreateSource, OrchBuildProcessor, OrchStartRaises,
         OrchLoop, OrchCheckComplete, OrchCheckAlive, OrchJoinSource, OrchDrain,
         OrchStopSource, OrchStopJoinSource, OrchStopProcessor, OrchJoinProcessor,
         OrchSummary, OrchFinalize, OrchClose
  <2>2. procStop' => procStop \/ lateTakes = 0
    BY <1>0
  <2>3. QED
    BY <1>0, <1>6, <2>1, <2>2, OrchKeeps
<1>7. ASSUME MainNext PROVE LateInv'
  BY <1>7, MainKeeps
<1>8. ASSUME UNCHANGED vars PROVE LateInv'
  BY <1>8 DEF vars
<1>9. QED
  BY <1>1, <1>2, <1>3, <1>4, <1>5, <1>6, <1>7, <1>8, StepCases DEF ProcNext

(* A pass of a historical source leaves no scan behind: what precedes its    *)
(* loop variable was queued or failed to download.  "Complete" is reported   *)
(* by a source that has left its loop, so that nothing is queued afterwards. *)
LEMMA PassStep == Typed /\ QueueInv /\ PassInv /\ [Next]_vars => PassInv'
<1> SUFFICES ASSUME Typed, QueueInv, PassInv, [Next]_vars PROVE PassInv'
  OBVIOUS
<1>0. /\ log \in Seq(Scans) /\ taken \in 0 .. Len(log) /\ Len(log) \in Nat
      /\ idx \in 1 .. NScans + 1 /\ passEnd \in 0 .. NScans /\ NScans \in Nat \ {0}
      /\ src \in {"acquire", "put"} => idx <= passEnd
  BY ConstantsAssumption DEF Typed, TypeOK
<1> DEFINE Walked == \A s \in 1 .. idx - 1 : s \in InLog \cup dlFailed
<1>a. UNCHANGED <<log>> => InLog' = InLog
  BY DEF InLog
<1>1. ASSUME SrcPut PROVE PassInv'
  <2>1. /\ src = "put" /\ src' = "scan" /\ idx' = idx + 1 /\ log' = Append(log, idx)
        /\ UNCHANGED <<conf, srcComplete, passEnd, dlFailed, fetchFailed, orch, exitReason, srcStop>>
    BY <1>1 DEF SrcPut
  <2>2. InLog' = InLog \cup {idx}
    <3>1. idx \in Scans
      BY <1>0, <2>1
    <3>2. QED
      BY ONLY <1>0, <2>1, <3>1, AppendElements DEF InLog
  <2>3. Historical => passEnd = NScans /\ Walked
    BY <2>1 DEF PassInv
  <2>4. Historical => Walked'
    BY <1>0, <2>1, <2>2, <2>3
  <2>5. ~srcComplete /\ exitReason # "drained" /\ orch \notin {"join_source", "drain"}
    BY <2>1 DEF PassInv
  <2>6. QED
    BY <2>1, <2>3, <2>4, <2>5 DEF PassInv, StopPhase
<1>2. ASSUME SrcSkipKnown PROVE PassInv'
  <2>1. /\ src = "scan" /\ idx \in known /\ idx' = idx + 1
        /\ UNCHANGED <<conf, src, log, taken, srcComplete, passEnd, known, dlFailed, fetchFailed,
                       orch, exitReason, srcStop>>
    BY <1>2 DEF SrcSkipKnown
  <2>2. idx \in InLog
    BY <2>1 DEF QueueInv
  <2>3. Historical => Walked'
    BY <1>0, <1>a, <2>1, <2>2 DEF PassInv
  <2>4. QED
    BY <1>a, <2>1, <2>3 DEF PassInv, StopPhase, Attempted
<1>3. ASSUME SrcDownloadFails PROVE PassInv'
  <2>1. /\ src = "acquire" /\ src' = "scan" /\ dlFailed' = dlFailed \cup {idx} /\ idx' = idx + 1
        /\ UNCHANGED <<conf, log, taken, srcComplete, passEnd, fetchFailed, orch, exitReason, srcStop>>
    BY <1>3 DEF SrcDownloadFails
  <2>2. Historical => Walked'
    BY <1>0, <1>a, <2>1 DEF PassInv
  <2>3. QED
    BY <1>a, <2>1, <2>2 DEF PassInv, StopPhase, Attempted
<1>4. ASSUME SrcFetch PROVE PassInv'
  BY <1>0, <1>a, <1>4 DEF SrcFetch, PassInv, StopPhase, Attempted
<1>5. ASSUME SrcPassEnds PROVE PassInv'
  <2>1. /\ src = "scan" /\ idx > passEnd
        /\ UNCHANGED <<conf, log, taken, idx, passEnd, dlFailed, fetchFailed, orch, exitReason, srcStop>>
        /\ srcComplete' => src' = "exit"
        /\ src' \in {"exit", "poll"}
        /\ srcComplete => srcComplete'
    BY <1>5 DEF SrcPassEnds, PassOver, PassInv
  <2>2. ~srcComplete
    BY <2>1 DEF PassInv
  <2>3. Historical => Attempted
    BY <1>0, <2>1 DEF PassInv, Attempted
  <2>4. QED
    BY <1>a, <2>1, <2>2, <2>3 DEF PassInv, StopPhase, Attempted
<1>6. ASSUME SrcPassStopped PROVE PassInv'
  <2>1. /\ src = "scan" /\ srcStop
        /\ UNCHANGED <<conf, log, taken, idx, passEnd, dlFailed, fetchFailed, orch, exitReason, srcStop>>
        /\ srcComplete' => srcComplete \/ src' = "exit"
        /\ src' \in {"exit", "poll"}
    BY <1>6 DEF SrcPassStopped
  <2>2. ~srcComplete /\ StopPhase /\ exitReason # "drained"
    BY <2>1 DEF PassInv
  <2>3. QED
    BY <1>a, <2>1, <2>2 DEF PassInv, StopPhase
<1>7. ASSUME SrcFetchFails PROVE PassInv'
  <2>1. /\ src = "poll" /\ fetchFailed'
        /\ UNCHANGED <<conf, log, taken, idx, passEnd, dlFailed, orch, exitReason, srcStop>>
        /\ srcComplete' => srcComplete \/ src' = "exit"
        /\ src' \in {"exit", "poll"}
    BY <1>7 DEF SrcFetchFails
  <2>2. ~srcComplete
    BY <2>1 DEF PassInv
  <2>3. QED
    BY <2>1, <2>2 DEF PassInv, StopPhase
<1>8. ASSUME SrcLeave \/ SrcTurnToScan \/ SrcAcquire \/ SrcAcquireRaises \/ SrcExit PROVE PassInv'
  <2>1. /\ UNCHANGED <<conf, log, taken, idx, passEnd, dlFailed, fetchFailed, orch, exitReason,
                       srcStop, srcComplete>>
        /\ src' \in {"scan", "acquire", "put"} => src \in {"scan", "acquire"}
        /\ src \in {"exit", "dead"} => src' \in {"exit", "dead"}
    BY <1>8 DEF SrcLeave, SrcTurnToScan, SrcAcquire, SrcAcquireRaises, SrcExit
  <2>2. QED
    BY <1>a, <2>1 DEF PassInv, StopPhase, Attempted
<1>9. ASSUME ProcNext PROVE PassInv'
  <2>1. QSize = 0 => UNCHANGED taken
    BY <1>9 DEF ProcNext, ProcCheck, ProcGet, ProcGetEmpty, ProcScanDone, ProcScanFails,
         ProcContractViolation
  <2>2. QED
    BY <1>9, <1>a, <2>1, ProcKeeps DEF PassInv, StopPhase, Attempted
<1>10. ASSUME OrchBegin \/ OrchBuildProcessor \/ OrchStartRaises \/ OrchLoop PROVE PassInv'
  BY <1>10, <1>a DEF OrchBegin, OrchBuildProcessor, OrchStartRaises, OrchLoop, PassInv, StopPhase,
     Attempted
<1>11. ASSUME OrchCreateSource PROVE PassInv'
  BY <1>0, <1>11, <1>a DEF OrchCreateSource, PassInv, StopPhase, Attempted, QueueInv
<1>12. ASSUME OrchCheckComplete PROVE PassInv'
  <2>1. /\ UNCHANGED <<conf, src, log, taken, idx, passEnd, dlFailed, fetchFailed, exitReason,
                       srcComplete>>
        /\ orch = "complete?"
        /\ \/ orch' = "join_source" /\ Historical /\ srcComplete
           \/ orch' = "alive?" /\ (srcStop' => srcStop)
    BY <1>12 DEF OrchCheckComplete
  <2>2. QED
    BY <1>a, <2>1 DEF PassInv, StopPhase, Attempted
<1>13. ASSUME OrchCheckAlive \/ OrchJoinSource PROVE PassInv'
  BY <1>13, <1>a DEF OrchCheckAlive, OrchJoinSource, PassInv, StopPhase, Attempted
<1>14. ASSUME OrchDrain PROVE PassInv'
  BY <1>0, <1>14, <1>a DEF OrchDrain, Drained, PassInv, StopPhase, Attempted
<1>15. ASSUME OrchStopSource PROVE PassInv'
  <2>1. /\ UNCHANGED <<conf, src, log, taken, idx, passEnd, dlFailed, fetchFailed, exitReason,
                       srcComplete>>
        /\ orch = "stop" /\ orch' \in {"stop_join_source", "stop_processor"}
    BY <1>15 DEF OrchStopSource
  <2>2. QED
    BY <1>a, <2>1 DEF PassInv, StopPhase, Attempted
<1>16. ASSUME OrchStopJoinSource \/ OrchStopProcessor \/ OrchJoinProcessor \/ OrchSummary
              \/ OrchFinalize \/ OrchClose
       PROVE PassInv'
  <2>1. /\ UNCHANGED <<conf, src, log, taken, idx, passEnd, dlFailed, fetchFailed, exitReason,
                       srcComplete, srcStop>>
        /\ StopPhase /\ StopPhase'
        /\ orch' \notin {"join_source", "drain"}
    BY <1>16 DEF OrchStopJoinSource, OrchStopProcessor, OrchJoinProcessor, OrchSummary,
       OrchFinalize, OrchClose, StopPhase
  <2>2. QED
    BY <1>a, <2>1 DEF PassInv, Attempted
<1>17. ASSUME MainNext PROVE PassInv'
  BY <1>17, <1>a, MainKeeps DEF PassInv, StopPhase, Attempted
<1>18. ASSUME UNCHANGED vars PROVE PassInv'
  BY <1>18, <1>a DEF vars, PassInv, StopPhase, Attempted
<1>19. QED
  BY <1>1, <1>2, <1>3, <1>4, <1>5, <1>6, <1>7, <1>8, <1>9, <1>10, <1>11, <1>12, <1>13, <1>14,
     <1>15, <1>16, <1>17, <1>18, StepCases DEF SrcNext, OrchNext

-----------------------------------------------------------------------------
(* The inductive invariant holds in every reachable state. *)
THEOREM Invariance == Spec => []IInv
<1>1. Init => IInv
  BY InitTyped, InitRest DEF IInv
<1>2. IInv /\ [Next]_vars => IInv'
  BY TypedStep, QueueStep, PassStep, ProcStep, StopStep, LateStep DEF IInv
<1>3. QED
  BY <1>1, <1>2, PTL DEF Spec

(* No scan is queued twice, whatever passes are aborted and restarted. *)
THEOREM QueuedOnceHolds == Spec => []QueuedOnce
<1>1. IInv => QueuedOnce
  BY DEF IInv, QueueInv
<1>2. QED
  BY <1>1, Invariance, PTL

(* A historical run that drained its queue and is recorded "completed"       *)
(* accounts for every scan of its range, except after a failed listing or a  *)
(* processor that outlived its grace period.                                 *)
THEOREM CompletedAccountedHolds == Spec => []CompletedAccounted
<1>1. IInv => CompletedAccounted
  <2> SUFFICES ASSUME IInv, Historical, run = "completed", summary # "none",
                      exitReason = "drained", ~fetchFailed, "proc" \notin graceExpired
               PROVE  Scans \subseteq Handled \cup dlFailed
    BY DEF CompletedAccounted
  <2>1. srcComplete /\ QSize = 0
    BY DEF IInv, PassInv
  <2>2. Attempted
    BY <2>1 DEF IInv, PassInv
  <2>3. log \in Seq(Scans) /\ taken \in 0 .. Len(log)
    BY Zenon DEF IInv, Typed, TypeOK
  <2>4. Len(log) \in Nat /\ \A i \in 1 .. Len(log) : log[i] \in Scans
    BY ONLY <2>3, ElementsOfSeq
  <2>a. taken = Len(log)
    BY <2>1, <2>3, <2>4
  <2>5. proc # "busy"
    BY DEF IInv, StopInv
  <2>6. \A i \in 1 .. taken : outcome[log[i]] # "none"
    BY <2>5 DEF IInv, ProcInv
  <2>7. QED
    BY <2>2, <2>4, <2>a, <2>6 DEF Attempted, InLog, Handled
<1>2. QED
  BY <1>1, Invariance, PTL

(* A stop asked for while the main loop ran is not recorded as "completed". *)
THEOREM CancelRecordedHolds == Spec => []CancelRecorded
<1>1. IInv => CancelRecorded
  BY DEF IInv, StopInv, CancelRecorded
<1>2. QED
  BY <1>1, Invariance, PTL

(* The processor takes at most one message after it was told to stop. *)
THEOREM OneLateScanHolds == Spec => []OneLateScanAtMost
<1>1. IInv => OneLateScanAtMost
  BY DEF IInv, LateInv, OneLateScanAtMost
<1>2. QED
  BY <1>1, Invariance, PTL

(* Once the source reports complete, the queue can only shrink. *)
THEOREM QueueOnlyShrinks == Spec => NothingQueuedAfterComplete
<1>1. IInv /\ [Next]_vars => [srcComplete => log' = log]_vars
  <2> SUFFICES ASSUME IInv, [Next]_vars, srcComplete PROVE log' = log
    OBVIOUS
  <2>1. src \in {"exit", "dead"}
    BY DEF IInv, PassInv
  <2>2. ASSUME SrcNext PROVE log' = log
    BY <2>1, <2>2 DEF SrcNext, SrcLeave, SrcFetch, SrcFetchFails, SrcPassEnds, SrcPassStopped,
       SrcSkipKnown, SrcTurnToScan, SrcAcquire, SrcDownloadFails, SrcAcquireRaises, SrcPut,
       SrcExit
  <2>3. QED
    BY <2>2, ProcKeeps, OrchKeeps, MainKeeps, StepCases DEF vars
<1>2. QED
  BY <1>1, Invariance, PTL DEF Spec, NothingQueuedAfterComplete
-----------------------------------------------------------------------------
(***************************************************************************)
(* The order of the queue, and the quiet of a closed store.  Both need     *)
(* facts about what the source can still do: OrderInv says that what a     *)
(* pass has left behind below a queued scan is queued, was failed once, or *)
(* lies before the window of every later pass; GraceInv that a source      *)
(* alive past its join outlived its grace period.                          *)
(***************************************************************************)
(* Where the passes of a downloader begin. *)
WindowStart == IF Historical THEN 1 ELSE LatestFrom(passEnd)

OrderInv ==
  /\ ChronologicalUnlessRetried
  /\ Aws => \A i \in 1 .. Len(log), s \in Scans :
       s < log[i] => s \in InLog \cup dlFailed \/ s < WindowStart
  /\ Aws /\ src \in {"scan", "acquire", "put"} =>
       /\ WindowStart <= idx
       /\ \A s \in Scans : s < idx => s \in InLog \cup dlFailed \/ s < WindowStart

PastSource == orch \in {"stop_processor", "join_processor", "summary", "finalize", "close", "dead"}

GraceInv ==
  /\ PastSource /\ SrcAlive => "src" \in graceExpired \/ StartRaised
  /\ cli \in {"finally", "returned", "exited"} => orch = "dead" \/ forced
(* Windows only move forward. *)
LEMMA WindowMoves ==
  ASSUME NEW m \in Nat, NEW n \in Nat, m <= n
  PROVE  LatestFrom(m) \in Nat /\ LatestFrom(m) <= LatestFrom(n)
  BY ConstantsAssumption DEF LatestFrom

(* A put makes the scan the last of the queue. *)
LEMMA PutFacts ==
  ASSUME Typed, QueueInv, SrcPut
  PROVE  /\ idx \in Scans /\ idx \notin InLog /\ Len(log) \in Nat
         /\ Len(log') = Len(log) + 1 /\ log'[Len(log) + 1] = idx
         /\ \A i \in 1 .. Len(log) : log'[i] = log[i] /\ log[i] \in Scans
         /\ InLog' = InLog \cup {idx}
         /\ idx' = idx + 1 /\ src' = "scan" /\ src = "put"
         /\ UNCHANGED <<conf, passEnd, dlFailed>>
<1>1. log \in Seq(Scans) /\ idx \in Scans /\ idx \notin InLog
  BY ConstantsAssumption DEF SrcPut, Typed, TypeOK, QueueInv
<1>2. /\ Len(log') = Len(log) + 1 /\ log'[Len(log) + 1] = idx
      /\ \A i \in 1 .. Len(log) : log'[i] = log[i]
  BY <1>1, AppendFacts DEF SrcPut
<1>3. InLog' = InLog \cup {idx}
  BY ONLY <1>1, SrcPut, AppendElements DEF InLog, SrcPut
<1>4. Len(log) \in Nat /\ \A i \in 1 .. Len(log) : log[i] \in Scans
  BY ONLY <1>1, ElementsOfSeq
<1>5. idx' = idx + 1 /\ src' = "scan" /\ src = "put" /\ UNCHANGED <<conf, passEnd, dlFailed>>
  BY DEF SrcPut
<1>6. QED
  BY <1>1, <1>2, <1>3, <1>4, <1>5

(* A scan is put behind a later one only by a retry: what lies below a       *)
(* queued scan was walked by the pass that queued it, and later passes begin *)
(* no earlier.                                                               *)
LEMMA OrderStep == Typed /\ QueueInv /\ OrderInv /\ [Next]_vars => OrderInv'
<1> SUFFICES ASSUME Typed, QueueInv, OrderInv, [Next]_vars PROVE OrderInv'
  OBVIOUS
<1>0. /\ idx \in Nat /\ passEnd \in Nat /\ NScans \in Nat /\ WindowStart \in Nat
      /\ \A i \in 1 .. Len(log) : log[i] \in Scans
  <2>1. idx \in Nat /\ passEnd \in Nat /\ log \in Seq(Scans) /\ NScans \in Nat
    BY ConstantsAssumption DEF Typed, TypeOK
  <2>2. \A i \in 1 .. Len(log) : log[i] \in Scans
    BY ONLY <2>1, ElementsOfSeq
  <2>3. QED
    BY <2>1, <2>2, WindowMoves DEF WindowStart
<1>1. ASSUME UNCHANGED <<conf, log, passEnd, idx>>, dlFailed \subseteq dlFailed',
             src' \in {"scan", "acquire", "put"} => src \in {"scan", "acquire", "put"} \/ ~Aws
      PROVE  OrderInv'
  BY <1>1 DEF OrderInv, ChronologicalUnlessRetried, InLog, WindowStart, LatestFrom
<1>2. ASSUME SrcPut PROVE OrderInv'
  <2> DEFINE n == Len(log) + 1
  <2>1. /\ idx \in Scans /\ idx \notin InLog /\ Len(log) \in Nat
        /\ Len(log') = n /\ log'[n] = idx
        /\ \A i \in 1 .. Len(log) : log'[i] = log[i] /\ log[i] \in Scans
        /\ InLog' = InLog \cup {idx}
        /\ idx' = idx + 1 /\ src' = "scan" /\ src = "put"
        /\ UNCHANGED <<conf, passEnd, dlFailed>>
    BY <1>2, PutFacts
  <2>2. \A i \in 1 .. Len(log') : i \in 1 .. Len(log) \/ i = n
    BY <2>1
  <2>3. WindowStart' = WindowStart /\ Aws' = Aws
    BY <2>1 DEF WindowStart, LatestFrom
  <2>4. ASSUME NEW i \in 1 .. Len(log), log[i] > idx PROVE idx \in dlFailed
    <3>1. CASE Aws
      <4>1. idx < log[i] /\ WindowStart <= idx
        BY <1>0, <2>1, <2>4, <3>1 DEF OrderInv
      <4>2. idx \in InLog \cup dlFailed \/ idx < WindowStart
        BY <2>1, <3>1, <4>1 DEF OrderInv
      <4>3. QED
        BY <1>0, <2>1, <4>1, <4>2
    <3>2. CASE ~Aws
      BY <1>0, <2>1, <2>4, <3>2 DEF QueueInv
    <3>3. QED
      BY <3>1, <3>2
  <2>5. ChronologicalUnlessRetried'
    <3> SUFFICES ASSUME NEW i \in 1 .. Len(log'), NEW j \in 1 .. Len(log'),
                        i < j, log'[i] > log'[j]
                 PROVE  log'[j] \in dlFailed
      BY <2>1 DEF ChronologicalUnlessRetried
    <3>1. i \in 1 .. Len(log)
      BY <2>1, <2>2
    <3>2. CASE j \in 1 .. Len(log)
      <4>1. log[i] > log[j]
        BY <2>1, <3>1, <3>2
      <4>2. QED
        BY <2>1, <3>1, <3>2, <4>1 DEF OrderInv, ChronologicalUnlessRetried
    <3>3. CASE j = n
      BY <2>1, <2>4, <3>1, <3>3
    <3>4. QED
      BY <2>2, <3>2, <3>3
  <2>6. ASSUME Aws, NEW i \in 1 .. Len(log'), NEW s \in Scans, s < log'[i]
        PROVE  s \in InLog' \cup dlFailed' \/ s < WindowStart'
    <3>1. CASE i \in 1 .. Len(log)
      BY <2>1, <2>3, <2>6, <3>1 DEF OrderInv
    <3>2. CASE i = n
      BY <2>1, <2>3, <2>6, <3>2 DEF OrderInv
    <3>3. QED
      BY <2>2, <3>1, <3>2
  <2>7. ASSUME Aws
        PROVE  /\ WindowStart' <= idx'
               /\ \A s \in Scans : s < idx' => s \in InLog' \cup dlFailed' \/ s < WindowStart'
    <3>1. /\ WindowStart <= idx
          /\ \A s \in Scans : s < idx => s \in InLog \cup dlFailed \/ s < WindowStart
      BY <2>1, <2>7 DEF OrderInv
    <3>2. \A s \in Scans : s < idx' => s < idx \/ s = idx
      BY <1>0, <2>1
    <3>3. QED
      BY <1>0, <2>1, <2>3, <3>1, <3>2
  <2>8. QED
    BY <2>3, <2>5, <2>6, <2>7 DEF OrderInv
<1>3. ASSUME SrcFetch PROVE OrderInv'
  <2>1. PICK hi \in passEnd .. NScans :
          /\ Historical => hi = NScans
          /\ passEnd' = hi
          /\ idx' = IF Historical THEN 1 ELSE LatestFrom(hi)
    BY <1>3 DEF SrcFetch
  <2>2. UNCHANGED <<conf, log, dlFailed>>
    BY <1>3 DEF SrcFetch
  <2>3. WindowStart <= WindowStart' /\ idx' = WindowStart' /\ WindowStart' \in Nat
    BY <1>0, <2>1, <2>2, WindowMoves DEF WindowStart, LatestFrom
  <2>4. QED
    BY <1>0, <2>2, <2>3, SMTT(30) DEF OrderInv, ChronologicalUnlessRetried, InLog
<1>4. ASSUME SrcSkipKnown \/ SrcDownloadFails PROVE OrderInv'
  <2>1. /\ idx' = idx + 1 /\ src \in {"scan", "acquire"} /\ dlFailed \subseteq dlFailed'
        /\ UNCHANGED <<conf, log, passEnd>> /\ (Aws => idx \in InLog \cup dlFailed')
    BY <1>4 DEF SrcSkipKnown, SrcDownloadFails, QueueInv
  <2>2. WindowStart' = WindowStart /\ InLog' = InLog
    BY <2>1 DEF WindowStart, LatestFrom, InLog
  <2>3. \A s \in Scans : s < idx' => s < idx \/ s = idx
    BY <1>0, <2>1
  <2>4. ChronologicalUnlessRetried'
    BY <2>1 DEF OrderInv, ChronologicalUnlessRetried
  <2>5. QED
    BY <1>0, <2>1, <2>2, <2>3, <2>4 DEF OrderInv
<1>5. ASSUME OrchCreateSource PROVE OrderInv'
  <2>1. Len(log) = 0 /\ UNCHANGED <<conf, log, dlFailed>> /\ (Aws => src' = "poll")
    BY <1>5 DEF OrchCreateSource, QueueInv
  <2>2. QED
    BY <2>1 DEF OrderInv, ChronologicalUnlessRetried
<1>6. ASSUME SrcLeave \/ SrcFetchFails \/ SrcPassEnds \/ SrcPassStopped PROVE OrderInv'
  BY <1>1, <1>6 DEF SrcLeave, SrcFetchFails, SrcPassEnds, SrcPassStopped
<1>7. ASSUME SrcTurnToScan \/ SrcAcquire \/ SrcAcquireRaises \/ SrcExit PROVE OrderInv'
  BY <1>1, <1>7 DEF SrcTurnToScan, SrcAcquire, SrcAcquireRaises, SrcExit
<1>8. ASSUME ProcNext \/ MainNext \/ UNCHANGED vars PROVE OrderInv'
  <2>1. CASE ProcNext
    BY <1>1, <2>1, ProcKeeps
  <2>2. CASE MainNext
    BY <1>1, <2>2, MainKeeps
  <2>3. CASE UNCHANGED vars
    BY <1>1, <2>3 DEF vars
  <2>4. QED
    BY <1>8, <2>1, <2>2, <2>3
<1>9. ASSUME OrchNext, ~OrchCreateSource PROVE OrderInv'
  BY <1>1, <1>9, OrchKeeps
<1>10. QED
  BY <1>2, <1>3, <1>4, <1>5, <1>6, <1>7, <1>8, <1>9, StepCases DEF SrcNext

(* A source found alive by stop() is waited for, and the main thread goes on *)
(* only with a dead orchestrator or after giving it up.                      *)
LEMMA GraceStep == Typed /\ ProcInv /\ GraceInv /\ [Next]_vars => GraceInv'
<1> SUFFICES ASSUME Typed, ProcInv, GraceInv, [Next]_vars PROVE GraceInv'
  OBVIOUS
<1> USE DEF GraceInv, PastSource, StartRaised
<1>1. ASSUME SrcNext PROVE GraceInv'
  <2>1. SrcAlive /\ UNCHANGED <<orch, proc, cli, forced, graceExpired>>
    BY <1>1 DEF SrcNext, SrcLeave, SrcFetch, SrcFetchFails, SrcPassEnds, SrcPassStopped,
       SrcSkipKnown, SrcTurnToScan, SrcAcquire, SrcDownloadFails, SrcAcquireRaises, SrcPut, SrcExit
  <2>2. QED
    BY <2>1
<1>2. ASSUME ProcNext PROVE GraceInv'
  <2>1. proc # "unborn" /\ proc' # "unborn"
    BY <1>2 DEF ProcNext, ProcCheck, ProcGet, ProcGetEmpty, ProcScanDone, ProcScanFails,
       ProcContractViolation, ProcAfterScan
  <2>2. QED
    BY <1>2, <2>1, ProcKeeps
<1>3. ASSUME MainNext PROVE GraceInv'
  <2>1. cli' \in {"finally", "returned", "exited"} =>
          cli \in {"finally", "returned", "exited"} \/ orch = "dead" \/ forced'
    BY <1>3 DEF MainNext, CliNext, CliSigterm, CliSigint, CliRequestStop, CliJoined, CliGiveUp,
       CliFinally, ProcessExit
  <2>2. forced => forced'
    BY <1>3, Zenon DEF MainNext, CliNext, CliSigterm, CliSigint, CliRequestStop, CliJoined,
       CliGiveUp, CliFinally, ProcessExit
  <2>3. QED
    BY <1>3, <2>1, <2>2, MainKeeps
<1>4. ASSUME OrchNext PROVE GraceInv'
  <2>1. UNCHANGED <<cli, forced>> /\ orch # "dead"
    BY <1>4, OrchKeeps DEF OrchNext, OrchBegin, OrchCreateSource, OrchBuildProcessor,
       OrchStartRaises, OrchLoop, OrchCheckComplete, OrchCheckAlive, OrchJoinSource, OrchDrain,
       OrchStopSource, OrchStopJoinSource, OrchStopProcessor, OrchJoinProcessor, OrchSummary,
       OrchFinalize, OrchClose
  <2>2. CASE OrchStartRaises
    BY <2>1, <2>2 DEF OrchStartRaises, ProcInv, Starting
  <2>3. CASE OrchStopSource \/ OrchStopJoinSource
    BY <2>1, <2>3 DEF OrchStopSource, OrchStopJoinSource
  <2>4. CASE OrchStopProcessor \/ OrchJoinProcessor \/ OrchSummary \/ OrchFinalize \/ OrchClose
    <3>1. PastSource /\ UNCHANGED src /\ graceExpired \subseteq graceExpired'
      BY <2>4 DEF OrchStopProcessor, OrchJoinProcessor, OrchSummary, OrchFinalize, OrchClose
    <3>2. QED
      BY <2>1, <3>1
  <2>5. CASE OrchBegin \/ OrchCreateSource \/ OrchBuildProcessor \/ OrchLoop \/ OrchCheckComplete
    BY <2>1, <2>5 DEF OrchBegin, OrchCreateSource, OrchBuildProcessor, OrchLoop, OrchCheckComplete
  <2>6. CASE OrchCheckAlive \/ OrchJoinSource \/ OrchDrain
    BY <2>1, <2>6 DEF OrchCheckAlive, OrchJoinSource, OrchDrain
  <2>7. QED
    BY <1>4, <2>2, <2>3, <2>4, <2>5, <2>6 DEF OrchNext
<1>5. ASSUME UNCHANGED vars PROVE GraceInv'
  BY <1>5 DEF vars
<1>6. QED
  BY <1>1, <1>2, <1>3, <1>4, <1>5, StepCases

(* In every reachable state the scans already queued account for all the     *)
(* source has passed, and a source that outlives its join does so because    *)
(* the grace period ran out.                                                 *)
THEOREM OrderAndGrace == Spec => [](OrderInv /\ GraceInv)
<1>1. Init => OrderInv /\ GraceInv
  BY DEF Init, OrderInv, GraceInv, ChronologicalUnlessRetried, PastSource
<1>2. IInv /\ (OrderInv /\ GraceInv) /\ [Next]_vars => (OrderInv /\ GraceInv)'
  BY OrderStep, GraceStep DEF IInv
<1>3. QED
  BY <1>1, <1>2, Invariance, PTL DEF Spec

(* The processor sees scans in time order, whatever passes are aborted and   *)
(* repeated and however the window of a realtime listing moves, except for a *)
(* scan whose download failed and was retried.                               *)
THEOREM ChronologicalHolds == Spec => []ChronologicalUnlessRetried
<1>1. OrderInv => ChronologicalUnlessRetried
  BY DEF OrderInv
<1>2. QED
  BY <1>1, OrderAndGrace, PTL

(* The store is closed under no scan in flight and no acquisition, unless    *)
(* the thread outlived its grace period, the CLI gave up waiting, or start() *)
(* raised (orchestrator.py stop(); cli.py close_store in the finally).       *)
THEOREM ClosedWhenQuietHolds == Spec => ClosedWhenQuiet
<1> DEFINE Quiet == \/ forced \/ StartRaised
                    \/ /\ proc = "busy" => "proc" \in graceExpired
                       /\ src = "acquire" => "src" \in graceExpired
<1>1. IInv /\ GraceInv /\ [Next]_vars => [storeOpen /\ ~storeOpen' => Quiet]_vars
  <2> SUFFICES ASSUME IInv, GraceInv, [Next]_vars, storeOpen, ~storeOpen' PROVE Quiet
    OBVIOUS
  <2>1. OrchClose \/ CliFinally
    BY Zenon DEF Next, SrcNext, SrcLeave, SrcFetch, SrcFetchFails, SrcPassEnds, SrcPassStopped,
       SrcSkipKnown, SrcTurnToScan, SrcAcquire, SrcDownloadFails, SrcAcquireRaises, SrcPut, SrcExit,
       ProcNext, ProcCheck, ProcGet, ProcGetEmpty, ProcScanDone, ProcScanFails,
       ProcContractViolation, OrchNext, OrchBegin, OrchCreateSource, OrchBuildProcessor,
       OrchStartRaises, OrchLoop, OrchCheckComplete, OrchCheckAlive, OrchJoinSource, OrchDrain,
       OrchStopSource, OrchStopJoinSource, OrchStopProcessor, OrchJoinProcessor, OrchSummary,
       OrchFinalize, CliNext, CliSigterm, CliSigint, CliRequestStop, CliJoined, CliGiveUp,
       ProcessExit, Terminated, vars
  <2>2. orch \in {"close", "dead"} \/ forced
    BY <2>1 DEF OrchClose, CliFinally, GraceInv
  <2>3. CASE orch \in {"close", "dead"}
    BY <2>3 DEF IInv, StopInv, GraceInv, PastSource
  <2>4. QED
    BY <2>2, <2>3
<1>2. QED
  BY <1>1, Invariance, OrderAndGrace, PTL DEF Spec, ClosedWhenQuiet
=============================================================================
