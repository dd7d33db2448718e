-------------------------- MODULE PipelineThreadsMC --------------------------
(* Small instances of PipelineThreads: three scans through a queue of one. *)
EXTENDS PipelineThreads

MCCompleteBefore == {2}

HistoricalAws == [mode |-> "historical", source |-> "aws_nexrad"]
HistoricalDir == [mode |-> "historical", source |-> "local_directory"]
RealtimeAws   == [mode |-> "realtime", source |-> "aws_nexrad"]
RealtimeDir   == [mode |-> "realtime", source |-> "local_directory"]

AllConfigs == {HistoricalAws, HistoricalDir, RealtimeAws, RealtimeDir}
LivenessConfigs == {HistoricalAws, HistoricalDir}

=============================================================================
