\* Three scans, a queue of one place, one environment failure.
CONSTANTS
  NScans = 3
  Cap = 1
  LatestFiles = 2
  Configs <- AllConfigs
  CompleteBefore <- MCCompleteBefore
  MaxFaults = 1
SPECIFICATION Spec
INVARIANTS
  QueuedOnce
  ChronologicalUnlessRetried
  CompletedAccounted
  CancelRecorded
PROPERTIES
  NothingQueuedAfterComplete
  ClosedWhenQuiet
