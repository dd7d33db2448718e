\* Two scans, one failure of any kind at any point; workers that may hang.
CONSTANTS
  NScans = 2
  Cap = 1
  LatestFiles = 1
  Configs <- LivenessConfigs
  CompleteBefore <- MCCompleteBefore
  MaxFaults = 1
SPECIFICATION StopSpec
PROPERTIES
  StopEnds
  HistoricalEnds
