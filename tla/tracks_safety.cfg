\* Four scans; the run is resumed once; two late scans or raised errors.
SPECIFICATION Spec
CONSTANTS
  NScans = 4
  MaxCells = 2
  Inputs <- SafetyInputs
  PairGap = 2
  TrackGap = 1
  MaxStarts = 2
  MaxFaults = 2
INVARIANTS
  PairAgrees CountsAgree EventsAccount LineageBacked EndsRecorded
PROPERTIES
  EndsAreFinal
CHECK_DEADLOCK FALSE
