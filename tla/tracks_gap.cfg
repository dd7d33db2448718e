\* One process, no failure: a pause longer than the projector's interval.
SPECIFICATION Spec
CONSTANTS
  NScans = 4
  MaxCells = 2
  Inputs <- PausedOnly
  PairGap = 1
  TrackGap = 1
  MaxStarts = 1
  MaxFaults = 0
INVARIANTS
  RegistrationUids
CHECK_DEADLOCK FALSE
