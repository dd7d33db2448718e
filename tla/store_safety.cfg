\* Two runs over the same two scans, a crash or exit anywhere, one raised error.
SPECIFICATION Spec
CONSTANTS
  NScans = 2
  Quiet = {2}
  Runs = {r1, r2}
  NoRun = NoRun
  MaxStarts = 2
  MaxFaults = 1
SYMMETRY RunSymmetry
INVARIANTS
  LinksBacked CompleteExactly OneRawPerScan TracksUnlessCut RasterIsLinked
PROPERTIES
  LedgerSpec
CHECK_DEADLOCK FALSE
