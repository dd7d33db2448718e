SPECIFICATION Spec
CONSTANTS
  ExtensionDecl <- MCExtensionDecl
  Files <- MCFiles
  Flags <- MCFlags
  PostRequests <- MCPostRequests
  MaxHistory = 2
  MaxScans = 3
  MaxLaunches = 2
INVARIANT HistoryBounded
CHECK_DEADLOCK FALSE
