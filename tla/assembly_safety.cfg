SPECIFICATION Spec
CONSTANTS
  ExtensionDecl <- MCExtensionDecl
  Files <- MCFiles
  Flags <- MCFlags
  PostRequests <- MCPostRequests
  MaxHistory = 2
  MaxScans = 3
  MaxLaunches = 2
INVARIANT OnceAfterProducers
INVARIANT MissingExplained
INVARIANT StuckOnlyOnCycle
INVARIANT HistoryFits
INVARIANT LaunchAsAsked
INVARIANT BootstrapNeutral
CHECK_DEADLOCK FALSE
