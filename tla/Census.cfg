SPECIFICATION ServerSpec
CONSTANTS
  Responses = {"r1", "r2"}
  Surfaces = {"html-attr"}
  Reasons = {"not-a-url"}
  Attributes = {"srcset"}
  maxStructured = 1
  Batches <- MCBatches
  StreamLen = 2
  maxEvents = 3
  Explain = TRUE
  Hooked = TRUE
  Asks = TRUE
  Main = "main"
  Handler = "handler"
  None = "none"
INVARIANTS
  SnapshotOfOneMoment
  TraceInCalls
  HookToldAll
PROPERTIES
  CountingGoesOn
  SignalEnds
CHECK_DEADLOCK FALSE
