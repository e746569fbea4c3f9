SPECIFICATION ServerSpec
CONSTANTS
  Responses = {"r1", "r2"}
  Surfaces = {"html-attr"}
  Reasons = {"not-a-url"}
  Attributes = {"srcset"}
  maxStructured = 2
  Batches <- MCBatches
  StreamLen = 2
  maxEvents = 3
  Explain = TRUE
  Hooked = TRUE
  Asks = TRUE
  Main = "main"
  Handler = "handler"
  None = "none"
INVARIANT Drained
CHECK_DEADLOCK FALSE
