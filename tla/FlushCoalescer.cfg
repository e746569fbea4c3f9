SPECIFICATION FairSpec
CONSTANTS
  Handler = handler
  Hooks = {hook}
  Late = {late}
  Goroutines = {g1, g2}
  NoOne = NoOne
  MaxWrites = 3
INVARIANTS
  WriterExclusive
  TimerCannotTouchAfterReturn
  OwedFlushHasOwner
PROPERTIES
  FlushHappens
  KeepsPromise
\* The response is over once the handler has returned.
CHECK_DEADLOCK FALSE
