SPECIFICATION Spec
CONSTANTS
  Canon = canon
  Aliases = {}
  Others = {own, neighbour}
  Own = own
  Neighbour = neighbour
  Paths = {"/", "/moved"}
  None = None
  Proxies <- EveryProxy
  Asked <- EveryRequest
  Answered <- ToEither
  Hints <- Links
  MaxHints = 1
INVARIANTS
  NoSilentLeak
  NoSilentWrite
  OnlyCarveOut
  HonestHeaders
  Transparent
  FailureSurfaced
\* An exchange ends.
CHECK_DEADLOCK FALSE
