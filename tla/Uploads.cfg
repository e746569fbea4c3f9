SPECIFICATION Spec
CONSTANTS
  Canon = canon
  Aliases = {alias}
  Others = {wa, wb}
  wa = wa
  wb = wb
  alias = alias
  None = None
  Paths = {"/"}
  Started <- Live
  Restarted <- Never
  Shape <- ShapeOf
  Hardcoded <- Uploads
  Stored <- InStore
  Edits <- NoEdits
  Sizes = {FALSE}
  MaxSaves = 1
INVARIANTS
  CacheKeepsApart
PROPERTIES
  RequestsEnd
