SPECIFICATION Spec
CONSTANTS
  Canon = canon
  Aliases = {alias}
  Others = {wa, wb}
  wa = wa
  wb = wb
  alias = alias
  None = None
  Paths = {"/api"}
  Started <- Live
  Restarted <- Either
  Shape <- ShapeOf
  Hardcoded <- NoUpload
  Stored <- InStore
  Edits <- OwnLinks
  Sizes = {FALSE, TRUE}
  MaxSaves = 2
INVARIANTS
  DatabaseCanonical
  OwnSpace
PROPERTIES
  SaveRestores
