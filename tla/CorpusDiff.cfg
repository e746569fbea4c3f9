SPECIFICATION Spec
CONSTANTS
  Canon = canon
  Aliases = {alias}
  Others = {own, neighbour}
  alias = alias
  Own = own
  Neighbour = neighbour
  None = None
  Home = "/"
  Paths = {"/", "/a", "/b", "/c", "/s"}
  Names <- Alphabetical
  Deployments <- Both
  MaxMishaps = 1
INVARIANTS
  SoundGreen
  HealthyIsGreen
  NeitherStarved
\* A run ends with its report.
CHECK_DEADLOCK FALSE
