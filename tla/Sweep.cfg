SPECIFICATION SweepSpec
CONSTANTS
    Host <- TheHost
    Slack = 5
    MaxRemoved = 2
    Documents <- OneReference
    MaxChunk = 3
    MaxDrain = 8
INVARIANTS
    BoundaryInvisible
    CountedOnce
    OriginsExactly
