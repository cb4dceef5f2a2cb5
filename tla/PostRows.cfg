SPECIFICATION Spec
CONSTANTS
    Posts = {p, q}
    Positions = {i, j}
    Holders = {h}
    Calls = {c, d}
    Null = Null
    MaxLikes = 1
    MaxAsks = 2
    MaxFailures = 1
SYMMETRY Symmetric
CHECK_DEADLOCK FALSE
INVARIANTS
    TypeOK
    TapHitsShown
    RowNumberTrue
    HeartMeansLike
