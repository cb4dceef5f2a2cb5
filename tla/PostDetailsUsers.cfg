\* Two users with a screen each, two calls, nothing fails.
SPECIFICATION ScreenSpec
CONSTANTS
    Users = {u1, u2}
    PostAuthor = u1
    Calls = {c1, c2}
    Null = Null
    MaxFailures = 0
SYMMETRY CallSymmetry
INVARIANTS
    HeartTrue
CHECK_DEADLOCK FALSE
