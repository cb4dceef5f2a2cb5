\* Three calls of two users with two failures: every interleaving of the chains.
SPECIFICATION Spec
CONSTANTS
    Users = {u1, u2}
    PostAuthor = u1
    Calls = {c1, c2, c3}
    Null = Null
    MaxFailures = 2
SYMMETRY CallSymmetry
INVARIANTS
    TypeOK
    NumbersExact
    GapHasCause
    CallbacksTruthful
    NumbersSerial
PROPERTIES
    CommentsAreCountedList
    LikesAreCountedList
CHECK_DEADLOCK FALSE
