\* Two calls with two failures under fairness.
SPECIFICATION FairSpec
CONSTANTS
    Users = {u1, u2}
    PostAuthor = u1
    Calls = {c1, c2}
    Null = Null
    MaxFailures = 2
PROPERTIES
    CallsEnd
    NumbersSettle
    LikesAreCalls
CHECK_DEADLOCK FALSE
