\* One user with up to two calls in flight from one screen, one failure of each
\* kind, under fairness; no symmetry, as this is liveness too.
SPECIFICATION FairScreenSpec
CONSTANTS
    Users = {u1}
    PostAuthor = u1
    Calls = {c1, c2}
    Null = Null
    MaxFailures = 1
INVARIANTS
    ScreenTypeOK
    ShownNeverAhead
    TitleCoversCount
PROPERTIES
    OwnCommentSeen
CHECK_DEADLOCK FALSE
