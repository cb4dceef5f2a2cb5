SPECIFICATION FairSpec
CONSTANTS
    MaxPosts = 4
    MaxStarts = 2
    MaxFailures = 1
CHECK_DEADLOCK FALSE
INVARIANTS
    TypeOK
    RowsDealt
    NewestFirst
    CopiesPerPost
PROPERTIES
    PostsGetShown
