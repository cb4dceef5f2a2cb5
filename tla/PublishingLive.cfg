\* Two people, one form, one press, records that change once; no symmetry, as this is
\* liveness.
SPECIFICATION FairSpec
CONSTANTS
    Accounts = {ana, ben}
    FormIds = {f1}
    Subs = {s1}
    Null = Null
    MaxVersion = 2
    MaxFailures = 1
    MaxScreens = 2
INVARIANTS
    OnePostPerState
PROPERTIES
    SubmissionsAnswered
CHECK_DEADLOCK FALSE
