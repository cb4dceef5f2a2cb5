\* Two people, two forms, two presses, records saved once; one request fails.
SPECIFICATION Spec
CONSTANTS
    Accounts = {ana, ben}
    FormIds = {f1, f2}
    Subs = {s1, s2}
    Null = Null
    MaxVersion = 1
    MaxFailures = 1
    MaxScreens = 2
SYMMETRY DeviceSymmetry
INVARIANTS
    TypeOK
    PostsCoherent
    PostsAttributed
CHECK_DEADLOCK FALSE
