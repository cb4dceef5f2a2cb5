\* Two registrations, two addresses, one failure, under fairness.
SPECIFICATION FairSpec
CONSTANTS
    Attempts = {a1, a2}
    Emails = {e1, e2}
    e1 = e1
    e2 = e2
    Forms <- ManyForms
    Null = Null
    MaxFailures = 1
INVARIANTS
    TypeOK
    DataGoesHome
    AccountsComplete
    SignInAsRegistered
PROPERTIES
    ProfilesKept
    RegistrationsEnd
CHECK_DEADLOCK FALSE
