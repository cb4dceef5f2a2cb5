\* The password rule as documented: violated by four characters.
SPECIFICATION Spec
CONSTANTS
    Attempts = {a1}
    Emails = {e1, e2}
    e1 = e1
    e2 = e2
    Forms <- ManyForms
    Null = Null
    MaxFailures = 0
INVARIANTS
    FourCharactersSuffice
CHECK_DEADLOCK FALSE
