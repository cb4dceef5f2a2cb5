\* One screen and its form, pressed twice, and a list of up to two events.
SPECIFICATION FairSpec
CONSTANTS
    Posters = {ana}
    Screens = {d}
    Presses = {r, s}
    Texts = {cv}
    Null = Null
    MaxEvents = 2
    MaxFailures = 1
INVARIANTS
    TypeOK
    EachStateOnce
    FormAsPressed
PROPERTIES
    ApplicationArrives
    EventGetsShown
CHECK_DEADLOCK FALSE
