\* Two people with an event each: who is mailed.
SPECIFICATION Spec
CONSTANTS
    Posters = {ana, ben}
    Screens = {d}
    Presses = {s}
    Texts = {cv}
    Null = Null
    MaxEvents = 2
    MaxFailures = 0
INVARIANTS
    OnlyPosterMailed
CHECK_DEADLOCK FALSE
