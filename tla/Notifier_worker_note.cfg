SPECIFICATION Spec
CONSTANTS
    Agents = {"executor"}
    Outsiders = {"reviewer"}
    NoteKinds = {"human", "worker"}
    Catchup = TRUE
    Unwatched = FALSE
    Crowded = TRUE
    StallRounds = 2
    MaxClock = 4
    MaxEvents = 0
INVARIANT TurnAnswered
CHECK_DEADLOCK FALSE
