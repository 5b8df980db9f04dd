SPECIFICATION Spec
CONSTANTS
    Agents = {"executor"}
    Outsiders = {"reviewer"}
    NoteKinds = {"human", "worker"}
    Catchup = TRUE
    Unwatched = FALSE
    Crowded = FALSE
    StallRounds = 2
    MaxClock = 4
    MaxEvents = 2
INVARIANTS TurnAnswered GateReadsWholeLog AlertsOncePerStay
PROPERTIES StopSticks StallIsReal
CHECK_DEADLOCK FALSE
