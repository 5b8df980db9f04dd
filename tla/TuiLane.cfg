SPECIFICATION MCSpec
CONSTANTS
    Roles = {executor, reviewer}
    MaxLaunches = 2
    MaxContent = 3
    MaxNotes = 1
    MaxDone = 2
    ReadsFail = TRUE
    MayClose = TRUE
INVARIANTS ArchivedBeforeReap ChildrenInOrder QuietAfterClose FuseTruthful
SYMMETRY Symmetry
CHECK_DEADLOCK FALSE
