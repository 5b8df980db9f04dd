SPECIFICATION MCSpec
CONSTANTS
    MaxAttempts = 2
    MaxEvents = 2
    t1 = t1
    t2 = t2
    Tasks = {t1, t2}
    Roles = {"executor", "architect"}
    continuityRoles = {"executor"}
    TabLabels <- MCTabLabels
    tab_label <- MCTabLabel
    MaxLaunches = 2
    MaxFaults = 2
    SweepRetries = 2
    Ups = {u1, u2}
    MaxPair = 2
    MaxPanes = 4
    MaxMishaps = 1
SYMMETRY Interchangeable
INVARIANTS DeliveryHonest MachineEnterOnce SeatsUnambiguous SysPanesSingle
PROPERTIES NoEnterIntoWork ForeignPanesKept
CHECK_DEADLOCK FALSE
