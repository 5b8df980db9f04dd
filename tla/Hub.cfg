SPECIFICATION MCSpec
CONSTANTS
    o1 = o1 o2 = o2 o3 = o3 o4 = o4 o5 = o5 o6 = o6
    r1 = r1 s1 = s1 s2 = s2
    Scenes = {"fold", "lint", "append", "cache", "cas"}
    Payloads <- MCPayloads
    MaxLog = 6
    Null = Null
    Ops = {o1, o2, o3, o4, o5, o6}
    CasOps = {o1, o2, o3}
    Readers = {r1}
    Specs = {s1, s2}
    Sources = {b1, b2}
    MaxVersion = 4
    NumTypes = 2
    MaxCrashes = 1
    MaxForeign = 1
    MaxDamage = 1
    MaxMetaFailures = 1
    ForeignSkew = FALSE
    RepairDuringCreate = TRUE
INVARIANTS LogSound LintSound StoreSafe OneMarkerPerBase
PROPERTIES DecisionsStand NeverOverwrites
CHECK_DEADLOCK FALSE
