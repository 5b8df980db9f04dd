SPECIFICATION FairSpec
CONSTANTS
    None = None
    Human = Human
    Roles = {executor}
    Autos = {a1}
    StartNexts = {}
    Resumes = {r1}
    MaxRecords = 1
    MaxRestarts = 1
    MaxFaults = 1
PROPERTIES LaunchesEnd
