SPECIFICATION Spec
CONSTANTS
    None = None
    Human = Human
    Roles = {executor}
    Autos = {a1}
    StartNexts = {s1}
    Resumes = {r1}
    MaxRecords = 1
    MaxRestarts = 0
    MaxFaults = 1
INVARIANTS OneRunPerTask AdmissionSound
PROPERTIES TracesRight
