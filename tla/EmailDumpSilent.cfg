CONSTANTS
    m1 = m1
    m2 = m2
    Mail = {m1, m2}
    MaxFaults = 2
    MaxCrashes = 1
SPECIFICATION Spec
INVARIANTS
    ProcessedIsDumped
CHECK_DEADLOCK FALSE
