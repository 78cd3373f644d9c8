CONSTANTS
    m1 = m1
    m2 = m2
    r1 = r1
    r2 = r2
    r3 = r3
    s1 = s1
    s2 = s2
    c1 = c1
    c2 = c2
    Mail = {m1, m2}
    Rcpt = {r1, r3}
    Section = {s1, s2}
    NoSection = NoSection
    Config = {c1}
    Settings <- MCSmallSettings
    Wanted <- MCWanted
    Timeout = TRUE
    MaxSlots = 2
    MaxAttempts = 1
    MaxCrashes = 1
    MaxReloads = 0
SPECIFICATION FairSpec
PROPERTIES
    AttemptAnswered
CHECK_DEADLOCK FALSE
