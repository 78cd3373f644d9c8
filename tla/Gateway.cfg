CONSTANTS
    m1 = m1
    m2 = m2
    r1 = r1
    r2 = r2
    r3 = r3
    s1 = s1
    s2 = s2
    c1 = c1
    c2 = c2
    Mail = {m1}
    Rcpt = {r1, r2, r3}
    Section = {s1, s2}
    NoSection = NoSection
    Config = {c1, c2}
    Settings <- MCSettings
    Wanted <- MCWanted
    Timeout = TRUE
    MaxSlots = 3
    MaxAttempts = 2
    MaxCrashes = 1
    MaxReloads = 1
SPECIFICATION Spec
INVARIANTS
    EncryptedOnce
    OncePerAttempt
    AcceptedIsServed
CHECK_DEADLOCK FALSE
