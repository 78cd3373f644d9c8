CONSTANTS
    r1 = r1
    r2 = r2
    r3 = r3
    r4 = r4
    s1 = s1
    s2 = s2
    s3 = s3
    c1 = c1
    c2 = c2
    Rcpt = {r1, r2}
    Section = {s1, s2}
    NoSection = NoSection
    Config = {c1, c2}
    NoConfig = NoConfig
    Settings <- MCSmallSettings
    MaxTxn = 2
    DumpMayFail = TRUE
SPECIFICATION Spec
INVARIANTS
    CopyOfOriginal
