CONSTANTS
    Content <- MCContent
    NoConfig = NoConfig
    MaxReloads = 2
SPECIFICATION Spec
INVARIANTS
    ServesPrepared
    ServesUnprivileged
    SuccessIsEarned
    LogFollows
