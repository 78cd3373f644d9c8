CONSTANTS
    Content <- MCContent
    NoConfig = NoConfig
    MaxReloads = 1
SPECIFICATION Spec
INVARIANTS
    NoRootGroup
