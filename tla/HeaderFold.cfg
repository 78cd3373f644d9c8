CONSTANTS
    ArmourLine = 4
    SignatureSizes <- MCSignatureSizes
    NameSizes <- MCNameSizes
    LineSizes <- MCLineSizes
SPECIFICATION Spec
INVARIANTS
    TypeOK
    LinesFull
    NoBlankLine
    RoundTrip
    PackBounded
