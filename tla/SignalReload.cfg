CONSTANTS
    MaxEdits = 2
    MaxSignals = 3
SPECIFICATION FairSpec
PROPERTIES
    HangupServed
    StopServed
    TeardownEnds
