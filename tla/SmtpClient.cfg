CONSTANTS
    NumItems = 2
    HeadersSize <- MCHeadersSize
    BodySize <- MCBodySize
    Room = {1, 3}
    Timeout = 180
SPECIFICATION FairSpec
INVARIANTS
    AcceptedWhole
PROPERTIES
    DeliveryImplemented
    PerformEnds
