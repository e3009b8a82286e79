SPECIFICATION Spec
CONSTANTS
    ConnectCalls <- ExtraSlice
    RoundRobins <- FourTors
    RandomSizes <- NoCalls
    MaxCalls = 3
INVARIANTS RoutesMeetTheirLink
CHECK_DEADLOCK FALSE
