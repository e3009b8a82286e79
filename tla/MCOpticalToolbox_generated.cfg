SPECIFICATION Spec
CONSTANTS
    ConnectCalls <- PairCalls
    RoundRobins <- CircleSizes
    RandomSizes <- SmallSizes
    MaxCalls = 1
INVARIANTS RoutesMeetTheirLink OcsIsMatching RoutesLoseNoTime CirclesAreComplete
CHECK_DEADLOCK FALSE
