SPECIFICATION Spec
CONSTANTS
    topology <- ByHand
    PathTables <- TwoRoutings
    HostPorts = {2}
    Flows <- TwoFlows
    CalendarCapacity = 2
    EgressCapacity = 1
    OutputCapacity = 1
    OcsCapacity = 1
    MaxPackets = 2
    ClockModulus = 3
    SliceTicks = 1
    nb_calendar_queues = 3
INVARIANTS OnTimePacketsArrive FlowOrder
