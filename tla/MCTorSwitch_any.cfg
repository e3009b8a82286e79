SPECIFICATION Spec
CONSTANTS
    Port = {0, 1}
    ClockModulus = 2
    SliceTicks = 1
    nb_calendar_queues = 2
    nb_queues_per_port = 1
    LoCapacity = 1
    HiCapacity = 1
    CalendarCapacity = 1
    EgressCapacity = 1
    OutputCapacity = 1
    MaxPackets = 3
    MayDestroy = FALSE
    IngressVerdicts <- AnyIngress
    CqVerdicts <- AnyCq
    EgressVerdicts <- AnyEgress
INVARIANTS TypeOK EveryPacketInOnePlace DropCountExactUnlessRaced
PROPERTIES UsesCalendarQueues
