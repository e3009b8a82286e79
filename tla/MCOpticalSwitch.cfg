SPECIFICATION FairSpec
CONSTANTS
    Port = {0, 1}
    nb_egress_threads = 2
    nb_queues_per_port = 1
    LoCapacity = 1
    HiCapacity = 1
    OutputCapacity = 1
    Depths = {2}
    EgressDepth = 1
    MAX_MIRROR_SESSION_ID = 0
    MirrorId = {0, 1}
    Config <- Configs
    Presets <- SetBefore
    Group <- Groups
    IngressVerdicts <- AnyIngress
    EgressVerdicts <- AnyEgress
    MaxPackets = 3
    MaxUpdates = 1
    MayDestroy = TRUE
INVARIANTS TypeOK EveryPacketInOnePlace SamePortSameOrder ClonesFollowAnswers
PROPERTIES IngressNeverStuck DestructorReturns
CHECK_DEADLOCK FALSE
