SPECIFICATION FairSpec
CONSTANTS
    r1 = r1
    r2 = r2
    egress = egress
    main = main
    ingress = ingress
    x = x
    y = y
    Thread = {r1, r2, egress, main, ingress}
    Item = {x, y}
    capacity_hi = 1
    capacity_lo = 2
    Requests <- Calls
INVARIANTS TypeOK NoLostWakeup
PROPERTIES ImplementsPriorityBuffer
