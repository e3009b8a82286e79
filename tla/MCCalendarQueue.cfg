SPECIFICATION ApiSpec
CONSTANTS
    Port = {p1, p2}
    Item = {a, b}
    capacity = 2
    nb_calendar_queues = 2
    Word = 3
INVARIANTS TypeOK CountersExact CapacityPerPair PopFindsItsEntry
PROPERTIES ImplementsPortFifos
SYMMETRY Symmetries
