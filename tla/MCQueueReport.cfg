SPECIFICATION ReportSpec
CONSTANTS
    Port = {p1, p2}
    Item = {a}
    capacity = 1
    nb_calendar_queues = 2
    Word = 2
    MaxOverlap = 2
INVARIANTS TotalNearSnapshot
PROPERTIES SeriesHaveNoGaps FrontEndStops
