-------------------------- MODULE MCCalendarQueue --------------------------
(***************************************************************************)
(* TLC instance of the calendar queues: two ports share two slices, two    *)
(* elements per pair, a three-valued size_t so that the running total      *)
(* wraps.  The deques are bounded by the capacity itself.                  *)
(***************************************************************************)
EXTENDS CalendarQueueApi, TLC

\* Ports and items are only compared, never ordered.
Symmetries == Permutations(Item) \cup Permutations(Port)
============================================================================
