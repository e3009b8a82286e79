---------------------------- MODULE QueueReport ----------------------------
(***************************************************************************)
(* The report of queued packets while the switch runs.  On one side        *)
(* TorSwitch::get_num_queued_packets, in a Thrift thread, takes the keys   *)
(* of the table without its mutex and then the size of each pair under it. *)
(* On the other side the dashboard thread of the front end, update_db in   *)
(* OpticalToolbox.py, asks for a report once a second until the command    *)
(* line ends, and stores one reading per pair and time step.               *)
(***************************************************************************)
EXTENDS CalendarQueue, FiniteSetsExt

CONSTANT MaxOverlap      \* bound: pushes and pops during one report

ASSUME OverlapAssumption == MaxOverlap \in Nat

VARIABLES
    db,               \* where update_db is
    running_db_thread,
    cli,              \* where start() is: "cli", "join" or "stopped"
    table,            \* keys of the table when get_port_qs began
    keys, total,      \* keys still to be asked for, sum of the sizes so far
    reported,         \* keys of this report
    last_reported,    \* keys of the readings of the last time step
    raced,            \* the table changed while get_port_qs went through it
    base, pushes, pops   \* history: contents when the report began, calls since

callVars == <<pushes, pops>>
reportVars == <<table, keys, total, reported, raced, base>>
frontVars == <<running_db_thread, cli, last_reported>>
reportingVars == <<vars, callVars, reportVars, frontVars, db>>

ReportInit ==
    /\ Init
    /\ db = "loop" /\ running_db_thread = TRUE /\ cli = "cli"
    /\ table = {} /\ keys = {} /\ total = 0 /\ reported = {}
    /\ last_reported = {} /\ raced = FALSE
    /\ base = 0 /\ pushes = 0 /\ pops = 0

\* The elements in all the deques.
Contents == MapThenSumSet(LAMBDA s : Len(calendar_queues[s]), Slice)
Reporting == db \in {"keys", "sizes"}

\* The threads of the switch go on during a report.
Switch ==
    /\ ~Reporting \/ pushes + pops < MaxOverlap
    /\ Next
    /\ pushes' = IF Reporting /\ Contents' > Contents THEN pushes + 1 ELSE pushes
    /\ pops' = IF Reporting /\ Contents' < Contents THEN pops + 1 ELSE pops
    /\ UNCHANGED <<reportVars, frontVars, db>>

\* while self.running_db_thread: ask the switch for a report.
Loop ==
    /\ db = "loop"
    /\ IF running_db_thread
         THEN /\ db' = "keys"
              /\ table' = DOMAIN port_q_info
              /\ base' = Contents /\ total' = 0 /\ reported' = {}
              /\ UNCHANGED <<keys, raced>>
         ELSE db' = "done" /\ UNCHANGED reportVars
    /\ UNCHANGED <<vars, callVars, frontVars>>

\* get_port_qs goes through the hash table.  An insertion on the way may make
\* it miss any of the entries.
GetPortQs ==
    /\ db = "keys" /\ db' = "sizes"
    /\ \/ table = DOMAIN port_q_info /\ keys' = table /\ raced' = FALSE
       \/ table # DOMAIN port_q_info /\ keys' \in SUBSET DOMAIN port_q_info /\ raced' = TRUE
    /\ UNCHANGED <<vars, callVars, frontVars, table, total, reported, base>>

\* Faulty: every pair is charged with the running total of the class.
AddedDepth(k) == overal_qdepth

\* What a pair adds to the total: its size, read under the mutex.
Added(k) == size(k[1], k[2])

AddSize(k) ==
    /\ db = "sizes" /\ k \in keys
    /\ total' = total + Added(k)
    /\ keys' = keys \ {k} /\ reported' = reported \cup {k}
    /\ UNCHANGED <<vars, callVars, frontVars, db, table, raced, base>>

\* The readings of the time step are stored, and the thread sleeps a second
\* in ten parts, looking at running_db_thread.
Store ==
    /\ db = "sizes" /\ keys = {} /\ db' = "sleep"
    /\ last_reported' = reported
    /\ table' = {} /\ total' = 0 /\ base' = 0 /\ pushes' = 0 /\ pops' = 0
    /\ UNCHANGED <<vars, running_db_thread, cli, keys, reported, raced>>

Sleep ==
    /\ db = "sleep" /\ db' = "loop"
    /\ UNCHANGED <<vars, callVars, reportVars, frontVars>>

\* Faulty: start() joins the thread without telling it.
LeaveUntold == cli = "cli" /\ cli' = "join" /\ UNCHANGED running_db_thread

\* start(): the command line has ended.
Leave == cli = "cli" /\ cli' = "join" /\ running_db_thread' = FALSE

Join == cli = "join" /\ db = "done" /\ cli' = "stopped" /\ UNCHANGED running_db_thread

Start == (Leave \/ Join) /\ UNCHANGED <<vars, callVars, reportVars, last_reported, db>>

UpdateDb == Loop \/ GetPortQs \/ (\E k \in keys : AddSize(k)) \/ Store \/ Sleep

ReportNext == Switch \/ UpdateDb \/ Start

\* The threads of the front end and the Thrift thread are scheduled.
ReportSpec ==
    ReportInit /\ [][ReportNext]_reportingVars
      /\ WF_reportingVars(UpdateDb) /\ WF_reportingVars(cli = "join" /\ Start)
----------------------------------------------------------------------------
\* The total is no snapshot, for every size is read at another moment, but it
\* is off by no more than what came and went during the report, unless the
\* table changed while its keys were read (tor_switch.cpp:390-403).
TotalNearSnapshot ==
    db = "sizes" /\ keys = {} /\ ~raced =>
        base - pops <= total /\ total <= base + pushes

\* A pair reported once is reported in every later time step, even when it is
\* empty: the dashboard appends each reading to the series of its pair and
\* counts time by the length of the series (views.py:35-44), so one with a
\* gap would be drawn at the wrong times.  Again unless the table changed
\* under the reader.
SeriesHaveNoGaps ==
    [][last_reported' # last_reported /\ ~raced =>
          last_reported \subseteq last_reported']_reportingVars

\* Leaving the command line ends the front end, whatever the dashboard thread
\* is in the middle of and however busy the switch is (OpticalToolbox.py:
\* 101, 147-150, 168-171).
FrontEndStops == cli = "join" ~> cli = "stopped"
============================================================================
