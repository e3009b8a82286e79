--------------------------- MODULE OpticalNetwork ---------------------------
(***************************************************************************)
(* The whole network the front end starts: ToR switches running tor.p4,    *)
(* each connected by its port 1 to the optical switch (OCS) running        *)
(* ocs.p4, with hosts on its ports from 2 up, and one clock (all switches  *)
(* are processes of one machine).  The tables come from Schedule.          *)
(*                                                                         *)
(* The switches are taken at the level of their queues.  Calendar queues   *)
(* are the abstract PortFifos, which CalendarQueue implements.  What       *)
(* TorSwitch and the code do in one thread between two queues is one step. *)
(***************************************************************************)
EXTENDS Schedule, SourceRouting, TimeSlice

CONSTANTS
    topology,        \* a topo_slice, as Schedule builds it
    PathTables,      \* routing functions a user may choose from
    HostPorts,       \* ports of a ToR with a host
    Flows,           \* <<source ToR, port, destination ToR, port>> that send
    CalendarCapacity, EgressCapacity, OutputCapacity, OcsCapacity,
    MaxPackets       \* bound: packets sent

Tor == 0 .. tor_num(topology) - 1
Slice == 0 .. nb_calendar_queues - 1

ASSUME TopologyAssumption ==
    /\ ValidSlices(topology) = Slice /\ Nodes(topology) = Tor
    /\ Cardinality(OcsTables(topology)) = 1     \* one partner per ToR and slice
ASSUME PathsAssumption ==
    \A table \in PathTables :
        \A k \in DOMAIN table :
            table[k] \in Seq(Slice) /\ Len(table[k]) \in 1 .. ssrr_len - 1
ASSUME FlowsAssumption ==
    \A f \in Flows : {f[1], f[3]} \subseteq Tor /\ {f[2], f[4]} \subseteq HostPorts
ASSUME HostPortsAssumption == HostPorts \subseteq Nat \ {0, 1}

VARIABLES
    now,          \* the clock, in slices, kept modulo ClockModulus
    paths,        \* the source_routing_table of every ToR
    nb_sent,      \* packets sent by hosts
    tor_in,       \* [Tor -> input buffer, and the links into it]
    calendar,     \* [Tor -> [port, slice -> FIFO]]
    tor_normal,   \* [Tor -> normal egress queue]
    tor_out,      \* [Tor -> output buffer]
    ocs_in,       \* input buffer of the OCS
    ocs_out,      \* [Tor -> queue of its port in the OCS]
    delivered,    \* history: [Tor -> packets transmitted to port 2]
    lost          \* history: packets lost, and where

vars == <<now, paths, nb_sent, tor_in, calendar, tor_normal, tor_out,
          ocs_in, ocs_out, delivered, lost>>

ocs_table == CHOOSE f \in OcsTables(topology) : TRUE

\* The ToRs a packet from src is at after each hop of path, when it is on time.
Leads(at, src, path, dst) ==
    /\ at[0] = src /\ at[Len(path)] = dst
    /\ \A i \in 1 .. Len(path) :
          LET key == <<at[i - 1] + 1, path[i]>>
          IN  key \in DOMAIN ocs_table /\ ocs_table[key] = at[i] + 1

\* Every path leads to its destination through the links of the OCS (for the
\* paths of routing_direct this is RoutesMeetTheirLink of OpticalToolbox).
ASSUME RoutesAssumption ==
    \A table \in PathTables :
        \A k \in DOMAIN table :
            \E at \in [0 .. Len(table[k]) -> Tor] : Leads(at, k[1], table[k], k[2])

CurrentSlice == ts2time_slice(now)

Init ==
    /\ now = 0 /\ nb_sent = 0
    /\ paths \in PathTables
    /\ tor_in = [t \in Tor |-> << >>]
    /\ calendar = [t \in Tor |-> [k \in {0, 1} \X Slice |-> << >>]]
    /\ tor_normal = [t \in Tor |-> << >>]
    /\ tor_out = [t \in Tor |-> << >>]
    /\ ocs_in = << >> /\ ocs_out = [t \in Tor |-> << >>]
    /\ delivered = [t \in Tor |-> << >>]
    /\ lost = {}

Tick ==
    /\ now' = (now + 1) % ClockModulus
    /\ UNCHANGED <<paths, nb_sent, tor_in, calendar, tor_normal, tor_out,
                   ocs_in, ocs_out, delivered, lost>>

Lose(p, where) == lost' = lost \cup {[pkt |-> p, where |-> where]}

----------------------------------------------------------------------------
\* A host sends: receive_ of its ToR notes the slice of arrival.  path, late
\* and slice are history: the hops the packet was given, whether the OCS ever
\* saw it in another slice than it was sent for, and the slice it was last
\* sent for.
HostSend(f) ==
    /\ nb_sent < MaxPackets
    /\ nb_sent' = nb_sent + 1
    /\ tor_in' = [tor_in EXCEPT ![f[1]] = Append(@,
          [id |-> nb_sent + 1, src |-> f[1], dst |-> f[3], host |-> f[4],
           port |-> f[2], arrival |-> CurrentSlice,
           hops |-> << >>, path |-> << >>, late |-> FALSE, slice |-> 0])]
    /\ UNCHANGED <<now, paths, calendar, tor_normal, tor_out, ocs_in,
                   ocs_out, delivered, lost>>

\* enqueue_cq().
ToCalendar(t, port, s, p) ==
    /\ IF Len(calendar[t][<<port, s>>]) < CalendarCapacity
         THEN calendar' = [calendar EXCEPT ![t][<<port, s>>] = Append(@, p)]
              /\ UNCHANGED lost
         ELSE Lose(p, "calendar_queue_full") /\ UNCHANGED calendar
    /\ UNCHANGED tor_normal

\* enqueue(), for port 2.
ToHost(t, p) ==
    /\ IF Len(tor_normal[t]) < EgressCapacity
         THEN tor_normal' = [tor_normal EXCEPT ![t] = Append(@, p)] /\ UNCHANGED lost
         ELSE Lose(p, "normal_queue_full") /\ UNCHANGED tor_normal
    /\ UNCHANGED calendar

\* The entry of source_routing_table for an IPv4 packet that came in by port
\* 2: none for a destination on the same ToR.
SourceRoute(t, p) ==
    LET key == <<t, p.dst, p.arrival>>
    IN  IF p.port = 2 /\ key \in DOMAIN paths THEN paths[key] ELSE << >>

\* The hops tor.p4 works with: from the table, or parsed from the packet.
\* A packet of another host port has none.
HopsAt(t, p) ==
    IF p.port = 1 THEN SkipPadding(p.hops)
    ELSE IF SourceRoute(t, p) = << >> THEN << >> ELSE ssrr_entry(SourceRoute(t, p))

\* The ingress thread of a ToR with tor.p4.  Without a hop to follow nothing
\* is written: the packet goes to port 0 and slice 0.
TorIngress(t) ==
    /\ tor_in[t] # << >>
    /\ tor_in' = [tor_in EXCEPT ![t] = Tail(@)]
    /\ LET p == Head(tor_in[t])
           hops == HopsAt(t, p)
           q == [p EXCEPT !.path = IF p.port = 1 THEN @ ELSE SourceRoute(t, p),
                          !.hops = IF hops = << >> THEN << >> ELSE Tail(hops)]
       IN  \/ /\ hops # << >> /\ Head(hops).valid_flag = 1
              /\ ToCalendar(t, 1, Head(hops).send_slice, q)
           \/ /\ hops # << >> /\ Head(hops).valid_flag = 255
              /\ ToHost(t, q)
           \/ /\ hops = << >>
              /\ ToCalendar(t, 0, 0, q)
    /\ UNCHANGED <<now, paths, nb_sent, tor_out, ocs_in, ocs_out, delivered>>

\* Faulty: the newest packet of the slice.
CalendarPopNewest(t) ==
    \E k \in {0, 1} \X Slice :
        /\ calendar[t][k] # << >> /\ Len(tor_out[t]) < OutputCapacity
        /\ calendar' = [calendar EXCEPT ![t][k] = Front(@)]
        /\ tor_out' = [tor_out EXCEPT ![t] = Append(@,
              [port |-> k[1], pkt |-> [Last(calendar[t][k]) EXCEPT !.slice = k[2]]])]
        /\ UNCHANGED <<now, paths, nb_sent, tor_in, tor_normal, ocs_in, ocs_out,
                       delivered, lost>>

\* The calendar thread reads the clock and pops the queue of that slice, and
\* the clock may move on in between, by any amount: the queue popped is that
\* of any slice.  (TorSwitch has the read and the pop as two steps.)
CalendarPop(t) ==
    \E k \in {0, 1} \X Slice :
        /\ calendar[t][k] # << >> /\ Len(tor_out[t]) < OutputCapacity
        /\ calendar' = [calendar EXCEPT ![t][k] = Tail(@)]
        /\ tor_out' = [tor_out EXCEPT ![t] = Append(@,
              [port |-> k[1], pkt |-> [Head(calendar[t][k]) EXCEPT !.slice = k[2]]])]
        /\ UNCHANGED <<now, paths, nb_sent, tor_in, tor_normal, ocs_in, ocs_out,
                       delivered, lost>>

\* The normal egress thread, for port 2.
EgressToOut(t) ==
    /\ tor_normal[t] # << >> /\ Len(tor_out[t]) < OutputCapacity
    /\ tor_normal' = [tor_normal EXCEPT ![t] = Tail(@)]
    /\ tor_out' = [tor_out EXCEPT ![t] = Append(@, [port |-> 2, pkt |-> Head(tor_normal[t])])]
    /\ UNCHANGED <<now, paths, nb_sent, tor_in, calendar, ocs_in, ocs_out,
                   delivered, lost>>

\* The transmit thread.  Port 1 is the link to the OCS, port 0 has none.
TorTransmit(t) ==
    /\ tor_out[t] # << >>
    /\ tor_out' = [tor_out EXCEPT ![t] = Tail(@)]
    /\ LET out == Head(tor_out[t])
       IN  \/ /\ out.port = 1
              /\ ocs_in' = Append(ocs_in, [in |-> t + 1, pkt |-> out.pkt])
              /\ UNCHANGED <<delivered, lost>>
           \/ /\ out.port = 2
              /\ delivered' = [delivered EXCEPT ![t] = Append(@, out.pkt)]
              /\ UNCHANGED <<ocs_in, lost>>
           \/ /\ out.port = 0
              /\ Lose(out.pkt, "no_link")
              /\ UNCHANGED <<ocs_in, delivered>>
    /\ UNCHANGED <<now, paths, nb_sent, tor_in, calendar, tor_normal, ocs_out>>

----------------------------------------------------------------------------
\* The ingress thread of the OCS: the slice is read here, not when the packet
\* arrived, and the pair (port, slice) looked up.  Without an entry the
\* packet is dropped.
OcsIngress ==
    /\ ocs_in # << >>
    /\ ocs_in' = Tail(ocs_in)
    /\ LET key == <<Head(ocs_in).in, CurrentSlice>>
           p == [Head(ocs_in).pkt EXCEPT !.late = @ \/ CurrentSlice # Head(ocs_in).pkt.slice,
                                         !.slice = 0]
       IN  \/ /\ key \notin DOMAIN ocs_table
              /\ Lose(p, "no_entry") /\ UNCHANGED ocs_out
           \/ /\ key \in DOMAIN ocs_table
              /\ LET u == ocs_table[key] - 1
                 IN  IF Len(ocs_out[u]) < OcsCapacity
                       THEN ocs_out' = [ocs_out EXCEPT ![u] = Append(@, p)] /\ UNCHANGED lost
                       ELSE Lose(p, "ocs_queue_full") /\ UNCHANGED ocs_out
    /\ UNCHANGED <<now, paths, nb_sent, tor_in, calendar, tor_normal, tor_out,
                   delivered>>

\* The egress and transmit threads of the OCS, and the ToR that receives.
OcsTransmit(u) ==
    /\ ocs_out[u] # << >>
    /\ ocs_out' = [ocs_out EXCEPT ![u] = Tail(@)]
    /\ tor_in' = [tor_in EXCEPT ![u] = Append(@, [Head(ocs_out[u]) EXCEPT !.port = 1])]
    /\ UNCHANGED <<now, paths, nb_sent, calendar, tor_normal, tor_out, ocs_in,
                   delivered, lost>>

----------------------------------------------------------------------------
TorStep(t) ==
    \/ TorIngress(t) \/ CalendarPop(t) \/ EgressToOut(t) \/ TorTransmit(t)

Next ==
    \/ Tick
    \/ \E f \in Flows : HostSend(f)
    \/ \E t \in Tor : TorStep(t)
    \/ OcsIngress
    \/ \E u \in Tor : OcsTransmit(u)

Spec == Init /\ [][Next]_vars
----------------------------------------------------------------------------
Arrived(t) == ToSet(delivered[t])

\* When the OCS handled a packet in the slices it was sent for, the packet
\* reaches the host it is for, and nothing but a full queue (or no route at
\* all for its destination and slice of arrival) loses it: the
\* ToR's tables (computed with slice ids and ToR ids), the header the P4
\* program takes apart hop by hop, and the OCS's table (numbered by order and
\* by port) agree all along the path (tor.p4:283-308, ocs.p4:80-118,
\* OpticalToolbox.py:182-236, 515-603, utils.py:21-31).
OnTimePacketsArrive ==
    /\ \A t \in Tor : \A p \in Arrived(t) : ~p.late => t = p.dst /\ p.host = 2
    /\ \A l \in lost :
          /\ l.where = "no_entry" => l.pkt.late
          /\ l.where = "no_link" => <<l.pkt.src, l.pkt.dst, l.pkt.arrival>> \notin DOMAIN paths

\* Packets of one flow that were given the same path, and were on time, come
\* out in the order they were sent, however the calendar queues of the ToRs
\* on the path and the OCS interleave with other traffic.
FlowOrder ==
    \A t \in Tor : \A i, j \in DOMAIN delivered[t] :
        LET p == delivered[t][i]
            q == delivered[t][j]
        IN  i < j /\ p.src = q.src /\ p.dst = q.dst /\ p.path = q.path
                  /\ ~p.late /\ ~q.late
              => p.id < q.id
=============================================================================
