--------------------------- MODULE OpticalToolbox ---------------------------
(***************************************************************************)
(* A network description being built with the Python front end: the calls  *)
(* a user script makes on a BaseNetwork (src/OpticalToolbox.py), in the    *)
(* order the script of Readme.md makes them: topology, routing, entries,   *)
(* start.                                                                  *)
(***************************************************************************)
EXTENDS Schedule

CONSTANTS
    ConnectCalls,   \* calls of connect() a script may make
    RoundRobins,    \* arguments <<tor_num, port_num>> of round_robin() / opera()
    RandomSizes,    \* arguments of topology_random()
    MaxCalls        \* bound: calls that build the topology

ASSUME SizesAssumption == RoundRobins \subseteq Nat \X (Nat \ {0})

VARIABLES
    phase,          \* "topology", "routed", "entries", "ready" or "raised"
    made,           \* history: the calls that built the topology
    topo,           \* topo_slice
    num_hosts,      \* length of the list of the hosts of each ToR
    routing_path,   \* [<<src, dst, arrival slice>> -> send slice]
    ocs_table       \* table ocs_schedule of the optical switch

vars == <<phase, made, topo, num_hosts, routing_path, ocs_table>>

Init ==
    /\ phase = "topology"
    /\ made = << >>
    /\ topo = << >>
    /\ num_hosts = 0
    /\ routing_path = << >>
    /\ ocs_table = << >>

Building == phase = "topology" /\ Len(made) < MaxCalls

\* connect() says nothing of hosts.
Connect(call) ==
    /\ Building
    /\ topo' = connect(topo, call)
    /\ made' = Append(made, <<"connect">>)
    /\ UNCHANGED <<phase, num_hosts, routing_path, ocs_table>>

\* round_robin(), and opera() which calls it: an assertion checks the sizes.
RoundRobin(n, ports) ==
    /\ Building
    /\ made' = Append(made, <<"round_robin", n, ports>>)
    /\ IF RoundRobinAccepts(n, ports)
         THEN /\ topo' = ConnectAll(topo, RoundRobinCalls(n, ports))
              /\ num_hosts' = n /\ UNCHANGED phase
         ELSE phase' = "raised" /\ UNCHANGED <<topo, num_hosts>>
    /\ UNCHANGED <<routing_path, ocs_table>>

\* topology_random(): an odd number of ToRs pops from an empty list.
TopologyRandom(n) ==
    /\ Building /\ topo = << >>
    /\ made' = Append(made, <<"topology_random", n>>)
    /\ num_hosts' = n
    /\ IF n % 2 = 0 THEN topo' \in RandomTopologies(n) /\ UNCHANGED phase
                    ELSE phase' = "raised" /\ UNCHANGED topo
    /\ UNCHANGED <<routing_path, ocs_table>>

\* routing(routing_func=net.routing_direct): slice 0 has to exist.
Routing ==
    /\ phase = "topology" /\ made # << >>
    /\ IF 0 \in ValidSlices(topo) /\ Raise \notin {routing(topo)[k] : k \in RouteKeys(topo)}
         THEN phase' = "routed" /\ routing_path' = routing(topo)
         ELSE phase' = "raised" /\ UNCHANGED routing_path
    /\ UNCHANGED <<made, topo, num_hosts, ocs_table>>

\* entries(): a pair of ToRs without a path has None where a Path is used.
Entries ==
    /\ phase = "routed"
    /\ phase' = IF \E k \in DOMAIN routing_path : routing_path[k] = None
                THEN "raised" ELSE "entries"
    /\ UNCHANGED <<made, topo, num_hosts, routing_path, ocs_table>>

\* start(), setup_mininet(): each ToR looks up how many hosts it has, which
\* raises for the first that is not in the list; then setup_ocs() loads the
\* tables into the optical switch.
SetupOcs ==
    /\ phase = "entries"
    /\ IF num_hosts < tor_num(topo)
         THEN phase' = "raised" /\ UNCHANGED ocs_table
         ELSE phase' = "ready" /\ ocs_table' \in OcsTables(topo)
    /\ UNCHANGED <<made, topo, num_hosts, routing_path>>

Next ==
    \/ \E call \in ConnectCalls : Connect(call)
    \/ \E a \in RoundRobins : RoundRobin(a[1], a[2])
    \/ \E n \in RandomSizes : TopologyRandom(n)
    \/ Routing \/ Entries \/ SetupOcs

Spec == Init /\ [][Next]_vars

----------------------------------------------------------------------------
\* Every route meets its link: in the slice a packet is sent, the optical
\* switch connects the source to the destination.  Two computations that
\* never see each other have to agree: the routing by slice id, and the
\* numbering of the dictionary that fills the OCS table.
RoutesMeetTheirLink ==
    phase = "ready" =>
        \A k \in DOMAIN routing_path :
            LET key == <<k[1] + 1, routing_path[k]>>
            IN  key \in DOMAIN ocs_table /\ ocs_table[key] = k[2] + 1

\* The OCS never connects two input ports to one output port in one slice,
\* and connects them in pairs.
OcsIsMatching ==
    \A k \in DOMAIN ocs_table :
        LET back == <<ocs_table[k], k[2]>>
        IN  back \in DOMAIN ocs_table /\ ocs_table[back] = k[1]

\* A packet waits for the first slice with its link, from its arrival on:
\* no slice in between connects the two ToRs in the OCS.
RoutesLoseNoTime ==
    phase = "ready" =>
        \A k \in DOMAIN routing_path :
            LET n == slice_num(topo)
                wait == (routing_path[k] - k[3] + n) % n
            IN  \A w \in 0 .. wait - 1 :
                    LET key == <<k[1] + 1, (k[3] + w) % n>>
                    IN  key \in DOMAIN ocs_table => ocs_table[key] # k[2] + 1

\* Numbers of ToRs for which a script may ask for a round robin.
Tournaments == {a[1] : a \in RoundRobins} \ {0, 1}

\* round_robin with one port per ToR is a round-robin tournament: every two
\* ToRs are connected in exactly one of tor_num - 1 slices, and no ToR idles
\* ("Create a round-robin topology with the circle method",
\* OpticalToolbox.py:350).
EveryPairMeetsOnce ==
    \A n \in Tournaments :
        made = <<<<"round_robin", n, 1>>>> /\ phase # "raised" =>
            /\ ValidSlices(topo) = 0 .. n - 2
            /\ \A t, u \in 0 .. n - 1 : t # u =>
                  Cardinality({s \in 0 .. n - 2 : {t, u} \in EdgesIn(topo, s)}) = 1
            /\ \A s \in 0 .. n - 2 : UNION EdgesIn(topo, s) = 0 .. n - 1

\* A script that builds its topology with such a round robin never raises: the
\* routing reads only slices that exist, each with an edge at the destination,
\* and finds a path for every pair, and every ToR finds its hosts.
CirclesNeverRaise ==
    \A n \in Tournaments :
        n % 2 = 0 /\ made = <<<<"round_robin", n, 1>>>> => phase # "raised"

\* Both: round_robin gives a schedule in which everyone can talk to everyone,
\* and the front end finds that out.
CirclesAreComplete == EveryPairMeetsOnce /\ CirclesNeverRaise
=============================================================================
