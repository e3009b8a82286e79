------------------------------ MODULE Schedule ------------------------------
(***************************************************************************)
(* The algorithms of the Python front end (src/OpticalToolbox.py and       *)
(* src/utils.py): building the topology of every time slice, routing over  *)
(* it, and the tables loaded into the optical switch (OCS).                *)
(*                                                                         *)
(* A topology is the dictionary topo_slice in insertion order: a sequence  *)
(* of entries, each a slice id and the undirected edges between ToRs.      *)
(***************************************************************************)
EXTENDS Integers, Sequences, FiniteSets, SequencesExt

\* One call of connect(tor1, port1, tor2, port2, time_slice): the ports are
\* not used.
Call(tor1, tor2, time_slice) == [tor1 |-> tor1, tor2 |-> tor2, slice |-> time_slice]

\* valid_slice: the keys of topo_slice.
ValidSlices(topo) == {topo[i].slice : i \in DOMAIN topo}

connect(topo, call) ==
    LET edge == {call.tor1, call.tor2}
    IN  IF call.tor1 = call.tor2 THEN topo
        ELSE IF call.slice \in ValidSlices(topo)
        THEN [i \in DOMAIN topo |->
                 IF topo[i].slice = call.slice
                 THEN [topo[i] EXCEPT !.edges = @ \cup {edge}] ELSE topo[i]]
        ELSE Append(topo, [slice |-> call.slice, edges |-> {edge}])

ConnectAll(topo, calls) == FoldLeft(connect, topo, calls)

slice_num(topo) == Cardinality(ValidSlices(topo))
Nodes(topo) == UNION UNION {topo[i].edges : i \in DOMAIN topo}
tor_num(topo) == Cardinality(Nodes(topo))

\* get_topo_slice(s), for a slice the dictionary has.
EdgesIn(topo, s) == (CHOOSE e \in ToSet(topo) : e.slice = s).edges

----------------------------------------------------------------------------
(* round_robin(tor_num, port_num): the circle method in every pair of      *)
(* groups.  opera(tor_num, upper_link) is the same call.                   *)

\* Faulty: tors.insert(0, tors.pop(-1)) moves the fixed ToR as well.
rotateAll(tors) == <<Last(tors)>> \o Front(tors)

\* tors.insert(1, tors.pop(-1)): the first stays, the others turn.
rotate(tors) == <<Head(tors), Last(tors)>> \o SubSeq(tors, 2, Len(tors) - 1)

RoundRobinAccepts(n, ports) == n % (2 * ports) = 0

RoundRobinCalls(n, ports) ==
    LET group == n \div ports
        \* group_tors after k turns; it keeps turning from pair to pair
        tors[k \in 0 .. ports * ports * (group - 1)] ==
            IF k = 0 THEN [i \in 1 .. group |-> i - 1] ELSE rotate(tors[k - 1])
        Matching(p1, p2, s, turned) ==
            [i \in 1 .. group \div 2 |->
                Call(turned[i] + p1 * group, turned[group + 1 - i] + p2 * group, s)]
        PairOfGroups(b) ==
            LET p1 == b \div ports
                p2 == b % ports
                first == b * (group - 1)
                last == tors[first + group - 1]
            IN  FlattenSeq([k \in 1 .. group - 1 |->
                               Matching(p1, p2, k - 1, tors[first + k - 1])])
                \o [i \in 1 .. group |->
                       Call(last[i] + p1 * group, last[i] + p2 * group, group - 1)]
    IN  FlattenSeq([b \in 1 .. ports * ports |-> PairOfGroups(b - 1)])

\* topology_random(n): in each of n slices the shuffled ToRs are popped in
\* pairs, any perfect matching may come out.
Matchings(tors) ==
    {m \in SUBSET {e \in SUBSET tors : Cardinality(e) = 2} :
        \A t \in tors : Cardinality({e \in m : t \in e}) = 1}
RandomTopologies(n) ==
    {[i \in 1 .. n |-> [slice |-> i - 1, edges |-> m[i]]] :
        m \in [1 .. n -> Matchings(0 .. n - 1)]}

----------------------------------------------------------------------------
(* Routing.  A path is one hop: the slice to wait for; the port is 1.      *)

\* What the Python function may do instead of returning a path.
Raise == -2
None == -1

\* Faulty: the slice of arrival is not looked at.
earliest_direct_connLate(topo, src, dst, time_slice) ==
    LET n == slice_num(topo)
        S == {w \in 1 .. n : {src, dst} \in EdgesIn(topo, (time_slice + w) % n)}
    IN  IF S = {} THEN None
        ELSE (time_slice + CHOOSE w \in S : \A v \in S : w <= v) % n

\* earliest_direct_conn(): looks at the slices from time_slice on, in turn.
\* A slice id missing from the dictionary, or a destination without an edge
\* in a slice it looks at, raises.
earliest_direct_conn(topo, src, dst, time_slice) ==
    LET n == slice_num(topo)
        At(w) == (time_slice + w) % n
        Readable(w) == At(w) \in ValidSlices(topo) /\ dst \in UNION EdgesIn(topo, At(w))
        Found(w) == Readable(w) /\ {src, dst} \in EdgesIn(topo, At(w))
        stop == {w \in 0 .. n - 1 : ~Readable(w) \/ Found(w)}
    IN  IF stop = {} THEN None
        ELSE LET w == CHOOSE w \in stop : \A v \in stop : w <= v
             IN  IF Found(w) THEN At(w) ELSE Raise

\* routing(routing_direct): a table per source.
RouteKeys(topo) ==
    {k \in (0 .. tor_num(topo) - 1) \X (0 .. tor_num(topo) - 1)
              \X (0 .. slice_num(topo) - 1) : k[1] # k[2]}
routing(topo) ==
    [k \in RouteKeys(topo) |-> earliest_direct_conn(topo, k[1], k[2], k[3])]

----------------------------------------------------------------------------
(* The OCS tables.                                                         *)

\* Faulty: only the entry of the smaller port of each edge.
OcsEntriesOneWay(topo) ==
    UNION {{[port |-> e[1] + 1, slice |-> i - 1, out |-> e[2] + 1] :
               e \in {p \in Nodes(topo) \X Nodes(topo) :
                           p[1] < p[2] /\ {p[1], p[2]} \in topo[i].edges}}
           : i \in DOMAIN topo}

\* Faulty: slices counted from 1.
OcsEntriesFromOne(topo) ==
    UNION {{[port |-> e[1] + 1, slice |-> i, out |-> e[2] + 1] :
               e \in {p \in Nodes(topo) \X Nodes(topo) :
                           p[1] # p[2] /\ {p[1], p[2]} \in topo[i].edges}}
           : i \in DOMAIN topo}

\* topo_to_dict() numbers the slices in the order of the dictionary, and
\* gen_ocs_commands() adds an entry for each end of each edge; ToR t is on
\* port t + 1.
OcsEntries(topo) ==
    UNION {{[port |-> e[1] + 1, slice |-> i - 1, out |-> e[2] + 1] :
               e \in {p \in Nodes(topo) \X Nodes(topo) :
                           p[1] # p[2] /\ {p[1], p[2]} \in topo[i].edges}}
           : i \in DOMAIN topo}

\* The tables that may result: of several entries with one key the switch
\* keeps the first it is given, and refuses the others.
OcsTables(topo) ==
    LET entries == OcsEntries(topo)
        Outs(k) == {e.out : e \in {e \in entries : <<e.port, e.slice>> = k}}
        keys == {<<e.port, e.slice>> : e \in entries}
        doubtful == {k \in keys : Cardinality(Outs(k)) > 1}
        firsts == {f \in [doubtful -> UNION {Outs(k) : k \in doubtful}] :
                      \A k \in doubtful : f[k] \in Outs(k)}
    IN  {[k \in keys |-> IF k \in doubtful THEN f[k] ELSE CHOOSE o \in Outs(k) : TRUE] :
            f \in firsts}
============================================================================
