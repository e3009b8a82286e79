-------------------------- MODULE MCOpticalNetwork --------------------------
(***************************************************************************)
(* TLC instances of the whole network: four ToRs, three slices.            *)
(***************************************************************************)
EXTENDS OpticalNetwork

\* A round robin with one link less: ToRs 1 and 3 never meet, and have no
\* partner in slice 1.
ByHand == ConnectAll(<< >>, <<Call(0, 1, 0), Call(2, 3, 0), Call(0, 2, 1),
                              Call(0, 3, 2), Call(1, 2, 2)>>)

\* The slice a packet that arrives in slice s waits for to go from t to u.
Meetings(topo, t, u, s) ==
    {(s + w) % 3 : w \in {w \in 0 .. 2 : {t, u} \in EdgesIn(topo, (s + w) % 3)
                            /\ \A v \in 0 .. w - 1 : {t, u} \notin EdgesIn(topo, (s + v) % 3)}}

DirectPath(topo, k) == {<<s>> : s \in Meetings(topo, k[1], k[2], k[3])}

\* At once to the partner of the slice of arrival, from there to the
\* destination in the slice that comes for it.
RelayPath(topo, k) ==
    LET Partners == {u \in 0 .. 3 : {k[1], u} \in EdgesIn(topo, k[3])}
    IN  IF k[2] \in Partners THEN {<<k[3]>>}
        ELSE {<<k[3], s>> : s \in UNION {Meetings(topo, u, k[2], k[3]) : u \in Partners}}

Table(topo, Paths(_, _)) ==
    [k \in {k \in RouteKeys(topo) : Paths(topo, k) # {}} |->
        CHOOSE path \in Paths(topo, k) : TRUE]

TwoRoutings == {Table(ByHand, DirectPath), Table(ByHand, RelayPath)}

TwoFlows == {<<0, 2, 2, 2>>, <<1, 2, 3, 2>>}
============================================================================
