-------------------------- MODULE MCOpticalToolbox --------------------------
(***************************************************************************)
(* TLC instances of the front end.                                         *)
(***************************************************************************)
EXTENDS OpticalToolbox

NoCalls == {}

\* Two ToRs connected by hand, and a ToR connected to itself.  A script of
\* connect() alone has no hosts: it raises when the network is set up.
PairCalls == {Call(0, 1, 0), Call(1, 0, 0), Call(0, 0, 0)}

\* Round robins of up to ten ToRs, and all random schedules of up to four.
CircleSizes == {<<n, 1>> : n \in {2, 4, 6, 8, 10, 3}}
SmallSizes == {2, 3, 4}

\* A round robin of four ToRs, slices 0 to 2, and by hand a slice more in which
\* two pairs of them meet.
FourTors == {<<4, 1>>}
ExtraSlice == {Call(0, 1, 3), Call(2, 3, 3)}
=============================================================================
