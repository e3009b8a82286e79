--------------------------- MODULE MCInputBuffer ---------------------------
(***************************************************************************)
(* TLC instance of the input buffer: two threads that receive packets, the *)
(* egress thread that recirculates, the destructor and the ingress thread, *)
(* which takes packets out and puts resubmitted ones back.                 *)
(***************************************************************************)
EXTENDS InputBuffer, TLC

CONSTANTS r1, r2, egress, main, ingress, x, y

Calls ==
    r1 :> {"NORMAL"} @@ r2 :> {"NORMAL"} @@ egress :> {"RECIRCULATE"}
    @@ main :> {"SENTINEL"} @@ ingress :> {"pop", "RESUBMIT"}
============================================================================
