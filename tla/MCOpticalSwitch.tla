-------------------------- MODULE MCOpticalSwitch --------------------------
(***************************************************************************)
(* TLC instance of the optical switch: two egress threads with a port     *)
(* each, one mirroring session that the control plane sets, resets and     *)
(* deletes, and P4 programs that ask for everything there is.              *)
(***************************************************************************)
EXTENDS OpticalSwitch, TLC

Groups == (1 :> <<0, 1>>) @@ (2 :> <<1>>)
ToPort(p) == [mgid_valid |-> FALSE, mgid |-> 1, egress_port_valid |-> TRUE, egress_port |-> p]
ToBoth == [mgid_valid |-> TRUE, mgid |-> 2, egress_port_valid |-> TRUE, egress_port |-> 0]
Configs == {ToBoth, ToPort(1)}
SetBefore == {ToBoth}

AnyIngress ==
    {<<Enqueue(0, 0)>>, <<Enqueue(1, nb_queues_per_port)>>,
     <<Clone(0, 0), Enqueue(1, 0)>>, <<Resubmit>>, <<Multicast(1, 0)>>}
AnyEgress == {<<Emit>>, <<Recirculate>>, <<Clone(MAX_MIRROR_SESSION_ID + 1, 0), DropIt>>}
============================================================================
