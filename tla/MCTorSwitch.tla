---------------------------- MODULE MCTorSwitch ----------------------------
(***************************************************************************)
(* TLC instances of the ToR switch.  One tick is one slice, the clock      *)
(* wraps after one turn of the schedule, buffers hold one or two packets.  *)
(***************************************************************************)
EXTENDS TorSwitch

\* Everything a P4 program can ask the target for, in the fewest verdicts.
AnyIngress ==
    {<<ToHost(1, 0)>>, <<ToCalendar(1, 1, 0)>>, <<Resubmit>>, <<DropIt>>,
     <<Copy(1, 0), Discard>>, <<ToCalendar(1, 0, 1)>>,
     <<ToCalendar(1, nb_calendar_queues, 0)>>}
AnyCq == {<<Emit>>, <<Recirculate>>, <<DropIt>>}
AnyEgress == {<<Emit>>, <<Recirculate>>, <<Copy(1, 1), DropIt>>}

\* Packets that are sent on or dropped, as tor.p4 does: a calendar queue on
\* the way, the host's port at the end, the drop action of
\* source_routing_table.  The host is on port 0, where the destructor queues
\* its sentinel, so that the two compete for room.
ForwardIngress == {<<ToCalendar(1, s, 0)>> : s \in 0 .. nb_calendar_queues - 1}
                    \cup {<<ToHost(0, 0)>>, <<DropIt>>}
OnlyEmit == {<<Emit>>}

\* Packets that come back to ingress.
LoopIngress == {<<ToCalendar(1, 1, 0)>>, <<ToHost(1, 0)>>, <<Resubmit>>}
LoopEgress == {<<Emit>>, <<Recirculate>>}
============================================================================
