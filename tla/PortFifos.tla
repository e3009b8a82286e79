----------------------------- MODULE PortFifos -----------------------------
(***************************************************************************)
(* What the ToR switch expects of its calendar queues: an independent      *)
(* bounded FIFO for every pair of an output port and a time slice.  A pop  *)
(* of a slice serves some port that has packets in that slice and fails    *)
(* only when no port has any; packets of one pair never overtake each      *)
(* other; and a port that fills its share never costs another port a       *)
(* packet.  ret is what the last call returned.                            *)
(*                                                                         *)
(* CalendarQueue implements this with one deque per slice that all ports   *)
(* share, and a table of counters (see CalendarQueueApi).                  *)
(***************************************************************************)
EXTENDS Naturals, Sequences

CONSTANTS Port, Slice, Item, capacity

VARIABLES fifo, ret

Init ==
    /\ fifo = [k \in Port \X Slice |-> << >>]
    /\ ret = <<"none">>

Enqueue(p, s, x) ==
    /\ Len(fifo[<<p, s>>]) < capacity
    /\ fifo' = [fifo EXCEPT ![<<p, s>>] = Append(@, x)]
    /\ ret' = <<"pushed", p, s>>

Refuse(p, s) ==
    /\ Len(fifo[<<p, s>>]) >= capacity
    /\ ret' = <<"full", p, s>>
    /\ UNCHANGED fifo

Dequeue(p, s) ==
    /\ fifo[<<p, s>>] # << >>
    /\ fifo' = [fifo EXCEPT ![<<p, s>>] = Tail(@)]
    /\ ret' = <<"popped", p, s, Head(fifo[<<p, s>>])>>

NothingToDequeue(s) ==
    /\ \A p \in Port : fifo[<<p, s>>] = << >>
    /\ ret' = <<"empty", s>>
    /\ UNCHANGED fifo

Next == \E s \in Slice :
    \/ \E p \in Port, x \in Item : Enqueue(p, s, x)
    \/ \E p \in Port : Refuse(p, s) \/ Dequeue(p, s)
    \/ NothingToDequeue(s)

Spec == Init /\ [][Next]_<<fifo, ret>>
============================================================================
