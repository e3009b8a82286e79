-------------------------- MODULE CalendarQueueApi --------------------------
(***************************************************************************)
(* The calendar queues as their callers see them: every call with the      *)
(* value it returns.  ret stands for the return value of push_front (0 or  *)
(* -1) and of pop_back (a flag, the port and the item).                    *)
(***************************************************************************)
EXTENDS CalendarQueue

VARIABLE ret

apiVars == <<vars, ret>>

ApiInit == Init /\ ret = <<"none">>

\* Both overloads of push_front (copy and move).
ApiPush(p, s, x) ==
    \/ PushFront(p, s, x) /\ ret' = <<"pushed", p, s>>
    \/ PushFull(p, s) /\ ret' = <<"full", p, s>>

\* Faulty: the newest element instead of the oldest.
ApiPopNewest(s) ==
    \/ /\ PopBack(s)
       /\ LET qe == calendar_queues[s][Len(calendar_queues[s])]
          IN  ret' = <<"popped", qe.port_id, s, qe.e>>
    \/ PopEmpty(s) /\ ret' = <<"empty", s>>

ApiPop(s) ==
    \/ /\ PopBack(s)
       /\ LET qe == Head(calendar_queues[s])
          IN  ret' = <<"popped", qe.port_id, s, qe.e>>
    \/ PopEmpty(s) /\ ret' = <<"empty", s>>

ApiNext ==
    \/ \E p \in Port, s \in Slice, x \in Item : ApiPush(p, s, x)
    \/ \E s \in Slice : ApiPop(s)

ApiSpec == ApiInit /\ [][ApiNext]_apiVars

\* The place of position i among those of port p in a deque q.
Rank(q, p, i) == Cardinality({j \in Positions(q, p) : j <= i})

\* The items of port p in a deque q, oldest first.
ItemsOf(q, p) ==
    [n \in 1 .. Cardinality(Positions(q, p)) |->
        q[CHOOSE i \in Positions(q, p) : Rank(q, p, i) = n].e]

Fifo == [k \in QueueKey |-> ItemsOf(calendar_queues[k[2]], k[1])]

Fifos == INSTANCE PortFifos WITH fifo <- Fifo

\* One shared deque per slice with a table of counters answers every call
\* as an independent bounded FIFO per (port, slice) would: no port is
\* refused because of another, none is overtaken, none is forgotten
\* (calendar_queue.h:95-147).
ImplementsPortFifos == Fifos!Spec
============================================================================
