--------------------------- MODULE CalendarQueue ---------------------------
(***************************************************************************)
(* The calendar queues of a ToR switch (targets/tor_switch/                *)
(* calendar_queue.h).  There is one deque per time slice.  All output      *)
(* ports share it: an element carries the port it was queued for.  The     *)
(* capacity, however, is per (port, slice): a table port_q_info, filled    *)
(* when a pair is first used, counts the elements of each pair.            *)
(*                                                                         *)
(* Every operation modelled here runs under the mutex of the class, so     *)
(* each is one action.  The code pushes at the front of the deque and pops *)
(* at its back; here the oldest element is the head of the sequence.       *)
(***************************************************************************)
EXTENDS Integers, Sequences, FiniteSets

CONSTANTS
    Port,                \* port_id of the callers (any size_t in the code)
    Item,                \* T: the packets
    capacity,            \* elements allowed per (port, slice)
    nb_calendar_queues,  \* time slices
    Word                 \* number of values of a size_t (2^64 in the build)

ASSUME CapacityAssumption == capacity \in Nat
ASSUME QueuesAssumption == nb_calendar_queues \in Nat \ {0}
ASSUME WordAssumption == Word \in Nat \ {0}

Slice == 0 .. nb_calendar_queues - 1
QueueKey == Port \X Slice
QE == [e : Item, port_id : Port]

VARIABLES
    calendar_queues,  \* [Slice -> Seq(QE)], oldest element first
    port_q_info,      \* the counters of the pairs used so far
    overal_qdepth     \* running total, kept modulo Word

vars == <<calendar_queues, port_q_info, overal_qdepth>>

TypeOK ==
    /\ calendar_queues \in [Slice -> Seq(QE)]
    /\ DOMAIN port_q_info \subseteq QueueKey
    /\ port_q_info \in [DOMAIN port_q_info -> Nat]
    /\ overal_qdepth \in 0 .. Word - 1

\* CalendarQueue(): the constructor leaves overal_qdepth without a value: it starts as
\* whatever the memory held.
Init ==
    /\ calendar_queues = [s \in Slice |-> << >>]
    /\ port_q_info = << >>
    /\ overal_qdepth \in 0 .. Word - 1

\* size(), get_q_size(): a pair never used counts zero elements.
size(p, s) == IF <<p, s>> \in DOMAIN port_q_info THEN port_q_info[<<p, s>>] ELSE 0

\* get_queue() followed by a store: the entry is created when missing.
SetSize(p, s, n) ==
    port_q_info' = [k \in DOMAIN port_q_info \cup {<<p, s>>} |->
                        IF k = <<p, s>> THEN n ELSE port_q_info[k]]

\* Faulty: one element too many.
PushFrontTooMany(p, s, x) ==
    /\ size(p, s) <= capacity
    /\ calendar_queues' = [calendar_queues EXCEPT
                              ![s] = Append(@, [e |-> x, port_id |-> p])]
    /\ SetSize(p, s, size(p, s) + 1)
    /\ overal_qdepth' = (overal_qdepth + 1) % Word

\* Faulty: the counter of the pair stays.
PushFrontUncounted(p, s, x) ==
    /\ size(p, s) < capacity
    /\ calendar_queues' = [calendar_queues EXCEPT
                              ![s] = Append(@, [e |-> x, port_id |-> p])]
    /\ SetSize(p, s, size(p, s))
    /\ overal_qdepth' = (overal_qdepth + 1) % Word

\* push_front() that returns 0.
PushFront(p, s, x) ==
    /\ size(p, s) < capacity
    /\ calendar_queues' = [calendar_queues EXCEPT
                              ![s] = Append(@, [e |-> x, port_id |-> p])]
    /\ SetSize(p, s, size(p, s) + 1)
    /\ overal_qdepth' = (overal_qdepth + 1) % Word

\* push_front() that returns -1.
PushFull(p, s) ==
    /\ size(p, s) >= capacity
    /\ SetSize(p, s, size(p, s))
    /\ UNCHANGED <<calendar_queues, overal_qdepth>>

\* Faulty: the counter of the port at the other end of the deque.
PopBackOtherEnd(s) ==
    /\ calendar_queues[s] # << >>
    /\ calendar_queues' = [calendar_queues EXCEPT ![s] = Tail(@)]
    /\ port_q_info' = [port_q_info EXCEPT
          ![<<calendar_queues[s][Len(calendar_queues[s])].port_id, s>>] = @ - 1]
    /\ overal_qdepth' = (overal_qdepth + Word - 1) % Word

\* Faulty: the entry of a pair goes with its last element.
PopBackForgets(s) ==
    /\ calendar_queues[s] # << >>
    /\ calendar_queues' = [calendar_queues EXCEPT ![s] = Tail(@)]
    /\ LET k == <<Head(calendar_queues[s]).port_id, s>>
       IN  port_q_info' = IF port_q_info[k] = 1
                            THEN [j \in DOMAIN port_q_info \ {k} |-> port_q_info[j]]
                            ELSE [port_q_info EXCEPT ![k] = @ - 1]
    /\ overal_qdepth' = (overal_qdepth + Word - 1) % Word

\* pop_back() that returns true.  It takes the oldest element of any port,
\* then looks the port's counter up, which throws when there is none, and
\* decrements it, which wraps at zero: PopFindsItsEntry says that neither
\* happens.
PopBack(s) ==
    /\ calendar_queues[s] # << >>
    /\ calendar_queues' = [calendar_queues EXCEPT ![s] = Tail(@)]
    /\ port_q_info' = [port_q_info EXCEPT
                           ![<<Head(calendar_queues[s]).port_id, s>>] = @ - 1]
    /\ overal_qdepth' = (overal_qdepth + Word - 1) % Word

\* pop_back() that returns false: the wait for an element is commented out.
PopEmpty(s) ==
    /\ calendar_queues[s] = << >>
    /\ UNCHANGED vars

Next ==
    \/ \E p \in Port, s \in Slice, x \in Item : PushFront(p, s, x)
    \/ \E p \in Port, s \in Slice : PushFull(p, s)
    \/ \E s \in Slice : PopBack(s) \/ PopEmpty(s)

Spec == Init /\ [][Next]_vars

----------------------------------------------------------------------------
\* Where the elements of port p are in a deque q.
Positions(q, p) == {i \in 1 .. Len(q) : q[i].port_id = p}

\* The counter of every pair is the number of elements of that port in the
\* shared deque of that slice, and a pair without a counter has no element
\* (calendar_queue.h:95-147: the two are updated by different statements).
CountersExact ==
    \A s \in Slice, p \in Port :
        size(p, s) = Cardinality(Positions(calendar_queues[s], p))

\* No pair holds more elements than the capacity, whatever the other ports
\* put in the same deque (the test "size >= capacity" of push_front).
CapacityPerPair ==
    \A s \in Slice, p \in Port :
        Cardinality(Positions(calendar_queues[s], p)) <= capacity

\* pop_back never throws out_of_range from port_q_info.at(), and never
\* decrements a counter that is zero (which would wrap to 2^64 - 1 and make
\* the pair look full for ever).
PopFindsItsEntry ==
    \A s \in Slice :
        calendar_queues[s] # << >> =>
            LET p == Head(calendar_queues[s]).port_id
            IN  <<p, s>> \in DOMAIN port_q_info /\ port_q_info[<<p, s>>] > 0
============================================================================
