---------------------------- MODULE InputBuffer ----------------------------
(***************************************************************************)
(* TorSwitch::InputBuffer (targets/tor_switch/tor_switch.cpp; the optical  *)
(* switch has the same class): two deques under one mutex, a condition     *)
(* variable for each deque's producers and one for the consumer.           *)
(*                                                                         *)
(* What a thread does from locking the mutex to unlocking it, or to        *)
(* waiting, is one step.  The notification comes after the unlock, so it   *)
(* is a step of its own, and other threads may come in between.            *)
(***************************************************************************)
EXTENDS Naturals, Sequences, FiniteSets

CONSTANTS Thread, Item, capacity_hi, capacity_lo,
          Requests      \* [Thread -> the kinds of calls it makes]

Kind == {"NORMAL", "RESUBMIT", "RECIRCULATE", "SENTINEL", "pop"}
cvar_can_push_hi == "can_push_hi"
cvar_can_push_lo == "can_push_lo"
cvar_can_pop == "can_pop"
Cvar == {cvar_can_push_hi, cvar_can_push_lo, cvar_can_pop}

ASSUME ThreadAssumption == IsFiniteSet(Thread)
ASSUME CapacitiesAssumption == {capacity_hi, capacity_lo} \subseteq Nat \ {0}
ASSUME RequestsAssumption == Requests \in [Thread -> SUBSET Kind]

\* The ingress thread is the only one that pops.
ASSUME ConsumerAssumption ==
    \A t, u \in Thread : "pop" \in Requests[t] \cap Requests[u] => t = u

VARIABLES
    queue_hi, queue_lo,
    call,     \* [Thread -> the call it is in, or NoCall]
    pc,       \* "idle", "lock", "wait" on cvar[t], or "notify" cvar[t]
    cvar      \* what it waits on, was woken by, or is to notify

vars == <<queue_hi, queue_lo, call, pc, cvar>>

NoCall == [kind |-> "none"]
Push(kind, x) == [kind |-> kind, item |-> x]
Pop == [kind |-> "pop"]
blocking(kind) == kind \in {"NORMAL", "SENTINEL"}

At(t, label, cv) ==
    /\ pc' = [pc EXCEPT ![t] = label]
    /\ cvar' = [cvar EXCEPT ![t] = cv]

Init ==
    /\ queue_hi = << >> /\ queue_lo = << >>
    /\ call = [t \in Thread |-> NoCall]
    /\ pc = [t \in Thread |-> "idle"]
    /\ cvar = [t \in Thread |-> "none"]

Begin(t) ==
    /\ pc[t] = "idle"
    /\ \E k \in Requests[t], x \in Item :
          call' = [call EXCEPT ![t] = IF k = "pop" THEN Pop ELSE Push(k, x)]
    /\ At(t, "lock", "none")
    /\ UNCHANGED <<queue_hi, queue_lo>>

Return(t) == call' = [call EXCEPT ![t] = NoCall]

\* Faulty: a woken producer does not look again whether there is room.
FullUnlessWoken(t, q, capacity) == cvar[t] = "none" /\ Len(q) = capacity

\* The test of the loop in push_front.
Full(t, q, capacity) == Len(q) = capacity

\* push_front on one of the deques: q is the deque, cv its producers' variable.
PushFull(t, q, capacity, cv) ==
    /\ Full(t, q, capacity)
    /\ IF blocking(call[t].kind) THEN At(t, "wait", cv) /\ UNCHANGED call
                                 ELSE At(t, "idle", "none") /\ Return(t)
    /\ UNCHANGED <<queue_hi, queue_lo>>

PushRoom(t, q, capacity) == ~Full(t, q, capacity) /\ At(t, "notify", cvar_can_pop) /\ Return(t)

push_front(t) ==
    /\ pc[t] = "lock"
    /\ \/ /\ call[t].kind = "NORMAL"
          /\ \/ PushFull(t, queue_lo, capacity_lo, cvar_can_push_lo)
             \/ /\ PushRoom(t, queue_lo, capacity_lo)
                /\ queue_lo' = Append(queue_lo, call[t].item) /\ UNCHANGED queue_hi
       \/ /\ call[t].kind \in {"RESUBMIT", "RECIRCULATE", "SENTINEL"}
          /\ \/ PushFull(t, queue_hi, capacity_hi, cvar_can_push_hi)
             \/ /\ PushRoom(t, queue_hi, capacity_hi)
                /\ queue_hi' = Append(queue_hi, call[t].item) /\ UNCHANGED queue_lo

\* Faulty: whichever deque the item came from, the high one's producers are told.
LowProducersMisled == cvar_can_push_hi

\* Whom pop_back tells after it took from the low deque.
LowProducers == cvar_can_push_lo

pop_back(t) ==
    /\ pc[t] = "lock" /\ call[t].kind = "pop"
    /\ \/ /\ queue_hi = << >> /\ queue_lo = << >>
          /\ At(t, "wait", cvar_can_pop)
          /\ UNCHANGED <<queue_hi, queue_lo, call>>
       \/ /\ queue_hi # << >>
          /\ queue_hi' = Tail(queue_hi) /\ UNCHANGED queue_lo
          /\ At(t, "notify", cvar_can_push_hi) /\ Return(t)
       \/ /\ queue_hi = << >> /\ queue_lo # << >>
          /\ queue_lo' = Tail(queue_lo) /\ UNCHANGED queue_hi
          /\ At(t, "notify", LowProducers) /\ Return(t)

Waiting(cv) == {t \in Thread : pc[t] = "wait" /\ cvar[t] = cv}

\* notify_one, when somebody waits and when nobody does.
Wake(t, w) ==
    /\ pc[t] = "notify" /\ w \in Waiting(cvar[t])
    /\ pc' = [pc EXCEPT ![t] = "idle", ![w] = "lock"]
    /\ cvar' = [cvar EXCEPT ![t] = "none"]
    /\ UNCHANGED <<queue_hi, queue_lo, call>>

WakeNobody(t) ==
    /\ pc[t] = "notify" /\ Waiting(cvar[t]) = {}
    /\ At(t, "idle", "none")
    /\ UNCHANGED <<queue_hi, queue_lo, call>>

notify_one(t) == WakeNobody(t) \/ \E w \in Thread : Wake(t, w)

\* A condition variable may wake a thread without being notified.
SpuriousWakeup(t) ==
    /\ pc[t] = "wait"
    /\ At(t, "lock", cvar[t])
    /\ UNCHANGED <<queue_hi, queue_lo, call>>

Step(t) == push_front(t) \/ pop_back(t) \/ notify_one(t)

Next == \E t \in Thread : Begin(t) \/ Step(t) \/ SpuriousWakeup(t)

Spec == Init /\ [][Next]_vars

\* A thread that is not waiting gets the mutex and goes on in the end.
\* Nothing obliges it to call, nor the system to wake it spuriously.
FairSpec == Spec /\ \A t \in Thread : WF_vars(Step(t))
----------------------------------------------------------------------------
InCall(t) == call[t] # NoCall

TypeOK ==
    /\ queue_hi \in Seq(Item) /\ queue_lo \in Seq(Item)
    /\ Len(queue_hi) <= capacity_hi /\ Len(queue_lo) <= capacity_lo
    /\ call \in [Thread -> {NoCall, Pop} \cup [kind : Kind \ {"pop"}, item : Item]]
    /\ pc \in [Thread -> {"idle", "lock", "wait", "notify"}]
    /\ cvar \in [Thread -> Cvar \cup {"none"}]

\* Threads that will look at what cv is about without being told again: those
\* it woke, and those about to notify it.
Wakeups(cv) ==
    {t \in Thread : cvar[t] = cv /\ pc[t] = "notify"}
    \cup {t \in Thread : cvar[t] = cv /\ pc[t] = "lock"}

\* No wake-up is lost, although notify_one wakes one thread only, is called
\* after the mutex is released, and others may take the room or the item
\* first: while a producer waits, as many producers are being woken as there
\* are places free; while the consumer waits, as many notifications are on
\* their way as there are items (tor_switch.cpp:154-189).
NoLostWakeup ==
    /\ Waiting(cvar_can_push_hi) # {} =>
          capacity_hi - Len(queue_hi) <= Cardinality(Wakeups(cvar_can_push_hi))
    /\ Waiting(cvar_can_push_lo) # {} =>
          capacity_lo - Len(queue_lo) <= Cardinality(Wakeups(cvar_can_push_lo))
    /\ Waiting(cvar_can_pop) # {} =>
          Len(queue_hi) + Len(queue_lo) <= Cardinality(Wakeups(cvar_can_pop))

\* The buffer answers every call as one atomic, bounded priority buffer would,
\* and lets no call wait for ever that such a buffer would answer.
Atomic == INSTANCE PriorityBuffer
            WITH hi <- queue_hi, lo <- queue_lo,
                 HiCapacity <- capacity_hi, LoCapacity <- capacity_lo
ImplementsPriorityBuffer == Atomic!Spec
============================================================================
