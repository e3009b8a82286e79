--------------------------- MODULE PriorityBuffer ---------------------------
(***************************************************************************)
(* What the threads of a switch expect of its input buffer, whose calls    *)
(* they may take to be atomic: two bounded FIFOs, the high one served      *)
(* first.  A resubmitted or recirculated packet never waits, others wait   *)
(* for room.  A call that can be answered as long as nobody comes first is *)
(* answered.  InputBuffer implements this with a mutex and three condition *)
(* variables.                                                              *)
(***************************************************************************)
EXTENDS Naturals, Sequences

CONSTANTS Thread, Item, HiCapacity, LoCapacity,
          Requests      \* [Thread -> the kinds of calls it makes]

VARIABLES
    hi, lo,
    call                \* [Thread -> its unanswered call, or NoCall]

vars == <<hi, lo, call>>

NoCall == [kind |-> "none"]
Push(kind, x) == [kind |-> kind, item |-> x]
Pop == [kind |-> "pop"]

Init == hi = << >> /\ lo = << >> /\ call = [t \in Thread |-> NoCall]

Begin(t) ==
    /\ call[t] = NoCall
    /\ \E k \in Requests[t], x \in Item :
          call' = [call EXCEPT ![t] = IF k = "pop" THEN Pop ELSE Push(k, x)]
    /\ UNCHANGED <<hi, lo>>

Return(t) == call' = [call EXCEPT ![t] = NoCall]

PushNormal(t) ==
    /\ call[t].kind = "NORMAL" /\ Len(lo) < LoCapacity
    /\ lo' = Append(lo, call[t].item) /\ UNCHANGED hi
    /\ Return(t)

PushHigh(t) ==
    /\ call[t].kind \in {"RESUBMIT", "RECIRCULATE", "SENTINEL"} /\ Len(hi) < HiCapacity
    /\ hi' = Append(hi, call[t].item) /\ UNCHANGED lo
    /\ Return(t)

Refuse(t) ==
    /\ call[t].kind \in {"RESUBMIT", "RECIRCULATE"} /\ Len(hi) >= HiCapacity
    /\ Return(t) /\ UNCHANGED <<hi, lo>>

PopHighFirst(t) ==
    /\ call[t].kind = "pop"
    /\ \/ hi # << >> /\ hi' = Tail(hi) /\ UNCHANGED lo
       \/ hi = << >> /\ lo # << >> /\ lo' = Tail(lo) /\ UNCHANGED hi
    /\ Return(t)

Answer(t) == PushNormal(t) \/ PushHigh(t) \/ Refuse(t) \/ PopHighFirst(t)

Next == \E t \in Thread : Begin(t) \/ Answer(t)

Spec == Init /\ [][Next]_vars /\ \A t \in Thread : WF_vars(Answer(t))
============================================================================
