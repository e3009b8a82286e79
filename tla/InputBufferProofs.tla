-------------------------- MODULE InputBufferProofs --------------------------
(***************************************************************************)
(* Proofs about the input buffer, for any finite number of threads, any    *)
(* capacities, items and kinds of calls.                                   *)
(***************************************************************************)
EXTENDS InputBuffer, FiniteSetTheorems, TLAPS

\* The condition variable a call waits on.
CvarOf(kind) ==
    IF kind = "NORMAL" THEN cvar_can_push_lo
    ELSE IF kind = "pop" THEN cvar_can_pop ELSE cvar_can_push_hi

\* A thread that has the mutex ahead of it is in a call, and what woke it was
\* the variable of that call.
CallsMatch ==
    \A t \in Thread :
        /\ pc[t] \in {"idle", "notify"} => call[t] = NoCall
        /\ pc[t] \in {"lock", "wait"} => call[t].kind \in Kind
        /\ pc[t] = "lock" => cvar[t] \in {"none", CvarOf(call[t].kind)}
        /\ pc[t] = "wait" => cvar[t] = CvarOf(call[t].kind)

IInv == TypeOK /\ CallsMatch

CallType == {NoCall, Pop} \cup [kind : Kind \ {"pop"}, item : Item]

----------------------------------------------------------------------------
(* Types.                                                                  *)

LEMMA KindOfCall ==
    ASSUME IInv, NEW t \in Thread
    PROVE  /\ call[t].kind \in Kind \ {"pop"} => call[t].item \in Item
           /\ call[t] \in CallType
<1>1. call[t] \in CallType
  BY DEF IInv, TypeOK, CallType
<1>2. NoCall.kind \notin Kind /\ Pop.kind = "pop"
  BY DEF NoCall, Pop, Kind
<1> QED
  BY <1>1, <1>2 DEF CallType

\* The invariant holds at the start: no thread is in a call
\* (tor_switch.cpp:137-189).
THEOREM InitIInv == Init => IInv
<1> SUFFICES ASSUME Init PROVE IInv
  OBVIOUS
<1>1. TypeOK
  BY CapacitiesAssumption DEF Init, TypeOK
<1>2. CallsMatch
  BY DEF Init, CallsMatch
<1> QED
  BY <1>1, <1>2 DEF IInv

\* The thread goes to a place and its call is unchanged, or over.
LEMMA AtType ==
    ASSUME IInv, NEW t \in Thread,
           NEW l \in {"idle", "lock", "wait", "notify"}, NEW cv \in Cvar \cup {"none"},
           At(t, l, cv),
           UNCHANGED call \/ Return(t)
    PROVE  /\ pc' \in [Thread -> {"idle", "lock", "wait", "notify"}]
           /\ cvar' \in [Thread -> Cvar \cup {"none"}]
           /\ call' \in [Thread -> CallType]
           /\ pc'[t] = l /\ cvar'[t] = cv
           /\ \A u \in Thread \ {t} :
                 pc'[u] = pc[u] /\ cvar'[u] = cvar[u] /\ call'[u] = call[u]
           /\ Return(t) => call'[t] = NoCall
BY DEF IInv, TypeOK, At, Return, CallType

LEMMA BeginIInv ==
    ASSUME IInv, NEW t \in Thread, Begin(t)
    PROVE  IInv'
<1>1. PICK k \in Requests[t], x \in Item :
          call' = [call EXCEPT ![t] = IF k = "pop" THEN Pop ELSE Push(k, x)]
  BY DEF Begin
<1>2. k \in Kind
  BY RequestsAssumption
<1> DEFINE c == IF k = "pop" THEN Pop ELSE Push(k, x)
<1>3. c \in CallType /\ c.kind \in Kind
  BY <1>2 DEF CallType, Pop, Push
<1>4. /\ call' \in [Thread -> CallType]
      /\ call'[t] = c /\ \A u \in Thread \ {t} : call'[u] = call[u]
  <2> HIDE DEF c
  <2> call' = [call EXCEPT ![t] = c]
    BY <1>1 DEF c
  <2> QED
    BY <1>3 DEF IInv, TypeOK, CallType
<1>5. /\ pc' \in [Thread -> {"idle", "lock", "wait", "notify"}]
      /\ cvar' \in [Thread -> Cvar \cup {"none"}]
      /\ pc'[t] = "lock" /\ cvar'[t] = "none"
      /\ \A u \in Thread \ {t} : pc'[u] = pc[u] /\ cvar'[u] = cvar[u]
  BY DEF Begin, At, IInv, TypeOK
<1>6. TypeOK'
  BY <1>4, <1>5 DEF Begin, IInv, TypeOK, CallType
<1>7. CallsMatch'
  <2> HIDE DEF c
  <2> QED
    BY <1>3, <1>4, <1>5 DEF IInv, CallsMatch
<1> QED
  BY <1>6, <1>7 DEF IInv

\* Only the deques are left to look at when a thread has gone on.
LEMMA GoneOnIInv ==
    ASSUME IInv, NEW t \in Thread,
           NEW l \in {"idle", "lock", "wait", "notify"}, NEW cv \in Cvar \cup {"none"},
           At(t, l, cv),
           \/ UNCHANGED call /\ pc[t] \in {"lock", "wait"} /\ l \in {"lock", "wait"}
              /\ cv = CvarOf(call[t].kind)
           \/ UNCHANGED call /\ pc[t] \in {"idle", "notify"} /\ l = "idle"
           \/ Return(t) /\ l \in {"idle", "notify"},
           queue_hi' \in Seq(Item), Len(queue_hi') <= capacity_hi,
           queue_lo' \in Seq(Item), Len(queue_lo') <= capacity_lo
    PROVE  IInv'
<1>1. /\ pc' \in [Thread -> {"idle", "lock", "wait", "notify"}]
      /\ cvar' \in [Thread -> Cvar \cup {"none"}]
      /\ call' \in [Thread -> CallType]
      /\ pc'[t] = l /\ cvar'[t] = cv
      /\ \A u \in Thread \ {t} :
            pc'[u] = pc[u] /\ cvar'[u] = cvar[u] /\ call'[u] = call[u]
      /\ Return(t) => call'[t] = NoCall
  BY AtType
<1>2. TypeOK'
  BY <1>1 DEF TypeOK, CallType
<1>3. CallsMatch'
  BY <1>1 DEF CallsMatch, IInv
<1> QED
  BY <1>2, <1>3 DEF IInv

----------------------------------------------------------------------------
(* What the calls do: the cases every proof below goes through.            *)

\* A producer finds its deque full and waits, or gives up.
Blocked(t) ==
    /\ pc[t] = "lock" /\ UNCHANGED <<queue_hi, queue_lo>>
    /\ \/ call[t].kind = "NORMAL" /\ Len(queue_lo) = capacity_lo
       \/ call[t].kind \in Kind \ {"NORMAL", "pop"} /\ Len(queue_hi) = capacity_hi
    /\ \/ /\ call[t].kind \in {"NORMAL", "SENTINEL"}
          /\ At(t, "wait", CvarOf(call[t].kind)) /\ UNCHANGED call
       \/ /\ call[t].kind \in {"RESUBMIT", "RECIRCULATE"}
          /\ At(t, "idle", "none") /\ Return(t)

PushedLo(t) ==
    /\ pc[t] = "lock" /\ call[t].kind = "NORMAL" /\ Len(queue_lo) < capacity_lo
    /\ queue_lo' = Append(queue_lo, call[t].item) /\ UNCHANGED queue_hi
    /\ At(t, "notify", cvar_can_pop) /\ Return(t)

PushedHi(t) ==
    /\ pc[t] = "lock" /\ call[t].kind \in Kind \ {"NORMAL", "pop"}
    /\ Len(queue_hi) < capacity_hi
    /\ queue_hi' = Append(queue_hi, call[t].item) /\ UNCHANGED queue_lo
    /\ At(t, "notify", cvar_can_pop) /\ Return(t)

PopWaits(t) ==
    /\ pc[t] = "lock" /\ call[t].kind = "pop"
    /\ queue_hi = << >> /\ queue_lo = << >>
    /\ At(t, "wait", cvar_can_pop) /\ UNCHANGED <<queue_hi, queue_lo, call>>

PoppedHi(t) ==
    /\ pc[t] = "lock" /\ call[t].kind = "pop"
    /\ queue_hi # << >> /\ queue_hi' = Tail(queue_hi) /\ UNCHANGED queue_lo
    /\ At(t, "notify", cvar_can_push_hi) /\ Return(t)

PoppedLo(t) ==
    /\ pc[t] = "lock" /\ call[t].kind = "pop" /\ queue_hi = << >>
    /\ queue_lo # << >> /\ queue_lo' = Tail(queue_lo) /\ UNCHANGED queue_hi
    /\ At(t, "notify", cvar_can_push_lo) /\ Return(t)

LEMMA PushCases ==
    ASSUME IInv, NEW t \in Thread, push_front(t)
    PROVE  Blocked(t) \/ PushedLo(t) \/ PushedHi(t)
<1> USE DEF push_front, PushFull, PushRoom, Full, blocking, Kind, CvarOf
<1>1. Len(queue_hi) \in Nat /\ Len(queue_lo) \in Nat
      /\ Len(queue_hi) <= capacity_hi /\ Len(queue_lo) <= capacity_lo
      /\ capacity_hi \in Nat /\ capacity_lo \in Nat
  BY CapacitiesAssumption DEF IInv, TypeOK
<1>2. CASE call[t].kind = "NORMAL" /\ Len(queue_lo) = capacity_lo
  BY <1>1, <1>2 DEF Blocked
<1>3. CASE call[t].kind = "NORMAL" /\ Len(queue_lo) # capacity_lo
  BY <1>1, <1>3 DEF PushedLo
<1>4. CASE call[t].kind \in {"RESUBMIT", "RECIRCULATE", "SENTINEL"}
           /\ Len(queue_hi) = capacity_hi
  BY <1>1, <1>4 DEF Blocked
<1>5. CASE call[t].kind \in {"RESUBMIT", "RECIRCULATE", "SENTINEL"}
           /\ Len(queue_hi) # capacity_hi
  BY <1>1, <1>5 DEF PushedHi
<1> QED
  BY <1>2, <1>3, <1>4, <1>5

LEMMA PopCases ==
    ASSUME NEW t \in Thread, pop_back(t)
    PROVE  PopWaits(t) \/ PoppedHi(t) \/ PoppedLo(t)
BY DEF pop_back, PopWaits, PoppedHi, PoppedLo, LowProducers

\* A call in progress has a kind the switch knows, and the item of a push.
LEMMA InCallFacts ==
    ASSUME IInv, NEW t \in Thread
    PROVE  /\ queue_hi \in Seq(Item) /\ Len(queue_hi) \in Nat
           /\ queue_lo \in Seq(Item) /\ Len(queue_lo) \in Nat
           /\ Len(queue_hi) <= capacity_hi /\ capacity_hi \in Nat
           /\ Len(queue_lo) <= capacity_lo /\ capacity_lo \in Nat
           /\ call[t].kind \in Kind \ {"pop"} => call[t].item \in Item
BY KindOfCall, CapacitiesAssumption DEF IInv, TypeOK

LEMMA CvarsTyped ==
    {cvar_can_push_hi, cvar_can_push_lo, cvar_can_pop} \subseteq Cvar \cup {"none"}
BY DEF Cvar

LEMMA PushIInv ==
    ASSUME IInv, NEW t \in Thread, push_front(t)
    PROVE  IInv'
<1>1. CASE Blocked(t)
  <2>1. CASE call[t].kind \in {"NORMAL", "SENTINEL"}
    <3>1. /\ At(t, "wait", CvarOf(call[t].kind)) /\ UNCHANGED call /\ pc[t] = "lock"
          /\ CvarOf(call[t].kind) \in Cvar \cup {"none"}
      BY <1>1, <2>1 DEF Blocked, CvarOf, Cvar
    <3> QED
      BY <1>1, <3>1, InCallFacts, GoneOnIInv DEF Blocked
  <2>2. CASE call[t].kind \in {"RESUBMIT", "RECIRCULATE"}
    <3>1. At(t, "idle", "none") /\ Return(t)
      BY <1>1, <2>2 DEF Blocked
    <3> QED
      BY <1>1, <3>1, InCallFacts, GoneOnIInv DEF Blocked
  <2> QED
    BY <1>1, <2>1, <2>2 DEF Blocked
<1>2. CASE PushedLo(t)
  <2>1. queue_lo' \in Seq(Item) /\ Len(queue_lo') <= capacity_lo
    BY <1>2, InCallFacts DEF PushedLo, Kind
  <2> QED
    BY <1>2, <2>1, InCallFacts, CvarsTyped, GoneOnIInv DEF PushedLo
<1>3. CASE PushedHi(t)
  <2>1. queue_hi' \in Seq(Item) /\ Len(queue_hi') <= capacity_hi
    BY <1>3, InCallFacts DEF PushedHi, Kind
  <2> QED
    BY <1>3, <2>1, InCallFacts, CvarsTyped, GoneOnIInv DEF PushedHi
<1> QED
  BY <1>1, <1>2, <1>3, PushCases

LEMMA PopIInv ==
    ASSUME IInv, NEW t \in Thread, pop_back(t)
    PROVE  IInv'
<1>1. CASE PopWaits(t)
  BY <1>1, InCallFacts, CvarsTyped, GoneOnIInv DEF PopWaits, CvarOf
<1>2. CASE PoppedHi(t)
  <2>1. queue_hi' \in Seq(Item) /\ Len(queue_hi') <= capacity_hi
    BY <1>2, InCallFacts DEF PoppedHi
  <2> QED
    BY <1>2, <2>1, InCallFacts, CvarsTyped, GoneOnIInv DEF PoppedHi
<1>3. CASE PoppedLo(t)
  <2>1. queue_lo' \in Seq(Item) /\ Len(queue_lo') <= capacity_lo
    BY <1>3, InCallFacts DEF PoppedLo
  <2> QED
    BY <1>3, <2>1, InCallFacts, CvarsTyped, GoneOnIInv DEF PoppedLo
<1> QED
  BY <1>1, <1>2, <1>3, PopCases

\* A woken thread goes back to the mutex; the waker is done.
LEMMA WakeFacts ==
    ASSUME IInv, NEW t \in Thread, NEW w \in Thread, Wake(t, w)
    PROVE  /\ t # w /\ pc[t] = "notify" /\ pc[w] = "wait" /\ cvar[w] = cvar[t]
           /\ pc' \in [Thread -> {"idle", "lock", "wait", "notify"}]
           /\ cvar' \in [Thread -> Cvar \cup {"none"}]
           /\ pc'[t] = "idle" /\ pc'[w] = "lock"
           /\ cvar'[t] = "none" /\ cvar'[w] = cvar[w]
           /\ \A u \in Thread \ {t, w} : pc'[u] = pc[u] /\ cvar'[u] = cvar[u]
BY DEF Wake, Waiting, IInv, TypeOK

LEMMA WakeIInv ==
    ASSUME IInv, NEW t \in Thread, NEW w \in Thread, Wake(t, w)
    PROVE  IInv'
<1>1. TypeOK'
  BY WakeFacts DEF Wake, IInv, TypeOK
<1>2. CallsMatch'
  <2>1. UNCHANGED call
    BY DEF Wake
  <2> SUFFICES ASSUME NEW u \in Thread
               PROVE  /\ pc'[u] \in {"idle", "notify"} => call'[u] = NoCall
                      /\ pc'[u] \in {"lock", "wait"} => call'[u].kind \in Kind
                      /\ pc'[u] = "lock" => cvar'[u] \in {"none", CvarOf(call'[u].kind)}
                      /\ pc'[u] = "wait" => cvar'[u] = CvarOf(call'[u].kind)
    BY DEF CallsMatch
  <2>2. CASE u = t
    BY <2>1, <2>2, WakeFacts DEF IInv, CallsMatch
  <2>3. CASE u = w
    BY <2>1, <2>3, WakeFacts DEF IInv, CallsMatch
  <2>4. CASE u \notin {t, w}
    BY <2>1, <2>4, WakeFacts DEF IInv, CallsMatch
  <2> QED
    BY <2>2, <2>3, <2>4
<1> QED
  BY <1>1, <1>2 DEF IInv

LEMMA StepIInv ==
    ASSUME IInv, NEW t \in Thread, Step(t) \/ SpuriousWakeup(t)
    PROVE  IInv'
<1>1. CASE push_front(t)
  BY <1>1, PushIInv
<1>2. CASE pop_back(t)
  BY <1>2, PopIInv
<1>3. CASE WakeNobody(t)
  BY <1>3, InCallFacts, GoneOnIInv DEF WakeNobody
<1>4. ASSUME NEW w \in Thread, Wake(t, w) PROVE IInv'
  BY <1>4, WakeIInv
<1>5. CASE SpuriousWakeup(t)
  <2>1. cvar[t] = CvarOf(call[t].kind) /\ cvar[t] \in Cvar \cup {"none"}
    BY <1>5 DEF SpuriousWakeup, IInv, TypeOK, CallsMatch
  <2> QED
    BY <1>5, <2>1, InCallFacts, GoneOnIInv DEF SpuriousWakeup
<1> QED
  BY <1>1, <1>2, <1>3, <1>4, <1>5 DEF Step, notify_one

LEMMA UnchangedIInv == IInv /\ UNCHANGED vars => IInv'
BY DEF IInv, TypeOK, CallsMatch, vars

\* Every variable keeps its type, the deques never hold more than their
\* capacities, whatever the threads do (tor_switch.cpp:137-189).
THEOREM InputBufferTypes == Spec => []TypeOK
<1>1. IInv /\ [Next]_vars => IInv'
  BY BeginIInv, StepIInv, UnchangedIInv DEF Next
<1>2. IInv => TypeOK
  BY DEF IInv
<1> QED
  BY <1>1, <1>2, InitIInv, PTL DEF Spec

----------------------------------------------------------------------------
(* No wake-up is lost.                                                     *)

\* One part of NoLostWakeup: whoever waits on cv, n threads are on their way.
Covered(cv, n) == Waiting(cv) # {} => n <= Cardinality(Wakeups(cv))

LEMMA NoLostWakeupParts ==
    NoLostWakeup <=> /\ Covered(cvar_can_push_hi, capacity_hi - Len(queue_hi))
                     /\ Covered(cvar_can_push_lo, capacity_lo - Len(queue_lo))
                     /\ Covered(cvar_can_pop, Len(queue_hi) + Len(queue_lo))
BY DEF NoLostWakeup, Covered

\* Two finite sets that differ at most in t.
LEMMA OneThreadMoved ==
    ASSUME NEW S, NEW T, NEW t, IsFiniteSet(S), IsFiniteSet(T), S \ {t} = T \ {t}
    PROVE  /\ Cardinality(S) \in Nat /\ Cardinality(T) \in Nat
           /\ Cardinality(T) >= Cardinality(S) - 1
           /\ t \in T \/ t \notin S => Cardinality(T) >= Cardinality(S)
           /\ t \in T /\ t \notin S => Cardinality(T) = Cardinality(S) + 1
<1> DEFINE R == S \ {t}
<1>1. /\ IsFiniteSet(R)
      /\ Cardinality(R) = IF t \in S THEN Cardinality(S) - 1 ELSE Cardinality(S)
  BY FS_RemoveElement
<1>2. Cardinality(R) = IF t \in T THEN Cardinality(T) - 1 ELSE Cardinality(T)
  BY FS_RemoveElement
<1>3. Cardinality(S) \in Nat /\ Cardinality(T) \in Nat
  BY FS_CardinalityType
<1> QED
  BY <1>1, <1>2, <1>3

LEMMA WakeupsFinite ==
    ASSUME NEW cv PROVE IsFiniteSet(Wakeups(cv)) /\ IsFiniteSet(Wakeups(cv)')
<1>1. Wakeups(cv) \subseteq Thread /\ Wakeups(cv)' \subseteq Thread
  BY DEF Wakeups
<1> QED
  BY <1>1, ThreadAssumption, FS_Subset

\* When thread t goes to place l, on variable cv, no other thread is affected.
LEMMA ThreadMoves ==
    ASSUME IInv, NEW t \in Thread,
           NEW l \in {"idle", "lock", "wait", "notify"}, NEW cv \in Cvar \cup {"none"},
           At(t, l, cv), NEW c \in Cvar
    PROVE  /\ Wakeups(c) \ {t} = Wakeups(c)' \ {t}
           /\ Waiting(c) \ {t} = Waiting(c)' \ {t}
           /\ t \in Wakeups(c)' <=> cv = c /\ l \in {"notify", "lock"}
           /\ t \in Waiting(c)' <=> cv = c /\ l = "wait"
<1>1. /\ pc'[t] = l /\ cvar'[t] = cv
      /\ \A u \in Thread \ {t} : pc'[u] = pc[u] /\ cvar'[u] = cvar[u]
  BY DEF At, IInv, TypeOK
<1> QED
  BY <1>1 DEF Wakeups, Waiting

\* A part survives a move of t when its count falls with t's wake-up, when t
\* takes one up as the count grows, or when there is nothing to count.
LEMMA MoveCovers ==
    ASSUME IInv, NEW t \in Thread,
           NEW l \in {"idle", "lock", "wait", "notify"}, NEW cv \in Cvar \cup {"none"},
           At(t, l, cv), NEW c \in Cvar, NEW m \in Int, NEW n \in Int, Covered(c, m),
           \/ n <= 0
           \/ n <= m - 1 /\ ~(l = "wait" /\ cv = c)
           \/ n <= m /\ t \notin Wakeups(c) /\ ~(l = "wait" /\ cv = c)
           \/ n <= m /\ l \in {"notify", "lock"} /\ cv = c
           \/ n <= m + 1 /\ l = "notify" /\ cv = c /\ t \notin Wakeups(c)
    PROVE  Waiting(c)' # {} => n <= Cardinality(Wakeups(c)')
<1>1. /\ Cardinality(Wakeups(c)) \in Nat /\ Cardinality(Wakeups(c)') \in Nat
      /\ Cardinality(Wakeups(c)') >= Cardinality(Wakeups(c)) - 1
      /\ t \in Wakeups(c)' \/ t \notin Wakeups(c)
            => Cardinality(Wakeups(c)') >= Cardinality(Wakeups(c))
      /\ t \in Wakeups(c)' /\ t \notin Wakeups(c)
            => Cardinality(Wakeups(c)') = Cardinality(Wakeups(c)) + 1
  BY ThreadMoves, WakeupsFinite, OneThreadMoved
<1>2. CASE n <= 0
  BY <1>1, <1>2
<1>3. CASE l = "wait" /\ cv = c
  BY <1>1, <1>3
<1>4. CASE ~(l = "wait" /\ cv = c)
  <2>1. Waiting(c)' # {} => Waiting(c) # {}
    BY <1>4, ThreadMoves
  <2>2. Waiting(c)' # {} => m <= Cardinality(Wakeups(c))
    BY <2>1 DEF Covered
  <2>3. t \in Wakeups(c)' <=> cv = c /\ l \in {"notify", "lock"}
    BY ThreadMoves
  <2> QED
    BY <1>1, <1>4, <2>2, <2>3
<1> QED
  BY <1>3, <1>4

\* A thread at the mutex was woken, if at all, for the call it is in.
LEMMA WokenForItsCall ==
    ASSUME IInv, NEW t \in Thread, pc[t] = "lock", NEW c \in Cvar, t \in Wakeups(c)
    PROVE  c = CvarOf(call[t].kind)
BY DEF Wakeups, IInv, CallsMatch, Cvar, cvar_can_push_hi, cvar_can_push_lo, cvar_can_pop

LEMMA PushKeepsWakeups ==
    ASSUME IInv, NoLostWakeup, NEW t \in Thread, push_front(t)
    PROVE  NoLostWakeup'
<1> DEFINE hi == capacity_hi - Len(queue_hi)
           lo == capacity_lo - Len(queue_lo)
           items == Len(queue_hi) + Len(queue_lo)
<1>1. Covered(cvar_can_push_hi, hi) /\ Covered(cvar_can_push_lo, lo)
      /\ Covered(cvar_can_pop, items)
  BY NoLostWakeupParts
<1>2. hi \in Int /\ lo \in Int /\ items \in Int /\ hi' \in Int /\ lo' \in Int
      /\ items' \in Int
  <2>1. IInv'
    BY PushIInv
  <2> QED
    BY <2>1, InCallFacts, CapacitiesAssumption DEF IInv, TypeOK
<1> SUFFICES
       /\ Waiting(cvar_can_push_hi)' # {} => hi' <= Cardinality(Wakeups(cvar_can_push_hi)')
       /\ Waiting(cvar_can_push_lo)' # {} => lo' <= Cardinality(Wakeups(cvar_can_push_lo)')
       /\ Waiting(cvar_can_pop)' # {} => items' <= Cardinality(Wakeups(cvar_can_pop)')
  BY DEF NoLostWakeup
<1>3. /\ cvar_can_push_hi \in Cvar /\ cvar_can_push_lo \in Cvar /\ cvar_can_pop \in Cvar
      /\ cvar_can_push_hi # cvar_can_push_lo /\ cvar_can_pop # cvar_can_push_lo
      /\ cvar_can_pop # cvar_can_push_hi
  BY DEF Cvar, cvar_can_push_hi, cvar_can_push_lo, cvar_can_pop
<1>4. CASE Blocked(t)
  <2> DEFINE w == CvarOf(call[t].kind)
  <2>1. /\ pc[t] = "lock" /\ hi' = hi /\ lo' = lo /\ items' = items
        /\ \/ w = cvar_can_push_lo /\ lo = 0
           \/ w = cvar_can_push_hi /\ hi = 0
    BY <1>4, InCallFacts DEF Blocked, CvarOf, Kind
  <2>2. \A c \in Cvar \ {w} : t \notin Wakeups(c)
    BY <2>1, WokenForItsCall
  <2>3. PICK l \in {"idle", "lock", "wait", "notify"}, cv \in Cvar \cup {"none"} :
           At(t, l, cv) /\ cv \in {w, "none"}
    BY <1>3, <1>4 DEF Blocked, CvarOf
  <2>4. cv \in Cvar => cv = w
    BY <2>3 DEF Cvar, cvar_can_push_hi, cvar_can_push_lo, cvar_can_pop
  <2> HIDE DEF w, hi, lo, items
  <2>5. Waiting(cvar_can_push_hi)' # {} => hi' <= Cardinality(Wakeups(cvar_can_push_hi)')
    BY <1>1, <1>2, <1>3, <2>1, <2>2, <2>3, <2>4, MoveCovers
  <2>6. Waiting(cvar_can_push_lo)' # {} => lo' <= Cardinality(Wakeups(cvar_can_push_lo)')
    BY <1>1, <1>2, <1>3, <2>1, <2>2, <2>3, <2>4, MoveCovers
  <2>7. Waiting(cvar_can_pop)' # {} => items' <= Cardinality(Wakeups(cvar_can_pop)')
    BY <1>1, <1>2, <1>3, <2>1, <2>2, <2>3, <2>4, MoveCovers
  <2> QED
    BY <2>5, <2>6, <2>7
<1>5. CASE PushedLo(t)
  <2>1. /\ pc[t] = "lock" /\ CvarOf(call[t].kind) = cvar_can_push_lo
        /\ At(t, "notify", cvar_can_pop)
        /\ hi' = hi /\ lo' = lo - 1 /\ items' = items + 1
    BY <1>5, InCallFacts DEF PushedLo, CvarOf, Kind
  <2>2. \A c \in Cvar \ {cvar_can_push_lo} : t \notin Wakeups(c)
    BY <2>1, WokenForItsCall
  <2> HIDE DEF hi, lo, items
  <2>3. Waiting(cvar_can_push_hi)' # {} => hi' <= Cardinality(Wakeups(cvar_can_push_hi)')
    BY <1>1, <1>2, <1>3, <2>1, <2>2, CvarsTyped, MoveCovers
  <2>4. Waiting(cvar_can_push_lo)' # {} => lo' <= Cardinality(Wakeups(cvar_can_push_lo)')
    BY <1>1, <1>2, <1>3, <2>1, <2>2, CvarsTyped, MoveCovers
  <2>5. Waiting(cvar_can_pop)' # {} => items' <= Cardinality(Wakeups(cvar_can_pop)')
    BY <1>1, <1>2, <1>3, <2>1, <2>2, CvarsTyped, MoveCovers
  <2> QED
    BY <2>3, <2>4, <2>5
<1>6. CASE PushedHi(t)
  <2>1. /\ pc[t] = "lock" /\ CvarOf(call[t].kind) = cvar_can_push_hi
        /\ At(t, "notify", cvar_can_pop)
        /\ hi' = hi - 1 /\ lo' = lo /\ items' = items + 1
    BY <1>6, InCallFacts DEF PushedHi, CvarOf, Kind
  <2>2. \A c \in Cvar \ {cvar_can_push_hi} : t \notin Wakeups(c)
    BY <2>1, WokenForItsCall
  <2> HIDE DEF hi, lo, items
  <2>3. Waiting(cvar_can_push_hi)' # {} => hi' <= Cardinality(Wakeups(cvar_can_push_hi)')
    BY <1>1, <1>2, <1>3, <2>1, <2>2, CvarsTyped, MoveCovers
  <2>4. Waiting(cvar_can_push_lo)' # {} => lo' <= Cardinality(Wakeups(cvar_can_push_lo)')
    BY <1>1, <1>2, <1>3, <2>1, <2>2, CvarsTyped, MoveCovers
  <2>5. Waiting(cvar_can_pop)' # {} => items' <= Cardinality(Wakeups(cvar_can_pop)')
    BY <1>1, <1>2, <1>3, <2>1, <2>2, CvarsTyped, MoveCovers
  <2> QED
    BY <2>3, <2>4, <2>5
<1> QED
  BY <1>4, <1>5, <1>6, PushCases

LEMMA PopKeepsWakeups ==
    ASSUME IInv, NoLostWakeup, NEW t \in Thread, pop_back(t)
    PROVE  NoLostWakeup'
<1> DEFINE hi == capacity_hi - Len(queue_hi)
           lo == capacity_lo - Len(queue_lo)
           items == Len(queue_hi) + Len(queue_lo)
<1>1. Covered(cvar_can_push_hi, hi) /\ Covered(cvar_can_push_lo, lo)
      /\ Covered(cvar_can_pop, items)
  BY NoLostWakeupParts
<1>2. hi \in Int /\ lo \in Int /\ items \in Int /\ hi' \in Int /\ lo' \in Int
      /\ items' \in Int
  <2>1. IInv'
    BY PopIInv
  <2> QED
    BY <2>1, InCallFacts, CapacitiesAssumption DEF IInv, TypeOK
<1> SUFFICES
       /\ Waiting(cvar_can_push_hi)' # {} => hi' <= Cardinality(Wakeups(cvar_can_push_hi)')
       /\ Waiting(cvar_can_push_lo)' # {} => lo' <= Cardinality(Wakeups(cvar_can_push_lo)')
       /\ Waiting(cvar_can_pop)' # {} => items' <= Cardinality(Wakeups(cvar_can_pop)')
  BY DEF NoLostWakeup
<1>3. /\ cvar_can_push_hi \in Cvar /\ cvar_can_push_lo \in Cvar /\ cvar_can_pop \in Cvar
      /\ cvar_can_push_hi # cvar_can_push_lo /\ cvar_can_pop # cvar_can_push_lo
      /\ cvar_can_pop # cvar_can_push_hi
  BY DEF Cvar, cvar_can_push_hi, cvar_can_push_lo, cvar_can_pop
<1>4. pc[t] = "lock" /\ CvarOf(call[t].kind) = cvar_can_pop
  BY PopCases DEF PopWaits, PoppedHi, PoppedLo, CvarOf
<1>5. \A c \in Cvar \ {cvar_can_pop} : t \notin Wakeups(c)
  BY <1>4, WokenForItsCall
<1>6. \E cv \in Cvar :
         \/ /\ At(t, "wait", cv) /\ cv = cvar_can_pop
            /\ hi' = hi /\ lo' = lo /\ items' = 0
         \/ /\ At(t, "notify", cv) /\ cv = cvar_can_push_hi
            /\ hi' = hi + 1 /\ lo' = lo /\ items' = items - 1
         \/ /\ At(t, "notify", cv) /\ cv = cvar_can_push_lo
            /\ hi' = hi /\ lo' = lo + 1 /\ items' = items - 1
  <2>1. CASE PopWaits(t)
    BY <1>3, <2>1, InCallFacts DEF PopWaits
  <2>2. CASE PoppedHi(t)
    BY <1>3, <2>2, InCallFacts DEF PoppedHi
  <2>3. CASE PoppedLo(t)
    BY <1>3, <2>3, InCallFacts DEF PoppedLo
  <2> QED
    BY <2>1, <2>2, <2>3, PopCases
<1> HIDE DEF hi, lo, items
<1>7. PICK cv \in Cvar, l \in {"wait", "notify"} :
         /\ At(t, l, cv)
         /\ \/ l = "wait" /\ cv = cvar_can_pop /\ hi' = hi /\ lo' = lo /\ items' = 0
            \/ /\ l = "notify" /\ cv = cvar_can_push_hi
               /\ hi' = hi + 1 /\ lo' = lo /\ items' = items - 1
            \/ /\ l = "notify" /\ cv = cvar_can_push_lo
               /\ hi' = hi /\ lo' = lo + 1 /\ items' = items - 1
  BY <1>6
<1>8. Waiting(cvar_can_push_hi)' # {} => hi' <= Cardinality(Wakeups(cvar_can_push_hi)')
  BY <1>1, <1>2, <1>3, <1>5, <1>7, MoveCovers
<1>9. Waiting(cvar_can_push_lo)' # {} => lo' <= Cardinality(Wakeups(cvar_can_push_lo)')
  BY <1>1, <1>2, <1>3, <1>5, <1>7, MoveCovers
<1>10. Waiting(cvar_can_pop)' # {} => items' <= Cardinality(Wakeups(cvar_can_pop)')
  BY <1>1, <1>2, <1>3, <1>5, <1>7, MoveCovers
<1> QED
  BY <1>8, <1>9, <1>10

\* Waking somebody takes one wake-up and gives one.
LEMMA WakeKeepsWakeups ==
    ASSUME IInv, NoLostWakeup, NEW t \in Thread, NEW w \in Thread, Wake(t, w)
    PROVE  NoLostWakeup'
<1>1. UNCHANGED <<queue_hi, queue_lo>>
  BY DEF Wake
<1>2. ASSUME NEW c \in Cvar
      PROVE  /\ Waiting(c)' # {} => Waiting(c) # {}
             /\ Cardinality(Wakeups(c)') = Cardinality(Wakeups(c))
  <2>1. Waiting(c)' \subseteq Waiting(c)
    BY WakeFacts DEF Waiting
  <2>2. CASE cvar[t] = c
    <3>1. /\ t \in Wakeups(c) /\ t \notin Wakeups(c)'
          /\ w \notin Wakeups(c) /\ w \in Wakeups(c)'
          /\ (Wakeups(c) \ {t}) = (Wakeups(c)' \ {w})
      BY <2>2, WakeFacts DEF Wakeups, Cvar, cvar_can_push_hi, cvar_can_push_lo, cvar_can_pop
    <3>2. /\ Cardinality(Wakeups(c) \ {t}) = Cardinality(Wakeups(c)) - 1
          /\ Cardinality(Wakeups(c)' \ {w}) = Cardinality(Wakeups(c)') - 1
      BY <3>1, WakeupsFinite, FS_RemoveElement
    <3>3. Cardinality(Wakeups(c)) \in Nat /\ Cardinality(Wakeups(c)') \in Nat
      BY WakeupsFinite, FS_CardinalityType
    <3> QED
      BY <2>1, <3>1, <3>2, <3>3
  <2>3. CASE cvar[t] # c
    <3>1. Wakeups(c)' = Wakeups(c)
      BY <2>3, WakeFacts DEF Wakeups, Cvar, cvar_can_push_hi, cvar_can_push_lo, cvar_can_pop
    <3> QED
      BY <2>1, <3>1
  <2> QED
    BY <2>2, <2>3
<1> QED
  BY <1>1, <1>2 DEF NoLostWakeup, Cvar

\* Moves that leave the deques alone and take away no wake-up.
LEMMA QuietKeepsWakeups ==
    ASSUME IInv, NoLostWakeup, NEW t \in Thread,
           Begin(t) \/ WakeNobody(t) \/ SpuriousWakeup(t)
    PROVE  NoLostWakeup'
<1>1. UNCHANGED <<queue_hi, queue_lo>>
  BY DEF Begin, WakeNobody, SpuriousWakeup
<1>2. /\ pc' \in [Thread -> {"idle", "lock", "wait", "notify"}]
      /\ \A u \in Thread \ {t} : pc'[u] = pc[u] /\ cvar'[u] = cvar[u]
  BY DEF Begin, WakeNobody, SpuriousWakeup, At, IInv, TypeOK
<1>3. ASSUME NEW c \in Cvar
      PROVE  /\ Waiting(c)' # {} => Waiting(c) # {}
             /\ Waiting(c)' # {} => Cardinality(Wakeups(c)') >= Cardinality(Wakeups(c))
  <2>1. CASE Begin(t)
    <3>1. pc[t] = "idle" /\ pc'[t] = "lock" /\ cvar'[t] = "none"
      BY <2>1 DEF Begin, At, IInv, TypeOK
    <3>2. Waiting(c)' = Waiting(c) /\ Wakeups(c)' = Wakeups(c)
      BY <1>2, <3>1 DEF Waiting, Wakeups, Cvar, cvar_can_push_hi, cvar_can_push_lo,
                        cvar_can_pop
    <3> QED
      BY <3>2, WakeupsFinite, FS_CardinalityType
  <2>2. CASE WakeNobody(t)
    <3>1. pc[t] = "notify" /\ pc'[t] = "idle" /\ cvar'[t] = "none" /\ Waiting(cvar[t]) = {}
      BY <2>2 DEF WakeNobody, At, IInv, TypeOK
    <3>2. Waiting(c)' = Waiting(c)
      BY <1>2, <3>1 DEF Waiting
    <3>3. cvar[t] # c => Wakeups(c)' = Wakeups(c)
      BY <1>2, <3>1 DEF Wakeups, Cvar, cvar_can_push_hi, cvar_can_push_lo, cvar_can_pop
    <3> QED
      BY <3>1, <3>2, <3>3, WakeupsFinite, FS_CardinalityType
  <2>3. CASE SpuriousWakeup(t)
    <3>1. pc[t] = "wait" /\ pc'[t] = "lock" /\ cvar'[t] = cvar[t]
      BY <2>3 DEF SpuriousWakeup, At, IInv, TypeOK
    <3>2. Waiting(c)' \subseteq Waiting(c) /\ Wakeups(c) \subseteq Wakeups(c)'
      BY <1>2, <3>1 DEF Waiting, Wakeups
    <3>3. Wakeups(c) \ {t} = Wakeups(c)' \ {t} /\ t \notin Wakeups(c)
      BY <1>2, <3>1 DEF Waiting, Wakeups
    <3> QED
      BY <3>2, <3>3, WakeupsFinite, OneThreadMoved
  <2> QED
    BY <2>1, <2>2, <2>3
<1>4. /\ \A c \in Cvar : Cardinality(Wakeups(c)) \in Nat /\ Cardinality(Wakeups(c)') \in Nat
      /\ capacity_hi - Len(queue_hi) \in Int /\ capacity_lo - Len(queue_lo) \in Int
      /\ Len(queue_hi) + Len(queue_lo) \in Int
  BY WakeupsFinite, FS_CardinalityType, InCallFacts, CapacitiesAssumption
<1>5. {cvar_can_push_hi, cvar_can_push_lo, cvar_can_pop} \subseteq Cvar
  BY DEF Cvar
<1>6. Covered(cvar_can_push_hi, capacity_hi - Len(queue_hi))'
  BY <1>1, <1>3, <1>4, <1>5, NoLostWakeupParts DEF Covered
<1>7. Covered(cvar_can_push_lo, capacity_lo - Len(queue_lo))'
  BY <1>1, <1>3, <1>4, <1>5, NoLostWakeupParts DEF Covered
<1>8. Covered(cvar_can_pop, Len(queue_hi) + Len(queue_lo))'
  BY <1>1, <1>3, <1>4, <1>5, NoLostWakeupParts DEF Covered
<1> QED
  BY <1>6, <1>7, <1>8 DEF NoLostWakeup, Covered

\* While a producer waits, as many producers are on their way to the mutex as
\* there are places free, and while the consumer waits, as many notifications
\* as there are items, although notify_one comes after the unlock and wakes one
\* thread only (tor_switch.cpp:154-189).
THEOREM NoWakeupIsLost == Spec => []NoLostWakeup
<1>1. Init => NoLostWakeup
  <2> SUFFICES ASSUME Init PROVE NoLostWakeup
    OBVIOUS
  <2>1. \A c \in Cvar : Waiting(c) = {}
    BY DEF Init, Waiting
  <2> QED
    BY <2>1 DEF NoLostWakeup, Cvar
<1>2. IInv /\ NoLostWakeup /\ [Next]_vars => IInv' /\ NoLostWakeup'
  <2> SUFFICES ASSUME IInv, NoLostWakeup, [Next]_vars PROVE IInv' /\ NoLostWakeup'
    OBVIOUS
  <2>1. ASSUME NEW t \in Thread, push_front(t) PROVE NoLostWakeup'
    BY <2>1, PushKeepsWakeups
  <2>2. ASSUME NEW t \in Thread, pop_back(t) PROVE NoLostWakeup'
    BY <2>2, PopKeepsWakeups
  <2>3. ASSUME NEW t \in Thread, NEW w \in Thread, Wake(t, w) PROVE NoLostWakeup'
    BY <2>3, WakeKeepsWakeups
  <2>4. ASSUME NEW t \in Thread, Begin(t) \/ WakeNobody(t) \/ SpuriousWakeup(t)
        PROVE  NoLostWakeup'
    BY <2>4, QuietKeepsWakeups
  <2>5. ASSUME UNCHANGED vars PROVE NoLostWakeup'
    BY <2>5 DEF NoLostWakeup, Waiting, Wakeups, vars
  <2>6. IInv'
    BY BeginIInv, StepIInv, UnchangedIInv DEF Next
  <2> QED
    BY <2>1, <2>2, <2>3, <2>4, <2>5, <2>6 DEF Next, Step, notify_one
<1> QED
  BY <1>1, <1>2, InitIInv, PTL DEF Spec

----------------------------------------------------------------------------
(* The buffer does what one atomic buffer would do.                        *)

LEMMA StepIsAtomic ==
    ASSUME IInv, NEW t \in Thread, Begin(t) \/ Step(t) \/ SpuriousWakeup(t)
    PROVE  Atomic!Begin(t) \/ Atomic!Answer(t) \/ UNCHANGED Atomic!vars
<1> USE DEF Atomic!vars, Atomic!Return, Return
<1>1. CASE Begin(t)
  <2>1. call[t] = Atomic!NoCall
    BY <1>1 DEF Begin, IInv, CallsMatch, NoCall, Atomic!NoCall
  <2> QED
    BY <1>1, <2>1 DEF Begin, Atomic!Begin, Pop, Push, Atomic!Pop, Atomic!Push
<1>2. CASE push_front(t)
  <2>1. CASE Blocked(t)
    BY <2>1, InCallFacts DEF Blocked, Atomic!Answer, Atomic!Refuse, NoCall, Atomic!NoCall, Kind
  <2>2. CASE PushedLo(t)
    BY <2>2 DEF PushedLo, Atomic!Answer, Atomic!PushNormal, NoCall, Atomic!NoCall
  <2>3. CASE PushedHi(t)
    BY <2>3 DEF PushedHi, Atomic!Answer, Atomic!PushHigh, NoCall, Atomic!NoCall, Kind
  <2> QED
    BY <1>2, <2>1, <2>2, <2>3, PushCases
<1>3. CASE pop_back(t)
  BY <1>3, PopCases DEF PopWaits, PoppedHi, PoppedLo, Atomic!Answer, Atomic!PopHighFirst,
                        NoCall, Atomic!NoCall
<1>4. CASE notify_one(t) \/ SpuriousWakeup(t)
  BY <1>4 DEF notify_one, Wake, WakeNobody, SpuriousWakeup
<1> QED
  BY <1>1, <1>2, <1>3, <1>4 DEF Step

\* Every call is answered as one atomic bounded priority buffer would answer
\* it: the safety half of ImplementsPriorityBuffer (tor_switch.cpp:117-206).
THEOREM AnswersLikeOneBuffer == Spec => Atomic!Init /\ [][Atomic!Next]_(Atomic!vars)
<1>1. Init => Atomic!Init
  BY DEF Init, Atomic!Init, NoCall, Atomic!NoCall
<1>2. IInv /\ [Next]_vars => [Atomic!Next]_(Atomic!vars)
  <2> SUFFICES ASSUME IInv, [Next]_vars PROVE Atomic!Next \/ UNCHANGED Atomic!vars
    OBVIOUS
  <2>1. CASE UNCHANGED vars
    BY <2>1 DEF vars, Atomic!vars
  <2>2. CASE Next
    BY <2>2, StepIsAtomic DEF Next, Atomic!Next
  <2> QED
    BY <2>1, <2>2
<1>3. IInv /\ [Next]_vars => IInv'
  BY BeginIInv, StepIInv, UnchangedIInv DEF Next
<1> QED
  BY <1>1, <1>2, <1>3, InitIInv, PTL DEF Spec
==============================================================================
