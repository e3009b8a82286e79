------------------------ MODULE CalendarQueueProofs ------------------------
(***************************************************************************)
(* Proofs about the calendar queues, for every set of ports, every number  *)
(* of slices, every capacity and every width of size_t: the counters, the  *)
(* capacity of a pair and pop_back, and that a caller cannot tell the      *)
(* shared deques from one FIFO per pair of a port and a slice (PortFifos). *)
(***************************************************************************)
EXTENDS CalendarQueueApi, FunctionTheorems, FiniteSetTheorems, TLAPS

----------------------------------------------------------------------------
(* Counting the elements of one port in a deque. *)

\* The elements of a port in a deque can be counted.
LEMMA PositionsFinite ==
    ASSUME NEW q \in Seq(QE), NEW p
    PROVE  /\ IsFiniteSet(Positions(q, p))
           /\ Cardinality(Positions(q, p)) \in Nat
<1>1. Positions(q, p) \in SUBSET (1 .. Len(q))
  BY DEF Positions
<1>2. Len(q) \in Nat
  OBVIOUS
<1>3. IsFiniteSet(1 .. Len(q))
  BY <1>2, FS_Interval
<1>4. IsFiniteSet(Positions(q, p))
  BY <1>1, <1>3, FS_Subset
<1> QED
  BY <1>4, FS_CardinalityType

\* Queueing an element adds one to the count of its port and to no other.
LEMMA PositionsAppend ==
    ASSUME NEW q \in Seq(QE), NEW qe \in QE, NEW p
    PROVE  Cardinality(Positions(Append(q, qe), p)) =
             IF qe.port_id = p THEN Cardinality(Positions(q, p)) + 1
                               ELSE Cardinality(Positions(q, p))
<1> DEFINE new == Len(q) + 1
<1>1. /\ Len(Append(q, qe)) = new
      /\ \A i \in 1 .. Len(q) : Append(q, qe)[i] = q[i]
      /\ Append(q, qe)[new] = qe
  OBVIOUS
<1>2. IsFiniteSet(Positions(q, p))
  BY PositionsFinite
<1>3. new \notin Positions(q, p)
  BY DEF Positions
<1>4. CASE qe.port_id = p
  <2>1. Positions(Append(q, qe), p) = Positions(q, p) \cup {new}
    BY <1>1, <1>4 DEF Positions
  <2> QED
    BY <2>1, <1>2, <1>3, <1>4, FS_AddElement
<1>5. CASE qe.port_id # p
  <2>1. Positions(Append(q, qe), p) = Positions(q, p)
    BY <1>1, <1>5 DEF Positions
  <2> QED
    BY <2>1, <1>5
<1> QED
  BY <1>4, <1>5

\* Removing the oldest element takes one from the count of its port and
\* from no other: the other positions move down by one.
LEMMA PositionsTail ==
    ASSUME NEW q \in Seq(QE), q # << >>, NEW p
    PROVE  Cardinality(Positions(Tail(q), p)) =
             IF Head(q).port_id = p THEN Cardinality(Positions(q, p)) - 1
                                    ELSE Cardinality(Positions(q, p))
<1> DEFINE rest == Positions(q, p) \ {1}
           shift == [i \in Positions(Tail(q), p) |-> i + 1]
<1>1. /\ Len(q) \in Nat /\ Len(q) >= 1
      /\ Tail(q) \in Seq(QE)
      /\ Len(Tail(q)) = Len(q) - 1
      /\ \A i \in 1 .. Len(q) - 1 : Tail(q)[i] = q[i + 1]
      /\ Head(q) = q[1]
  OBVIOUS
<1>2. /\ IsFiniteSet(Positions(q, p))
      /\ IsFiniteSet(Positions(Tail(q), p))
  BY <1>1, PositionsFinite
<1>3. shift \in Bijection(Positions(Tail(q), p), rest)
  <2>1. \A i \in Positions(Tail(q), p) : i + 1 \in rest
    BY <1>1 DEF Positions
  <2>2. \A j \in rest : j - 1 \in Positions(Tail(q), p)
    BY <1>1 DEF Positions
  <2>3. \A j \in rest : j \in Nat
    BY <1>1 DEF Positions
  <2>4. \A i \in Positions(Tail(q), p) : i \in Nat
    BY <1>1 DEF Positions
  <2> HIDE DEF rest
  <2>5. shift \in [Positions(Tail(q), p) -> rest]
    BY <2>1
  <2>6. \A i, j \in Positions(Tail(q), p) : shift[i] = shift[j] => i = j
    BY <2>4
  <2>7. \A j \in rest : \E i \in Positions(Tail(q), p) : shift[i] = j
    BY <2>2, <2>3
  <2> QED
    BY <2>5, <2>6, <2>7 DEF Bijection, Injection, Surjection, IsInjective
<1>4. Cardinality(Positions(Tail(q), p)) = Cardinality(rest)
  BY <1>2, <1>3, FS_Bijection DEF ExistsBijection
<1>5. 1 \in Positions(q, p) <=> Head(q).port_id = p
  BY <1>1 DEF Positions
<1> QED
  BY <1>2, <1>4, <1>5, FS_RemoveElement

\* The oldest element of a deque was queued for a port.
LEMMA HeadPort ==
    ASSUME NEW q \in Seq(QE), q # << >>
    PROVE  Head(q).port_id \in Port
<1>1. Head(q) \in QE
  OBVIOUS
<1> QED
  BY <1>1 DEF QE

----------------------------------------------------------------------------
(* The inductive invariant. *)

\* No counter exceeds the capacity.  CapacityPerPair is not inductive by
\* itself: push_front tests a counter, and only CountersExact says that the
\* counter has anything to do with the deque.
CountersBounded == \A p \in Port, s \in Slice : size(p, s) <= capacity

IInv == TypeOK /\ CountersExact /\ CountersBounded

\* The size a caller sees is a natural number.
LEMMA SizeType ==
    ASSUME TypeOK, NEW p \in Port, NEW s \in Slice
    PROVE  size(p, s) \in Nat
BY DEF TypeOK, size

\* What storing a counter does to the sizes of all pairs.
LEMMA SetSizeEffect ==
    ASSUME TypeOK, NEW p \in Port, NEW s \in Slice, NEW n \in Nat, SetSize(p, s, n)
    PROVE  /\ \A q \in Port, t \in Slice :
                 size(q, t)' = IF q = p /\ t = s THEN n ELSE size(q, t)
           /\ DOMAIN port_q_info' \subseteq QueueKey
           /\ port_q_info' \in [DOMAIN port_q_info' -> Nat]
<1>1. DOMAIN port_q_info' = DOMAIN port_q_info \cup {<<p, s>>}
  BY DEF SetSize
<1>2. \A k \in DOMAIN port_q_info' :
         port_q_info'[k] = IF k = <<p, s>> THEN n ELSE port_q_info[k]
  BY DEF SetSize
<1>3. port_q_info' = [k \in DOMAIN port_q_info' |-> port_q_info'[k]]
  BY DEF SetSize
<1>4. \A k \in DOMAIN port_q_info' : port_q_info'[k] \in Nat
  BY <1>1, <1>2 DEF TypeOK
<1>5. ASSUME NEW q \in Port, NEW t \in Slice
      PROVE  size(q, t)' = IF q = p /\ t = s THEN n ELSE size(q, t)
  <2>1. CASE q = p /\ t = s
    BY <1>1, <1>2, <2>1 DEF size
  <2>2. CASE ~(q = p /\ t = s)
    <3>1. <<q, t>> # <<p, s>>
      BY <2>2
    <3> QED
      BY <1>1, <1>2, <2>2, <3>1 DEF size
  <2> QED
    BY <2>1, <2>2
<1>6. DOMAIN port_q_info' \subseteq QueueKey
  BY <1>1 DEF TypeOK, QueueKey
<1> QED
  BY <1>3, <1>4, <1>5, <1>6

\* The running total stays a size_t.
LEMMA DepthType ==
    ASSUME NEW n \in Int
    PROVE  n % Word \in 0 .. Word - 1
BY WordAssumption

\* The invariant holds at the start: no elements, no counters.
LEMMA InitIInv == Init => IInv
<1> SUFFICES ASSUME Init PROVE IInv
  OBVIOUS
<1>1. TypeOK
  BY DEF Init, TypeOK
<1>2. \A p \in Port, s \in Slice : size(p, s) = 0
  BY DEF Init, size
<1>3. ASSUME NEW s \in Slice, NEW p \in Port
      PROVE  Cardinality(Positions(calendar_queues[s], p)) = 0
  <2>1. Positions(calendar_queues[s], p) = {}
    BY DEF Init, Positions
  <2> QED
    BY <2>1, FS_EmptySet
<1> QED
  BY <1>1, <1>2, <1>3, CapacityAssumption DEF IInv, CountersExact, CountersBounded

\* push_front appends one element and adds one to one counter.
LEMMA PushFrontIInv ==
    ASSUME IInv, NEW p \in Port, NEW s \in Slice, NEW x \in Item, PushFront(p, s, x)
    PROVE  IInv'
<1> DEFINE qe == [e |-> x, port_id |-> p]
<1> USE DEF IInv
<1>1. size(p, s) + 1 \in Nat /\ size(p, s) + 1 <= capacity
  BY SizeType, CapacityAssumption DEF PushFront
<1>2. qe \in QE /\ qe.port_id = p
  BY DEF QE
<1>3. \A t \in Slice : calendar_queues[t] \in Seq(QE)
  BY DEF TypeOK
<1>4. \A t \in Slice : calendar_queues'[t] =
         IF t = s THEN Append(calendar_queues[s], qe) ELSE calendar_queues[t]
  BY DEF PushFront, TypeOK
<1>5. TypeOK'
  <2>1. calendar_queues' \in [Slice -> Seq(QE)]
    BY <1>2, <1>3 DEF PushFront, TypeOK
  <2>2. overal_qdepth' \in 0 .. Word - 1
    <3>1. overal_qdepth + 1 \in Int
      BY WordAssumption DEF TypeOK
    <3> QED
      BY <3>1, DepthType DEF PushFront
  <2> QED
    BY <1>1, <2>1, <2>2, SetSizeEffect DEF PushFront, TypeOK
<1>6. \A q \in Port, t \in Slice :
         size(q, t)' = IF q = p /\ t = s THEN size(p, s) + 1 ELSE size(q, t)
  BY <1>1, SetSizeEffect DEF PushFront
<1>7. CountersExact'
  <2> SUFFICES ASSUME NEW t \in Slice, NEW q \in Port
               PROVE  size(q, t)' = Cardinality(Positions(calendar_queues'[t], q))
    BY DEF CountersExact
  <2>1. size(q, t) = Cardinality(Positions(calendar_queues[t], q))
    BY DEF CountersExact
  <2>2. CASE t = s
    <3>1. Cardinality(Positions(Append(calendar_queues[s], qe), q)) =
            IF qe.port_id = q THEN Cardinality(Positions(calendar_queues[s], q)) + 1
                              ELSE Cardinality(Positions(calendar_queues[s], q))
      BY <1>2, <1>3, PositionsAppend
    <3> QED
      BY <1>2, <1>4, <1>6, <2>1, <2>2, <3>1
  <2>3. CASE t # s
    BY <1>4, <1>6, <2>1, <2>3
  <2> QED
    BY <2>2, <2>3
<1>8. CountersBounded'
  BY <1>1, <1>6 DEF CountersBounded
<1> QED
  BY <1>5, <1>7, <1>8

\* A refused push_front changes nothing but may create a zero counter.
LEMMA PushFullIInv ==
    ASSUME IInv, NEW p \in Port, NEW s \in Slice, PushFull(p, s)
    PROVE  IInv'
<1> USE DEF IInv
<1>1. size(p, s) \in Nat
  BY SizeType
<1>2. TypeOK'
  BY <1>1, SetSizeEffect DEF PushFull, TypeOK
<1>3. \A q \in Port, t \in Slice : size(q, t)' = size(q, t)
  BY <1>1, SetSizeEffect DEF PushFull
<1>4. CountersExact' /\ CountersBounded'
  BY <1>3 DEF PushFull, CountersExact, CountersBounded
<1> QED
  BY <1>2, <1>4

\* pop_back takes the oldest element and one off its counter.
LEMMA PopBackIInv ==
    ASSUME IInv, NEW s \in Slice, PopBack(s)
    PROVE  IInv'
<1> DEFINE q == calendar_queues[s]
           p == Head(q).port_id
<1> USE DEF IInv
<1>1. q \in Seq(QE) /\ q # << >> /\ Tail(q) \in Seq(QE)
  BY DEF TypeOK, PopBack
<1>2. p \in Port
  BY <1>1, HeadPort
<1>3. 1 \in Positions(q, p)
  BY <1>1 DEF Positions
<1>4. Cardinality(Positions(q, p)) > 0
  BY <1>1, <1>3, PositionsFinite, FS_EmptySet
<1>5. size(p, s) > 0 /\ size(p, s) = Cardinality(Positions(q, p))
  BY <1>2, <1>4 DEF CountersExact
<1>6. <<p, s>> \in DOMAIN port_q_info /\ size(p, s) = port_q_info[<<p, s>>]
  BY <1>5 DEF size
<1>7. /\ DOMAIN port_q_info' = DOMAIN port_q_info
      /\ \A k \in DOMAIN port_q_info :
            port_q_info'[k] = IF k = <<p, s>> THEN port_q_info[k] - 1 ELSE port_q_info[k]
      /\ port_q_info' = [k \in DOMAIN port_q_info |-> port_q_info'[k]]
  BY DEF PopBack, TypeOK
<1>8. \A k \in DOMAIN port_q_info : port_q_info'[k] \in Nat
  <2>1. \A k \in DOMAIN port_q_info : port_q_info[k] \in Nat
    BY DEF TypeOK
  <2> HIDE DEF p
  <2> QED
    BY <1>5, <1>6, <1>7, <2>1
<1>9. \A r \in Port, t \in Slice :
         size(r, t)' = IF r = p /\ t = s THEN size(p, s) - 1 ELSE size(r, t)
  <2> SUFFICES ASSUME NEW r \in Port, NEW t \in Slice
               PROVE  size(r, t)' = IF r = p /\ t = s THEN size(p, s) - 1 ELSE size(r, t)
    OBVIOUS
  <2>1. CASE r = p /\ t = s
    BY <1>6, <1>7, <2>1 DEF size
  <2>2. CASE ~(r = p /\ t = s)
    <3>1. <<r, t>> # <<p, s>>
      BY <2>2
    <3> HIDE DEF p
    <3> QED
      BY <1>7, <2>2, <3>1 DEF size
  <2> QED
    BY <2>1, <2>2
<1>10. \A t \in Slice : calendar_queues'[t] = IF t = s THEN Tail(q) ELSE calendar_queues[t]
  BY DEF PopBack, TypeOK
<1>11. TypeOK'
  <2>1. calendar_queues' \in [Slice -> Seq(QE)]
    BY <1>1 DEF PopBack, TypeOK
  <2>2. overal_qdepth' \in 0 .. Word - 1
    <3>1. overal_qdepth + Word - 1 \in Int
      BY WordAssumption DEF TypeOK
    <3> QED
      BY <3>1, DepthType DEF PopBack
  <2>3. DOMAIN port_q_info' \subseteq QueueKey
    BY <1>7 DEF TypeOK
  <2>4. port_q_info' \in [DOMAIN port_q_info' -> Nat]
    BY <1>7, <1>8
  <2> QED
    BY <2>1, <2>2, <2>3, <2>4 DEF TypeOK
<1>12. CountersExact'
  <2> SUFFICES ASSUME NEW t \in Slice, NEW r \in Port
               PROVE  size(r, t)' = Cardinality(Positions(calendar_queues'[t], r))
    BY DEF CountersExact
  <2>1. size(r, t) = Cardinality(Positions(calendar_queues[t], r))
    BY DEF CountersExact
  <2>2. CASE t = s
    <3>1. Cardinality(Positions(Tail(q), r)) =
            IF p = r THEN Cardinality(Positions(q, r)) - 1
                     ELSE Cardinality(Positions(q, r))
      BY <1>1, PositionsTail
    <3> HIDE DEF p, q
    <3> QED
      BY <1>9, <1>10, <2>1, <2>2, <3>1 DEF q
  <2>3. CASE t # s
    BY <1>9, <1>10, <2>1, <2>3
  <2> QED
    BY <2>2, <2>3
<1>13. CountersBounded'
  <2>1. \A r \in Port, t \in Slice : size(r, t) \in Nat /\ size(r, t) <= capacity
    BY SizeType DEF CountersBounded
  <2> HIDE DEF p, q
  <2> QED
    BY <1>2, <1>9, <2>1, CapacityAssumption DEF CountersBounded
<1> QED
  BY <1>11, <1>12, <1>13

\* A step that changes nothing keeps the invariant.
LEMMA StutterIInv ==
    ASSUME IInv, UNCHANGED vars
    PROVE  IInv'
BY DEF IInv, vars, TypeOK, CountersExact, CountersBounded, size

\* Every step keeps the invariant: one lemma per action.
LEMMA NextIInv == IInv /\ [Next]_vars => IInv'
<1> SUFFICES ASSUME IInv, [Next]_vars PROVE IInv'
  OBVIOUS
<1>1. CASE \E p \in Port, s \in Slice, x \in Item : PushFront(p, s, x)
  BY <1>1, PushFrontIInv
<1>2. CASE \E p \in Port, s \in Slice : PushFull(p, s)
  BY <1>2, PushFullIInv
<1>3. CASE \E s \in Slice : PopBack(s)
  BY <1>3, PopBackIInv
<1>4. CASE \E s \in Slice : PopEmpty(s)
  BY <1>4, StutterIInv DEF PopEmpty
<1>5. CASE UNCHANGED vars
  BY <1>5, StutterIInv
<1> QED
  BY <1>1, <1>2, <1>3, <1>4, <1>5 DEF Next

\* The invariant holds in every behaviour.
LEMMA SpecIInv == Spec => []IInv
BY InitIInv, NextIInv, PTL DEF Spec

----------------------------------------------------------------------------
(* The theorems. *)

\* The queues, the counters and the total keep their types; in particular no
\* counter is ever decremented below zero.
THEOREM TypeCorrect == Spec => []TypeOK
<1>1. IInv => TypeOK
  BY DEF IInv
<1> QED
  BY <1>1, SpecIInv, PTL

\* The counter of every (port, slice) is always the number of elements of
\* that port in the deque of that slice.
THEOREM CountersAreExact == Spec => []CountersExact
<1>1. IInv => CountersExact
  BY DEF IInv
<1> QED
  BY <1>1, SpecIInv, PTL

\* No (port, slice) ever holds more elements than the capacity, although the
\* ports of a slice share one deque.
THEOREM CapacityIsPerPair == Spec => []CapacityPerPair
<1>1. IInv => CapacityPerPair
  BY DEF IInv, CountersExact, CountersBounded, CapacityPerPair
<1> QED
  BY <1>1, SpecIInv, PTL

\* pop_back always finds the counter of the element it takes, and it is not
\* zero: it neither throws nor wraps.
THEOREM PopNeverThrows == Spec => []PopFindsItsEntry
<1>1. IInv => PopFindsItsEntry
  <2> SUFFICES ASSUME IInv, NEW s \in Slice, calendar_queues[s] # << >>
               PROVE  LET p == Head(calendar_queues[s]).port_id
                      IN  <<p, s>> \in DOMAIN port_q_info /\ port_q_info[<<p, s>>] > 0
    BY DEF PopFindsItsEntry
  <2> DEFINE q == calendar_queues[s]
             p == Head(q).port_id
  <2>1. q \in Seq(QE) /\ p \in Port
    BY HeadPort DEF IInv, TypeOK
  <2>2. 1 \in Positions(q, p)
    BY <2>1 DEF Positions
  <2>3. Cardinality(Positions(q, p)) > 0
    BY <2>1, <2>2, PositionsFinite, FS_EmptySet
  <2>4. size(p, s) > 0
    BY <2>1, <2>3 DEF IInv, CountersExact
  <2> QED
    BY <2>4 DEF size
<1> QED
  BY <1>1, SpecIInv, PTL

----------------------------------------------------------------------------
(* The items of one port, among those of others.                           *)

\* An element of a port has a place among those, and every place is taken by
\* one element.
LEMMA Ranks ==
    ASSUME NEW q \in Seq(QE), NEW p
    PROVE  /\ \A i \in Positions(q, p) : Rank(q, p, i) \in 1 .. Cardinality(Positions(q, p))
           /\ \A i, j \in Positions(q, p) : i < j => Rank(q, p, i) < Rank(q, p, j)
           /\ \A n \in 1 .. Cardinality(Positions(q, p)) :
                 \E i \in Positions(q, p) : Rank(q, p, i) = n
<1> DEFINE at == Positions(q, p)
           Upto(i) == {j \in at : j <= i}
           c == Cardinality(at)
           r == [i \in at |-> Rank(q, p, i)]
<1>1. IsFiniteSet(at) /\ c \in Nat /\ \A i \in at : i \in Int
  <2>1. \A i \in at : i \in Int
    BY DEF Positions
  <2>2. IsFiniteSet(at) /\ c \in Nat
    BY PositionsFinite
  <2> QED
    BY <2>1, <2>2
<1>2. ASSUME NEW i \in at
      PROVE  /\ IsFiniteSet(Upto(i)) /\ Rank(q, p, i) = Cardinality(Upto(i))
             /\ Rank(q, p, i) \in 1 .. c
  <2> HIDE DEF at
  <2>1. Upto(i) \in SUBSET at
    OBVIOUS
  <2>2. /\ IsFiniteSet(Upto(i)) /\ Cardinality(Upto(i)) <= c /\ Cardinality(Upto(i)) \in Nat
    BY <1>1, <2>1, FS_Subset, FS_CardinalityType
  <2>3. i \in Upto(i)
    BY <1>1
  <2>4. Cardinality(Upto(i)) # 0
    BY <2>2, <2>3, FS_EmptySet
  <2>5. Rank(q, p, i) = Cardinality(Upto(i))
    BY DEF Rank, at
  <2> QED
    BY <1>1, <2>2, <2>4, <2>5
<1>3. ASSUME NEW i \in at, NEW j \in at, i < j PROVE Rank(q, p, i) < Rank(q, p, j)
  <2> HIDE DEF at
  <2>1. Upto(i) \in SUBSET Upto(j) /\ j \in Upto(j) /\ j \notin Upto(i)
    <3>1. \A k \in at : k <= i => k <= j
      BY <1>1, <1>3
    <3>2. j <= j /\ ~(j <= i)
      BY <1>1, <1>3
    <3> QED
      BY <3>1, <3>2
  <2>2. /\ Cardinality(Upto(i)) <= Cardinality(Upto(j))
        /\ Cardinality(Upto(i)) # Cardinality(Upto(j))
    BY <1>2, <2>1, FS_Subset
  <2>3. Cardinality(Upto(i)) \in Nat /\ Cardinality(Upto(j)) \in Nat
    BY <1>2, FS_CardinalityType
  <2>4. Cardinality(Upto(i)) < Cardinality(Upto(j))
    BY <2>2, <2>3
  <2>5. Rank(q, p, i) = Cardinality(Upto(i)) /\ Rank(q, p, j) = Cardinality(Upto(j))
    BY <1>2
  <2> QED
    BY <2>4, <2>5
<1>4. r \in Injection(at, 1 .. c)
  <2>1. r \in [at -> 1 .. c]
    BY <1>2
  <2>2. \A i, j \in at : r[i] = r[j] => i = j
    <3>1. SUFFICES ASSUME NEW i \in at, NEW j \in at, i # j PROVE r[i] # r[j]
      OBVIOUS
    <3>2. Rank(q, p, i) \in Int /\ Rank(q, p, j) \in Int
      <4>1. Rank(q, p, i) \in 1 .. c /\ Rank(q, p, j) \in 1 .. c
        BY <1>2
      <4> HIDE DEF c
      <4> QED
        BY <1>1, <4>1
    <3>3. i < j \/ j < i
      <4> HIDE DEF at
      <4> QED
        BY <1>1, <3>1
    <3>4. Rank(q, p, i) # Rank(q, p, j)
      BY <1>3, <3>2, <3>3
    <3> QED
      BY <3>4
  <2> QED
    BY <2>1, <2>2 DEF Injection, IsInjective
<1>5. r \in Surjection(at, 1 .. c)
  <2>1. IsFiniteSet(1 .. c) /\ Cardinality(1 .. c) = c
    BY <1>1, FS_Interval
  <2> HIDE DEF r
  <2> QED
    BY <1>4, <2>1, FS_Injection
<1>6. \A n \in 1 .. c : \E i \in at : r[i] = n
  <2> HIDE DEF r
  <2> QED
    BY <1>5 DEF Surjection
<1> QED
  BY <1>2, <1>3, <1>6

\* The items of a port are as many as its positions, each at the rank of its position.
LEMMA ItemsAre ==
    ASSUME NEW q \in Seq(QE), NEW p
    PROVE  /\ ItemsOf(q, p) \in Seq(Item) /\ Len(ItemsOf(q, p)) = Cardinality(Positions(q, p))
           /\ \A i \in Positions(q, p) : ItemsOf(q, p)[Rank(q, p, i)] = q[i].e
<1> DEFINE at == Positions(q, p)
           c == Cardinality(at)
           Of(n) == CHOOSE i \in at : Rank(q, p, i) = n
<1>1. c \in Nat /\ \A i \in at : i \in 1 .. Len(q)
  <2>1. \A i \in at : i \in 1 .. Len(q)
    BY DEF Positions
  <2> QED
    BY <2>1, PositionsFinite
<1>2. ASSUME NEW n \in 1 .. c
      PROVE  Of(n) \in at /\ Rank(q, p, Of(n)) = n /\ ItemsOf(q, p)[n] = q[Of(n)].e
             /\ q[Of(n)].e \in Item
  <2>1. \E i \in at : Rank(q, p, i) = n
    BY Ranks
  <2>2. Of(n) \in at /\ Rank(q, p, Of(n)) = n
    BY <2>1
  <2>3. ItemsOf(q, p)[n] = q[Of(n)].e
    BY DEF ItemsOf
  <2>4. q[Of(n)] \in QE
    <3> HIDE DEF Of, at
    <3> QED
      BY <1>1, <2>2
  <2> QED
    BY <2>2, <2>3, <2>4 DEF QE
<1>3. ItemsOf(q, p) \in Seq(Item) /\ Len(ItemsOf(q, p)) = c
  <2>1. ItemsOf(q, p) = [n \in 1 .. c |-> ItemsOf(q, p)[n]]
    BY DEF ItemsOf
  <2>2. \A n \in 1 .. c : ItemsOf(q, p)[n] \in Item
    BY <1>2
  <2>3. ItemsOf(q, p) \in [1 .. c -> Item]
    BY <2>1, <2>2
  <2> HIDE DEF c
  <2> QED
    BY <1>1, <2>3
<1>4. ASSUME NEW i \in at PROVE ItemsOf(q, p)[Rank(q, p, i)] = q[i].e
  <2> DEFINE n == Rank(q, p, i)
             k == Of(n)
  <2>1. n \in 1 .. c
    BY Ranks
  <2>2. k \in at /\ Rank(q, p, k) = n /\ ItemsOf(q, p)[n] = q[k].e
    BY <1>2, <2>1
  <2>3. k = i
    <3> HIDE DEF k
    <3>1. k \in Int /\ i \in Int /\ n \in Int
      BY <1>1, <2>1, <2>2
    <3>2. k < i => Rank(q, p, k) < n
      BY <2>2, Ranks
    <3>3. i < k => n < Rank(q, p, k)
      BY <2>2, Ranks
    <3> HIDE DEF n
    <3> QED
      BY <2>2, <3>1, <3>2, <3>3
  <2> QED
    BY <2>2, <2>3
<1> QED
  BY <1>3, <1>4

\* Nothing else is the sequence of these items.
LEMMA ItemsUnique ==
    ASSUME NEW q \in Seq(QE), NEW p, NEW f \in Seq(Item),
           Len(f) = Cardinality(Positions(q, p)),
           \A i \in Positions(q, p) : f[Rank(q, p, i)] = q[i].e
    PROVE  f = ItemsOf(q, p)
<1> DEFINE c == Cardinality(Positions(q, p))
           g == ItemsOf(q, p)
<1>1. g \in Seq(Item) /\ Len(g) = c /\ Len(f) = c
  BY ItemsAre
<1>2. ASSUME NEW n \in 1 .. c PROVE f[n] = g[n]
  <2>1. PICK i \in Positions(q, p) : Rank(q, p, i) = n
    BY Ranks
  <2> QED
    BY <2>1, ItemsAre
<1> HIDE DEF c, g
<1>3. f = g
  BY <1>1, <1>2
<1> QED
  BY <1>3 DEF g

\* An empty deque holds no items of any port.
LEMMA ItemsEmpty == ASSUME NEW p PROVE ItemsOf(<< >>, p) = << >>
<1>1. Positions(<< >>, p) = {}
  BY DEF Positions
<1>2. Cardinality({}) = 0
  BY FS_EmptySet
<1> QED
  BY <1>1, <1>2 DEF ItemsOf

\* A new element comes last among those of its port.
LEMMA ItemsAppend ==
    ASSUME NEW q \in Seq(QE), NEW qe \in QE, NEW p
    PROVE  ItemsOf(Append(q, qe), p) =
             IF qe.port_id = p THEN Append(ItemsOf(q, p), qe.e) ELSE ItemsOf(q, p)
<1> DEFINE new == Len(q) + 1
           r == Append(q, qe)
           at == Positions(q, p)
           c == Cardinality(at)
           f == ItemsOf(q, p)
<1>1. /\ r \in Seq(QE) /\ Len(r) = new /\ r[new] = qe /\ new \in Int
      /\ \A i \in 1 .. Len(q) : r[i] = q[i] /\ i < new /\ i \in Int
      /\ \A i : i \in 1 .. new <=> i \in 1 .. Len(q) \/ i = new
  OBVIOUS
<1>2. \A i \in at : i \in 1 .. Len(q)
  BY DEF Positions
<1>3. /\ IsFiniteSet(at) /\ c \in Nat /\ f \in Seq(Item) /\ Len(f) = c
      /\ \A i \in at : f[Rank(q, p, i)] = q[i].e /\ Rank(q, p, i) \in 1 .. c
  BY PositionsFinite, ItemsAre, Ranks
<1>4. ASSUME NEW i \in at, Positions(r, p) \in {at, at \cup {new}}
      PROVE  Rank(r, p, i) = Rank(q, p, i)
  <2>1. {j \in Positions(r, p) : j <= i} = {j \in at : j <= i}
    <3>1. ~(new <= i)
      BY <1>1, <1>2
    <3> HIDE DEF at, new, r
    <3> QED
      BY <1>4, <3>1
  <2> QED
    BY <2>1 DEF Rank
<1>5. CASE qe.port_id # p
  <2>1. Positions(r, p) = at
    <3> HIDE DEF r, new
    <3> QED
      BY <1>1, <1>5 DEF Positions
  <2>2. \A i \in at : f[Rank(r, p, i)] = r[i].e
    <3> HIDE DEF r, at, f, new, c
    <3> QED
      BY <1>1, <1>2, <1>3, <1>4, <2>1
  <2>3. f = ItemsOf(r, p)
    <3> HIDE DEF r, at, f, c
    <3>1. /\ Len(f) = Cardinality(Positions(r, p))
          /\ \A i \in Positions(r, p) : f[Rank(r, p, i)] = r[i].e
      BY <1>3, <2>1, <2>2 DEF c
    <3> QED
      BY <1>1, <1>3, <3>1, ItemsUnique
  <2> QED
    BY <1>5, <2>3
<1>6. CASE qe.port_id = p
  <2> DEFINE g == Append(f, qe.e)
  <2>1. Positions(r, p) = at \cup {new} /\ new \notin at
    <3> HIDE DEF r, new
    <3> QED
      BY <1>1, <1>6 DEF Positions
  <2>2. Cardinality(Positions(r, p)) = c + 1
    <3> HIDE DEF r, at, new
    <3> QED
      BY <1>3, <2>1, FS_AddElement
  <2>3. qe.e \in Item
    BY DEF QE
  <2>4. /\ g \in Seq(Item) /\ Len(g) = c + 1 /\ g[c + 1] = qe.e
        /\ \A n \in 1 .. c : g[n] = f[n]
    <3> HIDE DEF f, c
    <3> QED
      BY <1>3, <2>3
  <2>5. \A i \in at : g[Rank(r, p, i)] = r[i].e
    <3> HIDE DEF r, at, f, g, new, c
    <3> QED
      BY <1>1, <1>2, <1>3, <1>4, <2>1, <2>4
  <2>6. g[Rank(r, p, new)] = r[new].e
    <3>1. {j \in Positions(r, p) : j <= new} = Positions(r, p)
      <4>1. \A i \in at : i <= new
        BY <1>1, <1>2
      <4> HIDE DEF r, at
      <4> QED
        BY <1>1, <2>1, <4>1
    <3>2. Rank(r, p, new) = c + 1
      BY <2>2, <3>1 DEF Rank
    <3> QED
      BY <1>1, <2>4, <3>2
  <2>7. g = ItemsOf(r, p)
    <3> HIDE DEF r, at, f, g, c, new
    <3>1. /\ Len(g) = Cardinality(Positions(r, p))
          /\ \A i \in Positions(r, p) : g[Rank(r, p, i)] = r[i].e
      BY <2>1, <2>2, <2>4, <2>5, <2>6
    <3> QED
      BY <1>1, <2>4, <3>1, ItemsUnique
  <2> QED
    BY <1>6, <2>7
<1> QED
  BY <1>5, <1>6

\* The oldest element of the deque is the oldest of its port; without it the
\* others move up, among those of its port only.
LEMMA ItemsTail ==
    ASSUME NEW q \in Seq(QE), q # << >>, NEW p
    PROVE  /\ ItemsOf(Tail(q), p) =
                IF Head(q).port_id = p THEN Tail(ItemsOf(q, p)) ELSE ItemsOf(q, p)
           /\ Head(q).port_id = p => ItemsOf(q, p) # << >> /\ Head(ItemsOf(q, p)) = Head(q).e
<1> DEFINE t == Tail(q)
           at == Positions(q, p)
           at2 == Positions(t, p)
           c == Cardinality(at)
           f == ItemsOf(q, p)
<1>1. /\ t \in Seq(QE) /\ Len(q) \in Nat /\ Len(q) >= 1 /\ Len(t) = Len(q) - 1
      /\ \A i \in 1 .. Len(t) : t[i] = q[i + 1]
      /\ Head(q) = q[1]
  OBVIOUS
<1>2. \A i \in at : i \in 1 .. Len(q) /\ i \in Int
  BY DEF Positions
<1>3. \A i \in at2 : i \in 1 .. Len(t) /\ i \in Int /\ i >= 1 /\ i + 1 \in at
  BY <1>1 DEF Positions
<1>4. \A i \in at : i # 1 => i - 1 \in at2 /\ i - 1 >= 1
  BY <1>1 DEF Positions
<1>5. 1 \in at <=> Head(q).port_id = p
  BY <1>1 DEF Positions
<1>6. /\ IsFiniteSet(at) /\ IsFiniteSet(at2) /\ c \in Nat
      /\ f \in Seq(Item) /\ Len(f) = c
      /\ \A i \in at : f[Rank(q, p, i)] = q[i].e /\ Rank(q, p, i) \in 1 .. c
      /\ \A i \in at2 : Rank(t, p, i) \in 1 .. Cardinality(at2)
  BY <1>1, PositionsFinite, ItemsAre, Ranks
<1>7. ASSUME NEW i \in at2
      PROVE  Rank(t, p, i) = IF 1 \in at THEN Rank(q, p, i + 1) - 1 ELSE Rank(q, p, i + 1)
  <2> DEFINE S == {j \in at2 : j <= i}
             U == {j \in at : j <= i + 1}
             T == U \ {1}
             shift == [j \in S |-> j + 1]
  <2>1. shift \in Bijection(S, T)
    <3>1. \A j \in S : j + 1 \in T
      BY <1>3
    <3>2. \A j \in T : j - 1 \in S /\ j - 1 + 1 = j
      <4>1. \A j \in T : j \in at /\ j # 1 /\ j <= i + 1 /\ j \in Int
        BY <1>2
      <4>2. i \in Int
        BY <1>3
      <4> HIDE DEF at, at2, T
      <4>3. \A j \in T : j - 1 \in at2 /\ j - 1 <= i /\ j - 1 + 1 = j
        BY <1>4, <4>1, <4>2
      <4> QED
        BY <4>3
    <3>3. \A j \in S : j \in Int
      BY <1>3
    <3> HIDE DEF S, T
    <3>4. shift \in [S -> T]
      BY <3>1
    <3>5. \A j, k \in S : shift[j] = shift[k] => j = k
      BY <3>3
    <3>6. \A j \in T : \E k \in S : shift[k] = j
      BY <3>2
    <3> QED
      BY <3>4, <3>5, <3>6 DEF Bijection, Injection, Surjection, IsInjective
  <2>2. IsFiniteSet(S) /\ IsFiniteSet(U)
    <3>1. S \in SUBSET at2 /\ U \in SUBSET at
      OBVIOUS
    <3> HIDE DEF S, U, at, at2
    <3> QED
      BY <1>6, <3>1, FS_Subset
  <2>3. Cardinality(T) = Cardinality(S)
    <3> HIDE DEF S, T, shift
    <3> QED
      BY <2>1, <2>2, FS_Bijection DEF ExistsBijection
  <2>4. 1 \in U <=> 1 \in at
    BY <1>3
  <2>5. Cardinality(T) = IF 1 \in U THEN Cardinality(U) - 1 ELSE Cardinality(U)
    <3> HIDE DEF U
    <3> QED
      BY <2>2, FS_RemoveElement
  <2>6. Rank(t, p, i) = Cardinality(S) /\ Rank(q, p, i + 1) = Cardinality(U)
    BY DEF Rank
  <2> HIDE DEF S, T, U, at, at2
  <2> QED
    BY <2>3, <2>4, <2>5, <2>6
<1>8. Cardinality(at2) = IF Head(q).port_id = p THEN c - 1 ELSE c
  BY PositionsTail
<1>9. ASSUME Head(q).port_id = p
      PROVE  c >= 1 /\ f # << >> /\ Head(f) = Head(q).e
  <2>1. 1 \in at
    BY <1>5, <1>9
  <2>2. {j \in at : j <= 1} = {1}
    <3>1. \A j \in at : j <= 1 => j = 1
      BY <1>2
    <3> HIDE DEF at
    <3> QED
      BY <2>1, <3>1
  <2>3. Rank(q, p, 1) = 1
    BY <2>2, FS_Singleton DEF Rank
  <2>4. f[1] = q[1].e /\ 1 \in 1 .. c
    <3> HIDE DEF at, f, c
    <3> QED
      BY <1>6, <2>1, <2>3
  <2> HIDE DEF at, f, c
  <2> QED
    BY <1>1, <1>6, <2>4
<1>10. CASE Head(q).port_id # p
  <2>1. ~(1 \in at) /\ Cardinality(at2) = c
    BY <1>5, <1>8, <1>10
  <2>2. \A i \in at2 : f[Rank(t, p, i)] = t[i].e
    <3> HIDE DEF at, at2, f, t, c
    <3> QED
      BY <1>1, <1>3, <1>6, <1>7, <2>1
  <2>3. f = ItemsOf(t, p)
    <3> HIDE DEF f, t, c
    <3> QED
      BY <1>1, <1>6, <2>1, <2>2, ItemsUnique
  <2> QED
    BY <1>10, <2>3
<1>11. CASE Head(q).port_id = p
  <2> DEFINE g == Tail(f)
  <2>1. 1 \in at /\ Cardinality(at2) = c - 1
    BY <1>5, <1>8, <1>11
  <2>2. g \in Seq(Item) /\ Len(g) = c - 1 /\ \A n \in 1 .. c - 1 : g[n] = f[n + 1]
    <3> HIDE DEF f, c
    <3> QED
      BY <1>6, <1>9, <1>11
  <2>3. ASSUME NEW i \in at2 PROVE g[Rank(t, p, i)] = t[i].e
    <3> HIDE DEF at, at2, f, g, t, c
    <3>1. Rank(t, p, i) \in 1 .. c - 1 /\ Rank(q, p, i + 1) \in 1 .. c
      BY <1>3, <1>6, <2>1
    <3>2. Rank(t, p, i) + 1 = Rank(q, p, i + 1)
      BY <1>6, <1>7, <2>1, <3>1
    <3>3. g[Rank(t, p, i)] = f[Rank(q, p, i + 1)]
      BY <2>2, <3>1, <3>2
    <3> QED
      BY <1>1, <1>3, <1>6, <3>3
  <2>4. g = ItemsOf(t, p)
    <3> HIDE DEF f, t, c, g
    <3> QED
      BY <1>1, <2>1, <2>2, <2>3, ItemsUnique
  <2> QED
    BY <1>9, <1>11, <2>4
<1> QED
  BY <1>9, <1>10, <1>11

----------------------------------------------------------------------------
(* The refinement: one FIFO per (port, slice).                             *)

\* How many items a FIFO holds is what the counter says.
LEMMA FifoLength ==
    ASSUME IInv, NEW p \in Port, NEW s \in Slice
    PROVE  /\ Fifo[<<p, s>>] = ItemsOf(calendar_queues[s], p)
           /\ calendar_queues[s] \in Seq(QE)
           /\ Fifo[<<p, s>>] \in Seq(Item) /\ Len(Fifo[<<p, s>>]) = size(p, s)
<1>1. calendar_queues[s] \in Seq(QE)
  BY DEF IInv, TypeOK
<1>2. Fifo[<<p, s>>] = ItemsOf(calendar_queues[s], p)
  BY DEF Fifo, QueueKey
<1>3. size(p, s) = Cardinality(Positions(calendar_queues[s], p))
  BY DEF IInv, CountersExact
<1> QED
  BY <1>1, <1>2, <1>3, ItemsAre

\* A step that changes the FIFO of one pair only.
LEMMA OneFifo ==
    ASSUME NEW p \in Port, NEW s \in Slice, NEW q,
           calendar_queues \in [Slice -> Seq(QE)],
           calendar_queues' = [calendar_queues EXCEPT ![s] = q],
           \A r \in Port : r # p => ItemsOf(q, r) = ItemsOf(calendar_queues[s], r)
    PROVE  Fifo' = [Fifo EXCEPT ![<<p, s>>] = ItemsOf(q, p)]
<1>1. ASSUME NEW k \in QueueKey
      PROVE  ItemsOf(calendar_queues'[k[2]], k[1]) =
               IF k = <<p, s>> THEN ItemsOf(q, p) ELSE ItemsOf(calendar_queues[k[2]], k[1])
  <2>1. k = <<k[1], k[2]>> /\ k[1] \in Port /\ k[2] \in Slice
    BY DEF QueueKey
  <2>2. calendar_queues'[k[2]] = IF k[2] = s THEN q ELSE calendar_queues[k[2]]
    BY <2>1
  <2> QED
    BY <2>1, <2>2
<1> QED
  BY <1>1 DEF Fifo

\* A call, with what it returns, is a call.
LEMMA ApiStepIsStep == ApiNext => Next
BY DEF ApiNext, ApiPush, ApiPop, Next

\* Every call, with the value it returns, is a call of the FIFOs.
LEMMA CallsRefine == ASSUME IInv, ApiNext PROVE Fifos!Next
<1>0. calendar_queues \in [Slice -> Seq(QE)]
  BY DEF IInv, TypeOK
<1>1. ASSUME NEW p \in Port, NEW s \in Slice, NEW x \in Item, PushFront(p, s, x),
             ret' = <<"pushed", p, s>>
      PROVE  Fifos!Enqueue(p, s, x)
  <2> DEFINE qe == [e |-> x, port_id |-> p]
             q == calendar_queues[s]
  <2>1. qe \in QE /\ qe.port_id = p /\ qe.e = x /\ q \in Seq(QE)
    BY <1>0 DEF QE
  <2>2. calendar_queues' = [calendar_queues EXCEPT ![s] = Append(q, qe)]
    BY <1>1 DEF PushFront
  <2>3. \A r \in Port : ItemsOf(Append(q, qe), r) =
                          IF r = p THEN Append(ItemsOf(q, r), x) ELSE ItemsOf(q, r)
    <3> HIDE DEF qe, q
    <3> QED
      BY <2>1, ItemsAppend
  <2>4. Fifo' = [Fifo EXCEPT ![<<p, s>>] = ItemsOf(Append(q, qe), p)]
    <3> HIDE DEF qe
    <3> QED
      BY <1>0, <2>2, <2>3, OneFifo
  <2>5. Len(Fifo[<<p, s>>]) < capacity /\ Fifo[<<p, s>>] = ItemsOf(q, p)
    BY <1>1, FifoLength DEF PushFront
  <2>6. Fifo' = [Fifo EXCEPT ![<<p, s>>] = Append(@, x)]
    BY <2>3, <2>4, <2>5
  <2> QED
    BY <1>1, <2>5, <2>6 DEF Fifos!Enqueue
<1>2. ASSUME NEW p \in Port, NEW s \in Slice, PushFull(p, s), ret' = <<"full", p, s>>
      PROVE  Fifos!Refuse(p, s)
  <2>1. Len(Fifo[<<p, s>>]) >= capacity
    BY <1>2, FifoLength DEF PushFull
  <2>2. Fifo' = Fifo
    BY <1>2 DEF PushFull, Fifo
  <2> QED
    BY <1>2, <2>1, <2>2 DEF Fifos!Refuse
<1>3. ASSUME NEW s \in Slice, PopBack(s),
             ret' = <<"popped", Head(calendar_queues[s]).port_id, s, Head(calendar_queues[s]).e>>
      PROVE  \E p \in Port : Fifos!Dequeue(p, s)
  <2> DEFINE q == calendar_queues[s]
             p == Head(q).port_id
  <2>1. q \in Seq(QE) /\ q # << >>
    BY <1>0, <1>3 DEF PopBack
  <2>2. p \in Port
    BY <2>1, HeadPort
  <2>3. calendar_queues' = [calendar_queues EXCEPT ![s] = Tail(q)]
    BY <1>3 DEF PopBack
  <2>4. /\ \A r \in Port : ItemsOf(Tail(q), r) =
                             IF r = p THEN Tail(ItemsOf(q, r)) ELSE ItemsOf(q, r)
        /\ ItemsOf(q, p) # << >> /\ Head(ItemsOf(q, p)) = Head(q).e
    <3> HIDE DEF q
    <3> QED
      BY <2>1, ItemsTail
  <2>5. \E r \in Port : r = p
    BY <2>2
  <2>6. PICK r \in Port : r = p
    BY <2>5
  <2>7. Fifo' = [Fifo EXCEPT ![<<r, s>>] = ItemsOf(Tail(q), r)]
    <3>1. PICK t : t = Tail(q)
      OBVIOUS
    <3>2. \A o \in Port : o # r => ItemsOf(t, o) = ItemsOf(calendar_queues[s], o)
      <4> HIDE DEF p
      <4> QED
        BY <2>4, <2>6, <3>1
    <3>3. calendar_queues' = [calendar_queues EXCEPT ![s] = t]
      BY <2>3, <3>1
    <3>4. Fifo' = [Fifo EXCEPT ![<<r, s>>] = ItemsOf(t, r)]
      <4> HIDE DEF p, q
      <4> QED
        BY <1>0, <3>2, <3>3, OneFifo
    <3> QED
      BY <3>1, <3>4
  <2>8. Fifo[<<r, s>>] = ItemsOf(q, r)
    BY FifoLength
  <2>9. /\ Fifo[<<r, s>>] # << >> /\ Head(Fifo[<<r, s>>]) = Head(q).e
        /\ Fifo' = [Fifo EXCEPT ![<<r, s>>] = Tail(@)]
    <3> HIDE DEF p, q
    <3> QED
      BY <2>4, <2>6, <2>7, <2>8
  <2>10. ret' = <<"popped", r, s, Head(Fifo[<<r, s>>])>>
    BY <1>3, <2>6, <2>9
  <2> QED
    BY <2>9, <2>10 DEF Fifos!Dequeue
<1>4. ASSUME NEW s \in Slice, PopEmpty(s), ret' = <<"empty", s>>
      PROVE  Fifos!NothingToDequeue(s)
  <2>1. \A p \in Port : Fifo[<<p, s>>] = << >>
    BY <1>4, FifoLength, ItemsEmpty DEF PopEmpty
  <2>2. Fifo' = Fifo
    BY <1>4 DEF PopEmpty, vars, Fifo
  <2> QED
    BY <1>4, <2>1, <2>2 DEF Fifos!NothingToDequeue
<1>5. CASE \E p \in Port, s \in Slice, x \in Item : ApiPush(p, s, x)
  BY <1>0, <1>1, <1>2, <1>5 DEF ApiPush, Fifos!Next
<1>6. CASE \E s \in Slice : ApiPop(s)
  BY <1>0, <1>3, <1>4, <1>6 DEF ApiPop, Fifos!Next
<1> QED
  BY <1>5, <1>6 DEF ApiNext

\* Empty deques are empty FIFOs.
LEMMA InitRefines == ApiInit => Fifos!Init
<1>1. SUFFICES ASSUME ApiInit PROVE Fifos!Init
  OBVIOUS
<1>2. \A k \in QueueKey : ItemsOf(calendar_queues[k[2]], k[1]) = << >>
  BY <1>1, ItemsEmpty DEF ApiInit, Init, QueueKey
<1>3. Fifo = [k \in QueueKey |-> << >>]
  BY <1>2 DEF Fifo
<1> QED
  BY <1>1, <1>3 DEF ApiInit, Fifos!Init, QueueKey

\* One deque per slice and a table of counters answer every call as an
\* independent bounded FIFO per port and slice would, for any ports, slices
\* and capacity (calendar_queue.h:95-147).
THEOREM AnswersLikePortFifos == ApiSpec => ImplementsPortFifos
<1>1. IInv /\ [ApiNext]_apiVars => IInv'
  <2>1. [ApiNext]_apiVars => [Next]_vars
    BY ApiStepIsStep DEF apiVars
  <2> QED
    BY <2>1, NextIInv
<1>2. ApiInit => IInv
  BY InitIInv DEF ApiInit
<1>3. IInv /\ [ApiNext]_apiVars => [Fifos!Next]_<<Fifo, ret>>
  <2>1. CASE ApiNext
    BY <2>1, CallsRefine
  <2>2. CASE UNCHANGED apiVars
    BY <2>2 DEF apiVars, vars, Fifo
  <2> QED
    BY <2>1, <2>2
<1> QED
  BY <1>1, <1>2, <1>3, InitRefines, PTL DEF ApiSpec, ImplementsPortFifos, Fifos!Spec
============================================================================
