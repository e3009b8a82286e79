-------------------------- MODULE QueueReportProofs --------------------------
(***************************************************************************)
(* Proofs about the report of queued packets, for every set of ports,      *)
(* every number of slices, every capacity, every number of packets that    *)
(* come and go during a report, and every interleaving:                    *)
(*   - Sums: a sum over a finite set, which is a fold, from its recursion  *)
(*     to what changing one of its terms does;                             *)
(*   - Contents: every push and pop moves the elements in the deques and   *)
(*     the sum of the counters by one, so that the two stay equal;         *)
(*   - The report (RInv): what has been added up and what is still to be   *)
(*     asked for make up the contents when the report began, give or take  *)
(*     the calls since.                                                    *)
(***************************************************************************)
EXTENDS QueueReport, CalendarQueueProofs

----------------------------------------------------------------------------
(* Sums.  An induction over the subsets of a finite set.                   *)

\* Every set of subsets of S that has the smallest one, and one when it has all
\* smaller ones, has all.
LEMMA SubsetInduction ==
    ASSUME NEW S, IsFiniteSet(S), NEW Q,
           \A T \in SUBSET S : (\A U \in SUBSET T : U # T => U \in Q) => T \in Q
    PROVE  SUBSET S \subseteq Q
<1> DEFINE R == StrictSubsetOrdering(S)
           Rest == (SUBSET S) \ Q
<1>1. IsWellFoundedOn(R, FiniteSubsetsOf(S))
  BY FS_StrictSubsetOrderingWellFounded
<1>2. \A T \in SUBSET S : T \in FiniteSubsetsOf(S)
  BY FS_Subset DEF FiniteSubsetsOf
<1>3. SUFFICES ASSUME Rest # {} PROVE FALSE
  OBVIOUS
<1>4. PICK T \in Rest : \A U \in Rest : <<U, T>> \notin R
  <2>1. Rest \subseteq FiniteSubsetsOf(S)
    BY <1>2
  <2> HIDE DEF R, Rest
  <2> QED
    BY <1>1, <1>3, <2>1, WFMin
<1>5. T \in SUBSET S /\ T \notin Q
  BY <1>4
<1>6. ASSUME NEW U \in SUBSET T, U # T PROVE U \in Q
  <2>1. <<U, T>> \in R
    BY <1>5, <1>6 DEF StrictSubsetOrdering
  <2>2. U \in Rest => <<U, T>> \notin R
    <3> HIDE DEF R
    <3> QED
      BY <1>4
  <2> QED
    BY <1>5, <2>1, <2>2
<1> QED
  BY <1>5, <1>6

First(s) == CHOOSE x \in s : TRUE

\* Function g sums up the terms of f over the subsets of S.
Sums(g, f, S) ==
    g = [s \in SUBSET S |-> IF s = {} THEN 0 ELSE f[First(s)] + g[s \ {First(s)}]]

\* The sum of the terms f[x], x \in S.
Sum(f, S) == (CHOOSE g : Sums(g, f, S))[S]

\* The term a sum takes next is one of those left.
LEMMA FirstIn == ASSUME NEW s, s # {} PROVE First(s) \in s
BY DEF First

\* What such a function is at each subset.
LEMMA SumsAre ==
    ASSUME NEW g, NEW f, NEW S, Sums(g, f, S), NEW s \in SUBSET S
    PROVE  g[s] = IF s = {} THEN 0 ELSE f[First(s)] + g[s \ {First(s)}]
BY DEF Sums

\* Two such functions agree on every finite set both are defined on.
LEMMA SumsAgree ==
    ASSUME NEW f, NEW S, IsFiniteSet(S), NEW g, NEW A, Sums(g, f, A),
           NEW h, NEW B, Sums(h, f, B), S \subseteq A \cap B
    PROVE  g[S] = h[S]
<1> DEFINE Q == {s \in SUBSET S : g[s] = h[s]}
<1>1. ASSUME NEW T \in SUBSET S, \A U \in SUBSET T : U # T => U \in Q PROVE T \in Q
  <2>1. CASE T = {}
    BY <2>1, SumsAre
  <2>2. CASE T # {}
    <3>1. First(T) \in T
      BY <2>2, FirstIn
    <3>2. T \ {First(T)} \in Q
      BY <1>1, <3>1
    <3>3. g[T] = f[First(T)] + g[T \ {First(T)}]
      BY <2>2, SumsAre
    <3>4. h[T] = f[First(T)] + h[T \ {First(T)}]
      BY <2>2, SumsAre
    <3> QED
      BY <3>2, <3>3, <3>4
  <2> QED
    BY <2>1, <2>2
<1>2. SUBSET S \subseteq Q
  <2> HIDE DEF Q
  <2> QED
    BY <1>1, SubsetInduction
<1> QED
  BY <1>2

\* On every finite set there is such a function, by the same induction.
LEMMA SumsExist == ASSUME NEW f, NEW S, IsFiniteSet(S) PROVE \E g : Sums(g, f, S)
<1> DEFINE Q == {s \in SUBSET S : \E g : Sums(g, f, s)}
<1>1. ASSUME NEW T \in SUBSET S, \A U \in SUBSET T : U # T => U \in Q PROVE T \in Q
  <2>1. \A U \in SUBSET T : U # T => Sums(CHOOSE g : Sums(g, f, U), f, U)
    BY <1>1
  <2>2. ASSUME NEW U \in SUBSET T, U # T
        PROVE  Sum(f, U) = IF U = {} THEN 0 ELSE f[First(U)] + Sum(f, U \ {First(U)})
    <3> DEFINE g == CHOOSE g : Sums(g, f, U)
               V == U \ {First(U)}
               h == CHOOSE h : Sums(h, f, V)
    <3>1. Sum(f, U) = g[U] /\ Sum(f, V) = h[V]
      BY DEF Sum
    <3>2. Sums(g, f, U)
      BY <2>1, <2>2
    <3>3. CASE U = {}
      BY <3>1, <3>2, <3>3, SumsAre
    <3>4. CASE U # {}
      <4>1. First(U) \in U /\ V \in SUBSET T /\ V # T /\ V \subseteq U
        BY <2>2, <3>4, FirstIn
      <4>2. Sums(h, f, V)
        BY <2>1, <4>1
      <4>3. IsFiniteSet(V)
        BY <4>1, FS_Subset
      <4>4. g[V] = h[V]
        <5> HIDE DEF g, h, V
        <5> QED
          BY <3>2, <4>1, <4>2, <4>3, SumsAgree
      <4>5. g[U] = f[First(U)] + g[V]
        BY <3>2, <3>4, SumsAre
      <4> QED
        BY <3>1, <3>4, <4>4, <4>5
    <3> QED
      BY <3>3, <3>4
  <2> DEFINE G == [s \in SUBSET T |->
                      IF s = {} THEN 0 ELSE f[First(s)] + Sum(f, s \ {First(s)})]
  <2>3. ASSUME NEW s \in SUBSET T, s # {} PROVE G[s \ {First(s)}] = Sum(f, s \ {First(s)})
    <3>1. First(s) \in s
      BY <2>3, FirstIn
    <3>2. s \ {First(s)} \in SUBSET T /\ s \ {First(s)} # T
      BY <3>1
    <3> QED
      BY <2>2, <3>2
  <2>4. Sums(G, f, T)
    <3>1. \A s \in SUBSET T : (IF s = {} THEN 0 ELSE f[First(s)] + Sum(f, s \ {First(s)}))
                            = (IF s = {} THEN 0 ELSE f[First(s)] + G[s \ {First(s)}])
      <4> HIDE DEF G
      <4> QED
        BY <2>3
    <3> QED
      BY <3>1 DEF Sums
  <2> QED
    BY <2>4
<1>2. SUBSET S \subseteq Q
  <2> HIDE DEF Q
  <2> QED
    BY <1>1, SubsetInduction
<1> QED
  BY <1>2

\* Sum, as the recursion it stands for.
LEMMA SumStep ==
    ASSUME NEW f, NEW S, IsFiniteSet(S)
    PROVE  Sum(f, S) = IF S = {} THEN 0 ELSE f[First(S)] + Sum(f, S \ {First(S)})
<1> DEFINE g == CHOOSE g : Sums(g, f, S)
           V == S \ {First(S)}
           h == CHOOSE h : Sums(h, f, V)
<1>1. IsFiniteSet(V)
  BY FS_Subset
<1>2. Sums(g, f, S) /\ Sums(h, f, V)
  BY <1>1, SumsExist
<1>3. g[V] = h[V]
  <2>1. V \subseteq S
    OBVIOUS
  <2> HIDE DEF g, h, V
  <2> QED
    BY <1>1, <1>2, <2>1, SumsAgree
<1>4. Sum(f, S) = g[S] /\ Sum(f, V) = h[V]
  BY DEF Sum
<1>5. g[S] = IF S = {} THEN 0 ELSE f[First(S)] + g[V]
  BY <1>2, SumsAre
<1> QED
  BY <1>3, <1>4, <1>5

\* A sum of natural numbers is one.
LEMMA SumNat ==
    ASSUME NEW f, NEW S, IsFiniteSet(S), \A x \in S : f[x] \in Nat
    PROVE  Sum(f, S) \in Nat
<1> DEFINE Q == {s \in SUBSET S : Sum(f, s) \in Nat}
<1>1. ASSUME NEW T \in SUBSET S, \A U \in SUBSET T : U # T => U \in Q PROVE T \in Q
  <2>0. IsFiniteSet(T)
    BY FS_Subset
  <2>1. CASE T = {}
    <3>1. Sum(f, T) = 0
      BY <2>0, <2>1, SumStep
    <3> QED
      BY <3>1
  <2>2. CASE T # {}
    <3>1. First(T) \in T
      BY <2>2, FirstIn
    <3>2. Sum(f, T \ {First(T)}) \in Nat
      BY <1>1, <3>1
    <3>3. f[First(T)] \in Nat
      BY <3>1
    <3>4. Sum(f, T) = f[First(T)] + Sum(f, T \ {First(T)})
      BY <2>0, <2>2, SumStep
    <3> QED
      BY <3>2, <3>3, <3>4
  <2> QED
    BY <2>1, <2>2
<1>2. SUBSET S \subseteq Q
  <2> HIDE DEF Q
  <2> QED
    BY <1>1, SubsetInduction
<1> QED
  BY <1>2

\* A sum is any of its terms and the sum of the others.
LEMMA SumOff ==
    ASSUME NEW f, NEW S, IsFiniteSet(S), \A z \in S : f[z] \in Nat, NEW x \in S
    PROVE  Sum(f, S) = f[x] + Sum(f, S \ {x})
<1> DEFINE Q == {s \in SUBSET S : \A y \in s : Sum(f, s) = f[y] + Sum(f, s \ {y})}
<1>1. ASSUME NEW T \in SUBSET S, \A U \in SUBSET T : U # T => U \in Q PROVE T \in Q
  <2>1. SUFFICES ASSUME NEW y \in T PROVE Sum(f, T) = f[y] + Sum(f, T \ {y})
    OBVIOUS
  <2> DEFINE c == First(T)
  <2>2. c \in T
    BY FirstIn
  <2>3. Sum(f, T) = f[c] + Sum(f, T \ {c})
    <3>1. IsFiniteSet(T)
      BY FS_Subset
    <3> QED
      BY <2>2, <3>1, SumStep
  <2>4. CASE y = c
    BY <2>3, <2>4
  <2>5. CASE y # c
    <3> DEFINE V == T \ {c}
               W == T \ {y}
               Z == T \ {c, y}
    <3>1. V \in Q /\ W \in Q
      BY <1>1, <2>2
    <3>2. y \in V /\ c \in W /\ V \ {y} = Z /\ W \ {c} = Z
      BY <2>2, <2>5
    <3>3. Sum(f, V) = f[y] + Sum(f, Z)
      BY <3>1, <3>2
    <3>4. Sum(f, W) = f[c] + Sum(f, Z)
      BY <3>1, <3>2
    <3>5. f[y] \in Nat /\ f[c] \in Nat
      BY <2>2
    <3>6. Sum(f, Z) \in Nat
      <4>1. IsFiniteSet(Z) /\ \A z \in Z : f[z] \in Nat
        BY FS_Subset
      <4> HIDE DEF Z
      <4> QED
        BY <4>1, SumNat
    <3> HIDE DEF c, V, W, Z
    <3> QED
      BY <2>3, <3>3, <3>4, <3>5, <3>6 DEF V, W
  <2> QED
    BY <2>4, <2>5
<1>2. SUBSET S \subseteq Q
  <2> HIDE DEF Q
  <2> QED
    BY <1>1, SubsetInduction
<1> QED
  BY <1>2

\* A sum depends on its terms only.
LEMMA SumSame ==
    ASSUME NEW f, NEW g, NEW S, IsFiniteSet(S), \A x \in S : f[x] = g[x]
    PROVE  Sum(f, S) = Sum(g, S)
<1> DEFINE Q == {s \in SUBSET S : Sum(f, s) = Sum(g, s)}
<1>1. ASSUME NEW T \in SUBSET S, \A U \in SUBSET T : U # T => U \in Q PROVE T \in Q
  <2>0. IsFiniteSet(T)
    BY FS_Subset
  <2>1. CASE T = {}
    <3>1. Sum(f, T) = 0 /\ Sum(g, T) = 0
      BY <2>0, <2>1, SumStep
    <3> QED
      BY <3>1
  <2>2. CASE T # {}
    <3>1. First(T) \in T
      BY <2>2, FirstIn
    <3>2. Sum(f, T \ {First(T)}) = Sum(g, T \ {First(T)})
      BY <1>1, <3>1
    <3>3. f[First(T)] = g[First(T)]
      BY <3>1
    <3>4. /\ Sum(f, T) = f[First(T)] + Sum(f, T \ {First(T)})
          /\ Sum(g, T) = g[First(T)] + Sum(g, T \ {First(T)})
      BY <2>0, <2>2, SumStep
    <3>5. Sum(f, T) = Sum(g, T)
      BY <3>2, <3>3, <3>4
    <3> QED
      BY <3>5
  <2> QED
    BY <2>1, <2>2
<1>2. SUBSET S \subseteq Q
  <2> HIDE DEF Q
  <2> QED
    BY <1>1, SubsetInduction
<1> QED
  BY <1>2

\* Changing one term changes the sum by as much.
LEMMA SumChange ==
    ASSUME NEW f, NEW g, NEW S, IsFiniteSet(S), NEW x \in S,
           \A y \in S : f[y] \in Nat /\ g[y] \in Nat,
           \A y \in S : y # x => g[y] = f[y]
    PROVE  Sum(g, S) = Sum(f, S) - f[x] + g[x]
<1>1. IsFiniteSet(S \ {x})
  BY FS_Subset
<1>2. Sum(g, S \ {x}) = Sum(f, S \ {x})
  BY <1>1, SumSame
<1>3. Sum(f, S \ {x}) \in Nat
  BY <1>1, SumNat
<1>4. Sum(f, S) = f[x] + Sum(f, S \ {x})
  BY SumOff
<1>5. Sum(g, S) = g[x] + Sum(g, S \ {x})
  BY SumOff
<1> QED
  BY <1>2, <1>3, <1>4, <1>5

\* A new term adds itself.
LEMMA SumNew ==
    ASSUME NEW f, NEW g, NEW S, IsFiniteSet(S), NEW x, x \notin S,
           g[x] \in Nat, \A y \in S : f[y] \in Nat /\ g[y] = f[y]
    PROVE  Sum(g, S \cup {x}) = g[x] + Sum(f, S)
<1> DEFINE T == S \cup {x}
<1>1. IsFiniteSet(T) /\ T \ {x} = S /\ x \in T
  BY FS_AddElement
<1>2. \A y \in T : g[y] \in Nat
  OBVIOUS
<1>3. Sum(g, S) = Sum(f, S)
  BY SumSame
<1> HIDE DEF T
<1>4. Sum(g, T) = g[x] + Sum(g, T \ {x})
  BY <1>1, <1>2, SumOff
<1> QED
  BY <1>1, <1>3, <1>4 DEF T

\* A sum of zeros is zero.
LEMMA SumZero ==
    ASSUME NEW f, NEW S, IsFiniteSet(S), \A x \in S : f[x] = 0
    PROVE  Sum(f, S) = 0
<1> DEFINE Q == {s \in SUBSET S : Sum(f, s) = 0}
<1>1. ASSUME NEW T \in SUBSET S, \A U \in SUBSET T : U # T => U \in Q PROVE T \in Q
  <2>0. IsFiniteSet(T)
    BY FS_Subset
  <2>1. CASE T = {}
    BY <2>0, <2>1, SumStep
  <2>2. CASE T # {}
    <3>1. First(T) \in T
      BY <2>2, FirstIn
    <3>2. Sum(f, T \ {First(T)}) = 0 /\ f[First(T)] = 0
      BY <1>1, <3>1
    <3>3. Sum(f, T) = f[First(T)] + Sum(f, T \ {First(T)})
      BY <2>0, <2>2, SumStep
    <3>4. Sum(f, T) = 0
      BY <3>2, <3>3
    <3> QED
      BY <3>4
  <2> QED
    BY <2>1, <2>2
<1>2. SUBSET S \subseteq Q
  <2> HIDE DEF Q
  <2> QED
    BY <1>1, SubsetInduction
<1> QED
  BY <1>2

----------------------------------------------------------------------------
(* Contents.                                                               *)

\* The elements in the deques q, as Contents counts them.
ContentsOf(q) == MapThenSumSet(LAMBDA s : Len(q[s]), Slice)

\* In this state and in the next one.
LEMMA ContentsAre == Contents = ContentsOf(calendar_queues) /\ Contents' = ContentsOf(calendar_queues')
BY DEF Contents, ContentsOf, MapThenSumSet, MapThenFoldSet

\* The lengths of the deques q.
Lens(q) == [s \in Slice |-> Len(q[s])]

\* There are finitely many slices.
LEMMA SlicesFinite == IsFiniteSet(Slice)
BY QueuesAssumption, FS_Interval DEF Slice

\* The contents, as a sum of the lengths of the deques: both are folds of
\* functions on the subsets of Slice that satisfy the same equation.
LEMMA ContentsIs == ASSUME NEW q PROVE ContentsOf(q) = Sum(Lens(q), Slice)
<1> DEFINE Folds(g) == g = [s \in SUBSET Slice |->
                               IF s = {} THEN 0
                               ELSE Len(q[First(s)]) + g[s \ {First(s)}]]
           c == CHOOSE g : Folds(g)
<1>1. ContentsOf(q) = c[Slice]
  BY DEF ContentsOf, MapThenSumSet, MapThenFoldSet, First
<1>2. ASSUME NEW g PROVE Folds(g) <=> Sums(g, Lens(q), Slice)
  <2>1. ASSUME NEW s \in SUBSET Slice, s # {} PROVE Lens(q)[First(s)] = Len(q[First(s)])
    <3>1. First(s) \in Slice
      BY <2>1, FirstIn
    <3> QED
      BY <3>1 DEF Lens
  <2>2. [s \in SUBSET Slice |->
            IF s = {} THEN 0 ELSE Len(q[First(s)]) + g[s \ {First(s)}]]
      = [s \in SUBSET Slice |->
            IF s = {} THEN 0 ELSE Lens(q)[First(s)] + g[s \ {First(s)}]]
    BY <2>1
  <2> QED
    BY <2>2 DEF Sums
<1>3. \E g : Sums(g, Lens(q), Slice)
  BY SlicesFinite, SumsExist
<1>4. Folds(c)
  <2>1. \E g : Folds(g)
    <3> HIDE DEF Folds
    <3> QED
      BY <1>2, <1>3
  <2> HIDE DEF Folds
  <2> QED
    BY <2>1
<1>5. Sums(c, Lens(q), Slice)
  <2> HIDE DEF Folds, c
  <2> QED
    BY <1>2, <1>4
<1>6. Sums(CHOOSE g : Sums(g, Lens(q), Slice), Lens(q), Slice)
  BY <1>3
<1>7. c[Slice] = (CHOOSE g : Sums(g, Lens(q), Slice))[Slice]
  <2> DEFINE h == CHOOSE g : Sums(g, Lens(q), Slice)
  <2> HIDE DEF c, h
  <2>1. Sums(h, Lens(q), Slice)
    BY <1>6 DEF h
  <2> QED
    BY <1>5, <2>1, SlicesFinite, SumsAgree DEF h
<1> QED
  BY <1>1, <1>7 DEF Sum

\* The contents are a natural number.
LEMMA ContentsNat == TypeOK => Contents \in Nat
<1> SUFFICES ASSUME TypeOK PROVE Contents \in Nat
  OBVIOUS
<1>1. Contents = Sum(Lens(calendar_queues), Slice)
  BY ContentsIs DEF Contents, ContentsOf
<1>2. \A s \in Slice : Lens(calendar_queues)[s] \in Nat
  BY DEF Lens, TypeOK
<1> QED
  BY <1>1, <1>2, SlicesFinite, SumNat

\* When one deque gets d elements more, so do the contents.
LEMMA ContentsChange ==
    ASSUME NEW q, NEW r, \A t \in Slice : Len(q[t]) \in Nat /\ Len(r[t]) \in Nat,
           NEW s \in Slice, \A t \in Slice : t # s => r[t] = q[t]
    PROVE  ContentsOf(r) = ContentsOf(q) - Len(q[s]) + Len(r[s])
<1>1. \A t \in Slice : Lens(q)[t] \in Nat /\ Lens(r)[t] \in Nat
  BY DEF Lens
<1>2. \A t \in Slice : t # s => Lens(r)[t] = Lens(q)[t]
  BY DEF Lens
<1>3. Sum(Lens(r), Slice) = Sum(Lens(q), Slice) - Lens(q)[s] + Lens(r)[s]
  <2> DEFINE f == Lens(q)
             g == Lens(r)
  <2>1. /\ \A t \in Slice : f[t] \in Nat /\ g[t] \in Nat
        /\ \A t \in Slice : t # s => g[t] = f[t]
    BY <1>1, <1>2
  <2> HIDE DEF f, g
  <2>2. Sum(g, Slice) = Sum(f, Slice) - f[s] + g[s]
    BY <2>1, SlicesFinite, SumChange
  <2> QED
    BY <2>2 DEF f, g
<1>4. Lens(q)[s] = Len(q[s]) /\ Lens(r)[s] = Len(r[s])
  BY DEF Lens
<1> QED
  BY <1>3, <1>4, ContentsIs

\* d elements of a pair k come, or go when d is negative: the contents and the
\* counter of k change by d, and k has a counter from then on.
Moves(k, d) ==
    /\ DOMAIN port_q_info' = DOMAIN port_q_info \cup {k}
    /\ \A j \in DOMAIN port_q_info :
          port_q_info'[j] = IF j = k THEN port_q_info[j] + d ELSE port_q_info[j]
    /\ k \notin DOMAIN port_q_info => port_q_info'[k] = d
    /\ Contents' = Contents + d

\* What storing a counter does to the table.
LEMMA StoreEffect ==
    ASSUME NEW p \in Port, NEW s \in Slice, NEW d \in Nat, TypeOK,
           SetSize(p, s, size(p, s) + d)
    PROVE  /\ DOMAIN port_q_info' = DOMAIN port_q_info \cup {<<p, s>>}
           /\ \A j \in DOMAIN port_q_info :
                 port_q_info'[j] = IF j = <<p, s>> THEN port_q_info[j] + d ELSE port_q_info[j]
           /\ <<p, s>> \notin DOMAIN port_q_info => port_q_info'[<<p, s>>] = d
<1> DEFINE k == <<p, s>>
           n == size(p, s) + d
<1>1. DOMAIN port_q_info' = DOMAIN port_q_info \cup {k}
  BY DEF SetSize
<1>2. \A j \in DOMAIN port_q_info' : port_q_info'[j] = IF j = k THEN n ELSE port_q_info[j]
  BY DEF SetSize
<1>3. k \in DOMAIN port_q_info => n = port_q_info[k] + d
  BY DEF size
<1>4. k \notin DOMAIN port_q_info => n = d
  BY DEF size
<1> HIDE DEF k, n
<1>5. \A j \in DOMAIN port_q_info :
         port_q_info'[j] = IF j = k THEN port_q_info[j] + d ELSE port_q_info[j]
  BY <1>1, <1>2, <1>3
<1>6. k \notin DOMAIN port_q_info => port_q_info'[k] = d
  BY <1>1, <1>2, <1>4
<1> QED
  BY <1>1, <1>5, <1>6 DEF k

\* push_front brings one element of its pair.
LEMMA PushFrontMoves ==
    ASSUME IInv, NEW p \in Port, NEW s \in Slice, NEW x \in Item, PushFront(p, s, x)
    PROVE  Moves(<<p, s>>, 1)
<1> DEFINE qe == [e |-> x, port_id |-> p]
<1>0. TypeOK /\ TypeOK'
  BY PushFrontIInv DEF IInv
<1>1. Contents' = Contents + 1
  <2>1. /\ calendar_queues \in [Slice -> Seq(QE)] /\ calendar_queues' \in [Slice -> Seq(QE)]
        /\ \A t \in Slice : t # s => calendar_queues'[t] = calendar_queues[t]
        /\ calendar_queues'[s] = Append(calendar_queues[s], qe)
    BY <1>0 DEF PushFront, TypeOK
  <2>2. qe \in QE
    BY DEF QE
  <2>3. Len(calendar_queues'[s]) = Len(calendar_queues[s]) + 1 /\ Len(calendar_queues[s]) \in Nat
    <3>1. calendar_queues[s] \in Seq(QE)
      BY <2>1
    <3> HIDE DEF qe
    <3> QED
      BY <2>1, <2>2, <3>1
  <2>4. ContentsOf(calendar_queues') =
          ContentsOf(calendar_queues) - Len(calendar_queues[s]) + Len(calendar_queues'[s])
    <3>1. \A t \in Slice : Len(calendar_queues[t]) \in Nat /\ Len(calendar_queues'[t]) \in Nat
      BY <2>1
    <3>2. \A t \in Slice : t # s => calendar_queues'[t] = calendar_queues[t]
      BY <2>1
    <3> QED
      BY <3>1, <3>2, ContentsChange
  <2>5. Contents = ContentsOf(calendar_queues) /\ Contents' = ContentsOf(calendar_queues')
    BY ContentsAre
  <2>6. Contents \in Nat
    BY <1>0, ContentsNat
  <2> QED
    BY <2>3, <2>4, <2>5, <2>6
<1>2. SetSize(p, s, size(p, s) + 1)
  BY DEF PushFront
<1> QED
  BY <1>0, <1>1, <1>2, StoreEffect DEF Moves

\* A refused push_front brings none, but its pair has a counter afterwards.
LEMMA PushFullMoves ==
    ASSUME IInv, NEW p \in Port, NEW s \in Slice, PushFull(p, s)
    PROVE  Moves(<<p, s>>, 0)
<1>0. TypeOK
  BY DEF IInv
<1>1. Contents' = Contents + 0
  <2>1. Contents' = Contents
    BY DEF PushFull, Contents, MapThenSumSet, MapThenFoldSet
  <2> QED
    BY <1>0, <2>1, ContentsNat
<1>2. SetSize(p, s, size(p, s) + 0)
  <2>1. size(p, s) + 0 = size(p, s)
    BY <1>0, SizeType
  <2> QED
    BY <2>1 DEF PushFull
<1> QED
  BY <1>0, <1>1, <1>2, StoreEffect DEF Moves

\* pop_back takes one element of a pair that has a counter.
LEMMA PopBackMoves ==
    ASSUME IInv, NEW s \in Slice, PopBack(s)
    PROVE  \E k \in DOMAIN port_q_info : Moves(k, -1)
<1> DEFINE q == calendar_queues[s]
           k == <<Head(q).port_id, s>>
<1>0. TypeOK /\ TypeOK'
  BY PopBackIInv DEF IInv
<1>1. q \in Seq(QE) /\ q # << >> /\ Head(q).port_id \in Port
  BY <1>0, HeadPort DEF TypeOK, PopBack
<1>2. k \in DOMAIN port_q_info
  <2>1. 1 \in Positions(q, Head(q).port_id)
    BY <1>1 DEF Positions
  <2>2. Cardinality(Positions(q, Head(q).port_id)) > 0
    BY <1>1, <2>1, PositionsFinite, FS_EmptySet
  <2>3. size(Head(q).port_id, s) > 0
    BY <1>1, <2>2 DEF IInv, CountersExact
  <2> QED
    BY <2>3 DEF size
<1>3. Contents' = Contents + (-1)
  <2>1. /\ calendar_queues \in [Slice -> Seq(QE)] /\ calendar_queues' \in [Slice -> Seq(QE)]
        /\ \A t \in Slice : t # s => calendar_queues'[t] = calendar_queues[t]
        /\ calendar_queues'[s] = Tail(q)
    BY <1>0 DEF PopBack, TypeOK
  <2>2. Len(calendar_queues'[s]) = Len(calendar_queues[s]) - 1 /\ Len(calendar_queues[s]) \in Nat
    BY <1>1, <2>1
  <2>4. ContentsOf(calendar_queues') =
          ContentsOf(calendar_queues) - Len(calendar_queues[s]) + Len(calendar_queues'[s])
    <3>1. \A t \in Slice : Len(calendar_queues[t]) \in Nat /\ Len(calendar_queues'[t]) \in Nat
      BY <2>1
    <3>2. \A t \in Slice : t # s => calendar_queues'[t] = calendar_queues[t]
      BY <2>1
    <3> QED
      BY <3>1, <3>2, ContentsChange
  <2>5. Contents = ContentsOf(calendar_queues) /\ Contents' = ContentsOf(calendar_queues')
    BY ContentsAre
  <2>6. Contents \in Nat
    BY <1>0, ContentsNat
  <2> QED
    BY <2>2, <2>4, <2>5, <2>6
<1>4. \A j \in DOMAIN port_q_info :
         port_q_info'[j] = IF j = k THEN port_q_info[j] + (-1) ELSE port_q_info[j]
  <2>1. \A j \in DOMAIN port_q_info :
           port_q_info'[j] = IF j = k THEN port_q_info[j] - 1 ELSE port_q_info[j]
    BY DEF PopBack
  <2>2. \A j \in DOMAIN port_q_info : port_q_info[j] \in Nat
    BY <1>0 DEF TypeOK
  <2> HIDE DEF k
  <2> QED
    BY <2>1, <2>2
<1>5. DOMAIN port_q_info' = DOMAIN port_q_info \cup {k}
  BY <1>2 DEF PopBack
<1> HIDE DEF k
<1>6. Moves(k, -1)
  BY <1>2, <1>3, <1>4, <1>5 DEF Moves
<1> QED
  BY <1>2, <1>6

\* The three ways a step of the switch changes the table.
LEMMA NextMoves ==
    ASSUME IInv, Next
    PROVE  \/ \E k : Moves(k, 1)
           \/ \E k : Moves(k, 0)
           \/ \E k \in DOMAIN port_q_info : Moves(k, -1)
           \/ UNCHANGED vars
<1>1. CASE \E p \in Port, s \in Slice, x \in Item : PushFront(p, s, x)
  BY <1>1, PushFrontMoves
<1>2. CASE \E p \in Port, s \in Slice : PushFull(p, s)
  BY <1>2, PushFullMoves
<1>3. CASE \E s \in Slice : PopBack(s)
  BY <1>3, PopBackMoves
<1>4. CASE \E s \in Slice : PopEmpty(s)
  BY <1>4 DEF PopEmpty
<1> QED
  BY <1>1, <1>2, <1>3, <1>4 DEF Next

\* The sum of the counters of some pairs changes when one of those is moved,
\* and the sum of all counters always does.
LEMMA MovesSum ==
    ASSUME NEW k, NEW d \in Int, TypeOK, TypeOK', Moves(k, d),
           IsFiniteSet(DOMAIN port_q_info), NEW K \in SUBSET DOMAIN port_q_info
    PROVE  /\ Sum(port_q_info', K) = Sum(port_q_info, K) + (IF k \in K THEN d ELSE 0)
           /\ Sum(port_q_info, K) \in Nat /\ Sum(port_q_info', K) \in Nat
           /\ Sum(port_q_info', DOMAIN port_q_info') = Sum(port_q_info, DOMAIN port_q_info) + d
           /\ IsFiniteSet(DOMAIN port_q_info')
<1> DEFINE D == DOMAIN port_q_info
<1>0. /\ \A j \in D : port_q_info[j] \in Nat /\ port_q_info'[j] \in Nat
      /\ \A j \in DOMAIN port_q_info' : port_q_info'[j] \in Nat
      /\ D \subseteq DOMAIN port_q_info'
  BY DEF TypeOK, Moves
<1>1. ASSUME NEW L \in SUBSET D
      PROVE  /\ Sum(port_q_info', L) = Sum(port_q_info, L) + (IF k \in L THEN d ELSE 0)
             /\ Sum(port_q_info, L) \in Nat /\ Sum(port_q_info', L) \in Nat
  <2>1. IsFiniteSet(L)
    BY FS_Subset
  <2>2. Sum(port_q_info, L) \in Nat /\ Sum(port_q_info', L) \in Nat
    BY <1>0, <2>1, SumNat
  <2>3. CASE k \in L
    <3>1. \A j \in L : port_q_info[j] \in Nat /\ port_q_info'[j] \in Nat
      BY <1>0
    <3>2. \A j \in L : j # k => port_q_info'[j] = port_q_info[j]
      BY DEF Moves
    <3>3. Sum(port_q_info', L) = Sum(port_q_info, L) - port_q_info[k] + port_q_info'[k]
      BY <2>1, <2>3, <3>1, <3>2, SumChange
    <3>4. port_q_info'[k] = port_q_info[k] + d
      BY <2>3 DEF Moves
    <3> QED
      BY <2>2, <2>3, <3>1, <3>3, <3>4
  <2>4. CASE k \notin L
    <3>1. \A j \in L : port_q_info'[j] = port_q_info[j]
      BY <2>4 DEF Moves
    <3>2. Sum(port_q_info', L) = Sum(port_q_info, L)
      BY <2>1, <3>1, SumSame
    <3> QED
      BY <2>2, <2>4, <3>2
  <2> QED
    BY <2>3, <2>4
<1>2. Sum(port_q_info', DOMAIN port_q_info') = Sum(port_q_info, D) + d
  <2>1. CASE k \in D
    <3>1. DOMAIN port_q_info' = D
      BY <2>1 DEF Moves
    <3> QED
      BY <1>1, <2>1, <3>1
  <2>2. CASE k \notin D
    <3>1. DOMAIN port_q_info' = D \cup {k} /\ port_q_info'[k] = d /\ d \in Nat
      BY <1>0, <2>2 DEF Moves
    <3>2. \A j \in D : port_q_info[j] \in Nat /\ port_q_info'[j] = port_q_info[j]
      BY <1>0, <2>2 DEF Moves
    <3>3. Sum(port_q_info', D \cup {k}) = port_q_info'[k] + Sum(port_q_info, D)
      BY <2>2, <3>1, <3>2, SumNew
    <3>4. Sum(port_q_info, D) \in Nat
      BY <1>1
    <3> QED
      BY <3>1, <3>3, <3>4
  <2> QED
    BY <2>1, <2>2
<1>3. IsFiniteSet(DOMAIN port_q_info')
  BY FS_AddElement DEF Moves
<1> QED
  BY <1>1, <1>2, <1>3

----------------------------------------------------------------------------
(* The report.                                                             *)

\* Every element is counted by the counter of its pair.
ContentsCounted ==
    /\ IsFiniteSet(DOMAIN port_q_info)
    /\ Contents = Sum(port_q_info, DOMAIN port_q_info)

\* The history counts from the beginning of a report.
HistoryOK ==
    /\ pushes \in Nat /\ pops \in Nat /\ base \in Nat /\ total \in Nat
    /\ ~Reporting => pushes = 0 /\ pops = 0

\* No pair loses its counter.
ReportedStay ==
    /\ last_reported \subseteq DOMAIN port_q_info
    /\ db = "keys" =>
          /\ total = 0 /\ reported = {}
          /\ last_reported \subseteq table /\ table \subseteq DOMAIN port_q_info
    /\ db = "sizes" =>
          /\ keys \subseteq DOMAIN port_q_info /\ reported \subseteq DOMAIN port_q_info
          /\ ~raced => last_reported \subseteq reported \cup keys

\* Before the first size is read the contents are off by the calls so far, and
\* from then on so is what has been added up with what is still to be asked
\* for: a call moves it only when it comes before the size of its pair.
TotalOnTheWay ==
    /\ db = "keys" => Contents = base + pushes - pops
    /\ db = "sizes" /\ ~raced =>
          LET ahead == total + Sum(port_q_info, keys)
          IN  base - pops <= ahead /\ ahead <= base + pushes

RInv == IInv /\ ContentsCounted /\ HistoryOK /\ ReportedStay /\ TotalOnTheWay

\* At the start there is nothing.
LEMMA InitRInv == ReportInit => RInv
<1> SUFFICES ASSUME ReportInit PROVE RInv
  OBVIOUS
<1>1. IInv
  BY InitIInv DEF ReportInit
<1>2. DOMAIN port_q_info = {}
  BY DEF ReportInit, Init
<1>3. IsFiniteSet({})
  BY FS_EmptySet
<1>4. Sum(port_q_info, {}) = 0
  BY <1>3, SumStep
<1>5. Contents = 0
  <2>1. ASSUME NEW s \in Slice PROVE Lens(calendar_queues)[s] = 0
    BY DEF Lens, ReportInit, Init
  <2>2. Contents = Sum(Lens(calendar_queues), Slice)
    BY ContentsIs, ContentsAre
  <2>3. Sum(Lens(calendar_queues), Slice) = 0
    BY <2>1, SlicesFinite, SumZero
  <2> QED
    BY <2>2, <2>3
<1>6. ContentsCounted
  BY <1>2, <1>3, <1>4, <1>5 DEF ContentsCounted
<1>7. HistoryOK /\ ReportedStay /\ TotalOnTheWay
  BY <1>2 DEF ReportInit, HistoryOK, ReportedStay, TotalOnTheWay
<1> QED
  BY <1>1, <1>6, <1>7 DEF RInv

\* A step that leaves the queues alone leaves them and the counters correct.
LEMMA SameContents ==
    ASSUME IInv, ContentsCounted, UNCHANGED vars
    PROVE  IInv' /\ ContentsCounted' /\ Contents' = Contents
<1>1. UNCHANGED <<calendar_queues, port_q_info>>
  BY DEF vars
<1>2. IInv'
  BY StutterIInv
<1>3. Contents' = Contents
  BY <1>1 DEF Contents, MapThenSumSet, MapThenFoldSet
<1>4. ContentsCounted'
  BY <1>1, <1>3 DEF ContentsCounted, Sum, Sums
<1> QED
  BY <1>2, <1>3, <1>4

\* A step of the switch during a report, or between two.
LEMMA MoveKeepsRInv ==
    ASSUME RInv, Switch, IInv', NEW k, NEW d \in {-1, 0, 1}, Moves(k, d),
           d = -1 => k \in DOMAIN port_q_info
    PROVE  RInv'
<1> DEFINE D == DOMAIN port_q_info
           K == IF db = "sizes" THEN keys ELSE {}
<1>0. /\ TypeOK /\ TypeOK' /\ Contents \in Nat /\ IsFiniteSet(D)
      /\ pushes \in Nat /\ pops \in Nat /\ base \in Nat /\ total \in Nat
  BY ContentsNat DEF RInv, IInv, ContentsCounted, HistoryOK
<1>1. /\ D \subseteq DOMAIN port_q_info'
      /\ Contents' = Contents + d
  BY DEF Moves
<1>2. K \in SUBSET D
  BY DEF RInv, ReportedStay
<1>3. /\ Sum(port_q_info', K) = Sum(port_q_info, K) + (IF k \in K THEN d ELSE 0)
      /\ Sum(port_q_info, K) \in Nat /\ Sum(port_q_info', K) \in Nat
      /\ Sum(port_q_info', DOMAIN port_q_info') = Sum(port_q_info, D) + d
      /\ IsFiniteSet(DOMAIN port_q_info')
  <2> HIDE DEF K
  <2>1. d \in Int
    OBVIOUS
  <2> QED
    BY <1>0, <1>2, <2>1, MovesSum
<1>4. ContentsCounted'
  BY <1>1, <1>3 DEF RInv, ContentsCounted
<1>5. /\ UNCHANGED <<db, table, keys, total, reported, raced, base, last_reported>>
  BY DEF Switch, reportVars, frontVars
<1>6. /\ pushes' = IF Reporting /\ d = 1 THEN pushes + 1 ELSE pushes
      /\ pops' = IF Reporting /\ d = -1 THEN pops + 1 ELSE pops
  <2>1. Contents' > Contents <=> d = 1
    BY <1>0, <1>1
  <2>2. Contents' < Contents <=> d = -1
    BY <1>0, <1>1
  <2> QED
    BY <2>1, <2>2 DEF Switch
<1>7. HistoryOK'
  BY <1>0, <1>5, <1>6 DEF RInv, HistoryOK, Reporting
<1>8. ReportedStay'
  BY <1>1, <1>5 DEF RInv, ReportedStay
<1>9. TotalOnTheWay'
  <2>1. ASSUME db = "keys" PROVE (Contents = base + pushes - pops)'
    <3>1. Contents = base + pushes - pops /\ Reporting
      BY <2>1 DEF RInv, TotalOnTheWay, Reporting
    <3> QED
      BY <1>0, <1>1, <1>5, <1>6, <3>1
  <2>2. ASSUME db = "sizes", ~raced
        PROVE  (base - pops <= total + Sum(port_q_info, keys)
                  /\ total + Sum(port_q_info, keys) <= base + pushes)'
    <3>1. K = keys /\ Reporting
      BY <2>2 DEF Reporting
    <3>2. /\ base - pops <= total + Sum(port_q_info, keys)
          /\ total + Sum(port_q_info, keys) <= base + pushes
      BY <2>2 DEF RInv, TotalOnTheWay
    <3>3. /\ Sum(port_q_info', keys) = Sum(port_q_info, keys) + (IF k \in keys THEN d ELSE 0)
          /\ Sum(port_q_info, keys) \in Nat
      BY <1>3, <3>1
    <3>4. Sum(port_q_info, keys)' = Sum(port_q_info', keys)
      BY <1>5 DEF Sum, Sums
    <3> HIDE DEF K, D
    <3> QED
      BY <1>0, <1>5, <1>6, <3>1, <3>2, <3>3, <3>4
  <2> QED
    BY <1>5, <2>1, <2>2 DEF TotalOnTheWay
<1> QED
  BY <1>4, <1>7, <1>8, <1>9 DEF RInv

\* What the threads of the switch do keeps the invariant.
LEMMA SwitchRInv == ASSUME RInv, Switch PROVE RInv'
<1>1. IInv' /\ Next
  BY NextIInv DEF RInv, Switch
<1>2. CASE \E k : Moves(k, 1)
  BY <1>1, <1>2, MoveKeepsRInv
<1>3. CASE \E k : Moves(k, 0)
  BY <1>1, <1>3, MoveKeepsRInv
<1>4. CASE \E k \in DOMAIN port_q_info : Moves(k, -1)
  BY <1>1, <1>4, MoveKeepsRInv
<1>5. CASE UNCHANGED vars
  <2>1. UNCHANGED <<calendar_queues, port_q_info>>
    BY <1>5 DEF vars
  <2>2. Contents' = Contents
    BY <2>1 DEF Contents, MapThenSumSet, MapThenFoldSet
  <2>3. Contents \in Nat
    BY ContentsNat DEF RInv, IInv
  <2>4. UNCHANGED <<db, table, keys, total, reported, raced, base, last_reported, pushes, pops>>
    BY <2>2, <2>3 DEF Switch, reportVars, frontVars
  <2>5. IInv' /\ ContentsCounted'
    BY <1>5, SameContents DEF RInv
  <2>6. HistoryOK' /\ ReportedStay'
    BY <2>1, <2>4 DEF RInv, HistoryOK, ReportedStay, Reporting
  <2>7. Sum(port_q_info, keys)' = Sum(port_q_info, keys)
    BY <2>1, <2>4 DEF Sum, Sums
  <2>8. TotalOnTheWay'
    BY <2>2, <2>4, <2>7 DEF RInv, TotalOnTheWay
  <2> QED
    BY <2>5, <2>6, <2>8 DEF RInv
<1> QED
  BY <1>1, <1>2, <1>3, <1>4, <1>5, NextMoves DEF RInv

\* The dashboard thread asks for a report, or ends.
LEMMA LoopRInv == ASSUME RInv, Loop PROVE RInv'
<1>0. Contents \in Nat /\ IInv
  BY ContentsNat DEF RInv, IInv
<1>1. /\ UNCHANGED vars /\ UNCHANGED <<pushes, pops, last_reported>>
      /\ pushes = 0 /\ pops = 0
  BY DEF Loop, callVars, frontVars, RInv, HistoryOK, Reporting
<1>2. IInv' /\ ContentsCounted' /\ Contents' = Contents
  BY <1>0, <1>1, SameContents DEF RInv
<1>3. UNCHANGED port_q_info
  BY <1>1 DEF vars
<1>4. CASE running_db_thread
  <2>1. /\ db' = "keys" /\ table' = DOMAIN port_q_info /\ base' = Contents
        /\ total' = 0 /\ reported' = {}
    BY <1>4 DEF Loop
  <2>2. HistoryOK' /\ ReportedStay'
    BY <1>0, <1>1, <1>3, <2>1 DEF RInv, HistoryOK, ReportedStay, Reporting
  <2>3. TotalOnTheWay'
    BY <1>0, <1>1, <1>2, <2>1 DEF TotalOnTheWay
  <2> QED
    BY <1>2, <2>2, <2>3 DEF RInv
<1>5. CASE ~running_db_thread
  <2>1. db' = "done" /\ UNCHANGED <<total, base>>
    BY <1>5 DEF Loop, reportVars
  <2> QED
    BY <1>1, <1>2, <1>3, <2>1 DEF RInv, HistoryOK, ReportedStay, TotalOnTheWay, Reporting
<1> QED
  BY <1>4, <1>5

\* The keys are taken: all of them, unless the table changed on the way.
LEMMA GetPortQsRInv == ASSUME RInv, GetPortQs PROVE RInv'
<1>1. /\ UNCHANGED vars /\ UNCHANGED <<pushes, pops, last_reported, total, reported, base>>
      /\ db = "keys" /\ db' = "sizes" /\ UNCHANGED port_q_info
  BY DEF GetPortQs, vars, callVars, frontVars
<1>2. IInv' /\ ContentsCounted' /\ Contents' = Contents
  BY <1>1, SameContents DEF RInv
<1>3. /\ total = 0 /\ reported = {} /\ last_reported \subseteq table
      /\ table \subseteq DOMAIN port_q_info /\ Contents = base + pushes - pops
      /\ Contents = Sum(port_q_info, DOMAIN port_q_info) /\ Contents \in Nat
      /\ pushes \in Nat /\ pops \in Nat /\ base \in Nat
  BY <1>1, ContentsNat DEF RInv, IInv, ReportedStay, TotalOnTheWay, ContentsCounted, HistoryOK
<1>4. keys' \subseteq DOMAIN port_q_info
  BY DEF GetPortQs
<1>5. ~raced' => keys' = table /\ table = DOMAIN port_q_info
  BY DEF GetPortQs
<1>6. HistoryOK'
  BY <1>1 DEF RInv, HistoryOK, Reporting
<1>7. ReportedStay'
  BY <1>1, <1>3, <1>4, <1>5 DEF RInv, ReportedStay
<1>8. TotalOnTheWay'
  <2>1. ASSUME ~raced'
        PROVE  (base - pops <= total + Sum(port_q_info, keys)
                  /\ total + Sum(port_q_info, keys) <= base + pushes)'
    <3>1. Sum(port_q_info, keys)' = Contents
      BY <1>1, <1>3, <1>5, <2>1 DEF Sum, Sums
    <3> QED
      BY <1>1, <1>3, <3>1
  <2> QED
    BY <1>1, <2>1 DEF TotalOnTheWay
<1> QED
  BY <1>2, <1>6, <1>7, <1>8 DEF RInv

\* The size of one pair moves from what is ahead to the total.
LEMMA AddSizeRInv == ASSUME RInv, NEW k \in keys, AddSize(k) PROVE RInv'
<1>1. /\ UNCHANGED vars /\ UNCHANGED <<pushes, pops, last_reported, raced, base, db, port_q_info>>
      /\ db = "sizes" /\ total' = total + Added(k)
      /\ keys' = keys \ {k} /\ reported' = reported \cup {k}
  BY DEF AddSize, vars, callVars, frontVars
<1>2. IInv' /\ ContentsCounted'
  BY <1>1, SameContents DEF RInv
<1>3. /\ keys \subseteq DOMAIN port_q_info /\ IsFiniteSet(DOMAIN port_q_info)
      /\ \A j \in DOMAIN port_q_info : port_q_info[j] \in Nat
      /\ pushes \in Nat /\ pops \in Nat /\ base \in Nat /\ total \in Nat
  BY <1>1 DEF RInv, IInv, TypeOK, ReportedStay, ContentsCounted, HistoryOK
<1>4. Added(k) = port_q_info[k]
  <2>1. k = <<k[1], k[2]>> /\ k \in DOMAIN port_q_info
    BY <1>3 DEF RInv, IInv, TypeOK, QueueKey
  <2> QED
    BY <2>1 DEF Added, size
<1>5. HistoryOK'
  BY <1>1, <1>3, <1>4 DEF RInv, HistoryOK, Reporting
<1>6. ReportedStay'
  BY <1>1, <1>3 DEF RInv, ReportedStay
<1>7. TotalOnTheWay'
  <2>1. Sum(port_q_info, keys)' = Sum(port_q_info, keys \ {k})
    BY <1>1 DEF Sum, Sums
  <2>2. /\ Sum(port_q_info, keys) = port_q_info[k] + Sum(port_q_info, keys \ {k})
        /\ Sum(port_q_info, keys \ {k}) \in Nat
    <3>1. IsFiniteSet(keys) /\ IsFiniteSet(keys \ {k})
      BY <1>3, FS_Subset
    <3>2. \A j \in keys : port_q_info[j] \in Nat
      BY <1>3
    <3> QED
      BY <3>1, <3>2, SumOff, SumNat
  <2>3. total' + Sum(port_q_info, keys \ {k}) = total + Sum(port_q_info, keys)
    BY <1>1, <1>3, <1>4, <2>2
  <2> QED
    BY <1>1, <2>1, <2>3 DEF RInv, TotalOnTheWay
<1> QED
  BY <1>2, <1>5, <1>6, <1>7 DEF RInv

\* The readings are stored.
LEMMA StoreRInv == ASSUME RInv, Store PROVE RInv'
<1>1. /\ UNCHANGED vars /\ UNCHANGED port_q_info
      /\ db = "sizes" /\ db' = "sleep" /\ last_reported' = reported
      /\ total' = 0 /\ base' = 0 /\ pushes' = 0 /\ pops' = 0
  BY DEF Store, vars
<1>2. IInv' /\ ContentsCounted'
  BY <1>1, SameContents DEF RInv
<1>3. HistoryOK' /\ ReportedStay' /\ TotalOnTheWay'
  BY <1>1 DEF RInv, HistoryOK, ReportedStay, TotalOnTheWay, Reporting
<1> QED
  BY <1>2, <1>3 DEF RInv

\* The thread sleeps, the command line ends, or nothing happens.
LEMMA OtherRInv ==
    ASSUME RInv, Sleep \/ Start \/ UNCHANGED reportingVars PROVE RInv'
<1>1. /\ UNCHANGED vars /\ UNCHANGED <<port_q_info, pushes, pops, last_reported>>
      /\ UNCHANGED <<table, keys, total, reported, raced, base>>
      /\ db' = db \/ (db = "sleep" /\ db' = "loop")
  BY DEF Sleep, Start, Leave, Join, reportingVars, vars, callVars, reportVars, frontVars
<1>2. IInv' /\ ContentsCounted' /\ Contents' = Contents
  BY <1>1, SameContents DEF RInv
<1>3. HistoryOK' /\ ReportedStay'
  BY <1>1 DEF RInv, HistoryOK, ReportedStay, Reporting
<1>4. TotalOnTheWay'
  <2>1. Sum(port_q_info, keys)' = Sum(port_q_info, keys)
    BY <1>1 DEF Sum, Sums
  <2> QED
    BY <1>1, <1>2, <2>1 DEF RInv, TotalOnTheWay
<1> QED
  BY <1>2, <1>3, <1>4 DEF RInv

\* Every step keeps the invariant.
LEMMA NextRInv == RInv /\ [ReportNext]_reportingVars => RInv'
<1> SUFFICES ASSUME RInv, [ReportNext]_reportingVars PROVE RInv'
  OBVIOUS
<1>1. CASE Switch
  BY <1>1, SwitchRInv
<1>2. CASE Loop
  BY <1>2, LoopRInv
<1>3. CASE GetPortQs
  BY <1>3, GetPortQsRInv
<1>4. CASE \E k \in keys : AddSize(k)
  BY <1>4, AddSizeRInv
<1>5. CASE Store
  BY <1>5, StoreRInv
<1>6. CASE Sleep \/ Start \/ UNCHANGED reportingVars
  BY <1>6, OtherRInv
<1> QED
  BY <1>1, <1>2, <1>3, <1>4, <1>5, <1>6 DEF ReportNext, UpdateDb

\* The invariant holds in every behaviour.
LEMMA SpecRInv == ReportSpec => []RInv
BY InitRInv, NextRInv, PTL DEF ReportSpec

----------------------------------------------------------------------------
(* The theorems.                                                           *)

\* The total of a report is off by no more than the packets that came and went
\* while it was made, however many that were, unless the table grew while its
\* keys were read.
THEOREM TotalIsNearSnapshot == ReportSpec => []TotalNearSnapshot
<1>1. RInv => TotalNearSnapshot
  <2> SUFFICES ASSUME RInv, db = "sizes", keys = {}, ~raced
               PROVE  base - pops <= total /\ total <= base + pushes
    BY DEF TotalNearSnapshot
  <2>1. Sum(port_q_info, keys) = 0
    BY FS_EmptySet, SumStep
  <2>2. total + Sum(port_q_info, keys) = total
    BY <2>1 DEF RInv, HistoryOK
  <2> QED
    BY <2>2 DEF RInv, TotalOnTheWay
<1> QED
  BY <1>1, SpecRInv, PTL

\* A pair reported in one time step is reported in the next, empty or not: only
\* storing a report changes what was reported last.
THEOREM SeriesAreWhole == ReportSpec => SeriesHaveNoGaps
<1>1. RInv /\ [ReportNext]_reportingVars =>
          [last_reported' # last_reported /\ ~raced =>
              last_reported \subseteq last_reported']_reportingVars
  <2> SUFFICES ASSUME RInv, ReportNext, last_reported' # last_reported, ~raced
               PROVE  last_reported \subseteq last_reported'
    OBVIOUS
  <2>1. Store
    BY DEF ReportNext, Switch, UpdateDb, Loop, GetPortQs, AddSize, Sleep, Start, frontVars
  <2> QED
    BY <2>1 DEF Store, RInv, ReportedStay
<1> QED
  BY <1>1, SpecRInv, PTL DEF ReportSpec, SeriesHaveNoGaps

=============================================================================
