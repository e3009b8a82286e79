------------------------ MODULE OpticalToolboxProofs ------------------------
(***************************************************************************)
(* Proofs about the front end.                                             *)
(*                                                                         *)
(* Routes and tables agree over every topology whose slices were made in   *)
(* their order and are matchings, Tidy below: whatever calls made it, the  *)
(* routes meet the links of the switch (TidyRoutesMeet), lose no time      *)
(* (TidyRoutesLoseNoTime), and the switch connects ports in pairs          *)
(* (TidyIsMatching).  Both generators make tidy topologies, so the same    *)
(* holds of their scripts (GeneratedSchedules).  For round_robin() with    *)
(* one port the topology is computed in closed form, Circle: the calls are *)
(* unfolded (RoundRobinCallsAre) and folded with connect() slice by slice  *)
(* (CircleStep), and the arithmetic of the places gives that every two     *)
(* ToRs meet once (EveryPairMeets) and every route is found                *)
(* (CirclesComplete).                                                      *)
(*                                                                         *)
(* The prover has no induction over operators: UpTo is induction over an   *)
(* interval for a set of numbers, and the folds and recursive functions of *)
(* the model are characterised with it.                                    *)
(***************************************************************************)
EXTENDS OpticalToolbox, SequenceTheorems, FiniteSetTheorems, TLAPS

----------------------------------------------------------------------------
(* Tidy topologies.                                                        *)

Entry == [slice : Nat, edges : SUBSET (SUBSET Nat)]

\* The slices were made in their order, from 0 and without a gap, and in each
\* a ToR has at most one link, to another one.
Tidy(t) ==
    /\ t \in Seq(Entry)
    /\ \A i \in DOMAIN t : t[i].slice = i - 1
    /\ \A i \in DOMAIN t : \A e \in t[i].edges : \E a, b \in Nat : a # b /\ e = {a, b}
    /\ \A i \in DOMAIN t : \A e, f \in t[i].edges : e \cap f # {} => e = f

\* ToRs a and b have a link in slice s.
Linked(t, s, a, b) == s + 1 \in DOMAIN t /\ a # b /\ {a, b} \in t[s + 1].edges

\* Slice s is the entry after s others.
LEMMA TidySlices ==
    ASSUME NEW t, Tidy(t)
    PROVE  /\ DOMAIN t = 1 .. Len(t) /\ Len(t) \in Nat
           /\ ValidSlices(t) = 0 .. Len(t) - 1
           /\ slice_num(t) = Len(t)
           /\ \A s \in 0 .. Len(t) - 1 : EdgesIn(t, s) = t[s + 1].edges
<1>1. DOMAIN t = 1 .. Len(t) /\ Len(t) \in Nat
  BY DEF Tidy
<1>2. \A i \in 1 .. Len(t) : t[i].slice = i - 1
  BY <1>1 DEF Tidy
<1>3. ValidSlices(t) = 0 .. Len(t) - 1
  <2>1. ASSUME NEW s \in 0 .. Len(t) - 1 PROVE s \in ValidSlices(t)
    <3>1. s + 1 \in 1 .. Len(t) /\ t[s + 1].slice = s
      BY <1>1, <1>2
    <3> QED
      BY <1>1, <3>1 DEF ValidSlices
  <2>2. ASSUME NEW s \in ValidSlices(t) PROVE s \in 0 .. Len(t) - 1
    <3>1. PICK i \in DOMAIN t : s = t[i].slice
      BY DEF ValidSlices
    <3> QED
      BY <1>1, <1>2, <3>1
  <2> QED
    BY <2>1, <2>2
<1>4. slice_num(t) = Len(t)
  <2>1. Cardinality(0 .. Len(t) - 1) = IF 0 > Len(t) - 1 THEN 0 ELSE (Len(t) - 1) - 0 + 1
    BY <1>1, FS_Interval
  <2>2. Cardinality(0 .. Len(t) - 1) = Len(t)
    BY <1>1, <2>1
  <2> QED
    BY <1>3, <2>2 DEF slice_num
<1>5. ASSUME NEW s \in 0 .. Len(t) - 1 PROVE EdgesIn(t, s) = t[s + 1].edges
  <2> DEFINE e == CHOOSE e \in ToSet(t) : e.slice = s
  <2>1. s + 1 \in DOMAIN t /\ t[s + 1].slice = s
    BY <1>1, <1>2
  <2>2. t[s + 1] \in ToSet(t)
    BY <2>1 DEF ToSet
  <2>3. e \in ToSet(t) /\ e.slice = s
    BY <2>1, <2>2
  <2> HIDE DEF e
  <2>4. PICK i \in DOMAIN t : e = t[i]
    BY <2>3 DEF ToSet
  <2>5. i = s + 1
    BY <1>1, <1>2, <2>3, <2>4
  <2> QED
    BY <2>4, <2>5 DEF EdgesIn, e
<1> QED
  BY <1>1, <1>3, <1>4, <1>5

\* In a slice a ToR is linked to one other.
LEMMA OnePartner ==
    ASSUME NEW t, Tidy(t), NEW s, NEW a, NEW b, NEW c, Linked(t, s, a, b), Linked(t, s, a, c)
    PROVE  b = c
<1>1. \A e, f \in t[s + 1].edges : e \cap f # {} => e = f
  BY DEF Tidy, Linked
<1>2. {a, b} = {a, c}
  <2>1. {a, b} \in t[s + 1].edges /\ {a, c} \in t[s + 1].edges
    BY DEF Linked
  <2>2. {a, b} \cap {a, c} # {}
    OBVIOUS
  <2> QED
    BY <1>1, <2>1, <2>2
<1> QED
  BY <1>2 DEF Linked

\* Links go both ways.
LEMMA LinkedBack ==
    ASSUME NEW t, NEW s, NEW a, NEW b, Linked(t, s, a, b) PROVE Linked(t, s, b, a)
<1>1. {a, b} = {b, a}
  OBVIOUS
<1> QED
  BY <1>1 DEF Linked

\* An entry for the switch, for the link of a to b.
EntryFor(s, a, b) == [port |-> a + 1, slice |-> s, out |-> b + 1]

\* There is an entry for each end of each link, and no other one.
LEMMA EntriesAre ==
    ASSUME NEW t, Tidy(t)
    PROVE  /\ \A e \in OcsEntries(t) :
                 \E a, b, s \in Nat : Linked(t, s, a, b) /\ e = EntryFor(s, a, b)
           /\ \A a, b, s \in Nat : Linked(t, s, a, b) => EntryFor(s, a, b) \in OcsEntries(t)
<1>1. ASSUME NEW e \in OcsEntries(t)
      PROVE  \E a, b, s \in Nat : Linked(t, s, a, b) /\ e = EntryFor(s, a, b)
  <2>1. PICK i \in DOMAIN t :
           e \in {[port |-> x[1] + 1, slice |-> i - 1, out |-> x[2] + 1] :
                     x \in {p \in Nodes(t) \X Nodes(t) :
                               p[1] # p[2] /\ {p[1], p[2]} \in t[i].edges}}
    BY DEF OcsEntries
  <2>2. PICK p \in Nodes(t) \X Nodes(t) :
           /\ p[1] # p[2] /\ {p[1], p[2]} \in t[i].edges
           /\ e = [port |-> p[1] + 1, slice |-> i - 1, out |-> p[2] + 1]
    BY <2>1
  <2>3. i \in Nat /\ i >= 1
    BY TidySlices
  <2>4. t[i].edges \subseteq SUBSET Nat
    BY DEF Tidy, Entry
  <2>5. p[1] \in Nat /\ p[2] \in Nat
    BY <2>2, <2>4
  <2>6. i - 1 \in Nat /\ (i - 1) + 1 = i
    BY <2>3
  <2>7. Linked(t, i - 1, p[1], p[2]) /\ e = EntryFor(i - 1, p[1], p[2])
    BY <2>2, <2>6 DEF Linked, EntryFor
  <2> QED
    BY <2>5, <2>6, <2>7
<1>2. ASSUME NEW a \in Nat, NEW b \in Nat, NEW s \in Nat, Linked(t, s, a, b)
      PROVE  EntryFor(s, a, b) \in OcsEntries(t)
  <2>1. s + 1 \in DOMAIN t /\ (s + 1) - 1 = s
    BY <1>2 DEF Linked
  <2>2. a \in Nodes(t) /\ b \in Nodes(t)
    BY <1>2 DEF Linked, Nodes
  <2>3. <<a, b>> \in {p \in Nodes(t) \X Nodes(t) :
                         p[1] # p[2] /\ {p[1], p[2]} \in t[s + 1].edges}
    BY <1>2, <2>2 DEF Linked
  <2>4. EntryFor(s, a, b) = [port |-> <<a, b>>[1] + 1, slice |-> (s + 1) - 1,
                              out |-> <<a, b>>[2] + 1]
    BY <2>1 DEF EntryFor
  <2>5. EntryFor(s, a, b) \in
          {[port |-> x[1] + 1, slice |-> (s + 1) - 1, out |-> x[2] + 1] :
              x \in {p \in Nodes(t) \X Nodes(t) :
                        p[1] # p[2] /\ {p[1], p[2]} \in t[s + 1].edges}}
    BY <2>3, <2>4
  <2> QED
    BY <2>1, <2>5 DEF OcsEntries
<1> QED
  BY <1>1, <1>2

\* No two entries have one key, so that there is one table, and it says to
\* which ToR each one is linked.
LEMMA TableIs ==
    ASSUME NEW t, Tidy(t), NEW table \in OcsTables(t)
    PROVE  /\ \A a, b, s \in Nat : Linked(t, s, a, b) =>
                 <<a + 1, s>> \in DOMAIN table /\ table[<<a + 1, s>>] = b + 1
           /\ \A k \in DOMAIN table :
                 \E a, b, s \in Nat :
                    Linked(t, s, a, b) /\ k = <<a + 1, s>> /\ table[k] = b + 1
<1> DEFINE entries == OcsEntries(t)
           Outs(k) == {e.out : e \in {e \in entries : <<e.port, e.slice>> = k}}
           keys == {<<e.port, e.slice>> : e \in entries}
           doubtful == {k \in keys : Cardinality(Outs(k)) > 1}
<1>1. PICK f : table = [k \in keys |-> IF k \in doubtful THEN f[k] ELSE CHOOSE o \in Outs(k) : TRUE]
  BY DEF OcsTables
<1>2. ASSUME NEW a \in Nat, NEW b \in Nat, NEW s \in Nat, Linked(t, s, a, b)
      PROVE  Outs(<<a + 1, s>>) = {b + 1} /\ <<a + 1, s>> \in keys
  <2>1. EntryFor(s, a, b) \in entries
    BY <1>2, EntriesAre
  <2>2. <<EntryFor(s, a, b).port, EntryFor(s, a, b).slice>> = <<a + 1, s>>
        /\ EntryFor(s, a, b).out = b + 1
    BY DEF EntryFor
  <2>3. b + 1 \in Outs(<<a + 1, s>>) /\ <<a + 1, s>> \in keys
    <3> HIDE DEF entries
    <3> QED
      BY <2>1, <2>2
  <2>4. ASSUME NEW e \in entries, <<e.port, e.slice>> = <<a + 1, s>> PROVE e.out = b + 1
    <3>1. PICK c, d, r \in Nat : Linked(t, r, c, d) /\ e = EntryFor(r, c, d)
      BY EntriesAre
    <3>2. e.port = c + 1 /\ e.slice = r /\ e.out = d + 1
      BY <3>1 DEF EntryFor
    <3>3. c = a /\ r = s
      BY <2>4, <3>2
    <3>4. d = b
      BY <1>2, <3>1, <3>3, OnePartner
    <3> QED
      BY <3>2, <3>4
  <2> HIDE DEF entries
  <2> QED
    BY <2>3, <2>4
<1>3. ASSUME NEW k \in keys
      PROVE  \E a, b, s \in Nat : Linked(t, s, a, b) /\ k = <<a + 1, s>>
  <2>1. PICK e \in entries : k = <<e.port, e.slice>>
    OBVIOUS
  <2>2. PICK a, b, s \in Nat : Linked(t, s, a, b) /\ e = EntryFor(s, a, b)
    BY EntriesAre
  <2>3. k = <<a + 1, s>>
    BY <2>1, <2>2 DEF EntryFor
  <2> QED
    BY <2>2, <2>3
<1>4. ASSUME NEW a \in Nat, NEW b \in Nat, NEW s \in Nat, Linked(t, s, a, b)
      PROVE  <<a + 1, s>> \in DOMAIN table /\ table[<<a + 1, s>>] = b + 1
  <2>1. Outs(<<a + 1, s>>) = {b + 1} /\ <<a + 1, s>> \in keys
    BY <1>2, <1>4
  <2>2. Cardinality({b + 1}) = 1
    BY FS_Singleton
  <2>3. <<a + 1, s>> \notin doubtful
    <3> HIDE DEF keys, Outs
    <3> QED
      BY <2>1, <2>2
  <2>4. (CHOOSE o \in {b + 1} : TRUE) = b + 1
    OBVIOUS
  <2> HIDE DEF keys, doubtful, Outs
  <2> QED
    BY <1>1, <2>1, <2>3, <2>4
<1>5. DOMAIN table = keys
  BY <1>1
<1> HIDE DEF keys, doubtful, Outs, entries
<1>6. ASSUME NEW k \in DOMAIN table
      PROVE  \E a, b, s \in Nat : Linked(t, s, a, b) /\ k = <<a + 1, s>> /\ table[k] = b + 1
  <2>1. PICK a, b, s \in Nat : Linked(t, s, a, b) /\ k = <<a + 1, s>>
    BY <1>3, <1>5
  <2> QED
    BY <1>4, <2>1
<1> QED
  BY <1>4, <1>6

----------------------------------------------------------------------------
(* Arithmetic, and the least of some numbers.                              *)

\* A product with a positive number is no smaller.
LEMMA Mono == ASSUME NEW n \in Nat, n > 0, NEW a \in Int, a >= 1 PROVE n * a >= n
OBVIOUS

\* The rest of a sum of two numbers of a turn.
LEMMA ModOf ==
    ASSUME NEW n \in Nat, n > 0, NEW a \in 0 .. 2 * n - 1, NEW m, m = a % n
    PROVE  m = IF a < n THEN a ELSE a - n
<1>1. PICK d \in Int : a = n * d + m /\ m \in 0 .. n - 1
  <2>1. a \div n \in Int /\ a % n \in 0 .. n - 1 /\ a = n * (a \div n) + (a % n)
    OBVIOUS
  <2> QED
    BY <2>1
<1>2. d < 2
  <2> SUFFICES ASSUME d - 1 >= 1 PROVE FALSE
    BY <1>1
  <2>1. n * (d - 1) >= n
    BY Mono
  <2>2. n * (d - 1) = n * d - n
    BY <1>1
  <2> QED
    BY <1>1, <2>1, <2>2
<1>3. d > -1
  <2> SUFFICES ASSUME 0 - d >= 1 PROVE FALSE
    BY <1>1
  <2>1. n * (0 - d) >= n
    BY Mono
  <2>2. n * (0 - d) = 0 - n * d
    BY <1>1
  <2> QED
    BY <1>1, <2>1, <2>2
<1>4. d = 0 \/ d = 1
  BY <1>1, <1>2, <1>3
<1>5. CASE d = 0
  BY <1>1, <1>5
<1>6. CASE d = 1
  BY <1>1, <1>6
<1> QED
  BY <1>4, <1>5, <1>6

\* Every set of subsets of S that has the smallest one, and one when it has all
\* smaller ones, has all.
LEMMA SubsetInduction ==
    ASSUME NEW S, IsFiniteSet(S), NEW Q,
           \A T \in SUBSET S : (\A U \in SUBSET T : U # T => U \in Q) => T \in Q
    PROVE  SUBSET S \subseteq Q
<1> DEFINE R == StrictSubsetOrdering(S)
           Rest == (SUBSET S) \ Q
<1>1. IsWellFoundedOn(R, FiniteSubsetsOf(S))
  BY FS_StrictSubsetOrderingWellFounded
<1>2. \A T \in SUBSET S : T \in FiniteSubsetsOf(S)
  BY FS_Subset DEF FiniteSubsetsOf
<1>3. SUFFICES ASSUME Rest # {} PROVE FALSE
  OBVIOUS
<1>4. PICK T \in Rest : \A U \in Rest : <<U, T>> \notin R
  <2>1. Rest \subseteq FiniteSubsetsOf(S)
    BY <1>2
  <2> HIDE DEF R, Rest
  <2> QED
    BY <1>1, <1>3, <2>1, WFMin
<1>5. T \in SUBSET S /\ T \notin Q
  BY <1>4
<1>6. ASSUME NEW U \in SUBSET T, U # T PROVE U \in Q
  <2>1. <<U, T>> \in R
    BY <1>5, <1>6 DEF StrictSubsetOrdering
  <2>2. U \in Rest => <<U, T>> \notin R
    <3> HIDE DEF R
    <3> QED
      BY <1>4
  <2> QED
    BY <1>5, <2>1, <2>2
<1> QED
  BY <1>5, <1>6

\* Finitely many numbers have a least and a greatest one.
LEMMA Extremes ==
    ASSUME NEW S \in SUBSET Int, IsFiniteSet(S), S # {}
    PROVE  /\ \E x \in S : \A y \in S : x <= y
           /\ \E x \in S : \A y \in S : x >= y
<1> DEFINE Q == {T \in SUBSET S : T # {} =>
                    /\ \E x \in T : \A y \in T : x <= y
                    /\ \E x \in T : \A y \in T : x >= y}
<1>1. ASSUME NEW T \in SUBSET S, \A U \in SUBSET T : U # T => U \in Q PROVE T \in Q
  <2>1. CASE T = {}
    BY <2>1
  <2>2. CASE T # {}
    <3>1. PICK z \in T : TRUE
      BY <2>2
    <3> DEFINE U == T \ {z}
    <3>2. U \in Q
      BY <1>1, <3>1
    <3>3. z \in Int /\ U \subseteq Int /\ T = U \cup {z}
      BY <3>1
    <3>4. CASE U = {}
      BY <3>3, <3>4
    <3>5. CASE U # {}
      <4>1. PICK x \in U : \A y \in U : x <= y
        BY <3>2, <3>5
      <4>2. PICK v \in U : \A y \in U : v >= y
        BY <3>2, <3>5
      <4>3. x \in Int /\ v \in Int /\ x \in T /\ v \in T
        BY <3>3
      <4> HIDE DEF U
      <4>4. \E l \in T : \A y \in T : l <= y
        <5>1. CASE x <= z
          BY <3>3, <4>1, <4>3, <5>1
        <5>2. CASE z <= x
          <6>1. \A y \in U : y \in Int /\ z <= y
            BY <3>3, <4>1, <4>3, <5>2
          <6> QED
            BY <3>1, <3>3, <6>1
        <5> QED
          BY <3>3, <4>3, <5>1, <5>2
      <4>5. \E l \in T : \A y \in T : l >= y
        <5>1. CASE v >= z
          BY <3>3, <4>2, <4>3, <5>1
        <5>2. CASE z >= v
          <6>1. \A y \in U : y \in Int /\ z >= y
            BY <3>3, <4>2, <4>3, <5>2
          <6> QED
            BY <3>1, <3>3, <6>1
        <5> QED
          BY <3>3, <4>3, <5>1, <5>2
      <4> QED
        BY <4>4, <4>5
    <3> QED
      BY <3>4, <3>5
  <2> QED
    BY <2>1, <2>2
<1>2. SUBSET S \subseteq Q
  <2> HIDE DEF Q
  <2> QED
    BY <1>1, SubsetInduction
<1> QED
  BY <1>2

\* What holds of 0, and of each number up to n if of the one before, holds of
\* all of them.
LEMMA UpTo ==
    ASSUME NEW n \in Nat, NEW Q, 0 \in Q, \A i \in 1 .. n : i - 1 \in Q => i \in Q
    PROVE  0 .. n \subseteq Q
<1> DEFINE Rest == (0 .. n) \ Q
<1>1. SUFFICES ASSUME Rest # {} PROVE FALSE
  OBVIOUS
<1>2. IsFiniteSet(Rest) /\ Rest \in SUBSET Int
  <2>1. IsFiniteSet(0 .. n)
    BY FS_Interval
  <2> QED
    BY <2>1, FS_Subset
<1>3. PICK x \in Rest : \A y \in Rest : x <= y
  <2> HIDE DEF Rest
  <2> QED
    BY <1>1, <1>2, Extremes
<1>4. x \in 1 .. n
  BY <1>3
<1>5. x - 1 \notin Rest
  <2> HIDE DEF Rest
  <2> QED
    BY <1>3, <1>4
<1> QED
  BY <1>4, <1>5

----------------------------------------------------------------------------
(* Routes over a tidy topology.                                            *)

\* A route that is found is the first link from the slice of arrival on.
LEMMA RouteIs ==
    ASSUME NEW t, Tidy(t), NEW src, NEW dst, NEW at \in 0 .. slice_num(t) - 1,
           NEW r, r = earliest_direct_conn(t, src, dst, at), r # Raise, r # None
    PROVE  /\ r \in 0 .. slice_num(t) - 1 /\ {src, dst} \in EdgesIn(t, r)
           /\ \A w \in 0 .. ((r - at + slice_num(t)) % slice_num(t)) - 1 :
                 {src, dst} \notin EdgesIn(t, (at + w) % slice_num(t))
<1> DEFINE n == slice_num(t)
           At(w) == (at + w) % n
           Readable(w) == At(w) \in ValidSlices(t) /\ dst \in UNION EdgesIn(t, At(w))
           Found(w) == Readable(w) /\ {src, dst} \in EdgesIn(t, At(w))
           stop == {w \in 0 .. n - 1 : ~Readable(w) \/ Found(w)}
           first == CHOOSE w \in stop : \A v \in stop : w <= v
<1>1. n \in Nat /\ n > 0 /\ ValidSlices(t) = 0 .. n - 1
  BY TidySlices
<1>2. r = IF stop = {} THEN None ELSE IF Found(first) THEN At(first) ELSE Raise
  BY DEF earliest_direct_conn
<1>3. stop # {} /\ Found(first) /\ r = At(first)
  <2> HIDE DEF stop, Found, At, first
  <2> QED
    BY <1>2
<1>4. \E w \in stop : \A v \in stop : w <= v
  <2>1. IsFiniteSet(stop) /\ stop \in SUBSET Int
    <3>1. IsFiniteSet(0 .. n - 1) /\ 0 .. n - 1 \subseteq Int
      BY <1>1, FS_Interval
    <3>2. stop \in SUBSET (0 .. n - 1)
      OBVIOUS
    <3> HIDE DEF stop, n
    <3> QED
      BY <3>1, <3>2, FS_Subset
  <2> HIDE DEF stop
  <2> QED
    BY <1>3, <2>1, Extremes
<1>5. first \in stop /\ \A v \in stop : first <= v
  <2> HIDE DEF stop
  <2> QED
    BY <1>4
<1>6. first \in 0 .. n - 1
  BY <1>5
<1>7. r \in 0 .. n - 1 /\ {src, dst} \in EdgesIn(t, r)
  BY <1>1, <1>3
<1>8. (r - at + n) % n = first
  <2>1. at \in 0 .. n - 1
    OBVIOUS
  <2>2. r = (at + first) % n
    BY <1>3
  <2> HIDE DEF n, first
  <2>3. at + first \in 0 .. 2 * n - 1
    BY <1>1, <1>6, <2>1
  <2>a. PICK y \in 0 .. 2 * n - 1 : y = at + first
    BY <2>3
  <2>b. r = y % n
    BY <2>2, <2>a
  <2>c. r = IF y < n THEN y ELSE y - n
    BY <1>1, <2>b, ModOf
  <2>5. r - at + n \in 0 .. 2 * n - 1
    BY <1>1, <1>6, <2>1, <2>a, <2>c
  <2>6. PICK z \in 0 .. 2 * n - 1 : z = r - at + n
    BY <2>5
  <2>7. PICK m : m = z % n
    OBVIOUS
  <2>8. m = IF z < n THEN z ELSE z - n
    BY <1>1, <2>7, ModOf
  <2>9. m = first
    BY <1>1, <1>6, <2>1, <2>a, <2>c, <2>6, <2>8
  <2> QED
    BY <2>6, <2>7, <2>9
<1>9. ASSUME NEW w \in 0 .. first - 1 PROVE {src, dst} \notin EdgesIn(t, At(w))
  <2>1. w \in 0 .. n - 1 /\ ~(first <= w)
    <3> HIDE DEF n, first
    <3> QED
      BY <1>1, <1>6
  <2>2. w \notin stop
    <3> HIDE DEF stop, first
    <3> QED
      BY <1>5, <2>1
  <2> QED
    BY <2>1, <2>2
<1> QED
  BY <1>7, <1>8, <1>9

----------------------------------------------------------------------------
(* From the topology to the tables.                                        *)

\* What is left behind by each stage of a script.
Staged ==
    /\ phase \in {"topology", "routed", "entries", "ready", "raised"}
    /\ phase # "ready" => ocs_table = << >>
    /\ phase \in {"routed", "entries", "ready"} =>
          /\ routing_path = routing(topo)
          /\ \A k \in RouteKeys(topo) : routing(topo)[k] # Raise
    /\ phase \in {"entries", "ready"} => \A k \in DOMAIN routing_path : routing_path[k] # None
    /\ phase = "ready" => ocs_table \in OcsTables(topo)

LEMMA SpecStaged == Spec => []Staged
<1>1. Init => Staged
  BY DEF Init, Staged
<1>2. Staged /\ [Next]_vars => Staged'
  <2> SUFFICES ASSUME Staged, [Next]_vars PROVE Staged'
    OBVIOUS
  <2>1. CASE \E call \in ConnectCalls : Connect(call)
    BY <2>1 DEF Staged, Connect, Building
  <2>2. CASE \E a \in RoundRobins : RoundRobin(a[1], a[2])
    BY <2>2 DEF Staged, RoundRobin, Building
  <2>3. CASE \E n \in RandomSizes : TopologyRandom(n)
    BY <2>3 DEF Staged, TopologyRandom, Building
  <2>4. CASE Routing
    <3>1. CASE phase' = "routed"
      <4>1. /\ Raise \notin {routing(topo)[k] : k \in RouteKeys(topo)}
            /\ routing_path' = routing(topo) /\ UNCHANGED <<topo, ocs_table>>
            /\ phase = "topology"
        BY <2>4, <3>1 DEF Routing
      <4>2. routing(topo)' = routing(topo) /\ RouteKeys(topo)' = RouteKeys(topo)
        BY <4>1
      <4> QED
        BY <3>1, <4>1, <4>2 DEF Staged
    <3>2. CASE phase' = "raised"
      BY <2>4, <3>2 DEF Staged, Routing
    <3> QED
      BY <2>4, <3>1, <3>2 DEF Routing
  <2>5. CASE Entries
    <3>1. CASE phase' = "entries"
      BY <2>5, <3>1 DEF Staged, Entries
    <3>2. CASE phase' = "raised"
      BY <2>5, <3>2 DEF Staged, Entries
    <3> QED
      BY <2>5, <3>1, <3>2 DEF Entries
  <2>6. CASE SetupOcs
    BY <2>6 DEF Staged, SetupOcs
  <2>7. CASE UNCHANGED vars
    BY <2>7 DEF Staged, vars
  <2> QED
    BY <2>1, <2>2, <2>3, <2>4, <2>5, <2>6, <2>7 DEF Next
<1> QED
  BY <1>1, <1>2, PTL DEF Spec

\* Each route is the answer of earliest_direct_conn for its ToRs and slice.
LEMMA ReadyRoutes ==
    ASSUME Staged, phase = "ready", Tidy(topo), NEW k \in DOMAIN routing_path
    PROVE  /\ k[1] \in Nat /\ k[2] \in Nat /\ k[1] # k[2]
           /\ k[3] \in 0 .. slice_num(topo) - 1
           /\ routing_path[k] \in 0 .. slice_num(topo) - 1
           /\ Linked(topo, routing_path[k], k[1], k[2])
           /\ \A w \in 0 .. ((routing_path[k] - k[3] + slice_num(topo)) % slice_num(topo)) - 1 :
                 ~ Linked(topo, (k[3] + w) % slice_num(topo), k[1], k[2])
<1> DEFINE r == routing_path[k]
           n == slice_num(topo)
<1>1. routing_path = routing(topo) /\ DOMAIN routing(topo) = RouteKeys(topo)
  BY DEF Staged, routing
<1>2. k \in RouteKeys(topo)
  BY <1>1
<1>3. /\ k[1] \in 0 .. tor_num(topo) - 1 /\ k[2] \in 0 .. tor_num(topo) - 1
      /\ k[3] \in 0 .. n - 1 /\ k[1] # k[2]
  BY <1>2 DEF RouteKeys
<1>4. r = earliest_direct_conn(topo, k[1], k[2], k[3])
  BY <1>1, <1>2 DEF routing
<1>5. r # Raise /\ r # None
  BY <1>1, <1>2 DEF Staged
<1>6. /\ r \in 0 .. n - 1 /\ {k[1], k[2]} \in EdgesIn(topo, r)
      /\ \A w \in 0 .. ((r - k[3] + n) % n) - 1 :
            {k[1], k[2]} \notin EdgesIn(topo, (k[3] + w) % n)
  <2>1. PICK a, b : a = k[1] /\ b = k[2]
    OBVIOUS
  <2>2. PICK c \in 0 .. n - 1 : c = k[3]
    BY <1>3
  <2>3. PICK x : x = r
    OBVIOUS
  <2>4. x = earliest_direct_conn(topo, a, b, c) /\ x # Raise /\ x # None
    BY <1>4, <1>5, <2>1, <2>2, <2>3
  <2>5. /\ x \in 0 .. n - 1 /\ {a, b} \in EdgesIn(topo, x)
        /\ \A w \in 0 .. ((x - c + n) % n) - 1 : {a, b} \notin EdgesIn(topo, (c + w) % n)
    BY <2>4, RouteIs
  <2> HIDE DEF r, n
  <2> QED
    BY <2>1, <2>2, <2>3, <2>5
<1>7. /\ n = Len(topo) /\ n \in Nat /\ DOMAIN topo = 1 .. n
      /\ \A s \in 0 .. n - 1 : EdgesIn(topo, s) = topo[s + 1].edges /\ s + 1 \in DOMAIN topo
  BY TidySlices
<1> HIDE DEF r, n
<1>8. Linked(topo, r, k[1], k[2])
  BY <1>3, <1>6, <1>7 DEF Linked
<1>9. ASSUME NEW w \in 0 .. ((r - k[3] + n) % n) - 1
      PROVE  ~ Linked(topo, (k[3] + w) % n, k[1], k[2])
  <2>1. (r - k[3] + n) % n \in 0 .. n - 1
    BY <1>3, <1>6, <1>7
  <2>2. k[3] + w \in Nat /\ n > 0
    BY <1>3, <1>7, <2>1
  <2>3. (k[3] + w) % n \in 0 .. n - 1
    BY <1>7, <2>2
  <2> QED
    BY <1>6, <1>7, <2>3 DEF Linked
<1>10. k[1] \in Nat /\ k[2] \in Nat
  BY <1>3
<1> QED
  BY <1>3, <1>6, <1>8, <1>9, <1>10 DEF r, n

\* Whatever calls made it, over a tidy topology every route meets its link in
\* the slice it names: the two numberings agree.
THEOREM TidyRoutesMeet == Spec => [](Tidy(topo) => RoutesMeetTheirLink)
<1>1. Staged => (Tidy(topo) => RoutesMeetTheirLink)
  <2> SUFFICES ASSUME Staged, Tidy(topo), phase = "ready", NEW k \in DOMAIN routing_path
               PROVE  LET key == <<k[1] + 1, routing_path[k]>>
                      IN  key \in DOMAIN ocs_table /\ ocs_table[key] = k[2] + 1
    BY DEF RoutesMeetTheirLink
  <2>1. ocs_table \in OcsTables(topo)
    BY DEF Staged
  <2>2. /\ k[1] \in Nat /\ k[2] \in Nat /\ routing_path[k] \in Nat
        /\ Linked(topo, routing_path[k], k[1], k[2])
    BY ReadyRoutes
  <2> QED
    BY <2>1, <2>2, TableIs
<1> QED
  BY <1>1, SpecStaged, PTL

\* Nor does a route wait longer than it has to: the table has no link between
\* the two ToRs in any slice it lets pass.
THEOREM TidyRoutesLoseNoTime == Spec => [](Tidy(topo) => RoutesLoseNoTime)
<1>1. Staged => (Tidy(topo) => RoutesLoseNoTime)
  <2> DEFINE n == slice_num(topo)
  <2> SUFFICES ASSUME Staged, Tidy(topo), phase = "ready", NEW k \in DOMAIN routing_path,
                      NEW w \in 0 .. ((routing_path[k] - k[3] + n) % n) - 1,
                      <<k[1] + 1, (k[3] + w) % n>> \in DOMAIN ocs_table,
                      ocs_table[<<k[1] + 1, (k[3] + w) % n>>] = k[2] + 1
               PROVE  FALSE
    BY DEF RoutesLoseNoTime
  <2>1. ocs_table \in OcsTables(topo)
    BY DEF Staged
  <2>2. k[1] \in Nat /\ k[2] \in Nat /\ ~ Linked(topo, (k[3] + w) % n, k[1], k[2])
    BY ReadyRoutes
  <2> HIDE DEF n
  <2>3. PICK a, b, s \in Nat :
           /\ Linked(topo, s, a, b) /\ <<k[1] + 1, (k[3] + w) % n>> = <<a + 1, s>>
           /\ ocs_table[<<k[1] + 1, (k[3] + w) % n>>] = b + 1
    BY <2>1, TableIs
  <2>4. s = (k[3] + w) % n /\ k[1] + 1 = a + 1 /\ k[2] + 1 = b + 1
    BY <2>3
  <2>5. k[1] = a /\ k[2] = b
    BY <2>2, <2>3, <2>4
  <2> QED
    BY <2>2, <2>3, <2>4, <2>5
<1> QED
  BY <1>1, SpecStaged, PTL

\* The optical switch then connects its ports in pairs.
THEOREM TidyIsMatching == Spec => [](Tidy(topo) => OcsIsMatching)
<1>1. Staged => (Tidy(topo) => OcsIsMatching)
  <2> SUFFICES ASSUME Staged, Tidy(topo), NEW k \in DOMAIN ocs_table
               PROVE  <<ocs_table[k], k[2]>> \in DOMAIN ocs_table
                        /\ ocs_table[<<ocs_table[k], k[2]>>] = k[1]
    BY DEF OcsIsMatching
  <2>1. phase = "ready" /\ ocs_table \in OcsTables(topo)
    <3>1. DOMAIN << >> = {}
      OBVIOUS
    <3> QED
      BY <3>1 DEF Staged
  <2>2. PICK a, b, s \in Nat :
           Linked(topo, s, a, b) /\ k = <<a + 1, s>> /\ ocs_table[k] = b + 1
    BY <2>1, TableIs
  <2>3. Linked(topo, s, b, a)
    BY <2>2, LinkedBack
  <2>4. <<b + 1, s>> \in DOMAIN ocs_table /\ ocs_table[<<b + 1, s>>] = a + 1
    BY <2>1, <2>3, TableIs
  <2>5. k[1] = a + 1 /\ k[2] = s
    BY <2>2
  <2> QED
    BY <2>2, <2>4, <2>5
<1> QED
  BY <1>1, SpecStaged, PTL


----------------------------------------------------------------------------
(* What the topology is after a script of one call.                        *)

ScriptCalls ==
    {<<"connect">>} \cup {<<"round_robin", a[1], a[2]>> : a \in RoundRobins}
                    \cup {<<"topology_random", n>> : n \in RandomSizes}

\* The script that has made one call, and did not raise, has its result.
OneCall ==
    /\ made \in Seq(ScriptCalls)
    /\ made = << >> => topo = << >>
    /\ phase # "raised" =>
          /\ \A n : made = <<<<"topology_random", n>>>> => topo \in RandomTopologies(n)
          /\ \A n, p : made = <<<<"round_robin", n, p>>>> =>
                /\ RoundRobinAccepts(n, p) /\ num_hosts = n
                /\ topo = ConnectAll(<< >>, RoundRobinCalls(n, p))

\* A sequence of one call is its last one.
LEMMA OneAppended ==
    ASSUME NEW S, NEW s \in Seq(S), NEW x \in S, NEW y, Append(s, x) = <<y>>
    PROVE  s = << >> /\ x = y
<1>a. Len(s) \in Nat /\ Len(Append(s, x)) = Len(s) + 1
  OBVIOUS
<1>b. Append(s, x)[Len(s) + 1] = x
  BY AppendProperties
<1>1. Len(Append(s, x)) = Len(s) + 1 /\ Append(s, x)[Len(s) + 1] = x
  BY <1>a, <1>b
<1>2. Len(<<y>>) = 1 /\ <<y>>[1] = y
  OBVIOUS
<1>3. Len(s) = 0
  BY <1>1, <1>2
<1> QED
  BY <1>1, <1>2, <1>3

\* OneCall holds throughout the script.
LEMMA SpecOneCall == Spec => []OneCall
<1>1. Init => OneCall
  <2> SUFFICES ASSUME Init PROVE OneCall
    OBVIOUS
  <2>1. made = << >> /\ topo = << >> /\ made \in Seq(ScriptCalls)
    BY DEF Init
  <2>2. \A x : << >> # <<x>>
    OBVIOUS
  <2> QED
    BY <2>1, <2>2 DEF OneCall
<1>2. OneCall /\ [Next]_vars => OneCall'
  <2> SUFFICES ASSUME OneCall, [Next]_vars PROVE OneCall'
    OBVIOUS
  <2>0. made \in Seq(ScriptCalls)
    BY DEF OneCall
  <2>1. ASSUME NEW call \in ConnectCalls, Connect(call) PROVE OneCall'
    <3>1. made' = Append(made, <<"connect">>) /\ <<"connect">> \in ScriptCalls
      BY <2>1 DEF Connect, ScriptCalls
    <3>2. made' \in Seq(ScriptCalls) /\ made' # << >>
      BY <2>0, <3>1
    <3>3. \A y : made' = <<y>> => y = <<"connect">>
      BY <2>0, <3>1, OneAppended
    <3>4. \A n : <<"topology_random", n>> # <<"connect">>
      OBVIOUS
    <3>5. \A n, p : <<"round_robin", n, p>> # <<"connect">>
      OBVIOUS
    <3> QED
      BY <3>2, <3>3, <3>4, <3>5 DEF OneCall
  <2>2. ASSUME NEW a \in RoundRobins, RoundRobin(a[1], a[2]) PROVE OneCall'
    <3> DEFINE c == <<"round_robin", a[1], a[2]>>
    <3>1. made' = Append(made, c) /\ c \in ScriptCalls
      BY <2>2 DEF RoundRobin, ScriptCalls
    <3>2. made' \in Seq(ScriptCalls) /\ made' # << >>
      BY <2>0, <3>1
    <3>3. \A y : made' = <<y>> => made = << >> /\ y = c
      BY <2>0, <3>1, OneAppended
    <3>4. \A n : <<"topology_random", n>> # c
      OBVIOUS
    <3>5. \A n, p : <<"round_robin", n, p>> = c => n = a[1] /\ p = a[2]
      OBVIOUS
    <3>6. made = << >> /\ phase' # "raised" =>
            /\ RoundRobinAccepts(a[1], a[2]) /\ num_hosts' = a[1]
            /\ topo' = ConnectAll(<< >>, RoundRobinCalls(a[1], a[2]))
      BY <2>2 DEF RoundRobin, OneCall
    <3> HIDE DEF c
    <3>7. ASSUME NEW n, NEW p, phase' # "raised", made' = <<<<"round_robin", n, p>>>>
          PROVE  /\ RoundRobinAccepts(n, p) /\ num_hosts' = n
                 /\ topo' = ConnectAll(<< >>, RoundRobinCalls(n, p))
      <4>1. made = << >> /\ n = a[1] /\ p = a[2]
        BY <3>3, <3>5, <3>7
      <4> QED
        BY <3>6, <3>7, <4>1
    <3> QED
      BY <3>2, <3>3, <3>4, <3>7 DEF OneCall
  <2>3. ASSUME NEW m \in RandomSizes, TopologyRandom(m) PROVE OneCall'
    <3> DEFINE c == <<"topology_random", m>>
    <3>1. made' = Append(made, c) /\ c \in ScriptCalls
      BY <2>3 DEF TopologyRandom, ScriptCalls
    <3>2. made' \in Seq(ScriptCalls) /\ made' # << >>
      BY <2>0, <3>1
    <3>3. \A y : made' = <<y>> => made = << >> /\ y = c
      BY <2>0, <3>1, OneAppended
    <3>4. \A n : <<"topology_random", n>> = c => n = m
      OBVIOUS
    <3>5. \A n, p : <<"round_robin", n, p>> # c
      OBVIOUS
    <3>6. phase' # "raised" => topo' \in RandomTopologies(m)
      BY <2>3 DEF TopologyRandom
    <3> HIDE DEF c
    <3> QED
      BY <3>2, <3>3, <3>4, <3>5, <3>6 DEF OneCall
  <2>4. CASE Routing
    BY <2>4 DEF OneCall, Routing
  <2>5. CASE Entries
    <3>1. phase # "raised" /\ UNCHANGED <<made, topo, num_hosts>>
      BY <2>5 DEF Entries
    <3> QED
      BY <3>1 DEF OneCall
  <2>6. CASE SetupOcs
    BY <2>6 DEF OneCall, SetupOcs
  <2>7. CASE UNCHANGED vars
    BY <2>7 DEF OneCall, vars
  <2> QED
    BY <2>1, <2>2, <2>3, <2>4, <2>5, <2>6, <2>7 DEF Next
<1> QED
  BY <1>1, <1>2, PTL DEF Spec

----------------------------------------------------------------------------
(* Random topologies.                                                      *)

\* A set of one is the singleton of any element of it.
LEMMA OneElement ==
    ASSUME NEW S, Cardinality(S) = 1, IsFiniteSet(S), NEW x \in S PROVE S = {x}
<1>1. IsFiniteSet(S \ {x}) /\ Cardinality(S \ {x}) = 0
  BY FS_RemoveElement
<1>2. S \ {x} = {}
  BY <1>1, FS_EmptySet
<1> QED
  BY <1>2

\* A perfect matching: edges join two ToRs, and none shares a ToR.
LEMMA MatchingIs ==
    ASSUME NEW n \in Nat, NEW m \in Matchings(0 .. n - 1)
    PROVE  /\ m \in SUBSET (SUBSET Nat)
           /\ \A e \in m : \E a, b \in Nat : a # b /\ e = {a, b}
           /\ \A e, f \in m : e \cap f # {} => e = f
<1> DEFINE T == 0 .. n - 1
<1>1. /\ m \subseteq SUBSET T /\ \A e \in m : Cardinality(e) = 2
      /\ \A t \in T : Cardinality({e \in m : t \in e}) = 1
  BY DEF Matchings
<1>2. IsFiniteSet(T) /\ T \subseteq Nat
  BY FS_Interval
<1> HIDE DEF T
<1>3. ASSUME NEW e \in m PROVE \E a, b \in Nat : a # b /\ e = {a, b}
  <2>1. IsFiniteSet(e) /\ e \subseteq Nat /\ Cardinality(e) = 2
    BY <1>1, <1>2, FS_Subset
  <2>2. e # {}
    BY <2>1, FS_EmptySet
  <2>3. PICK a \in e : TRUE
    BY <2>2
  <2>4. IsFiniteSet(e \ {a}) /\ Cardinality(e \ {a}) = 1
    BY <2>1, <2>3, FS_RemoveElement
  <2>5. e \ {a} # {}
    BY <2>4, FS_EmptySet
  <2>6. PICK b \in e \ {a} : TRUE
    BY <2>5
  <2>7. e \ {a} = {b}
    BY <2>4, <2>6, OneElement
  <2>8. a \in Nat /\ b \in Nat /\ a # b /\ e = {a, b}
    BY <2>1, <2>3, <2>6, <2>7
  <2> QED
    BY <2>8
<1>4. ASSUME NEW e \in m, NEW f \in m, e \cap f # {} PROVE e = f
  <2>1. PICK t \in T : t \in e /\ t \in f
    BY <1>1, <1>4
  <2> DEFINE S == {g \in m : t \in g}
  <2>2. Cardinality(S) = 1 /\ e \in S /\ f \in S
    BY <1>1, <2>1
  <2>3. IsFiniteSet(S)
    <3>1. IsFiniteSet(SUBSET T)
      BY <1>2, FS_SUBSET
    <3>2. S \subseteq SUBSET T
      BY <1>1
    <3> QED
      BY <3>1, <3>2, FS_Subset
  <2> HIDE DEF S
  <2>4. S = {e}
    BY <2>2, <2>3, OneElement
  <2> QED
    BY <2>2, <2>4
<1>5. m \in SUBSET (SUBSET Nat)
  BY <1>1, <1>2
<1> QED
  BY <1>3, <1>4, <1>5

\* topology_random() makes a tidy topology, whatever it draws.
LEMMA RandomsAreTidy ==
    ASSUME NEW n \in Nat, NEW t \in RandomTopologies(n) PROVE Tidy(t)
<1>1. PICK m \in [1 .. n -> Matchings(0 .. n - 1)] :
         t = [i \in 1 .. n |-> [slice |-> i - 1, edges |-> m[i]]]
  BY DEF RandomTopologies
<1>2. DOMAIN t = 1 .. n /\ \A i \in 1 .. n : t[i].slice = i - 1 /\ t[i].edges = m[i]
  BY <1>1
<1>3. \A i \in 1 .. n : m[i] \in Matchings(0 .. n - 1)
  BY <1>1
<1>4. \A i \in 1 .. n : [slice |-> i - 1, edges |-> m[i]] \in Entry
  BY <1>3, MatchingIs DEF Entry
<1>5. t \in Seq(Entry)
  <2>1. t \in [1 .. n -> Entry]
    BY <1>1, <1>4
  <2> QED
    BY <2>1
<1>6. ASSUME NEW i \in 1 .. n
      PROVE  /\ \A e \in t[i].edges : \E a, b \in Nat : a # b /\ e = {a, b}
             /\ \A e, f \in t[i].edges : e \cap f # {} => e = f
  <2>1. PICK g : g = t[i].edges
    OBVIOUS
  <2>2. g \in Matchings(0 .. n - 1)
    BY <1>2, <1>3, <2>1
  <2>3. /\ \A e \in g : \E a, b \in Nat : a # b /\ e = {a, b}
        /\ \A e, f \in g : e \cap f # {} => e = f
    BY <2>2, MatchingIs
  <2> QED
    BY <2>1, <2>3
<1> QED
  BY <1>2, <1>5, <1>6 DEF Tidy

----------------------------------------------------------------------------
(* One connect() after the other.                                          *)

\* g gives, for each set of positions of the calls, what they make of t.
Iterates(g, t, calls, D) ==
    g = [s \in SUBSET D |->
            IF s = {} THEN t ELSE connect(g[s \ {Max(s)}], calls[Max(s)])]

\* The greatest of some numbers.
LEMMA MaxIs ==
    ASSUME NEW S, NEW k \in S, \A y \in S : k >= y, S \subseteq Int PROVE Max(S) = k
<1>1. Max(S) \in S /\ \A y \in S : Max(S) >= y
  BY DEF Max
<1>2. PICK x \in Int : x = Max(S)
  BY <1>1
<1>3. k \in Int /\ x >= k /\ k >= x
  BY <1>1, <1>2
<1> QED
  BY <1>2, <1>3

\* For every number of positions there is such a g.
LEMMA IteratesExist ==
    ASSUME NEW t, NEW calls, NEW n \in Nat
    PROVE  \E g : Iterates(g, t, calls, 1 .. n)
<1> DEFINE Q == {k \in 0 .. n : \E g : Iterates(g, t, calls, 1 .. k)}
<1>1. 0 \in Q
  <2> DEFINE g == [s \in SUBSET (1 .. 0) |-> t]
  <2>1. \A s \in SUBSET (1 .. 0) : s = {}
    OBVIOUS
  <2>2. Iterates(g, t, calls, 1 .. 0)
    BY <2>1 DEF Iterates
  <2> QED
    BY <2>2
<1>2. ASSUME NEW k \in 1 .. n, k - 1 \in Q PROVE k \in Q
  <2>1. PICK g : Iterates(g, t, calls, 1 .. k - 1)
    BY <1>2
  <2> DEFINE h == [s \in SUBSET (1 .. k) |->
                      IF k \in s THEN connect(g[s \ {k}], calls[k]) ELSE g[s]]
             Next1(f, s) == IF s = {} THEN t ELSE connect(f[s \ {Max(s)}], calls[Max(s)])
  <2>2. \A s \in SUBSET (1 .. k - 1) : g[s] = Next1(g, s)
    BY <2>1 DEF Iterates
  <2>3. \A s \in SUBSET (1 .. k) : s \ {k} \in SUBSET (1 .. k - 1)
    OBVIOUS
  <2>4. \A s \in SUBSET (1 .. k) : k \notin s => s \in SUBSET (1 .. k - 1)
    OBVIOUS
  <2>5. \A s \in SUBSET (1 .. k) : h[s] = IF k \in s THEN connect(g[s \ {k}], calls[k]) ELSE g[s]
    OBVIOUS
  <2>6. \A s \in SUBSET (1 .. k) : s \ {k} \in SUBSET (1 .. k) /\ k \notin s \ {k}
    OBVIOUS
  <2>7. DOMAIN h = SUBSET (1 .. k) /\ h = [s \in DOMAIN h |-> h[s]]
    OBVIOUS
  <2> HIDE DEF h
  <2>8. ASSUME NEW s \in SUBSET (1 .. k) PROVE h[s] = Next1(h, s)
    <3>1. CASE k \in s
      <4>1. Max(s) = k
        <5>1. k \in s /\ (\A y \in s : k >= y) /\ s \subseteq Int
          BY <3>1
        <5> HIDE DEF Q
        <5> QED
          BY <5>1, MaxIs
      <4>2. h[s \ {k}] = g[s \ {k}]
        BY <2>5, <2>6
      <4> QED
        BY <2>5, <3>1, <4>1, <4>2
    <3>2. CASE k \notin s /\ s # {}
      <4>0. IsFiniteSet(s) /\ s \in SUBSET Int
        <5>1. IsFiniteSet(1 .. k)
          BY FS_Interval
        <5>2. s \subseteq 1 .. k /\ s \in SUBSET Int
          OBVIOUS
        <5> HIDE DEF Q
        <5> QED
          BY <5>1, <5>2, FS_Subset
      <4>1. PICK x \in s : \A y \in s : x >= y
        BY <3>2, <4>0, Extremes
      <4>2. Max(s) = x
        BY <4>0, <4>1, MaxIs
      <4>3. s \ {x} \in SUBSET (1 .. k) /\ k \notin s \ {x}
        BY <3>2
      <4>4. h[s \ {x}] = g[s \ {x}]
        BY <2>5, <4>3
      <4>5. h[s] = g[s] /\ g[s] = Next1(g, s)
        BY <2>2, <2>4, <2>5, <3>2
      <4> QED
        BY <3>2, <4>2, <4>4, <4>5
    <3>3. CASE s = {}
      BY <2>2, <2>4, <2>5, <3>3
    <3> QED
      BY <3>1, <3>2, <3>3
  <2>9. Iterates(h, t, calls, 1 .. k)
    BY <2>7, <2>8 DEF Iterates
  <2> QED
    BY <2>9
<1>3. 0 .. n \subseteq Q
  <2> HIDE DEF Q
  <2> QED
    BY <1>1, <1>2, UpTo
<1> QED
  BY <1>3

\* f[i] is what the first i calls make of t.
Steps(f, t, calls) ==
    f[0] = t /\ \A i \in 1 .. Len(calls) : f[i] = connect(f[i - 1], calls[i])

\* ConnectAll is the end of such steps, of all there may be.
LEMMA ConnectAllIs ==
    ASSUME NEW S, NEW calls \in Seq(S), NEW t
    PROVE  /\ \E f : Steps(f, t, calls)
           /\ \A f : Steps(f, t, calls) => ConnectAll(t, calls) = f[Len(calls)]
<1> DEFINE D == 1 .. Len(calls)
           g == CHOOSE g : Iterates(g, t, calls, D)
           F == [i \in 0 .. Len(calls) |-> g[1 .. i]]
<1>1. ConnectAll(t, calls) = g[D]
  <2>1. DOMAIN calls = D
    OBVIOUS
  <2> QED
    BY <2>1 DEF ConnectAll, FoldLeft, MapThenFoldSet, Iterates
<1>2. Iterates(g, t, calls, D)
  <2>1. Len(calls) \in Nat
    OBVIOUS
  <2>2. \E f : Iterates(f, t, calls, D)
    BY <2>1, IteratesExist
  <2> QED
    BY <2>2
<1>3. F[0] = t
  <2>1. 1 .. 0 = {} /\ 0 \in 0 .. Len(calls)
    OBVIOUS
  <2>2. g[{}] = t
    BY <1>2 DEF Iterates
  <2> QED
    BY <2>1, <2>2
<1>4. ASSUME NEW i \in 1 .. Len(calls) PROVE F[i] = connect(F[i - 1], calls[i])
  <2>1. Max(1 .. i) = i
    <3>1. i \in 1 .. i /\ (\A y \in 1 .. i : i >= y) /\ 1 .. i \subseteq Int
      OBVIOUS
    <3> QED
      BY <3>1, MaxIs
  <2>2. (1 .. i) \ {i} = 1 .. i - 1 /\ 1 .. i # {} /\ 1 .. i \in SUBSET D
    OBVIOUS
  <2>3. g[1 .. i] = connect(g[1 .. i - 1], calls[i])
    <3> HIDE DEF g, D
    <3> QED
      BY <1>2, <2>1, <2>2 DEF Iterates
  <2>4. i \in 0 .. Len(calls) /\ i - 1 \in 0 .. Len(calls)
    OBVIOUS
  <2> QED
    BY <2>3, <2>4
<1>5. Steps(F, t, calls) /\ ConnectAll(t, calls) = F[Len(calls)]
  <2>1. Len(calls) \in 0 .. Len(calls)
    OBVIOUS
  <2> QED
    BY <1>1, <1>3, <1>4, <2>1 DEF Steps
<1>6. ASSUME NEW f, Steps(f, t, calls) PROVE f[Len(calls)] = F[Len(calls)]
  <2> DEFINE Q == {i \in 0 .. Len(calls) : f[i] = F[i]}
  <2> HIDE DEF F
  <2>1. 0 \in Q
    BY <1>5, <1>6 DEF Steps
  <2>2. ASSUME NEW i \in 1 .. Len(calls), i - 1 \in Q PROVE i \in Q
    BY <1>5, <1>6, <2>2 DEF Steps
  <2>3. 0 .. Len(calls) \subseteq Q
    <3>1. Len(calls) \in Nat
      OBVIOUS
    <3> HIDE DEF Q
    <3> QED
      BY <2>1, <2>2, <3>1, UpTo
  <2>4. Len(calls) \in 0 .. Len(calls)
    OBVIOUS
  <2> QED
    BY <2>3, <2>4
<1> HIDE DEF F, g
<1> QED
  BY <1>5, <1>6

\* The calls of two sequences, one after the other.
LEMMA ConnectAllConcat ==
    ASSUME NEW S, NEW a \in Seq(S), NEW b \in Seq(S), NEW t
    PROVE  ConnectAll(t, a \o b) = ConnectAll(ConnectAll(t, a), b)
<1>1. PICK f : Steps(f, t, a)
  BY ConnectAllIs
<1>2. PICK u : u = ConnectAll(t, a) /\ u = f[Len(a)]
  BY <1>1, ConnectAllIs
<1>3. PICK g : Steps(g, u, b)
  BY ConnectAllIs
<1>4. ConnectAll(u, b) = g[Len(b)]
  BY <1>3, ConnectAllIs
<1> DEFINE h == [i \in 0 .. Len(a) + Len(b) |->
                    IF i <= Len(a) THEN f[i] ELSE g[i - Len(a)]]
<1>5. PICK c \in Seq(S) : c = a \o b
  BY ConcatProperties
<1>6. /\ Len(c) = Len(a) + Len(b)
      /\ \A i \in 1 .. Len(a) + Len(b) : c[i] = IF i <= Len(a) THEN a[i] ELSE b[i - Len(a)]
  BY <1>5, ConcatProperties
<1>7. PICK la \in Nat : la = Len(a)
  OBVIOUS
<1>8. PICK lb \in Nat : lb = Len(b)
  OBVIOUS
<1>9. Steps(h, t, c) /\ h[la + lb] = g[lb]
  <2>1. /\ f[0] = t /\ f[la] = u /\ \A i \in 1 .. la : f[i] = connect(f[i - 1], a[i])
        /\ g[0] = u /\ \A i \in 1 .. lb : g[i] = connect(g[i - 1], b[i])
    BY <1>1, <1>2, <1>3, <1>7, <1>8 DEF Steps
  <2>2. /\ Len(c) = la + lb
        /\ \A i \in 1 .. la + lb : c[i] = IF i <= la THEN a[i] ELSE b[i - la]
    BY <1>6, <1>7, <1>8
  <2>3. \A i \in 0 .. la + lb : h[i] = IF i <= la THEN f[i] ELSE g[i - la]
    BY <1>7, <1>8
  <2> HIDE DEF h
  <2>4. h[0] = t
    BY <2>1, <2>3
  <2>5. ASSUME NEW i \in 1 .. la + lb PROVE h[i] = connect(h[i - 1], c[i])
    <3>1. CASE i <= la
      <4>1. i \in 1 .. la /\ i - 1 <= la /\ i - 1 \in 0 .. la + lb /\ i \in 0 .. la + lb
        BY <3>1
      <4> QED
        BY <2>1, <2>2, <2>3, <3>1, <4>1
    <3>2. CASE i = la + 1
      <4>1. h[i - 1] = f[la] /\ c[i] = b[1] /\ h[i] = g[1] /\ 1 \in 1 .. lb
        BY <2>2, <2>3, <3>2
      <4>2. g[1] = connect(g[0], b[1])
        BY <2>1, <4>1
      <4> QED
        BY <2>1, <4>1, <4>2
    <3>3. CASE i > la + 1
      <4>1. PICK j \in 2 .. lb : i = la + j
        <5>1. i - la \in 2 .. lb /\ i = la + (i - la)
          BY <3>3
        <5> QED
          BY <5>1
      <4>2. h[i] = g[j] /\ c[i] = b[j]
        BY <2>2, <2>3, <4>1
      <4>3. h[i - 1] = g[j - 1]
        <5>1. i - 1 \in 0 .. la + lb /\ ~(i - 1 <= la) /\ (i - 1) - la = j - 1
          BY <4>1
        <5> QED
          BY <2>3, <5>1
      <4>4. g[j] = connect(g[j - 1], b[j])
        BY <2>1, <4>1
      <4> QED
        BY <4>2, <4>3, <4>4
    <3> QED
      BY <3>1, <3>2, <3>3
  <2>6. h[la + lb] = g[lb]
    <3>1. CASE lb = 0
      BY <2>1, <2>3, <3>1
    <3>2. CASE lb > 0
      BY <2>3, <3>2
    <3> QED
      BY <3>1, <3>2
  <2> QED
    BY <2>2, <2>4, <2>5, <2>6 DEF Steps
<1>10. ConnectAll(t, c) = h[Len(c)]
  <2> HIDE DEF h
  <2> QED
    BY <1>9, ConnectAllIs
<1> HIDE DEF h
<1> QED
  BY <1>2, <1>4, <1>5, <1>6, <1>7, <1>8, <1>9, <1>10

----------------------------------------------------------------------------
(* What a few kinds of calls make of a topology.                           *)

Calls == [tor1 : Nat, tor2 : Nat, slice : Nat]

\* Calls of a ToR with itself make nothing.
LEMMA SelfCalls ==
    ASSUME NEW t, NEW calls \in Seq(Calls),
           \A j \in 1 .. Len(calls) : calls[j].tor1 = calls[j].tor2
    PROVE  ConnectAll(t, calls) = t
<1> DEFINE f == [i \in 0 .. Len(calls) |-> t]
<1>1. Len(calls) \in Nat
  OBVIOUS
<1>2. Steps(f, t, calls)
  <2>1. \A i \in 1 .. Len(calls) : connect(t, calls[i]) = t
    BY DEF connect
  <2> QED
    BY <1>1, <2>1 DEF Steps
<1>3. f[Len(calls)] = t
  BY <1>1
<1> HIDE DEF f
<1> QED
  BY <1>2, <1>3, ConnectAllIs

\* A call for the slice made last adds an edge to it.
LEMMA ConnectLast ==
    ASSUME NEW t \in Seq(Entry), NEW e \in Entry, \A i \in DOMAIN t : t[i].slice # e.slice,
           NEW call \in Calls, call.slice = e.slice, call.tor1 # call.tor2
    PROVE  connect(Append(t, e), call) =
             Append(t, [slice |-> e.slice, edges |-> e.edges \cup {{call.tor1, call.tor2}}])
<1> DEFINE edge == {call.tor1, call.tor2}
           d == [slice |-> e.slice, edges |-> e.edges \cup {edge}]
<1>1. d \in Entry
  BY DEF Entry, Calls
<1>2. PICK n \in Nat : n = Len(t) /\ DOMAIN t = 1 .. n
  BY LenProperties
<1>3. PICK u : u = Append(t, e)
  OBVIOUS
<1>4. PICK v : v = Append(t, d)
  OBVIOUS
<1>5. /\ u \in Seq(Entry) /\ Len(u) = n + 1 /\ DOMAIN u = 1 .. n + 1
      /\ \A i \in 1 .. n : u[i] = t[i]
      /\ u[n + 1] = e
  <2>1. u \in Seq(Entry) /\ Len(u) = n + 1
    BY <1>2, <1>3, AppendProperties
  <2>2. (\A i \in 1 .. n : u[i] = t[i]) /\ u[n + 1] = e
    BY <1>2, <1>3, AppendProperties
  <2> QED
    BY <2>1, <2>2, LenProperties
<1>6. /\ v \in Seq(Entry) /\ v \in [1 .. n + 1 -> Entry]
      /\ \A i \in 1 .. n : v[i] = t[i]
      /\ v[n + 1] = d
  <2>1. v \in Seq(Entry) /\ Len(v) = n + 1
    BY <1>1, <1>2, <1>4, AppendProperties
  <2>2. (\A i \in 1 .. n : v[i] = t[i]) /\ v[n + 1] = d
    <3> HIDE DEF d
    <3> QED
      BY <1>1, <1>2, <1>4, AppendProperties
  <2> HIDE DEF d
  <2> QED
    BY <2>1, <2>2, LenProperties
<1>7. e.slice \in ValidSlices(u)
  BY <1>5 DEF ValidSlices
<1> DEFINE w == [i \in 1 .. n + 1 |->
                    IF u[i].slice = e.slice THEN [u[i] EXCEPT !.edges = @ \cup {edge}] ELSE u[i]]
<1>8. connect(u, call) = w
  BY <1>5, <1>7 DEF connect
<1>9. \A i \in 1 .. n + 1 : w[i] = v[i]
  <2>1. ASSUME NEW i \in 1 .. n PROVE w[i] = v[i]
    <3>1. u[i] = t[i] /\ t[i].slice # e.slice /\ i \in 1 .. n + 1
      BY <1>2, <1>5
    <3>2. w[i] = t[i]
      BY <3>1
    <3> HIDE DEF w
    <3> QED
      BY <1>6, <3>2
  <2>2. w[n + 1] = v[n + 1]
    <3>1. w[n + 1] = [e EXCEPT !.edges = @ \cup {edge}]
      <4>1. n + 1 \in 1 .. n + 1
        OBVIOUS
      <4>2. w[n + 1] = IF u[n + 1].slice = e.slice
                         THEN [u[n + 1] EXCEPT !.edges = @ \cup {edge}] ELSE u[n + 1]
        BY <4>1, Zenon
      <4>3. u[n + 1] = e
        BY <1>5
      <4> HIDE DEF w, edge
      <4> QED
        BY <4>2, <4>3, Zenon
    <3>2. [e EXCEPT !.edges = @ \cup {edge}] = d
      <4>1. ASSUME NEW x \in Entry, NEW z
            PROVE  [x EXCEPT !.edges = z] = [slice |-> x.slice, edges |-> z]
        BY DEF Entry
      <4>2. [e EXCEPT !.edges = e.edges \cup {edge}] = d
        BY <4>1
      <4> QED
        BY <4>2
    <3> HIDE DEF w, d
    <3> QED
      BY <1>6, <3>1, <3>2
  <2> HIDE DEF w
  <2> QED
    BY <2>1, <2>2
<1>10. w = v
  <2>1. v = [i \in 1 .. n + 1 |-> v[i]]
    BY <1>6
  <2> QED
    BY <1>9, <2>1
<1> QED
  BY <1>3, <1>4, <1>8, <1>10

\* Calls for one slice, that the topology does not have yet, make that slice.
LEMMA SliceCalls ==
    ASSUME NEW t \in Seq(Entry), NEW k \in Nat, \A i \in DOMAIN t : t[i].slice # k,
           NEW calls \in Seq(Calls), Len(calls) > 0,
           \A j \in 1 .. Len(calls) : calls[j].slice = k /\ calls[j].tor1 # calls[j].tor2
    PROVE  ConnectAll(t, calls) =
             Append(t, [slice |-> k,
                        edges |-> {{calls[j].tor1, calls[j].tor2} : j \in 1 .. Len(calls)}])
<1> DEFINE E(i) == [slice |-> k, edges |-> {{calls[j].tor1, calls[j].tor2} : j \in 1 .. i}]
           f == [i \in 0 .. Len(calls) |-> IF i = 0 THEN t ELSE Append(t, E(i))]
<1>1. PICK n \in Nat : n = Len(calls) /\ n > 0
  OBVIOUS
<1>2. \A j \in 1 .. n : calls[j] \in Calls
  BY <1>1, ElementOfSeq
<1>3. ASSUME NEW i \in 1 .. n PROVE E(i) \in Entry
  <2>1. ASSUME NEW j \in 1 .. i PROVE {calls[j].tor1, calls[j].tor2} \in SUBSET Nat
    <3>1. calls[j] \in Calls
      BY <1>2
    <3> QED
      BY <3>1 DEF Calls
  <2>2. {{calls[j].tor1, calls[j].tor2} : j \in 1 .. i} \in SUBSET SUBSET Nat
    BY <2>1
  <2> QED
    BY <2>2 DEF Entry
<1>4. f[0] = t
  BY <1>1
<1>5. ASSUME NEW i \in 1 .. n PROVE f[i] = connect(f[i - 1], calls[i])
  <2> DEFINE edge == {calls[i].tor1, calls[i].tor2}
  <2>1. calls[i] \in Calls /\ calls[i].slice = k /\ calls[i].tor1 # calls[i].tor2
    BY <1>1, <1>2
  <2>2. f[i] = Append(t, E(i))
    BY <1>1
  <2>3. CASE i = 1
    <3>1. f[i - 1] = t
      BY <1>1, <2>3
    <3>2. k \notin ValidSlices(t)
      BY DEF ValidSlices
    <3>3. connect(t, calls[i]) = Append(t, [slice |-> k, edges |-> {edge}])
      BY <2>1, <3>2 DEF connect
    <3>4. {{calls[j].tor1, calls[j].tor2} : j \in 1 .. i} = {edge}
      <4>1. 1 .. i = {i}
        BY <2>3
      <4> QED
        BY <4>1
    <3> HIDE DEF f
    <3> QED
      BY <2>2, <3>1, <3>3, <3>4
  <2>4. CASE i > 1
    <3>1. i - 1 \in 1 .. n /\ i - 1 \in 0 .. n /\ i - 1 # 0
      BY <2>4
    <3>2. f[i - 1] = Append(t, E(i - 1))
      BY <1>1, <3>1
    <3>3. E(i - 1) \in Entry
      BY <1>3, <3>1
    <3>4. PICK e \in Entry : e = E(i - 1)
      BY <3>3
    <3>5. e.slice = k /\ e.edges = {{calls[j].tor1, calls[j].tor2} : j \in 1 .. i - 1}
      BY <3>4
    <3>6. e.edges \cup {edge} = {{calls[j].tor1, calls[j].tor2} : j \in 1 .. i}
      <4>1. 1 .. i = (1 .. i - 1) \cup {i}
        OBVIOUS
      <4> QED
        BY <3>5, <4>1
    <3>7. connect(Append(t, e), calls[i]) = Append(t, [slice |-> k, edges |-> e.edges \cup {edge}])
      <4>1. PICK c \in Calls : c = calls[i]
        BY <2>1
      <4>2. c.slice = e.slice /\ c.tor1 # c.tor2 /\ \A x \in DOMAIN t : t[x].slice # e.slice
        BY <2>1, <3>5, <4>1
      <4>3. connect(Append(t, e), c) =
              Append(t, [slice |-> e.slice, edges |-> e.edges \cup {{c.tor1, c.tor2}}])
        BY <4>2, ConnectLast
      <4> QED
        BY <3>5, <4>1, <4>3
    <3> HIDE DEF f
    <3> QED
      BY <2>2, <3>2, <3>4, <3>6, <3>7
  <2> QED
    BY <2>3, <2>4
<1>6. Steps(f, t, calls)
  <2> HIDE DEF f
  <2> QED
    BY <1>1, <1>4, <1>5 DEF Steps
<1>7. f[n] = Append(t, E(n))
  BY <1>1
<1> HIDE DEF f
<1> QED
  BY <1>1, <1>6, <1>7, ConnectAllIs

----------------------------------------------------------------------------
(* The calls of round_robin() with one port.                               *)

\* The ToRs after k turns: the first stays, the others have moved k places.
Turned(n, k) ==
    [i \in 1 .. n |-> IF i = 1 THEN 0
                      ELSE IF i - 1 - k >= 1 THEN i - 1 - k ELSE i - 1 - k + n - 1]

\* The places hold ToRs, and no ToR holds two places.
LEMMA TurnedIs ==
    ASSUME NEW n \in Nat, n >= 2, NEW k \in 0 .. n - 1
    PROVE  /\ Turned(n, k) \in Seq(Nat) /\ Len(Turned(n, k)) = n
           /\ Turned(n, k) \in [1 .. n -> 0 .. n - 1]
           /\ \A i, j \in 1 .. n : Turned(n, k)[i] = Turned(n, k)[j] => i = j
<1>1. \A i \in 1 .. n : Turned(n, k)[i] = IF i = 1 THEN 0
                      ELSE IF i - 1 - k >= 1 THEN i - 1 - k ELSE i - 1 - k + n - 1
  BY DEF Turned
<1>2. \A i \in 1 .. n : Turned(n, k)[i] \in 0 .. n - 1 /\ (i # 1 => Turned(n, k)[i] # 0)
  BY <1>1
<1>3. Turned(n, k) \in [1 .. n -> 0 .. n - 1]
  BY <1>2 DEF Turned
<1>4. ASSUME NEW i \in 1 .. n, NEW j \in 1 .. n, Turned(n, k)[i] = Turned(n, k)[j]
      PROVE  i = j
  <2>1. CASE i = 1 \/ j = 1
    BY <1>1, <1>2, <1>4, <2>1
  <2>2. CASE i # 1 /\ j # 1
    <3>1. PICK x \in 1 .. n - 1 : x = Turned(n, k)[i] /\ (x = i - 1 - k \/ x = i - 1 - k + n - 1)
      BY <1>1, <1>2, <2>2
    <3>2. PICK y \in 1 .. n - 1 : y = Turned(n, k)[j] /\ (y = j - 1 - k \/ y = j - 1 - k + n - 1)
      BY <1>1, <1>2, <2>2
    <3> QED
      BY <1>4, <2>2, <3>1, <3>2
  <2> QED
    BY <2>1, <2>2
<1>5. Turned(n, k) \in Seq(Nat) /\ Len(Turned(n, k)) = n
  <2>1. Turned(n, k) \in [1 .. n -> Nat]
    BY <1>3
  <2> QED
    BY <2>1
<1> QED
  BY <1>3, <1>4, <1>5

\* What rotate() does to each place.
LEMMA RotateIs ==
    ASSUME NEW s \in Seq(Nat), NEW n \in Nat, n >= 2, n = Len(s)
    PROVE  /\ rotate(s) \in Seq(Nat) /\ Len(rotate(s)) = n
           /\ rotate(s)[1] = s[1] /\ rotate(s)[2] = s[n]
           /\ \A i \in 3 .. n : rotate(s)[i] = s[i - 1]
<1>1. \A i \in 1 .. n : s[i] \in Nat
  BY ElementOfSeq
<1>2. PICK a \in Nat : a = s[1] /\ a = Head(s)
  BY <1>1
<1>3. PICK b \in Nat : b = s[n] /\ b = Last(s)
  BY <1>1 DEF Last
<1>4. PICK m \in Seq(Nat) :
         /\ m = SubSeq(s, 2, n - 1) /\ Len(m) = n - 2
         /\ \A i \in 1 .. n - 2 : m[i] = s[i + 1]
  <2>1. \A i \in 2 .. n - 1 : s[i] \in Nat
    BY <1>1
  <2>2. 2 \in Int /\ n - 1 \in Int
    OBVIOUS
  <2>3. /\ SubSeq(s, 2, n - 1) \in Seq(Nat)
        /\ Len(SubSeq(s, 2, n - 1)) = IF 2 <= n - 1 THEN (n - 1) - 2 + 1 ELSE 0
        /\ \A i \in 1 .. (n - 1) - 2 + 1 : SubSeq(s, 2, n - 1)[i] = s[2 + i - 1]
    BY ONLY <2>1, <2>2, SubSeqProperties
  <2>4. PICK m \in Seq(Nat) : m = SubSeq(s, 2, n - 1)
    BY <2>3
  <2>5. Len(m) = n - 2
    BY <2>3, <2>4
  <2>6. ASSUME NEW i \in 1 .. n - 2 PROVE m[i] = s[i + 1]
    <3>1. i \in 1 .. (n - 1) - 2 + 1 /\ 2 + i - 1 = i + 1
      OBVIOUS
    <3> QED
      BY <2>3, <2>4, <3>1
  <2> QED
    BY <2>4, <2>5, <2>6
<1>5. PICK p \in Seq(Nat) : p = <<a, b>> /\ Len(p) = 2 /\ p[1] = a /\ p[2] = b
  <2>1. ASSUME NEW x \in Nat, NEW y \in Nat
        PROVE  <<x, y>> \in Seq(Nat) /\ Len(<<x, y>>) = 2 /\ <<x, y>>[1] = x /\ <<x, y>>[2] = y
    OBVIOUS
  <2> QED
    BY ONLY <2>1, a \in Nat, b \in Nat
<1>6. rotate(s) = p \o m
  BY <1>2, <1>3, <1>4, <1>5 DEF rotate
<1>7. /\ p \o m \in Seq(Nat) /\ Len(p \o m) = n
      /\ \A i \in 1 .. n : (p \o m)[i] = IF i <= 2 THEN p[i] ELSE m[i - 2]
  <2>1. /\ p \o m \in Seq(Nat) /\ Len(p \o m) = Len(p) + Len(m)
        /\ \A i \in 1 .. Len(p) + Len(m) :
              (p \o m)[i] = IF i <= Len(p) THEN p[i] ELSE m[i - Len(p)]
    BY ConcatProperties
  <2>2. Len(p) + Len(m) = n
    BY <1>4, <1>5
  <2> QED
    BY <1>5, <2>1, <2>2
<1>8. PICK r \in Seq(Nat) : r = rotate(s)
  BY <1>6, <1>7
<1>9. Len(r) = n /\ \A i \in 1 .. n : r[i] = IF i <= 2 THEN p[i] ELSE m[i - 2]
  BY <1>6, <1>7, <1>8
<1>10. r[1] = s[1] /\ r[2] = s[n]
  <2>1. 1 \in 1 .. n /\ 2 \in 1 .. n
    OBVIOUS
  <2>2. r[1] = p[1] /\ r[2] = p[2]
    BY <1>9, <2>1
  <2> QED
    BY <1>2, <1>3, <1>5, <2>2
<1>11. ASSUME NEW i \in 3 .. n PROVE r[i] = s[i - 1]
  <2>1. PICK j \in 1 .. n - 2 : i = j + 2 /\ i - 1 = j + 1
    <3>1. i - 2 \in 1 .. n - 2 /\ i = (i - 2) + 2 /\ i - 1 = (i - 2) + 1
      OBVIOUS
    <3> QED
      BY <3>1
  <2>2. i \in 1 .. n /\ ~(i <= 2) /\ i - 2 = j
    BY <2>1
  <2>3. r[i] = m[j]
    BY <1>9, <2>2
  <2>4. m[j] = s[j + 1]
    BY <1>4
  <2> QED
    BY <2>1, <2>3, <2>4
<1> QED
  BY <1>8, <1>9, <1>10, <1>11

\* One turn more.
LEMMA RotateTurned ==
    ASSUME NEW n \in Nat, n >= 2, NEW k \in 0 .. n - 2
    PROVE  rotate(Turned(n, k)) = Turned(n, k + 1)
<1>1. PICK s \in Seq(Nat) : s = Turned(n, k) /\ n = Len(s)
  BY TurnedIs
<1>2. PICK u \in Seq(Nat) : u = Turned(n, k + 1) /\ n = Len(u)
  <2>1. k + 1 \in 0 .. n - 1
    OBVIOUS
  <2> QED
    BY <2>1, TurnedIs
<1>3. PICK r \in Seq(Nat) :
         /\ r = rotate(s) /\ Len(r) = n /\ r[1] = s[1] /\ r[2] = s[n]
         /\ \A i \in 3 .. n : r[i] = s[i - 1]
  BY <1>1, RotateIs
<1>4. \A i \in 1 .. n : s[i] = IF i = 1 THEN 0
                      ELSE IF i - 1 - k >= 1 THEN i - 1 - k ELSE i - 1 - k + n - 1
  BY <1>1 DEF Turned
<1>5. \A i \in 1 .. n : u[i] = IF i = 1 THEN 0
                      ELSE IF i - 1 - (k + 1) >= 1 THEN i - 1 - (k + 1)
                                                   ELSE i - 1 - (k + 1) + n - 1
  BY <1>2 DEF Turned
<1>6. ASSUME NEW i \in 1 .. n PROVE r[i] = u[i]
  <2>1. CASE i = 1
    BY <1>3, <1>4, <1>5, <2>1
  <2>2. CASE i = 2
    BY <1>3, <1>4, <1>5, <2>2
  <2>3. CASE i >= 3
    <3>1. i \in 3 .. n /\ i - 1 \in 1 .. n /\ i - 1 # 1
      BY <2>3
    <3>2. s[i - 1] = IF (i - 1) - 1 - k >= 1 THEN (i - 1) - 1 - k ELSE (i - 1) - 1 - k + n - 1
      BY <1>4, <3>1
    <3>3. r[i] = s[i - 1]
      BY <1>3, <3>1
    <3>4. u[i] = IF i - 1 - (k + 1) >= 1 THEN i - 1 - (k + 1) ELSE i - 1 - (k + 1) + n - 1
      BY <1>5, <3>1
    <3>5. (i - 1) - 1 - k = i - 1 - (k + 1)
      OBVIOUS
    <3> QED
      BY <3>2, <3>3, <3>4, <3>5
  <2> QED
    BY <2>1, <2>2, <2>3
<1>7. r = u
  BY <1>2, <1>3, <1>6, SeqEqual
<1> QED
  BY <1>1, <1>2, <1>3, <1>7

\* The order of the ToRs after each turn, as round_robin() comes to it.
LEMMA TorsAre ==
    ASSUME NEW n \in Nat, n >= 2, NEW tors,
           tors = CHOOSE f : f = [k \in 0 .. n - 1 |->
                     IF k = 0 THEN [i \in 1 .. n |-> i - 1] ELSE rotate(f[k - 1])]
    PROVE  \A k \in 0 .. n - 1 : tors[k] = Turned(n, k)
<1> DEFINE g == [k \in 0 .. n - 1 |-> Turned(n, k)]
           Next1(f) == [k \in 0 .. n - 1 |->
                     IF k = 0 THEN [i \in 1 .. n |-> i - 1] ELSE rotate(f[k - 1])]
<1>1. Turned(n, 0) = [i \in 1 .. n |-> i - 1]
  BY DEF Turned
<1>2. g = Next1(g)
  <2>1. ASSUME NEW k \in 0 .. n - 1
        PROVE  Turned(n, k) = IF k = 0 THEN [i \in 1 .. n |-> i - 1] ELSE rotate(g[k - 1])
    <3>1. CASE k = 0
      BY <1>1, <3>1
    <3>2. CASE k # 0
      <4>1. PICK l \in 0 .. n - 2 : l = k - 1 /\ k = l + 1 /\ l \in 0 .. n - 1
        BY <3>2
      <4>2. g[l] = Turned(n, l)
        BY <4>1
      <4>3. rotate(Turned(n, l)) = Turned(n, l + 1)
        BY RotateTurned
      <4> QED
        BY <3>2, <4>1, <4>2, <4>3
    <3> QED
      BY <3>1, <3>2
  <2> QED
    BY <2>1
<1>3. tors = Next1(tors)
  BY <1>2
<1> DEFINE Q == {k \in 0 .. n - 1 : tors[k] = Turned(n, k)}
<1>4. 0 \in Q
  <2>1. 0 \in 0 .. n - 1
    OBVIOUS
  <2>2. \A f : f = Next1(f) => f[0] = [i \in 1 .. n |-> i - 1]
    BY <2>1
  <2> HIDE DEF Next1
  <2> QED
    BY <1>1, <1>3, <2>1, <2>2
<1>5. ASSUME NEW k \in 1 .. n - 1, k - 1 \in Q PROVE k \in Q
  <2>1. tors[k] = rotate(tors[k - 1])
    <3>1. k \in 0 .. n - 1 /\ k # 0
      OBVIOUS
    <3>2. \A f : f = Next1(f) => f[k] = rotate(f[k - 1])
      BY <3>1
    <3> HIDE DEF Next1
    <3> QED
      BY <1>3, <3>2
  <2>2. tors[k - 1] = Turned(n, k - 1)
    BY <1>5
  <2>3. PICK l \in 0 .. n - 2 : l = k - 1 /\ k = l + 1
    OBVIOUS
  <2>4. rotate(Turned(n, l)) = Turned(n, l + 1)
    BY RotateTurned
  <2> QED
    BY <2>1, <2>2, <2>3, <2>4
<1>6. 0 .. n - 1 \subseteq Q
  <2>1. n - 1 \in Nat
    OBVIOUS
  <2> HIDE DEF Q
  <2> QED
    BY <1>4, <1>5, <2>1, UpTo
<1> QED
  BY <1>6

\* FlattenSeq, as the concatenations it stands for.
LEMMA FlattenIs ==
    ASSUME NEW seqs, NEW n \in Nat, n >= 1, n = Len(seqs)
    PROVE  \E f : /\ f[1] = seqs[1]
                  /\ \A i \in 2 .. n : f[i] = f[i - 1] \o seqs[i]
                  /\ FlattenSeq(seqs) = f[n]
<1> DEFINE Next1(f, k) == [i \in 1 .. k |-> IF i = 1 THEN seqs[i] ELSE f[i - 1] \o seqs[i]]
           Q == {k \in 0 .. n : \E f : f = Next1(f, k)}
           g == CHOOSE f : f = Next1(f, n)
<1>1. 0 \in Q
  <2>1. \A f : Next1(f, 0) = [i \in {} |-> {}]
    <3>1. 1 .. 0 = {}
      OBVIOUS
    <3> QED
      BY <3>1
  <2> DEFINE e == [i \in {} |-> {}]
  <2>2. e = Next1(e, 0)
    BY <2>1
  <2> HIDE DEF e, Next1
  <2> QED
    BY <2>2
<1>2. ASSUME NEW k \in 1 .. n, k - 1 \in Q PROVE k \in Q
  <2>1. PICK f : f = Next1(f, k - 1)
    BY <1>2
  <2> DEFINE h == [i \in 1 .. k |-> IF i = 1 THEN seqs[i] ELSE f[i - 1] \o seqs[i]]
  <2>2. ASSUME NEW i \in 1 .. k - 1 PROVE h[i] = f[i]
    <3>1. \A v : v = Next1(v, k - 1) => v[i] = IF i = 1 THEN seqs[i] ELSE v[i - 1] \o seqs[i]
      OBVIOUS
    <3>2. f[i] = IF i = 1 THEN seqs[i] ELSE f[i - 1] \o seqs[i]
      <4> HIDE DEF Next1
      <4> QED
        BY <2>1, <3>1
    <3>3. i \in 1 .. k
      OBVIOUS
    <3> QED
      BY <3>2, <3>3
  <2>3. h = Next1(h, k)
    <3>1. \A i \in 1 .. k : i # 1 => f[i - 1] = h[i - 1]
      <4>1. \A i \in 1 .. k : i # 1 => i - 1 \in 1 .. k - 1
        OBVIOUS
      <4> HIDE DEF h
      <4> QED
        BY <2>2, <4>1
    <3>2. \A i \in 1 .. k : (IF i = 1 THEN seqs[i] ELSE f[i - 1] \o seqs[i])
                            = (IF i = 1 THEN seqs[i] ELSE h[i - 1] \o seqs[i])
      <4> HIDE DEF h
      <4> QED
        BY <3>1
    <3> QED
      BY <3>2
  <2> HIDE DEF h, Next1
  <2> QED
    BY <2>3
<1>3. n \in Q
  <2>1. 0 .. n \subseteq Q
    <3> HIDE DEF Q
    <3> QED
      BY <1>1, <1>2, UpTo
  <2>2. n \in 0 .. n
    OBVIOUS
  <2> HIDE DEF Q
  <2> QED
    BY <2>1, <2>2
<1>4. g = Next1(g, n)
  <2> HIDE DEF Next1
  <2> QED
    BY <1>3
<1>5. \A i \in 1 .. n : g[i] = IF i = 1 THEN seqs[i] ELSE g[i - 1] \o seqs[i]
  <2>1. \A v : v = Next1(v, n) =>
          \A i \in 1 .. n : v[i] = IF i = 1 THEN seqs[i] ELSE v[i - 1] \o seqs[i]
    OBVIOUS
  <2> HIDE DEF Next1, g
  <2> QED
    BY <1>4, <2>1
<1>6. FlattenSeq(seqs) = g[n]
  BY DEF FlattenSeq
<1> HIDE DEF g
<1>7. g[1] = seqs[1]
  BY <1>5
<1>8. \A i \in 2 .. n : g[i] = g[i - 1] \o seqs[i]
  <2>1. \A i \in 2 .. n : i \in 1 .. n /\ i # 1
    OBVIOUS
  <2> QED
    BY <1>5, <2>1
<1> QED
  BY <1>6, <1>7, <1>8

\* The calls of one round: from both ends of the row of ToRs inwards.
Round(n, h, k) ==
    [i \in 1 .. h |-> Call(Turned(n, k - 1)[i], Turned(n, k - 1)[n + 1 - i], k - 1)]

\* The calls after the last round, of each ToR with itself.
LastTurn(n) == [i \in 1 .. n |-> Call(Turned(n, n - 1)[i], Turned(n, n - 1)[i], n - 1)]

\* With one port there is one pair of groups: n - 1 rounds, and the last turn.
LEMMA RoundRobinCallsAre ==
    ASSUME NEW h \in Nat, h >= 1, NEW n \in Nat, n = 2 * h
    PROVE  RoundRobinCalls(n, 1) =
             FlattenSeq([k \in 1 .. n - 1 |-> Round(n, h, k)]) \o LastTurn(n)
<1> DEFINE group == n \div 1
           torsOf(f) == [k \in 0 .. 1 * 1 * (group - 1) |->
                      IF k = 0 THEN [i \in 1 .. group |-> i - 1] ELSE rotate(f[k - 1])]
           tors == CHOOSE f : f = [k \in 0 .. 1 * 1 * (group - 1) |->
                      IF k = 0 THEN [i \in 1 .. group |-> i - 1] ELSE rotate(f[k - 1])]
           Matching(p1, p2, s, turned) ==
              [i \in 1 .. group \div 2 |->
                  Call(turned[i] + p1 * group, turned[group + 1 - i] + p2 * group, s)]
           PairOfGroups(b) ==
              FlattenSeq([k \in 1 .. group - 1 |->
                             Matching(b \div 1, b % 1, k - 1, tors[b * (group - 1) + k - 1])])
              \o [i \in 1 .. group |->
                     Call(tors[b * (group - 1) + group - 1][i] + (b \div 1) * group,
                          tors[b * (group - 1) + group - 1][i] + (b % 1) * group, group - 1)]
<1>1. RoundRobinCalls(n, 1) = FlattenSeq([b \in 1 .. 1 * 1 |-> PairOfGroups(b - 1)])
  BY Zenon DEF RoundRobinCalls
<1>0. n >= 2
  OBVIOUS
<1>2. group = n /\ n \div 2 = h /\ 1 * 1 * (n - 1) = n - 1 /\ 0 \div 1 = 0 /\ 0 % 1 = 0
  OBVIOUS
<1>3. \A k \in 0 .. n - 1 : tors[k] = Turned(n, k)
  <2>1. PICK m : m = group
    OBVIOUS
  <2>2. tors = CHOOSE f : f = [k \in 0 .. n - 1 |->
                     IF k = 0 THEN [i \in 1 .. n |-> i - 1] ELSE rotate(f[k - 1])]
    BY <1>2
  <2> HIDE DEF tors
  <2> QED
    BY <1>0, <2>2, TorsAre
<1> HIDE DEF tors, group
<1>4. ASSUME NEW k \in 1 .. n - 1
      PROVE  Matching(0, 0, k - 1, tors[0 * (group - 1) + k - 1]) = Round(n, h, k)
  <2>1. k - 1 \in 0 .. n - 1 /\ 0 * (group - 1) + k - 1 = k - 1
    BY <1>2
  <2>2. PICK s \in [1 .. n -> 0 .. n - 1] : s = Turned(n, k - 1) /\ s = tors[0 * (group - 1) + k - 1]
    <3>1. PICK l \in 0 .. n - 1 : l = k - 1 /\ l = 0 * (group - 1) + k - 1
      BY <2>1
    <3>2. Turned(n, l) \in [1 .. n -> 0 .. n - 1]
      BY ONLY n \in Nat, l \in 0 .. n - 1, <1>0, TurnedIs
    <3> QED
      BY <1>3, <3>1, <3>2
  <2>3. \A i \in 1 .. h : s[i] + 0 * n = s[i] /\ s[n + 1 - i] + 0 * n = s[n + 1 - i]
    <3>1. \A i \in 1 .. h : i \in 1 .. n /\ n + 1 - i \in 1 .. n
      OBVIOUS
    <3> QED
      BY <3>1
  <2>4. Matching(0, 0, k - 1, s) =
          [i \in 1 .. h |-> Call(s[i] + 0 * n, s[n + 1 - i] + 0 * n, k - 1)]
    BY <1>2
  <2>5. Matching(0, 0, k - 1, s) = [i \in 1 .. h |-> Call(s[i], s[n + 1 - i], k - 1)]
    BY <2>3, <2>4
  <2> QED
    BY <2>2, <2>5 DEF Round
<1>5. [i \in 1 .. group |->
          Call(tors[0 * (group - 1) + group - 1][i] + 0 * group,
               tors[0 * (group - 1) + group - 1][i] + 0 * group, group - 1)] = LastTurn(n)
  <2>1. n - 1 \in 0 .. n - 1 /\ 0 * (n - 1) + n - 1 = n - 1
    OBVIOUS
  <2>2. PICK s \in [1 .. n -> 0 .. n - 1] : s = Turned(n, n - 1) /\ s = tors[0 * (n - 1) + n - 1]
    <3>1. PICK l \in 0 .. n - 1 : l = n - 1 /\ l = 0 * (n - 1) + n - 1
      BY <2>1
    <3>2. Turned(n, l) \in [1 .. n -> 0 .. n - 1]
      BY ONLY n \in Nat, l \in 0 .. n - 1, <1>0, TurnedIs
    <3> QED
      BY <1>3, <3>1, <3>2
  <2>3. \A i \in 1 .. n : s[i] + 0 * n = s[i]
    OBVIOUS
  <2>4. [i \in 1 .. n |-> Call(s[i] + 0 * n, s[i] + 0 * n, n - 1)]
          = [i \in 1 .. n |-> Call(s[i], s[i], n - 1)]
    BY <2>3
  <2> QED
    BY <1>2, <2>2, <2>4 DEF LastTurn
<1>6. PairOfGroups(0) = FlattenSeq([k \in 1 .. n - 1 |-> Round(n, h, k)]) \o LastTurn(n)
  <2>1. [k \in 1 .. n - 1 |-> Matching(0, 0, k - 1, tors[0 * (group - 1) + k - 1])]
          = [k \in 1 .. n - 1 |-> Round(n, h, k)]
    <3> HIDE DEF Matching
    <3> QED
      BY <1>4
  <2> HIDE DEF Matching
  <2> QED
    BY <1>2, <1>5, <2>1
<1>7. FlattenSeq([b \in 1 .. 1 * 1 |-> PairOfGroups(b - 1)]) = PairOfGroups(0)
  <2> HIDE DEF PairOfGroups
  <2>1. [b \in 1 .. 1 * 1 |-> PairOfGroups(b - 1)] = <<PairOfGroups(0)>>
    <3>1. 1 * 1 = 1 /\ 1 .. 1 = {1} /\ 1 - 1 = 0
      OBVIOUS
    <3> QED
      BY <3>1
  <2>2. ASSUME NEW q PROVE FlattenSeq(<<q>>) = q
    <3>1. PICK s : s = <<q>>
      OBVIOUS
    <3>2. 1 = Len(s) /\ s[1] = q
      BY <3>1
    <3>3. PICK m \in Nat : m = 1 /\ m >= 1 /\ m = Len(s)
      BY <3>2
    <3>4. \E f : f[1] = s[1] /\ FlattenSeq(s) = f[m]
      BY ONLY m \in Nat, <3>3, FlattenIs
    <3> QED
      BY <3>1, <3>2, <3>3, <3>4
  <2> QED
    BY <2>1, <2>2
<1> HIDE DEF PairOfGroups
<1> QED
  BY <1>1, <1>6, <1>7

----------------------------------------------------------------------------
(* The circle method.                                                      *)

\* The links of a round: the ToRs at equal distance from both ends of the row.
Links(n, h, k) == {{Turned(n, k - 1)[i], Turned(n, k - 1)[n + 1 - i]} : i \in 1 .. h}

\* The first k slices of it.
Circle(n, h, k) == [j \in 1 .. k |-> [slice |-> j - 1, edges |-> Links(n, h, j)]]

\* Each call of a round links two different ToRs in the slice of the round.
LEMMA RoundIs ==
    ASSUME NEW h \in Nat, h >= 1, NEW n \in Nat, n = 2 * h, NEW k \in 1 .. n - 1
    PROVE  /\ Round(n, h, k) \in Seq(Calls) /\ Len(Round(n, h, k)) = h
           /\ \A i \in 1 .. h :
                 /\ Round(n, h, k)[i].slice = k - 1
                 /\ Round(n, h, k)[i].tor1 = Turned(n, k - 1)[i]
                 /\ Round(n, h, k)[i].tor2 = Turned(n, k - 1)[n + 1 - i]
                 /\ Round(n, h, k)[i].tor1 # Round(n, h, k)[i].tor2
<1>1. n >= 2
  OBVIOUS
<1>2. PICK l \in 0 .. n - 1 : l = k - 1
  OBVIOUS
<1>3. PICK s \in [1 .. n -> 0 .. n - 1] :
         s = Turned(n, l) /\ \A i, j \in 1 .. n : s[i] = s[j] => i = j
  BY ONLY <1>1, n \in Nat, l \in 0 .. n - 1, TurnedIs
<1>4. Round(n, h, k) = [i \in 1 .. h |-> [tor1 |-> s[i], tor2 |-> s[n + 1 - i], slice |-> l]]
  BY <1>2, <1>3, Zenon DEF Round, Call
<1>5. PICK r : r = [i \in 1 .. h |-> [tor1 |-> s[i], tor2 |-> s[n + 1 - i], slice |-> l]]
  OBVIOUS
<1>6. ASSUME NEW i \in 1 .. h
      PROVE  s[i] \in Nat /\ s[n + 1 - i] \in Nat /\ s[i] # s[n + 1 - i] /\ l \in Nat
  <2>1. i \in 1 .. n /\ n + 1 - i \in 1 .. n /\ i # n + 1 - i
    OBVIOUS
  <2> QED
    BY <1>3, <2>1
<1>7. r \in [1 .. h -> Calls]
  BY <1>5, <1>6 DEF Calls
<1>8. r \in Seq(Calls) /\ Len(r) = h
  BY <1>7
<1>9. \A i \in 1 .. h : r[i].slice = l /\ r[i].tor1 = s[i] /\ r[i].tor2 = s[n + 1 - i]
  BY <1>5
<1>10. r = Round(n, h, k)
  BY <1>4, <1>5
<1>11. \A i \in 1 .. h : r[i].tor1 # r[i].tor2
  BY <1>6, <1>9
<1>12. Turned(n, k - 1) = s /\ k - 1 = l
  BY <1>2, <1>3
<1> HIDE DEF Calls
<1> QED
  BY ONLY <1>8, <1>9, <1>10, <1>11, <1>12

\* The slices so far are entries of a topology.
LEMMA CircleIs ==
    ASSUME NEW h \in Nat, h >= 1, NEW n \in Nat, n = 2 * h, NEW k \in 0 .. n - 1
    PROVE  /\ Circle(n, h, k) \in Seq(Entry) /\ Len(Circle(n, h, k)) = k
           /\ DOMAIN Circle(n, h, k) = 1 .. k
           /\ \A j \in 1 .. k :
                 /\ Circle(n, h, k)[j].slice = j - 1
                 /\ Circle(n, h, k)[j].edges = Links(n, h, j)
<1>1. PICK c : c = Circle(n, h, k) /\ c = [j \in 1 .. k |-> [slice |-> j - 1, edges |-> Links(n, h, j)]]
  BY DEF Circle
<1>2. ASSUME NEW j \in 1 .. k PROVE Links(n, h, j) \in SUBSET SUBSET Nat
  <2>0. n >= 2
    OBVIOUS
  <2>1. PICK l \in 0 .. n - 1 : l = j - 1
    OBVIOUS
  <2>2. PICK s \in [1 .. n -> 0 .. n - 1] : s = Turned(n, l)
    BY ONLY <2>0, n \in Nat, l \in 0 .. n - 1, TurnedIs
  <2>3. \A i \in 1 .. h : s[i] \in Nat /\ s[n + 1 - i] \in Nat
    <3>1. \A i \in 1 .. h : i \in 1 .. n /\ n + 1 - i \in 1 .. n
      OBVIOUS
    <3> QED
      BY <3>1
  <2>4. {{s[i], s[n + 1 - i]} : i \in 1 .. h} \in SUBSET SUBSET Nat
    BY <2>3
  <2> QED
    BY <2>1, <2>2, <2>4 DEF Links
<1>3. \A j \in 1 .. k : [slice |-> j - 1, edges |-> Links(n, h, j)] \in Entry
  BY <1>2 DEF Entry
<1>4. c \in [1 .. k -> Entry]
  BY <1>1, <1>3
<1>5. c \in Seq(Entry) /\ Len(c) = k /\ DOMAIN c = 1 .. k
  BY <1>4
<1>6. \A j \in 1 .. k : c[j].slice = j - 1 /\ c[j].edges = Links(n, h, j)
  BY <1>1
<1> QED
  BY <1>1, <1>5, <1>6

\* A round adds its slice.
LEMMA CircleStep ==
    ASSUME NEW h \in Nat, h >= 1, NEW n \in Nat, n = 2 * h, NEW k \in 1 .. n - 1
    PROVE  ConnectAll(Circle(n, h, k - 1), Round(n, h, k)) = Circle(n, h, k)
<1>1. PICK l \in 0 .. n - 1 : l = k - 1
  OBVIOUS
<1>2. PICK t \in Seq(Entry) :
         /\ t = Circle(n, h, l) /\ Len(t) = l /\ DOMAIN t = 1 .. l
         /\ \A j \in 1 .. l : t[j].slice = j - 1 /\ t[j].edges = Links(n, h, j)
  <2>1. PICK t : t = Circle(n, h, l)
    OBVIOUS
  <2>3. /\ Circle(n, h, l) \in Seq(Entry) /\ Len(Circle(n, h, l)) = l
        /\ DOMAIN Circle(n, h, l) = 1 .. l
        /\ \A j \in 1 .. l :
              /\ Circle(n, h, l)[j].slice = j - 1
              /\ Circle(n, h, l)[j].edges = Links(n, h, j)
    BY CircleIs, Zenon
  <2>2. /\ t \in Seq(Entry) /\ Len(t) = l /\ DOMAIN t = 1 .. l
        /\ \A j \in 1 .. l : t[j].slice = j - 1 /\ t[j].edges = Links(n, h, j)
    BY <2>1, <2>3, Zenon
  <2> QED
    BY <2>1, <2>2
<1>3. PICK u \in Seq(Entry) :
         /\ u = Circle(n, h, k) /\ Len(u) = k /\ DOMAIN u = 1 .. k
         /\ \A j \in 1 .. k : u[j].slice = j - 1 /\ u[j].edges = Links(n, h, j)
  <2>1. k \in 0 .. n - 1
    OBVIOUS
  <2>2. PICK u : u = Circle(n, h, k)
    OBVIOUS
  <2>4. /\ Circle(n, h, k) \in Seq(Entry) /\ Len(Circle(n, h, k)) = k
        /\ DOMAIN Circle(n, h, k) = 1 .. k
        /\ \A j \in 1 .. k :
              /\ Circle(n, h, k)[j].slice = j - 1
              /\ Circle(n, h, k)[j].edges = Links(n, h, j)
    BY <2>1, CircleIs, Zenon
  <2>3. /\ u \in Seq(Entry) /\ Len(u) = k /\ DOMAIN u = 1 .. k
        /\ \A j \in 1 .. k : u[j].slice = j - 1 /\ u[j].edges = Links(n, h, j)
    BY <2>2, <2>4, Zenon
  <2> QED
    BY <2>2, <2>3
<1>4. PICK r \in Seq(Calls) :
         /\ r = Round(n, h, k) /\ Len(r) = h
         /\ \A i \in 1 .. h : /\ r[i].slice = l /\ r[i].tor1 # r[i].tor2
                              /\ r[i].tor1 = Turned(n, l)[i] /\ r[i].tor2 = Turned(n, l)[n + 1 - i]
  BY <1>1, RoundIs
<1>5. {{r[i].tor1, r[i].tor2} : i \in 1 .. Len(r)} = Links(n, h, k)
  <2>1. Links(n, h, k) = {{Turned(n, l)[i], Turned(n, l)[n + 1 - i]} : i \in 1 .. h}
    BY <1>1, Zenon DEF Links
  <2>2. \A i \in 1 .. h :
           {r[i].tor1, r[i].tor2} = {Turned(n, l)[i], Turned(n, l)[n + 1 - i]}
    BY <1>4
  <2>3. {{r[i].tor1, r[i].tor2} : i \in 1 .. h}
          = {{Turned(n, l)[i], Turned(n, l)[n + 1 - i]} : i \in 1 .. h}
    BY ONLY <2>2
  <2> QED
    BY <1>4, <2>1, <2>3
<1> DEFINE e == [slice |-> l, edges |-> Links(n, h, k)]
<1>6. ConnectAll(t, r) = Append(t, e)
  <2>1. \A i \in DOMAIN t : t[i].slice # l
    BY <1>2
  <2>2. l \in Nat /\ Len(r) > 0 /\ \A j \in 1 .. Len(r) : r[j].slice = l /\ r[j].tor1 # r[j].tor2
    BY <1>4
  <2>3. ConnectAll(t, r) =
          Append(t, [slice |-> l, edges |-> {{r[i].tor1, r[i].tor2} : i \in 1 .. Len(r)}])
    BY <2>1, <2>2, SliceCalls
  <2> QED
    BY <1>5, <2>3
<1>7. Append(t, e) = u
  <2>1. k \in 1 .. k /\ u[k].slice = l /\ u[k].edges = Links(n, h, k)
    <3>1. k \in 1 .. k /\ k - 1 = l
      BY <1>1
    <3> QED
      BY ONLY <1>3, <3>1
  <2>2. u[k] \in Entry
    BY <1>3, <2>1, ElementOfSeq
  <2>3. u[k] = e
    BY <2>1, <2>2 DEF Entry
  <2> HIDE DEF e
  <2>4. ASSUME NEW j \in 1 .. l PROVE u[j] = t[j]
    <3>1. j \in 1 .. k
      BY <1>1
    <3>2. t[j] \in Entry /\ u[j] \in Entry
      BY <1>2, <1>3, <3>1, ElementOfSeq
    <3>3. t[j].slice = u[j].slice /\ t[j].edges = u[j].edges
      BY <1>2, <1>3, <3>1
    <3>4. ASSUME NEW x \in Entry, NEW y \in Entry, x.slice = y.slice, x.edges = y.edges
          PROVE  x = y
      BY <3>4 DEF Entry
    <3> QED
      BY <3>2, <3>3, <3>4
  <2>5. PICK v \in Seq(Entry) :
           /\ v = Append(t, e) /\ Len(v) = l + 1
           /\ \A j \in 1 .. l : v[j] = t[j]
           /\ v[l + 1] = e
    <3>1. e \in Entry
      BY <2>2, <2>3
    <3>2. PICK v : v = Append(t, e)
      OBVIOUS
    <3>3. /\ v \in Seq(Entry) /\ Len(v) = Len(t) + 1
          /\ \A j \in 1 .. Len(t) : v[j] = t[j]
          /\ v[Len(t) + 1] = e
      BY ONLY <3>1, <3>2, t \in Seq(Entry), AppendProperties
    <3>4. Len(t) = l
      BY <1>2
    <3> QED
      BY ONLY <3>2, <3>3, <3>4
  <2>6. Len(v) = Len(u) /\ l + 1 = k
    BY <1>1, <1>3, <2>5
  <2>7. ASSUME NEW j \in 1 .. Len(v) PROVE v[j] = u[j]
    <3>1. j \in 1 .. k
      BY <1>3, <2>6
    <3>2. CASE j = k
      BY <2>3, <2>5, <2>6, <3>2
    <3>3. CASE j # k
      <4>1. j \in 1 .. l
        BY <1>1, <3>1, <3>3
      <4> QED
        BY <2>4, <2>5, <4>1
    <3> QED
      BY <3>2, <3>3
  <2> QED
    BY <2>5, <2>6, <2>7, SeqEqual
<1> HIDE DEF e
<1> QED
  BY <1>1, <1>2, <1>3, <1>4, <1>6, <1>7

\* round_robin() with one port makes the circle.
LEMMA RoundRobinMakes ==
    ASSUME NEW h \in Nat, h >= 1, NEW n \in Nat, n = 2 * h
    PROVE  ConnectAll(<< >>, RoundRobinCalls(n, 1)) = Circle(n, h, n - 1)
<1> DEFINE seqs == [k \in 1 .. n - 1 |-> Round(n, h, k)]
<1>1. PICK m \in Nat : m = n - 1 /\ m >= 1
  OBVIOUS
<1>2. Len(seqs) = m
  BY <1>1
<1>3. PICK f : /\ f[1] = seqs[1]
               /\ \A i \in 2 .. m : f[i] = f[i - 1] \o seqs[i]
               /\ FlattenSeq(seqs) = f[m]
  <2> HIDE DEF seqs
  <2> QED
    BY <1>1, <1>2, FlattenIs
<1>4. \A k \in 1 .. m : seqs[k] = Round(n, h, k)
  BY <1>1
<1> HIDE DEF seqs
<1>5. \A k \in 1 .. m : Round(n, h, k) \in Seq(Calls)
  BY <1>1, RoundIs
<1>6. Circle(n, h, 0) = << >>
  BY DEF Circle
<1>7. \A k \in 1 .. m : ConnectAll(Circle(n, h, k - 1), Round(n, h, k)) = Circle(n, h, k)
  BY <1>1, CircleStep
<1> DEFINE Q == {k \in 0 .. m : k # 0 =>
                    f[k] \in Seq(Calls) /\ ConnectAll(<< >>, f[k]) = Circle(n, h, k)}
<1>8. 0 \in Q
  OBVIOUS
<1>9. ASSUME NEW k \in 1 .. m, k - 1 \in Q PROVE k \in Q
  <2>1. CASE k = 1
    BY <1>1, <1>3, <1>4, <1>5, <1>6, <1>7, <2>1
  <2>2. CASE k > 1
    <3>1. PICK a \in Seq(Calls) : a = f[k - 1] /\ ConnectAll(<< >>, a) = Circle(n, h, k - 1)
      BY <1>9, <2>2
    <3>2. PICK b \in Seq(Calls) : b = Round(n, h, k) /\ b = seqs[k]
      BY <1>4, <1>5
    <3>3. f[k] = a \o b
      <4>1. k \in 2 .. m
        BY <2>2
      <4>2. f[k] = f[k - 1] \o seqs[k]
        BY <1>3, <4>1
      <4> QED
        BY <3>1, <3>2, <4>2
    <3>4. a \o b \in Seq(Calls)
      BY ConcatProperties
    <3>5. ConnectAll(<< >>, a \o b) = ConnectAll(ConnectAll(<< >>, a), b)
      BY ConnectAllConcat
    <3>6. ConnectAll(Circle(n, h, k - 1), b) = Circle(n, h, k)
      BY <1>7, <3>2
    <3>7. PICK c : c = f[k]
      OBVIOUS
    <3>8. c \in Seq(Calls) /\ ConnectAll(<< >>, c) = Circle(n, h, k)
      BY <3>1, <3>3, <3>4, <3>5, <3>6, <3>7
    <3> QED
      BY <3>7, <3>8
  <2> QED
    BY <2>1, <2>2
<1>10. f[m] \in Seq(Calls) /\ ConnectAll(<< >>, f[m]) = Circle(n, h, m)
  <2>1. 0 .. m \subseteq Q
    <3> HIDE DEF Q
    <3> QED
      BY <1>8, <1>9, UpTo
  <2>2. m \in 0 .. m /\ m # 0
    BY <1>1
  <2> QED
    BY <2>1, <2>2
<1> HIDE DEF Q
<1>11. PICK a \in Seq(Calls) : a = f[m] /\ ConnectAll(<< >>, a) = Circle(n, h, m)
  BY <1>10
<1>12. PICK b \in Seq(Calls) : b = LastTurn(n) /\ \A j \in 1 .. Len(b) : b[j].tor1 = b[j].tor2
  <2>0. n >= 2
    OBVIOUS
  <2>1. PICK l \in 0 .. n - 1 : l = n - 1
    OBVIOUS
  <2>2. PICK s \in [1 .. n -> 0 .. n - 1] : s = Turned(n, l)
    BY ONLY <2>0, n \in Nat, l \in 0 .. n - 1, TurnedIs
  <2>3. PICK b : b = [i \in 1 .. n |-> [tor1 |-> s[i], tor2 |-> s[i], slice |-> l]]
    OBVIOUS
  <2>4. b = LastTurn(n)
    BY <2>1, <2>2, <2>3, Zenon DEF LastTurn, Call
  <2>5. b \in [1 .. n -> Calls]
    BY <2>3 DEF Calls
  <2>6. b \in Seq(Calls) /\ Len(b) = n
    BY <2>5
  <2>7. \A j \in 1 .. n : b[j].tor1 = b[j].tor2
    BY <2>3
  <2> QED
    BY <2>4, <2>6, <2>7
<1>13. RoundRobinCalls(n, 1) = a \o b
  BY <1>3, <1>11, <1>12, RoundRobinCallsAre DEF seqs
<1>14. ConnectAll(<< >>, a \o b) = ConnectAll(ConnectAll(<< >>, a), b)
  BY ConnectAllConcat
<1>15. \A t : ConnectAll(t, b) = t
  BY <1>12, SelfCalls
<1> QED
  BY <1>1, <1>11, <1>13, <1>14, <1>15

\* The place of ToR x after s turns.
Place(n, x, s) == IF x = 0 THEN 1 ELSE IF x + s <= n - 1 THEN x + s + 1 ELSE x + s + 2 - n

\* It is the one place that holds it.
LEMMA PlaceIs ==
    ASSUME NEW n \in Nat, n >= 2, NEW s \in 0 .. n - 1, NEW x \in 0 .. n - 1
    PROVE  /\ Place(n, x, s) \in 1 .. n /\ Turned(n, s)[Place(n, x, s)] = x
           /\ \A i \in 1 .. n : Turned(n, s)[i] = x => i = Place(n, x, s)
<1>1. PICK p : p = Place(n, x, s)
  OBVIOUS
<1>2. p \in 1 .. n
  BY <1>1 DEF Place
<1>3. \A i \in 1 .. n : Turned(n, s)[i] = IF i = 1 THEN 0
                      ELSE IF i - 1 - s >= 1 THEN i - 1 - s ELSE i - 1 - s + n - 1
  BY DEF Turned
<1>4. Turned(n, s)[p] = x
  <2>1. CASE x = 0
    <3>1. p = 1
      BY <1>1, <2>1 DEF Place
    <3> QED
      BY <1>2, <1>3, <2>1, <3>1
  <2>2. CASE x # 0 /\ x + s <= n - 1
    <3>1. p = x + s + 1 /\ p # 1 /\ p - 1 - s >= 1 /\ p - 1 - s = x
      BY <1>1, <2>2 DEF Place
    <3> QED
      BY <1>2, <1>3, <3>1
  <2>3. CASE x # 0 /\ x + s > n - 1
    <3>1. p = x + s + 2 - n /\ p # 1 /\ ~(p - 1 - s >= 1) /\ p - 1 - s + n - 1 = x
      BY <1>1, <2>3 DEF Place
    <3> QED
      BY <1>2, <1>3, <3>1
  <2> QED
    BY <2>1, <2>2, <2>3
<1>5. \A i, j \in 1 .. n : Turned(n, s)[i] = Turned(n, s)[j] => i = j
  BY TurnedIs, Zenon
<1> QED
  BY <1>1, <1>2, <1>4, <1>5

\* Two ToRs are linked when they are at equal distance from both ends.
LEMMA LinkedAt ==
    ASSUME NEW h \in Nat, h >= 1, NEW n \in Nat, n = 2 * h, NEW s \in 0 .. n - 2,
           NEW t \in 0 .. n - 1, NEW u \in 0 .. n - 1, t # u
    PROVE  {t, u} \in Links(n, h, s + 1) <=> Place(n, t, s) + Place(n, u, s) = n + 1
<1>1. n >= 2 /\ s \in 0 .. n - 1 /\ (s + 1) - 1 = s
  OBVIOUS
<1>2. PICK r : r = Turned(n, s)
  OBVIOUS
<1>3. PICK p \in 1 .. n : p = Place(n, t, s) /\ r[p] = t /\ \A i \in 1 .. n : r[i] = t => i = p
  BY <1>1, <1>2, PlaceIs
<1>4. PICK q \in 1 .. n : q = Place(n, u, s) /\ r[q] = u /\ \A i \in 1 .. n : r[i] = u => i = q
  BY <1>1, <1>2, PlaceIs
<1>5. Links(n, h, s + 1) = {{r[i], r[n + 1 - i]} : i \in 1 .. h}
  BY <1>1, <1>2, Zenon DEF Links
<1>6. \A i \in 1 .. h : i \in 1 .. n /\ n + 1 - i \in 1 .. n
  OBVIOUS
<1>7. ASSUME {t, u} \in Links(n, h, s + 1) PROVE p + q = n + 1
  <2>1. PICK i \in 1 .. h : {t, u} = {r[i], r[n + 1 - i]}
    BY <1>5, <1>7
  <2>2. PICK j \in 1 .. n : j = n + 1 - i
    BY <1>6
  <2>3. {t, u} = {r[i], r[j]} /\ i \in 1 .. n
    BY <1>6, <2>1, <2>2
  <2>4. (r[i] = t /\ r[j] = u) \/ (r[i] = u /\ r[j] = t)
    BY <2>3
  <2>5. (i = p /\ j = q) \/ (i = q /\ j = p)
    BY <1>3, <1>4, <2>3, <2>4
  <2> QED
    BY <2>2, <2>5
<1>8. ASSUME p + q = n + 1 PROVE {t, u} \in Links(n, h, s + 1)
  <2>1. CASE p \in 1 .. h
    <3>1. q = n + 1 - p
      BY <1>8
    <3>2. {t, u} = {r[p], r[n + 1 - p]}
      BY <1>3, <1>4, <3>1
    <3> QED
      BY <1>5, <2>1, <3>2
  <2>2. CASE p \notin 1 .. h
    <3>1. q \in 1 .. h /\ p = n + 1 - q
      BY <1>8, <2>2
    <3>2. {t, u} = {r[q], r[n + 1 - q]}
      BY <1>3, <1>4, <3>1
    <3> QED
      BY <1>5, <3>1, <3>2
  <2> QED
    BY <2>1, <2>2
<1> QED
  BY <1>3, <1>4, <1>7, <1>8

\* That happens to two ToRs after one number of turns.
LEMMA MeetOnce ==
    ASSUME NEW h \in Nat, h >= 1, NEW n \in Nat, n = 2 * h,
           NEW t \in 0 .. n - 1, NEW u \in 0 .. n - 1, t # u
    PROVE  \E s \in 0 .. n - 2 :
              \A r \in 0 .. n - 2 : Place(n, t, r) + Place(n, u, r) = n + 1 <=> r = s
<1>1. ASSUME NEW x \in 1 .. n - 1, NEW r \in 0 .. n - 2
      PROVE  /\ Place(n, 0, r) + Place(n, x, r) = n + 1 <=> r = n - 1 - x
             /\ Place(n, x, r) + Place(n, 0, r) = n + 1 <=> r = n - 1 - x
  BY DEF Place
<1>2. CASE t = 0
  <2>1. u \in 1 .. n - 1 /\ n - 1 - u \in 0 .. n - 2
    BY <1>2
  <2> QED
    BY <1>1, <1>2, <2>1
<1>3. CASE u = 0
  <2>1. t \in 1 .. n - 1 /\ n - 1 - t \in 0 .. n - 2
    BY <1>3
  <2> QED
    BY <1>1, <1>3, <2>1
<1>4. CASE t # 0 /\ u # 0
  <2>1. PICK c \in Nat : t + u = 2 * c \/ t + u = 2 * c + 1
    <3>1. t + u \in Nat
      OBVIOUS
    <3>2. ASSUME NEW x \in Nat PROVE \E c \in Nat : x = 2 * c \/ x = 2 * c + 1
      <4>1. x \div 2 \in Nat /\ (x = 2 * (x \div 2) \/ x = 2 * (x \div 2) + 1)
        OBVIOUS
      <4> QED
        BY <4>1
    <3> QED
      BY <3>1, <3>2
  <2>2. ASSUME NEW r \in 0 .. n - 2
        PROVE  Place(n, t, r) + Place(n, u, r) =
                 (IF t + r <= n - 1 THEN t + r + 1 ELSE t + r + 2 - n)
                 + (IF u + r <= n - 1 THEN u + r + 1 ELSE u + r + 2 - n)
    BY <1>4 DEF Place
  <2>3. CASE t + u = 2 * c
    <3>1. n - 1 - c \in 0 .. n - 2
      BY <1>4, <2>3
    <3>2. ASSUME NEW r \in 0 .. n - 2
          PROVE  Place(n, t, r) + Place(n, u, r) = n + 1 <=> r = n - 1 - c
      BY <1>4, <2>2, <2>3
    <3> QED
      BY <3>1, <3>2
  <2>4. CASE t + u = 2 * c + 1 /\ t + u <= n - 1
    <3>1. h - 1 - c \in 0 .. n - 2
      BY <1>4, <2>4
    <3>2. ASSUME NEW r \in 0 .. n - 2
          PROVE  Place(n, t, r) + Place(n, u, r) = n + 1 <=> r = h - 1 - c
      BY <1>4, <2>2, <2>4
    <3> QED
      BY <3>1, <3>2
  <2>5. CASE t + u = 2 * c + 1 /\ t + u > n - 1
    <3>1. 3 * h - 2 - c \in 0 .. n - 2
      BY <1>4, <2>5
    <3>2. ASSUME NEW r \in 0 .. n - 2
          PROVE  Place(n, t, r) + Place(n, u, r) = n + 1 <=> r = 3 * h - 2 - c
      BY <1>4, <2>2, <2>5
    <3> QED
      BY <3>1, <3>2
  <2> QED
    BY <2>1, <2>3, <2>4, <2>5
<1> QED
  BY <1>2, <1>3, <1>4

\* Two ToRs or none share a link of a round, and every ToR has one.
LEMMA LinksAre ==
    ASSUME NEW h \in Nat, h >= 1, NEW n \in Nat, n = 2 * h, NEW k \in 1 .. n - 1
    PROVE  /\ \A e \in Links(n, h, k) : \E a, b \in Nat : a # b /\ e = {a, b}
           /\ \A e, f \in Links(n, h, k) : e \cap f # {} => e = f
           /\ UNION Links(n, h, k) = 0 .. n - 1
<1>1. n >= 2
  OBVIOUS
<1>2. PICK s \in 0 .. n - 1 : s = k - 1
  OBVIOUS
<1>3. PICK r \in [1 .. n -> 0 .. n - 1] :
         r = Turned(n, s) /\ \A i, j \in 1 .. n : r[i] = r[j] => i = j
  BY ONLY <1>1, n \in Nat, s \in 0 .. n - 1, TurnedIs
<1>4. Links(n, h, k) = {{r[i], r[n + 1 - i]} : i \in 1 .. h}
  <2>1. r = Turned(n, k - 1)
    BY <1>2, <1>3
  <2> QED
    BY ONLY <2>1 DEF Links
<1>5. \A i \in 1 .. h : i \in 1 .. n /\ n + 1 - i \in 1 .. n /\ i # n + 1 - i
  OBVIOUS
<1>6. ASSUME NEW e \in Links(n, h, k) PROVE \E a, b \in Nat : a # b /\ e = {a, b}
  <2>1. PICK i \in 1 .. h : e = {r[i], r[n + 1 - i]}
    BY <1>4
  <2>2. PICK j \in 1 .. n : j = n + 1 - i /\ i \in 1 .. n /\ i # j
    BY <1>5
  <2>3. r[i] \in Nat /\ r[j] \in Nat /\ r[i] # r[j]
    BY <1>3, <2>2
  <2> QED
    BY <2>1, <2>2, <2>3
<1>7. ASSUME NEW e \in Links(n, h, k), NEW f \in Links(n, h, k), e \cap f # {} PROVE e = f
  <2>1. PICK i \in 1 .. h : e = {r[i], r[n + 1 - i]}
    BY <1>4
  <2>2. PICK j \in 1 .. h : f = {r[j], r[n + 1 - j]}
    BY <1>4
  <2>3. PICK x \in 1 .. n : x = n + 1 - i /\ i \in 1 .. n
    BY <1>5
  <2>4. PICK y \in 1 .. n : y = n + 1 - j /\ j \in 1 .. n
    BY <1>5
  <2>5. r[i] = r[j] \/ r[i] = r[y] \/ r[x] = r[j] \/ r[x] = r[y]
    BY <1>7, <2>1, <2>2, <2>3, <2>4
  <2>6. i = j \/ i = y \/ x = j \/ x = y
    BY <1>3, <2>3, <2>4, <2>5
  <2>7. i = j
    BY <2>3, <2>4, <2>6
  <2> QED
    BY <2>1, <2>2, <2>7
<1>8. ASSUME NEW t \in 0 .. n - 1 PROVE t \in UNION Links(n, h, k)
  <2>1. PICK p \in 1 .. n : r[p] = t
    <3>1. Place(n, t, s) \in 1 .. n /\ Turned(n, s)[Place(n, t, s)] = t
      BY ONLY n \in Nat, <1>1, s \in 0 .. n - 1, t \in 0 .. n - 1, PlaceIs
    <3> QED
      BY <1>3, <3>1
  <2>2. CASE p \in 1 .. h
    <3>1. {r[p], r[n + 1 - p]} \in Links(n, h, k)
      BY <1>4, <2>2
    <3> QED
      BY <2>1, <3>1
  <2>3. CASE p \notin 1 .. h
    <3>1. PICK q \in 1 .. h : p = n + 1 - q
      <4>1. n + 1 - p \in 1 .. h /\ p = n + 1 - (n + 1 - p)
        BY <2>3
      <4> QED
        BY <4>1
    <3>2. {r[q], r[n + 1 - q]} \in Links(n, h, k)
      BY <1>4
    <3>3. r[n + 1 - q] = t
      BY <2>1, <3>1
    <3> QED
      BY <3>2, <3>3
  <2> QED
    BY <2>2, <2>3
<1>9. ASSUME NEW t \in UNION Links(n, h, k) PROVE t \in 0 .. n - 1
  <2>1. PICK i \in 1 .. h : t \in {r[i], r[n + 1 - i]}
    BY <1>4
  <2>2. r[i] \in 0 .. n - 1 /\ r[n + 1 - i] \in 0 .. n - 1
    BY <1>3, <1>5
  <2> QED
    BY <2>1, <2>2
<1> QED
  BY <1>6, <1>7, <1>8, <1>9

\* The circle is tidy.
LEMMA CircleIsTidy ==
    ASSUME NEW h \in Nat, h >= 1, NEW n \in Nat, n = 2 * h, NEW c, c = Circle(n, h, n - 1)
    PROVE  /\ Tidy(c) /\ slice_num(c) = n - 1 /\ ValidSlices(c) = 0 .. n - 2
           /\ \A s \in 0 .. n - 2 : EdgesIn(c, s) = Links(n, h, s + 1)
<1>1. /\ c \in Seq(Entry) /\ Len(c) = n - 1 /\ DOMAIN c = 1 .. n - 1
      /\ \A j \in 1 .. n - 1 : c[j].slice = j - 1 /\ c[j].edges = Links(n, h, j)
  <2>1. n - 1 \in 0 .. n - 1
    OBVIOUS
  <2>2. /\ Circle(n, h, n - 1) \in Seq(Entry) /\ Len(Circle(n, h, n - 1)) = n - 1
        /\ DOMAIN Circle(n, h, n - 1) = 1 .. n - 1
        /\ \A j \in 1 .. n - 1 :
              /\ Circle(n, h, n - 1)[j].slice = j - 1
              /\ Circle(n, h, n - 1)[j].edges = Links(n, h, j)
    BY <2>1, CircleIs, Zenon
  <2> QED
    BY <2>2, Zenon
<1>2. Tidy(c)
  <2>1. ASSUME NEW i \in 1 .. n - 1
        PROVE  /\ \A e \in c[i].edges : \E a, b \in Nat : a # b /\ e = {a, b}
               /\ \A e, f \in c[i].edges : e \cap f # {} => e = f
    <3>1. c[i].edges = Links(n, h, i)
      BY <1>1
    <3>2. /\ \A e \in Links(n, h, i) : \E a, b \in Nat : a # b /\ e = {a, b}
          /\ \A e, f \in Links(n, h, i) : e \cap f # {} => e = f
      BY LinksAre, Zenon
    <3>3. PICK g : g = Links(n, h, i)
      OBVIOUS
    <3>4. /\ \A e \in g : \E a, b \in Nat : a # b /\ e = {a, b}
          /\ \A e, f \in g : e \cap f # {} => e = f
      BY ONLY <3>2, <3>3
    <3>5. c[i].edges = g
      BY <3>1, <3>3
    <3> QED
      BY ONLY <3>4, <3>5
  <2> QED
    BY <1>1, <2>1 DEF Tidy
<1>3. /\ ValidSlices(c) = 0 .. Len(c) - 1 /\ slice_num(c) = Len(c)
      /\ \A s \in 0 .. Len(c) - 1 : EdgesIn(c, s) = c[s + 1].edges
  BY <1>2, TidySlices
<1>4. (n - 1) - 1 = n - 2
  OBVIOUS
<1>5. ASSUME NEW s \in 0 .. n - 2 PROVE EdgesIn(c, s) = Links(n, h, s + 1)
  <2>1. s + 1 \in 1 .. n - 1
    OBVIOUS
  <2> QED
    BY <1>1, <1>3, <1>4, <2>1
<1> QED
  BY <1>1, <1>2, <1>3, <1>4, <1>5

\* An even number has a half.
LEMMA HalfOf ==
    ASSUME NEW n \in Nat, RoundRobinAccepts(n, 1), n >= 2
    PROVE  \E h \in Nat : h >= 1 /\ n = 2 * h
<1>1. n % 2 = 0
  BY DEF RoundRobinAccepts
<1>2. n \div 2 \in Nat /\ n \div 2 >= 1 /\ n = 2 * (n \div 2)
  BY <1>1
<1> QED
  BY <1>2

\* The sizes of round robins are numbers.
LEMMA TournamentSizes == \A n \in Tournaments : n \in Nat /\ n >= 2
<1> SUFFICES ASSUME NEW n \in Tournaments PROVE n \in Nat /\ n >= 2
  OBVIOUS
<1>1. PICK a \in RoundRobins : n = a[1]
  BY DEF Tournaments
<1>2. n \in Nat
  BY <1>1, SizesAssumption
<1>3. n # 0 /\ n # 1
  BY DEF Tournaments
<1> QED
  BY <1>2, <1>3

\* round_robin() with one port and any even number of ToRs connects every two
\* of them in exactly one of its slices, and every ToR in each slice.
THEOREM EveryPairMeets == Spec => []EveryPairMeetsOnce
<1>1. OneCall => EveryPairMeetsOnce
  <2> SUFFICES ASSUME OneCall, NEW n \in Tournaments,
                      made = <<<<"round_robin", n, 1>>>>, phase # "raised"
               PROVE  /\ ValidSlices(topo) = 0 .. n - 2
                      /\ \A t, u \in 0 .. n - 1 : t # u =>
                            Cardinality({s \in 0 .. n - 2 : {t, u} \in EdgesIn(topo, s)}) = 1
                      /\ \A s \in 0 .. n - 2 : UNION EdgesIn(topo, s) = 0 .. n - 1
    BY DEF EveryPairMeetsOnce
  <2>1. RoundRobinAccepts(n, 1) /\ topo = ConnectAll(<< >>, RoundRobinCalls(n, 1))
    BY DEF OneCall
  <2>2. n \in Nat /\ n >= 2
    BY TournamentSizes
  <2>3. PICK h \in Nat : h >= 1 /\ n = 2 * h
    BY <2>1, <2>2, HalfOf
  <2>4. topo = Circle(n, h, n - 1)
    BY <2>1, <2>2, <2>3, RoundRobinMakes
  <2>5. /\ ValidSlices(topo) = 0 .. n - 2
        /\ \A s \in 0 .. n - 2 : EdgesIn(topo, s) = Links(n, h, s + 1)
    BY <2>2, <2>3, <2>4, CircleIsTidy
  <2>6. ASSUME NEW t \in 0 .. n - 1, NEW u \in 0 .. n - 1, t # u
        PROVE  Cardinality({s \in 0 .. n - 2 : {t, u} \in EdgesIn(topo, s)}) = 1
    <3>1. PICK s \in 0 .. n - 2 :
             \A r \in 0 .. n - 2 : Place(n, t, r) + Place(n, u, r) = n + 1 <=> r = s
      BY <2>2, <2>3, <2>6, MeetOnce
    <3>2. \A r \in 0 .. n - 2 :
             {t, u} \in EdgesIn(topo, r) <=> Place(n, t, r) + Place(n, u, r) = n + 1
      BY <2>2, <2>3, <2>5, <2>6, LinkedAt
    <3>3. {r \in 0 .. n - 2 : {t, u} \in EdgesIn(topo, r)} = {s}
      BY <3>1, <3>2
    <3> QED
      BY <3>3, FS_Singleton
  <2>7. ASSUME NEW s \in 0 .. n - 2 PROVE UNION EdgesIn(topo, s) = 0 .. n - 1
    <3>1. s + 1 \in 1 .. n - 1
      BY <2>2
    <3>2. UNION Links(n, h, s + 1) = 0 .. n - 1
      BY <2>2, <2>3, <3>1, LinksAre
    <3> QED
      BY <2>5, <3>2
  <2> QED
    BY <2>5, <2>6, <2>7
<1> QED
  BY <1>1, SpecOneCall, PTL

\* The script has one call, of a generator with one port.
Generated ==
    \E n \in Nat : \/ made = <<<<"topology_random", n>>>>
                   \/ n >= 2 /\ made = <<<<"round_robin", n, 1>>>>

\* What the generators make is tidy.
LEMMA GeneratedIsTidy == ASSUME OneCall, Generated, phase # "raised" PROVE Tidy(topo)
<1>1. PICK n \in Nat : \/ made = <<<<"topology_random", n>>>>
                       \/ n >= 2 /\ made = <<<<"round_robin", n, 1>>>>
  BY DEF Generated
<1>2. CASE made = <<<<"topology_random", n>>>>
  <2>1. topo \in RandomTopologies(n)
    BY <1>2 DEF OneCall
  <2> QED
    BY <2>1, RandomsAreTidy
<1>3. CASE n >= 2 /\ made = <<<<"round_robin", n, 1>>>>
  <2>1. RoundRobinAccepts(n, 1) /\ topo = ConnectAll(<< >>, RoundRobinCalls(n, 1))
    BY <1>3 DEF OneCall
  <2>2. PICK h \in Nat : h >= 1 /\ n = 2 * h
    BY <1>3, <2>1, HalfOf
  <2>3. topo = Circle(n, h, n - 1)
    BY <2>1, <2>2, RoundRobinMakes
  <2> QED
    BY <2>2, <2>3, CircleIsTidy
<1> QED
  BY <1>1, <1>2, <1>3

\* So a script that lets one of the generators make its topology ends, if it
\* does not raise, with routes that meet the links of the switch and lose no
\* time, and with a switch that connects its ports in pairs.
THEOREM GeneratedSchedules ==
    Spec => [](Generated => RoutesMeetTheirLink /\ RoutesLoseNoTime /\ OcsIsMatching)
<1>1. /\ OneCall /\ Staged
      /\ (Tidy(topo) => RoutesMeetTheirLink) /\ (Tidy(topo) => RoutesLoseNoTime)
      /\ (Tidy(topo) => OcsIsMatching)
      => (Generated => RoutesMeetTheirLink /\ RoutesLoseNoTime /\ OcsIsMatching)
  <2> SUFFICES ASSUME OneCall, Staged, Generated,
                      Tidy(topo) => RoutesMeetTheirLink, Tidy(topo) => RoutesLoseNoTime,
                      Tidy(topo) => OcsIsMatching
               PROVE  RoutesMeetTheirLink /\ RoutesLoseNoTime /\ OcsIsMatching
    OBVIOUS
  <2>1. CASE phase # "raised"
    BY <2>1, GeneratedIsTidy
  <2>2. CASE phase = "raised"
    <3>1. DOMAIN << >> = {}
      OBVIOUS
    <3>2. ocs_table = << >>
      BY <2>2 DEF Staged
    <3> QED
      BY <2>2, <3>1, <3>2 DEF RoutesMeetTheirLink, RoutesLoseNoTime, OcsIsMatching
  <2> QED
    BY <2>1, <2>2
<1> QED
  BY <1>1, SpecOneCall, SpecStaged, TidyRoutesMeet, TidyRoutesLoseNoTime, TidyIsMatching, PTL

----------------------------------------------------------------------------
(* A circle can be routed.                                                 *)

\* It has as many ToRs as were asked for.
LEMMA CircleTors ==
    ASSUME NEW h \in Nat, h >= 1, NEW n \in Nat, n = 2 * h, NEW c, c = Circle(n, h, n - 1)
    PROVE  tor_num(c) = n /\ Nodes(c) = 0 .. n - 1
<1>1. /\ DOMAIN c = 1 .. n - 1
      /\ \A j \in 1 .. n - 1 : c[j].edges = Links(n, h, j)
  <2>1. n - 1 \in 0 .. n - 1
    OBVIOUS
  <2>2. /\ Circle(n, h, n - 1) \in Seq(Entry) /\ Len(Circle(n, h, n - 1)) = n - 1
        /\ DOMAIN Circle(n, h, n - 1) = 1 .. n - 1
        /\ \A j \in 1 .. n - 1 :
              /\ Circle(n, h, n - 1)[j].slice = j - 1
              /\ Circle(n, h, n - 1)[j].edges = Links(n, h, j)
    BY <2>1, CircleIs, Zenon
  <2> QED
    BY <2>2, Zenon
<1>2. ASSUME NEW j \in 1 .. n - 1 PROVE UNION Links(n, h, j) = 0 .. n - 1
  BY LinksAre
<1>3. 1 \in 1 .. n - 1
  OBVIOUS
<1>4. Nodes(c) = 0 .. n - 1
  <2>1. ASSUME NEW t \in 0 .. n - 1 PROVE t \in Nodes(c)
    <3>1. t \in UNION c[1].edges /\ 1 \in DOMAIN c
      BY <1>1, <1>2, <1>3
    <3> QED
      BY <3>1 DEF Nodes
  <2>2. ASSUME NEW t \in Nodes(c) PROVE t \in 0 .. n - 1
    <3>1. PICK j \in DOMAIN c : t \in UNION c[j].edges
      BY DEF Nodes
    <3> QED
      BY <1>1, <1>2, <3>1
  <2> QED
    BY <2>1, <2>2
<1>5. Cardinality(0 .. n - 1) = n
  <2>1. Cardinality(0 .. n - 1) = IF 0 > n - 1 THEN 0 ELSE (n - 1) - 0 + 1
    BY FS_Interval
  <2> QED
    BY <2>1
<1> QED
  BY <1>4, <1>5 DEF tor_num

\* From any slice a path is found to every other ToR.
LEMMA CircleRoutes ==
    ASSUME NEW h \in Nat, h >= 1, NEW n \in Nat, n = 2 * h, NEW c, c = Circle(n, h, n - 1),
           NEW k \in RouteKeys(c)
    PROVE  routing(c)[k] # Raise /\ routing(c)[k] # None
<1>1. /\ slice_num(c) = n - 1 /\ ValidSlices(c) = 0 .. n - 2 /\ tor_num(c) = n
      /\ \A s \in 0 .. n - 2 : EdgesIn(c, s) = Links(n, h, s + 1)
  BY CircleTors, CircleIsTidy
<1>2. (n - 1) - 1 = n - 2
  OBVIOUS
<1>3. PICK src \in 0 .. n - 1, dst \in 0 .. n - 1, at \in 0 .. n - 2 :
         src = k[1] /\ dst = k[2] /\ at = k[3] /\ src # dst
  BY <1>1, <1>2 DEF RouteKeys
<1> DEFINE m == slice_num(c)
<1>4. m \in Nat /\ m = n - 1 /\ m >= 1 /\ m > 0 /\ n - 2 = m - 1
  BY <1>1
<1> DEFINE At(w) == (at + w) % m
           Readable(w) == At(w) \in ValidSlices(c) /\ dst \in UNION EdgesIn(c, At(w))
           Found(w) == Readable(w) /\ {src, dst} \in EdgesIn(c, At(w))
           stop == {w \in 0 .. m - 1 : ~Readable(w) \/ Found(w)}
           first == CHOOSE w \in stop : \A v \in stop : w <= v
<1>5. routing(c)[k] = IF stop = {} THEN None ELSE IF Found(first) THEN At(first) ELSE Raise
  <2>1. routing(c)[k] = earliest_direct_conn(c, src, dst, at)
    BY <1>3 DEF routing
  <2> QED
    BY <2>1 DEF earliest_direct_conn
<1> HIDE DEF m
<1>6. ASSUME NEW w \in 0 .. m - 1 PROVE Readable(w) /\ At(w) \in 0 .. m - 1
  <2>1. PICK x : x = At(w)
    OBVIOUS
  <2>2. x \in 0 .. m - 1
    <3>1. PICK z \in Nat : z = at + w
      BY <1>3
    <3>2. z % m \in 0 .. m - 1
      BY <1>4
    <3> QED
      BY <2>1, <3>1, <3>2
  <2>3. x \in 0 .. n - 2 /\ x + 1 \in 1 .. n - 1
    BY <1>4, <2>2
  <2>4. UNION Links(n, h, x + 1) = 0 .. n - 1
    BY <2>3, LinksAre
  <2>5. dst \in UNION EdgesIn(c, x) /\ x \in ValidSlices(c)
    BY <1>1, <2>3, <2>4
  <2> QED
    BY <2>1, <2>2, <2>5
<1>7. \E w \in 0 .. m - 1 : Found(w)
  <2>1. PICK s \in 0 .. n - 2 :
           \A r \in 0 .. n - 2 : Place(n, src, r) + Place(n, dst, r) = n + 1 <=> r = s
    <3>1. src # dst
      BY <1>3
    <3> QED
      BY <3>1, MeetOnce, Zenon
  <2>2. {src, dst} \in EdgesIn(c, s)
    <3>1. Place(n, src, s) + Place(n, dst, s) = n + 1
      BY <2>1
    <3>2. {src, dst} \in Links(n, h, s + 1)
      BY <1>3, <3>1, LinkedAt
    <3> QED
      BY <1>1, <3>2
  <2>3. PICK w \in 0 .. m - 1 : at + w = s \/ at + w = s + m
    <3>1. CASE at <= s
      <4>1. s - at \in 0 .. m - 1 /\ at + (s - at) = s
        BY <1>4, <3>1
      <4> QED
        BY <4>1
    <3>2. CASE at > s
      <4>1. s - at + m \in 0 .. m - 1 /\ at + (s - at + m) = s + m
        BY <1>4, <3>2
      <4> QED
        BY <4>1
    <3> QED
      BY <3>1, <3>2
  <2>4. At(w) = s
    <3>1. PICK z \in 0 .. 2 * m - 1 : z = at + w
      BY <1>4, <2>3
    <3>2. PICK y : y = z % m
      OBVIOUS
    <3>3. y = IF z < m THEN z ELSE z - m
      BY ONLY <1>4, z \in 0 .. 2 * m - 1, <3>2, ModOf
    <3>4. y = s
      BY <1>4, <2>3, <3>1, <3>3
    <3> QED
      BY <3>1, <3>2, <3>4
  <2>5. {src, dst} \in EdgesIn(c, At(w))
    BY <2>2, <2>4
  <2>6. Readable(w)
    BY <1>6
  <2> QED
    BY <2>5, <2>6
<1>8. stop # {} /\ \A w \in stop : Found(w) /\ At(w) \in 0 .. m - 1
  <2> HIDE DEF Readable, At
  <2> QED
    BY <1>6, <1>7
<1>9. first \in stop
  <2>1. IsFiniteSet(stop) /\ stop \in SUBSET Int
    <3>1. IsFiniteSet(0 .. m - 1) /\ 0 .. m - 1 \subseteq Int
      BY <1>4, FS_Interval
    <3>2. stop \in SUBSET (0 .. m - 1)
      OBVIOUS
    <3> HIDE DEF stop
    <3> QED
      BY <3>1, <3>2, FS_Subset
  <2> HIDE DEF stop
  <2>2. \E w \in stop : \A v \in stop : w <= v
    BY <1>8, <2>1, Extremes
  <2> QED
    BY <2>2
<1> HIDE DEF stop, first, Found, At
<1>10. routing(c)[k] = At(first) /\ At(first) \in 0 .. m - 1
  BY <1>5, <1>8, <1>9
<1> QED
  BY <1>10 DEF Raise, None

\* A script with one round robin of one port and an even number of ToRs gets
\* to its tables: no step of it raises.
THEOREM NoCircleRaises == Spec => []CirclesNeverRaise
<1>1. Init => CirclesNeverRaise
  <2>1. \A x : << >> # <<x>>
    OBVIOUS
  <2> QED
    BY <2>1 DEF Init, CirclesNeverRaise
<1>2. OneCall /\ Staged /\ CirclesNeverRaise /\ [Next]_vars => CirclesNeverRaise'
  <2> SUFFICES ASSUME OneCall, Staged, CirclesNeverRaise, [Next]_vars,
                      NEW n \in Tournaments, n % 2 = 0, made' = <<<<"round_robin", n, 1>>>>
               PROVE  phase' # "raised"
    BY DEF CirclesNeverRaise
  <2>0. made \in Seq(ScriptCalls)
    BY DEF OneCall
  <2>a. made' = made => phase # "raised"
    BY DEF CirclesNeverRaise
  <2>b. RoundRobinAccepts(n, 1) /\ n \in Nat /\ n >= 2
    BY TournamentSizes DEF RoundRobinAccepts
  <2>c. PICK h \in Nat : h >= 1 /\ n = 2 * h
    BY <2>b, HalfOf
  <2>d. ASSUME made' = made PROVE topo = Circle(n, h, n - 1)
    <3>1. topo = ConnectAll(<< >>, RoundRobinCalls(n, 1))
      BY <2>a, <2>d DEF OneCall
    <3> QED
      BY <2>b, <2>c, <3>1, RoundRobinMakes
  <2>1. ASSUME NEW call \in ConnectCalls, Connect(call) PROVE phase' # "raised"
    BY <2>1 DEF Connect, Building
  <2>2. ASSUME NEW a \in RoundRobins, RoundRobin(a[1], a[2]) PROVE phase' # "raised"
    <3> DEFINE c == <<"round_robin", a[1], a[2]>>
    <3>1. made' = Append(made, c) /\ c \in ScriptCalls
      BY <2>2 DEF RoundRobin, ScriptCalls
    <3>2. c = <<"round_robin", n, 1>>
      <4> HIDE DEF c
      <4> QED
        BY <2>0, <3>1, OneAppended
    <3>3. a[1] = n /\ a[2] = 1
      BY <3>2
    <3> QED
      BY <2>2, <2>b, <3>3 DEF RoundRobin, Building
  <2>3. ASSUME NEW m \in RandomSizes, TopologyRandom(m) PROVE phase' # "raised"
    <3> DEFINE c == <<"topology_random", m>>
    <3>1. made' = Append(made, c) /\ c \in ScriptCalls
      BY <2>3 DEF TopologyRandom, ScriptCalls
    <3>2. c = <<"round_robin", n, 1>>
      <4> HIDE DEF c
      <4> QED
        BY <2>0, <3>1, OneAppended
    <3> QED
      BY <3>2
  <2>4. CASE Routing
    <3>1. topo = Circle(n, h, n - 1)
      BY <2>4, <2>d DEF Routing
    <3>2. 0 \in ValidSlices(topo)
      <4>1. ValidSlices(topo) = 0 .. n - 2
        BY <2>b, <2>c, <3>1, CircleIsTidy
      <4> QED
        BY <2>b, <4>1
    <3>3. \A k \in RouteKeys(topo) : routing(topo)[k] # Raise
      BY <2>b, <2>c, <3>1, CircleRoutes
    <3> QED
      BY <2>4, <3>2, <3>3 DEF Routing
  <2>5. CASE Entries
    <3>1. topo = Circle(n, h, n - 1) /\ phase = "routed"
      BY <2>5, <2>d DEF Entries
    <3>2. routing_path = routing(topo)
      BY <3>1 DEF Staged
    <3>3. \A k \in RouteKeys(topo) : routing(topo)[k] # None
      BY <2>b, <2>c, <3>1, CircleRoutes
    <3>4. DOMAIN routing(topo) = RouteKeys(topo)
      BY DEF routing
    <3> QED
      BY <2>5, <3>2, <3>3, <3>4 DEF Entries
  <2>6. CASE SetupOcs
    <3>1. topo = Circle(n, h, n - 1) /\ num_hosts = n
      BY <2>6, <2>a, <2>d DEF SetupOcs, OneCall
    <3>2. tor_num(topo) = n
      BY <2>b, <2>c, <3>1, CircleTors
    <3> QED
      BY <2>6, <2>b, <3>1, <3>2 DEF SetupOcs
  <2>7. CASE UNCHANGED vars
    BY <2>7, <2>a DEF vars
  <2> QED
    BY <2>1, <2>2, <2>3, <2>4, <2>5, <2>6, <2>7 DEF Next
<1> QED
  BY <1>1, <1>2, SpecOneCall, SpecStaged, PTL DEF Spec

----------------------------------------------------------------------------
(* What the network takes for granted of its schedule.                     *)

\* Over a tidy topology no two entries for the switch have one key: there is
\* one table that it can have been given.
LEMMA OneTable == ASSUME NEW t, Tidy(t) PROVE Cardinality(OcsTables(t)) = 1
<1> DEFINE entries == OcsEntries(t)
           Outs(k) == {e.out : e \in {e \in entries : <<e.port, e.slice>> = k}}
           keys == {<<e.port, e.slice>> : e \in entries}
           doubtful == {k \in keys : Cardinality(Outs(k)) > 1}
           firsts == {f \in [doubtful -> UNION {Outs(k) : k \in doubtful}] :
                         \A k \in doubtful : f[k] \in Outs(k)}
           table(f) == [k \in keys |-> IF k \in doubtful THEN f[k] ELSE CHOOSE o \in Outs(k) : TRUE]
           the == [k \in keys |-> CHOOSE o \in Outs(k) : TRUE]
<1>1. OcsTables(t) = {table(f) : f \in firsts}
  BY DEF OcsTables
<1>2. ASSUME NEW k \in keys PROVE k \notin doubtful
  <2>1. PICK x \in entries : k = <<x.port, x.slice>>
    OBVIOUS
  <2>2. PICK a, b, s \in Nat : Linked(t, s, a, b) /\ x = EntryFor(s, a, b)
    BY EntriesAre
  <2>3. k = <<a + 1, s>> /\ x.out = b + 1
    BY <2>1, <2>2 DEF EntryFor
  <2>4. ASSUME NEW e \in entries, <<e.port, e.slice>> = k PROVE e.out = b + 1
    <3>1. PICK c, d, r \in Nat : Linked(t, r, c, d) /\ e = EntryFor(r, c, d)
      BY EntriesAre
    <3>2. e.port = c + 1 /\ e.slice = r /\ e.out = d + 1
      BY <3>1 DEF EntryFor
    <3>3. c = a /\ r = s
      BY <2>3, <2>4, <3>2
    <3>4. d = b
      BY <2>2, <3>1, <3>3, OnePartner
    <3> QED
      BY <3>2, <3>4
  <2>5. Outs(k) = {b + 1}
    <3> HIDE DEF entries
    <3> QED
      BY <2>1, <2>3, <2>4
  <2>6. Cardinality({b + 1}) = 1
    BY FS_Singleton
  <2> HIDE DEF Outs, keys
  <2> QED
    BY <2>5, <2>6
<1>3. doubtful = {}
  BY <1>2
<1>4. \A f : table(f) = the
  <2> HIDE DEF doubtful, Outs, keys
  <2> QED
    BY <1>3
<1>5. firsts # {}
  <2> DEFINE e == [k \in {} |-> {}]
  <2>1. \A R : e \in [{} -> R]
    OBVIOUS
  <2> HIDE DEF doubtful, Outs, e
  <2>2. e \in firsts
    BY <1>3, <2>1
  <2> QED
    BY <2>2
<1>6. OcsTables(t) = {the}
  <2> HIDE DEF firsts, table, the
  <2> QED
    BY <1>1, <1>4, <1>5
<1> HIDE DEF the
<1> QED
  BY <1>6, FS_Singleton

\* With one port and an even number of ToRs a round robin is a tournament, and
\* the script that asks for it ends with a route for every pair.
THEOREM CirclesComplete == Spec => []CirclesAreComplete
<1>1. EveryPairMeetsOnce /\ CirclesNeverRaise => CirclesAreComplete
  BY DEF CirclesAreComplete
<1> QED
  BY <1>1, EveryPairMeets, NoCircleRaises, PTL

\* TopologyAssumption of OpticalNetwork is true of the round robins: slices and
\* ToRs are numbered from 0 without a gap, and the switch has one table.
THEOREM CirclesFitNetwork ==
    Spec => [](\A n \in Nat :
                  made = <<<<"round_robin", n, 1>>>> /\ n >= 2 /\ phase # "raised" =>
                     /\ ValidSlices(topo) = 0 .. slice_num(topo) - 1
                     /\ Nodes(topo) = 0 .. tor_num(topo) - 1
                     /\ Cardinality(OcsTables(topo)) = 1)
<1> DEFINE Fits == \A n \in Nat :
                  made = <<<<"round_robin", n, 1>>>> /\ n >= 2 /\ phase # "raised" =>
                     /\ ValidSlices(topo) = 0 .. slice_num(topo) - 1
                     /\ Nodes(topo) = 0 .. tor_num(topo) - 1
                     /\ Cardinality(OcsTables(topo)) = 1
<1>1. OneCall => Fits
  <2> SUFFICES ASSUME OneCall, NEW n \in Nat, made = <<<<"round_robin", n, 1>>>>, n >= 2,
                      phase # "raised"
               PROVE  /\ ValidSlices(topo) = 0 .. slice_num(topo) - 1
                      /\ Nodes(topo) = 0 .. tor_num(topo) - 1
                      /\ Cardinality(OcsTables(topo)) = 1
    OBVIOUS
  <2>1. RoundRobinAccepts(n, 1) /\ topo = ConnectAll(<< >>, RoundRobinCalls(n, 1))
    BY DEF OneCall
  <2>2. PICK h \in Nat : h >= 1 /\ n = 2 * h
    BY <2>1, HalfOf
  <2>3. topo = Circle(n, h, n - 1)
    BY <2>1, <2>2, RoundRobinMakes
  <2>4. Tidy(topo) /\ tor_num(topo) = n /\ Nodes(topo) = 0 .. n - 1
    BY <2>2, <2>3, CircleIsTidy, CircleTors
  <2>5. ValidSlices(topo) = 0 .. slice_num(topo) - 1
    BY <2>4, TidySlices
  <2> QED
    BY <2>4, <2>5, OneTable
<1> QED
  BY <1>1, SpecOneCall, PTL
=============================================================================
