---------------------------- MODULE DigestsProofs ----------------------------
(***************************************************************************)
(* Proofs about the requests of a packet and the notifications, for every  *)
(* P4 program, every width of a request field, every set of headers,       *)
(* contexts, tables and lists, and every interleaving of packets and       *)
(* senders:                                                                *)
(*   - Sizes: the size of a set of headers, which is a fold, adds up;      *)
(*   - Registers: four fields of a register do not disturb each other;     *)
(*   - Swaps (NInv): what the senders do during a configuration swap;      *)
(*   - Requests, One packet (QInv): the registers always hold what was     *)
(*     asked for, the length is exact, and the metadata says which packets *)
(*     are to be dropped;                                                  *)
(*   - Digests (WInv): which digests reach P4Runtime, and which do not.    *)
(***************************************************************************)
EXTENDS Digests, FiniteSetTheorems, TLAPS

----------------------------------------------------------------------------
(* Sizes.  An induction over the subsets of a finite set.                  *)

\* Every set of subsets of S that has the smallest one, and one when it has all
\* smaller ones, has all.
LEMMA SubsetInduction ==
    ASSUME NEW S, IsFiniteSet(S), NEW Q,
           \A T \in SUBSET S : (\A U \in SUBSET T : U # T => U \in Q) => T \in Q
    PROVE  SUBSET S \subseteq Q
<1> DEFINE R == StrictSubsetOrdering(S)
           Rest == (SUBSET S) \ Q
<1>1. IsWellFoundedOn(R, FiniteSubsetsOf(S))
  BY FS_StrictSubsetOrderingWellFounded
<1>2. \A T \in SUBSET S : T \in FiniteSubsetsOf(S)
  BY FS_Subset DEF FiniteSubsetsOf
<1>3. SUFFICES ASSUME Rest # {} PROVE FALSE
  OBVIOUS
<1>4. PICK T \in Rest : \A U \in Rest : <<U, T>> \notin R
  <2>1. Rest \subseteq FiniteSubsetsOf(S)
    BY <1>2
  <2> HIDE DEF R, Rest
  <2> QED
    BY <1>1, <1>3, <2>1, WFMin
<1>5. T \in SUBSET S /\ T \notin Q
  BY <1>4
<1>6. ASSUME NEW U \in SUBSET T, U # T PROVE U \in Q
  <2>1. <<U, T>> \in R
    BY <1>5, <1>6 DEF StrictSubsetOrdering
  <2>2. U \in Rest => <<U, T>> \notin R
    <3> HIDE DEF R
    <3> QED
      BY <1>4
  <2> QED
    BY <1>5, <2>1, <2>2
<1> QED
  BY <1>5, <1>6

First(s) == CHOOSE x \in s : TRUE

\* Function g sums up the bytes of the subsets of S.
Sums(g, S) ==
    g = [s \in SUBSET S |->
            IF s = {} THEN 0 ELSE Bytes[First(s)] + g[s \ {First(s)}]]

\* Size is the fold of a function on the subsets of its argument.
LEMMA SizeIs == ASSUME NEW S PROVE Size(S) = (CHOOSE g : Sums(g, S))[S]
BY DEF Size, MapThenSumSet, MapThenFoldSet, Sums, First

\* The header a fold takes next is one of those left.
LEMMA FirstIn == ASSUME NEW s, s # {} PROVE First(s) \in s
BY DEF First

\* What such a function is at each subset.
LEMMA SumsAre ==
    ASSUME NEW g, NEW S, Sums(g, S), NEW s \in SUBSET S
    PROVE  g[s] = IF s = {} THEN 0 ELSE Bytes[First(s)] + g[s \ {First(s)}]
BY DEF Sums

\* Two such functions agree on every finite set both are defined on: well-founded
\* induction over its subsets, as a set of subsets that is all of them.
LEMMA SumsAgree ==
    ASSUME NEW S, IsFiniteSet(S), NEW g, NEW A, Sums(g, A), NEW h, NEW B, Sums(h, B),
           S \subseteq A \cap B
    PROVE  g[S] = h[S]
<1> DEFINE Q == {s \in SUBSET S : g[s] = h[s]}
<1>1. ASSUME NEW T \in SUBSET S, \A U \in SUBSET T : U # T => U \in Q PROVE T \in Q
  <2>1. CASE T = {}
    BY <2>1, SumsAre
  <2>2. CASE T # {}
    <3>1. First(T) \in T
      BY <2>2, FirstIn
    <3>2. T \ {First(T)} \in Q
      BY <1>1, <3>1
    <3>3. g[T] = Bytes[First(T)] + g[T \ {First(T)}]
      BY <2>2, SumsAre
    <3>4. h[T] = Bytes[First(T)] + h[T \ {First(T)}]
      BY <2>2, SumsAre
    <3> QED
      BY <3>2, <3>3, <3>4
  <2> QED
    BY <2>1, <2>2
<1>2. SUBSET S \subseteq Q
  <2> HIDE DEF Q
  <2> QED
    BY <1>1, SubsetInduction
<1> QED
  BY <1>2

\* On every finite set there is such a function, by the same induction.
LEMMA SumsExist == ASSUME NEW S, IsFiniteSet(S) PROVE \E g : Sums(g, S)
<1> DEFINE Q == {s \in SUBSET S : \E g : Sums(g, s)}
<1>1. ASSUME NEW T \in SUBSET S, \A U \in SUBSET T : U # T => U \in Q PROVE T \in Q
  <2>1. \A U \in SUBSET T : U # T => Sums(CHOOSE g : Sums(g, U), U)
    BY <1>1
  <2>2. ASSUME NEW U \in SUBSET T, U # T
        PROVE  Size(U) = IF U = {} THEN 0 ELSE Bytes[First(U)] + Size(U \ {First(U)})
    <3> DEFINE g == CHOOSE g : Sums(g, U)
               V == U \ {First(U)}
               h == CHOOSE h : Sums(h, V)
    <3>1. Size(U) = g[U] /\ Size(V) = h[V]
      BY SizeIs
    <3>2. Sums(g, U)
      BY <2>1, <2>2
    <3>3. CASE U = {}
      BY <3>1, <3>2, <3>3, SumsAre
    <3>4. CASE U # {}
      <4>1. First(U) \in U /\ V \in SUBSET T /\ V # T /\ V \subseteq U
        BY <2>2, <3>4, FirstIn
      <4>2. Sums(h, V)
        BY <2>1, <4>1
      <4>3. IsFiniteSet(V)
        BY <4>1, FS_Subset
      <4>4. g[V] = h[V]
        <5> HIDE DEF g, h, V
        <5> QED
          BY <3>2, <4>1, <4>2, <4>3, SumsAgree
      <4>5. g[U] = Bytes[First(U)] + g[V]
        BY <3>2, <3>4, SumsAre
      <4> QED
        BY <3>1, <3>4, <4>4, <4>5
    <3> QED
      BY <3>3, <3>4
  <2> DEFINE G == [s \in SUBSET T |->
                      IF s = {} THEN 0 ELSE Bytes[First(s)] + Size(s \ {First(s)})]
  <2>3. ASSUME NEW s \in SUBSET T, s # {} PROVE G[s \ {First(s)}] = Size(s \ {First(s)})
    <3>1. First(s) \in s
      BY <2>3, FirstIn
    <3>2. s \ {First(s)} \in SUBSET T /\ s \ {First(s)} # T
      BY <3>1
    <3> QED
      BY <2>2, <3>2
  <2>4. Sums(G, T)
    <3>1. \A s \in SUBSET T : (IF s = {} THEN 0 ELSE Bytes[First(s)] + Size(s \ {First(s)}))
                            = (IF s = {} THEN 0 ELSE Bytes[First(s)] + G[s \ {First(s)}])
      <4> HIDE DEF G
      <4> QED
        BY <2>3
    <3> QED
      BY <3>1 DEF Sums
  <2> QED
    BY <2>4
<1>2. SUBSET S \subseteq Q
  <2> HIDE DEF Q
  <2> QED
    BY <1>1, SubsetInduction
<1> QED
  BY <1>2

\* Size, as the recursion it stands for.
LEMMA SizeStep ==
    ASSUME NEW S, IsFiniteSet(S)
    PROVE  Size(S) = IF S = {} THEN 0 ELSE Bytes[First(S)] + Size(S \ {First(S)})
<1> DEFINE g == CHOOSE g : Sums(g, S)
           V == S \ {First(S)}
           h == CHOOSE h : Sums(h, V)
<1>1. IsFiniteSet(V)
  BY FS_Subset
<1>2. Sums(g, S) /\ Sums(h, V)
  BY <1>1, SumsExist
<1>3. g[V] = h[V]
  <2>1. V \subseteq S
    OBVIOUS
  <2> HIDE DEF g, h, V
  <2> QED
    BY <1>1, <1>2, <2>1, SumsAgree
<1>4. Size(S) = g[S] /\ Size(V) = h[V]
  BY SizeIs
<1>5. g[S] = IF S = {} THEN 0 ELSE Bytes[First(S)] + g[V]
  BY <1>2, SumsAre
<1> QED
  BY <1>3, <1>4, <1>5

\* The size of a set of headers is a natural number.
LEMMA SizeNat == ASSUME NEW S \in SUBSET Header PROVE Size(S) \in Nat
<1> DEFINE Q == {s \in SUBSET Header : Size(s) \in Nat}
<1>0. IsFiniteSet(Header) /\ Bytes \in [Header -> Nat]
  BY MetadataAssumption
<1>1. ASSUME NEW T \in SUBSET Header, \A U \in SUBSET T : U # T => U \in Q PROVE T \in Q
  <2>0. IsFiniteSet(T)
    BY <1>0, FS_Subset
  <2>1. CASE T = {}
    <3>1. Size(T) = 0
      BY <2>0, <2>1, SizeStep
    <3> QED
      BY <3>1
  <2>2. CASE T # {}
    <3>1. First(T) \in T
      BY <2>2, FirstIn
    <3>2. Size(T \ {First(T)}) \in Nat
      BY <1>1, <3>1
    <3>3. Bytes[First(T)] \in Nat
      BY <1>0, <3>1
    <3> QED
      BY <2>0, <2>2, <3>2, <3>3, SizeStep
  <2> QED
    BY <2>1, <2>2
<1>2. SUBSET Header \subseteq Q
  <2> HIDE DEF Q
  <2> QED
    BY <1>0, <1>1, SubsetInduction
<1> QED
  BY <1>2

\* One more header is as many more bytes, whichever it is.
LEMMA SizeAdd ==
    ASSUME NEW S \in SUBSET Header, NEW x \in S PROVE Size(S) = Bytes[x] + Size(S \ {x})
<1> DEFINE Q == {s \in SUBSET Header : \A y \in s : Size(s) = Bytes[y] + Size(s \ {y})}
<1>0. IsFiniteSet(Header) /\ Bytes \in [Header -> Nat]
  BY MetadataAssumption
<1>1. ASSUME NEW T \in SUBSET Header, \A U \in SUBSET T : U # T => U \in Q PROVE T \in Q
  <2>1. SUFFICES ASSUME NEW y \in T PROVE Size(T) = Bytes[y] + Size(T \ {y})
    OBVIOUS
  <2> DEFINE c == First(T)
  <2>2. c \in T
    BY FirstIn
  <2>3. Size(T) = Bytes[c] + Size(T \ {c})
    <3>1. IsFiniteSet(T)
      BY <1>0, FS_Subset
    <3> QED
      BY <2>2, <3>1, SizeStep
  <2>4. CASE y = c
    BY <2>3, <2>4
  <2>5. CASE y # c
    <3> DEFINE V == T \ {c}
               W == T \ {y}
               Z == T \ {c, y}
    <3>1. V \in Q /\ W \in Q
      BY <1>1, <2>2
    <3>2. y \in V /\ c \in W /\ V \ {y} = Z /\ W \ {c} = Z
      BY <2>2, <2>5
    <3>3. Size(V) = Bytes[y] + Size(Z)
      BY <3>1, <3>2
    <3>4. Size(W) = Bytes[c] + Size(Z)
      BY <3>1, <3>2
    <3>5. Bytes[y] \in Nat /\ Bytes[c] \in Nat
      BY <1>0, <2>2
    <3>6. Size(Z) \in Nat
      BY SizeNat
    <3> HIDE DEF c, V, W, Z
    <3> QED
      BY <2>3, <3>3, <3>4, <3>5, <3>6 DEF V, W
  <2> QED
    BY <2>4, <2>5
<1>2. SUBSET Header \subseteq Q
  <2> HIDE DEF Q
  <2> QED
    BY <1>0, <1>1, SubsetInduction
<1> QED
  BY <1>2
----------------------------------------------------------------------------
(* Registers.                                                              *)

\* A product with a positive number is no smaller.
LEMMA Mono == ASSUME NEW F \in Nat, F > 0, NEW a \in Int, a >= 1 PROVE F * a >= F
OBVIOUS
\* How a field is cut off and how one is put on top of others.
LEMMA DivMod ==
  ASSUME NEW F \in Nat, F > 0, NEW q \in Nat, NEW r \in 0 .. F - 1
  PROVE (q * F + r) \div F = q /\ (q * F + r) % F = r
<1> DEFINE x == q * F + r
<1>1. x \in Nat
  OBVIOUS
<1>2. PICK d \in Int, m \in 0 .. F - 1 : x = F * d + m /\ d = x \div F /\ m = x % F
  <2> HIDE DEF x
  <2>1. x \div F \in Int /\ x % F \in 0 .. F - 1 /\ x = F * (x \div F) + (x % F)
    BY <1>1
  <2> QED
    BY <2>1
<1>3. F * (q - d) = m - r
  BY <1>2
<1>4. q - d <= 0
  <2> SUFFICES ASSUME q - d >= 1 PROVE FALSE
    OBVIOUS
  <2>1. F * (q - d) >= F
    BY Mono
  <2> QED
    BY <1>3, <2>1
<1>5. d - q <= 0
  <2> SUFFICES ASSUME d - q >= 1 PROVE FALSE
    OBVIOUS
  <2>1. F * (d - q) >= F
    BY Mono
  <2>2. F * (d - q) = r - m
    BY <1>3
  <2> QED
    BY <2>1, <2>2
<1>6. q = d
  BY <1>4, <1>5
<1> QED
  BY <1>2, <1>3, <1>6

Field == 0 .. FieldSize - 1

\* Four fields in a register.
Packed(a, b, c, d) ==
    a + b * FieldSize + c * (FieldSize * FieldSize) + d * (FieldSize * FieldSize * FieldSize)

\* The weights of the four fields of the register.
LEMMA FieldSizes ==
    /\ FieldSize \in Nat /\ FieldSize > 0
    /\ Weight(CLONE_MIRROR_SESSION_ID) = 1
    /\ Weight(CLONE_FIELD_LIST) = FieldSize
    /\ Weight(LF_FIELD_LIST) = FieldSize * FieldSize
    /\ Weight(RESUBMIT_FLAG) = FieldSize * FieldSize * FieldSize
    /\ Weight(RECIRCULATE_FLAG) = 1
BY FieldAssumption DEF Weight, CLONE_MIRROR_SESSION_ID, CLONE_FIELD_LIST, LF_FIELD_LIST,
   RESUBMIT_FLAG, RECIRCULATE_FLAG

\* A field on top of what fits below it.
LEMMA OnTop ==
    ASSUME NEW F \in Nat, F > 0, NEW W \in Nat, NEW q \in 0 .. F - 1, NEW r \in 0 .. W - 1
    PROVE  q * W + r \in 0 .. F * W - 1
<1>1. (F - 1 - q) * W >= 0 /\ q * W >= 0
  OBVIOUS
<1>2. (F - 1 - q) * W = F * W - W - q * W
  OBVIOUS
<1>3. q * W \in Int /\ F * W \in Int
  OBVIOUS
<1> QED
  BY <1>1, <1>2, <1>3

\* Each of four packed fields can be read back.
LEMMA Unpacked ==
    ASSUME NEW a \in Field, NEW b \in Field, NEW c \in Field, NEW d \in Field
    PROVE  /\ Packed(a, b, c, d) \in 0 .. FieldSize * Weight(RESUBMIT_FLAG) - 1
           /\ (Packed(a, b, c, d) \div 1) % FieldSize = a
           /\ (Packed(a, b, c, d) \div FieldSize) % FieldSize = b
           /\ (Packed(a, b, c, d) \div (FieldSize * FieldSize)) % FieldSize = c
           /\ (Packed(a, b, c, d) \div (FieldSize * FieldSize * FieldSize)) % FieldSize = d
<1> DEFINE F == FieldSize
           F2 == F * F
           F3 == F * F * F
<1>0. F \in Nat /\ F > 0 /\ a \in 0 .. F - 1 /\ b \in 0 .. F - 1 /\ c \in 0 .. F - 1 /\ d \in 0 .. F - 1
  BY FieldSizes DEF Field
<1>1. F2 \in Nat /\ F3 \in Nat /\ F3 = F * F2 /\ F2 > 0
  <2>1. F * F >= F
    BY <1>0, Mono
  <2> QED
    BY <1>0, <2>1
<1>2. F3 > 0
  <2> HIDE DEF F, F2, F3
  <2>1. F2 * F >= F2
    BY <1>0, <1>1, Mono
  <2> QED
    BY <1>0, <1>1, <2>1
<1>3. b * F + a \in 0 .. F2 - 1
  <2> HIDE DEF F
  <2> QED
    BY <1>0, OnTop
<1> DEFINE lo == b * F + a
           lo3 == c * F2 + lo
           hi == d * F + c
           hi3 == hi * F + b
           x == Packed(a, b, c, d)
<1>4. lo3 \in 0 .. F3 - 1
  <2> HIDE DEF F, F2, F3, lo
  <2> QED
    BY <1>0, <1>1, <1>3, OnTop DEF lo
<1>5. hi \in Nat /\ hi3 \in Nat
  BY <1>0
<1>6. /\ x = hi3 * F + a
      /\ x = hi * F2 + lo
      /\ x = d * F3 + lo3
  BY <1>0 DEF Packed
<1>7. x \div F = hi3 /\ x % F = a
  <2> HIDE DEF F, F2, F3, lo, lo3, hi, hi3, x
  <2> QED
    BY <1>0, <1>5, <1>6, DivMod
<1>8. hi3 % F = b
  <2> HIDE DEF F, F2, F3, lo, lo3, hi
  <2> QED
    BY <1>0, <1>5, DivMod DEF hi3
<1>9. x \div F2 = hi
  <2> HIDE DEF F, F2, F3, lo3, hi, hi3, x
  <2> QED
    BY <1>1, <1>3, <1>5, <1>6, DivMod
<1>10. hi % F = c
  <2> HIDE DEF F, F2, F3, lo, lo3
  <2> QED
    BY <1>0, <1>5, DivMod DEF hi
<1>11. x \div F3 = d
  <2> HIDE DEF F, F2, F3, lo, lo3, hi, hi3, x
  <2> QED
    BY <1>0, <1>1, <1>2, <1>4, <1>6, DivMod
<1>12. d % F = d
  BY <1>0
<1>13. x \in 0 .. F * F3 - 1
  <2> HIDE DEF F, F2, F3, lo, lo3, hi, hi3, x
  <2> QED
    BY <1>0, <1>1, <1>4, <1>6, OnTop
<1>14. x \in Int => x \div 1 = x
  <2> HIDE DEF x
  <2> QED
    OBVIOUS
<1>15. x \in Nat
  <2> HIDE DEF F, F2, F3, lo, lo3, hi, hi3, x
  <2> QED
    BY <1>0, <1>1, <1>13
<1> HIDE DEF lo, lo3, hi, hi3, x
<1> QED
  BY <1>7, <1>8, <1>9, <1>10, <1>11, <1>12, <1>13, <1>14, <1>15, FieldSizes DEF x
----------------------------------------------------------------------------
(* Swaps.                                                                  *)

Notice(m) == m.topic \in {"LEA", "AGE"}

\* Each sender sends what is its own, and its message is there while it is in
\* the call.
MessagesTyped ==
    /\ pc = [s \in Sender |-> pc[s]] /\ msg = [s \in Sender |-> msg[s]]
    /\ \A s \in Sender \ {config} : msg[s].topic # "SWP"
    /\ \A s \in Sender : Notice(msg[s]) => DOMAIN msg[s] = {"topic", "id", "serial", "n"}
    /\ \A s \in Sender : pc[s] = "forward" => Notice(msg[s])

\* One sender at a time is between Lock and Return.
MutexHeld == \A s \in Sender : pc[s] \in {"dispatch", "forward"} => mutex = s

\* What the control plane knows of a swap and what the capture does.
SwapKnown ==
    /\ swap = "on" => ongoing_swap /\ \A s \in Sender : pc[s] # "forward"
    /\ Starts(msg[config]) => swap = "starting"
    /\ Ends(msg[config]) => swap # "on"

NInv == MessagesTyped /\ MutexHeld /\ SwapKnown

\* The threads that notify are told apart, and the mutex may be held by none of
\* them.
LEMMA Senders ==
    /\ \A l \in LearnList : learning(l) \in Sender /\ learning(l) \notin {ageing, config}
    /\ \A l, k : l # k => learning(l) # learning(k)
    /\ ageing \in Sender /\ config \in Sender /\ ageing # config /\ nobody \notin Sender
BY DEF Sender, nobody, learning, ageing, config

\* Only swap notices begin or end a swap.
LEMMA OnlySwapsMatter ==
    ASSUME NEW m, m.topic # "SWP" PROVE ~Starts(m) /\ ~Ends(m)
BY DEF Starts, Ends

\* Nobody notifies at the start.
LEMMA InitNInv == Init => NInv
BY Senders DEF Init, NoticeInit, NInv, MessagesTyped, MutexHeld, SwapKnown, Nil, Notice,
               Starts, Ends

\* Calling send_msgs_.
LEMMA SendNInv ==
    ASSUME NInv, NEW s \in Sender, NEW m, Send(s, m), s # config => m.topic # "SWP",
           Notice(m) => DOMAIN m = {"topic", "id", "serial", "n"}
    PROVE  NInv'
<1>1. /\ pc' = [pc EXCEPT ![s] = "send"] /\ msg' = [msg EXCEPT ![s] = m]
      /\ pc[s] = "idle" /\ UNCHANGED <<mutex, ongoing_swap>>
  BY DEF Send, Goto
<1>2. /\ pc'[s] = "send" /\ msg'[s] = m
      /\ \A u \in Sender \ {s} : pc'[u] = pc[u] /\ msg'[u] = msg[u]
      /\ pc' = [u \in Sender |-> pc'[u]] /\ msg' = [u \in Sender |-> msg'[u]]
  BY <1>1 DEF NInv, MessagesTyped
<1>3. MessagesTyped' /\ MutexHeld'
  BY <1>1, <1>2 DEF NInv, MessagesTyped, MutexHeld
<1>4. /\ Starts(m) => swap' = "starting"
      /\ Ends(m) => swap' # "on"
      /\ swap' = "on" => swap = "on"
      /\ ~Starts(m) => swap' \in {swap, "ending"}
  BY DEF Send, SwapSeenAs, Starts, Ends, NEW_CONFIG_LOADED, SWAP_COMPLETED, SWAP_CANCELLED
<1>5. SwapKnown'
  <2>1. swap' = "on" => ongoing_swap' /\ \A u \in Sender : pc'[u] # "forward"
    BY <1>1, <1>2, <1>4 DEF NInv, SwapKnown
  <2>2. CASE s = config
    BY <1>2, <1>4, <2>1, <2>2 DEF SwapKnown
  <2>3. CASE s # config
    <3>1. ~Starts(m) /\ ~Ends(m)
      BY <2>3, OnlySwapsMatter
    <3>2. swap' = swap
      BY <3>1 DEF Send
    <3> QED
      BY <1>2, <2>1, <2>3, <3>2, Senders DEF NInv, SwapKnown
  <2> QED
    BY <2>2, <2>3
<1> QED
  BY <1>3, <1>5 DEF NInv

\* The end of a call of a sender that holds the mutex.
LEMMA ReturnNInv ==
    ASSUME NInv, NEW s \in Sender, pc[s] \in {"dispatch", "forward"}, Return(s),
           Starts(msg[s]) => ongoing_swap',
           ~Starts(msg[s]) /\ ~Ends(msg[s]) => UNCHANGED ongoing_swap
    PROVE  NInv'
<1>1. /\ pc' = [pc EXCEPT ![s] = "idle"] /\ msg' = [msg EXCEPT ![s] = Nil]
      /\ swap' = IF Starts(msg[s]) THEN "on" ELSE IF Ends(msg[s]) THEN "none" ELSE swap
  BY DEF Return, Goto
<1>2. /\ pc'[s] = "idle" /\ msg'[s] = Nil
      /\ \A u \in Sender \ {s} : pc'[u] = pc[u] /\ msg'[u] = msg[u]
      /\ pc' = [u \in Sender |-> pc'[u]] /\ msg' = [u \in Sender |-> msg'[u]]
  BY <1>1 DEF NInv, MessagesTyped
<1>3. \A u \in Sender \ {s} : pc[u] \notin {"dispatch", "forward"}
  BY DEF NInv, MutexHeld
<1>4. MessagesTyped'
  BY <1>2 DEF NInv, MessagesTyped, Nil, Notice
<1>5. MutexHeld'
  BY <1>2, <1>3 DEF MutexHeld
<1>6. \A u \in Sender : pc'[u] # "forward"
  BY <1>2, <1>3
<1>7. SwapKnown'
  <2>1. ~Starts(Nil) /\ ~Ends(Nil)
    BY OnlySwapsMatter DEF Nil
  <2>2. CASE s = config
    <3>1. swap' = "on" => ongoing_swap'
      BY <1>1, <2>2 DEF NInv, SwapKnown
    <3> QED
      BY <1>2, <1>6, <2>1, <2>2, <3>1 DEF SwapKnown
  <2>3. CASE s # config
    <3>1. ~Starts(msg[s]) /\ ~Ends(msg[s])
      BY <2>3, OnlySwapsMatter DEF NInv, MessagesTyped
    <3> QED
      BY <1>1, <1>2, <1>6, <2>3, <3>1, Senders DEF NInv, SwapKnown
  <2> QED
    BY <2>2, <2>3
<1> QED
  BY <1>4, <1>5, <1>7 DEF NInv

\* A step of a sender keeps the invariant, and forwards nothing during a swap.
LEMMA NoticeNInv ==
    ASSUME NInv, NoticeStep
    PROVE  NInv' /\ (swap = "on" => UNCHANGED forwarded)
<1>1. CASE Notify
  <2>1. ASSUME NEW c \in Context, NEW status \in SwapStatus,
               Send(config, SWP(c, status))
        PROVE  NInv' /\ UNCHANGED forwarded
    BY <2>1, Senders, SendNInv DEF Send, SWP, Notice
  <2>2. ASSUME Send(config, PRT) PROVE NInv' /\ UNCHANGED forwarded
    BY <2>2, Senders, SendNInv DEF Send, PRT, Notice
  <2>3. ASSUME NEW t \in Table, NEW n \in 1 .. Entries, Send(ageing, AGE(t, n))
        PROVE  NInv' /\ UNCHANGED forwarded
    BY <2>3, Senders, SendNInv DEF Send, AGE, Notice
  <2> QED
    BY <1>1, <2>1, <2>2, <2>3 DEF Notify
<1>2. ASSUME NEW s \in Sender, Lock(s) PROVE NInv' /\ UNCHANGED forwarded
  <2>1. /\ pc'[s] = "dispatch" /\ \A u \in Sender \ {s} : pc'[u] = pc[u]
        /\ pc' = [u \in Sender |-> pc'[u]] /\ mutex = nobody /\ mutex' = s
        /\ UNCHANGED <<ongoing_swap, msg, forwarded, swap>>
    BY <1>2 DEF Lock, Goto, NInv, MessagesTyped
  <2> QED
    BY <2>1, Senders DEF NInv, MessagesTyped, MutexHeld, SwapKnown, Starts, Ends
<1>3. ASSUME NEW s \in Sender, handle_SWP(s) PROVE NInv' /\ UNCHANGED forwarded
  <2>1. /\ pc[s] = "dispatch" /\ Return(s) /\ UNCHANGED forwarded
        /\ Starts(msg[s]) => ongoing_swap'
        /\ ~Starts(msg[s]) /\ ~Ends(msg[s]) => UNCHANGED ongoing_swap
    BY <1>3 DEF handle_SWP, Starts, Ends, EndsSwap
  <2> QED
    BY <2>1, ReturnNInv
<1>4. ASSUME NEW s \in Sender, Check(s) PROVE NInv' /\ UNCHANGED forwarded
  <2>1. /\ pc[s] = "dispatch" /\ Notice(msg[s])
        /\ ~Starts(msg[s]) /\ ~Ends(msg[s]) /\ UNCHANGED <<ongoing_swap, forwarded>>
    BY <1>4, OnlySwapsMatter DEF Check, Notice
  <2>2. CASE Return(s)
    BY <2>1, <2>2, ReturnNInv
  <2>3. CASE Admit(s) /\ UNCHANGED <<msg, swap>> /\ ~ongoing_swap
    <3>1. /\ pc'[s] = "forward" /\ \A u \in Sender \ {s} : pc'[u] = pc[u]
          /\ pc' = [u \in Sender |-> pc'[u]] /\ UNCHANGED mutex
      BY <2>3 DEF Admit, Goto, NInv, MessagesTyped
    <3> QED
      BY <2>1, <2>3, <3>1 DEF NInv, MessagesTyped, MutexHeld, SwapKnown, Starts, Ends
  <2> QED
    BY <1>4, <2>2, <2>3 DEF Check
<1>5. ASSUME NEW s \in Sender, CallPI(s) PROVE NInv' /\ swap # "on"
  <2>1. /\ pc[s] = "forward" /\ msg' = [msg EXCEPT ![s].n = @ - 1]
        /\ UNCHANGED <<ongoing_swap, mutex, pc, swap>>
    BY <1>5 DEF CallPI
  <2>2. Notice(msg[s]) /\ DOMAIN msg[s] = {"topic", "id", "serial", "n"}
    BY <2>1 DEF NInv, MessagesTyped
  <2>3. /\ msg'[s] = [msg[s] EXCEPT !.n = @ - 1]
        /\ \A u \in Sender \ {s} : msg'[u] = msg[u]
        /\ msg' = [u \in Sender |-> msg'[u]]
    BY <2>1 DEF NInv, MessagesTyped
  <2>4. msg'[s].topic = msg[s].topic /\ DOMAIN msg'[s] = {"topic", "id", "serial", "n"}
    BY <2>2, <2>3
  <2>5. MessagesTyped' /\ MutexHeld'
    BY <2>1, <2>2, <2>3, <2>4 DEF NInv, MessagesTyped, MutexHeld, Notice
  <2>6. SwapKnown'
    <3>1. ~Starts(msg[s]) /\ ~Ends(msg[s]) /\ ~Starts(msg'[s]) /\ ~Ends(msg'[s])
      BY <2>2, <2>4, OnlySwapsMatter DEF Notice
    <3> QED
      BY <2>1, <2>3, <3>1 DEF NInv, SwapKnown
  <2> QED
    BY <2>1, <2>5, <2>6 DEF NInv, SwapKnown
<1>6. ASSUME NEW s \in Sender, CalledPI(s) PROVE NInv' /\ UNCHANGED forwarded
  <2>1. /\ pc[s] = "forward" /\ Return(s) /\ UNCHANGED <<ongoing_swap, forwarded>>
    BY <1>6 DEF CalledPI
  <2>2. ~Starts(msg[s]) /\ ~Ends(msg[s])
    BY <2>1, OnlySwapsMatter DEF NInv, MessagesTyped, Notice
  <2> QED
    BY <2>1, <2>2, ReturnNInv
<1>7. ASSUME NEW s \in Sender, Ignore(s) PROVE NInv' /\ UNCHANGED forwarded
  <2>1. /\ pc[s] = "dispatch" /\ Return(s) /\ UNCHANGED <<ongoing_swap, forwarded>>
        /\ ~Starts(msg[s]) /\ ~Ends(msg[s])
    BY <1>7, OnlySwapsMatter DEF Ignore
  <2> QED
    BY <2>1, ReturnNInv
<1> QED
  BY <1>1, <1>2, <1>3, <1>4, <1>5, <1>6, <1>7 DEF NoticeStep

\* So does every step.
LEMMA NextNInv ==
    ASSUME NInv, [Next]_vars
    PROVE  NInv' /\ (swap = "on" => UNCHANGED forwarded)
<1>1. CASE UNCHANGED noticeVars
  BY <1>1 DEF noticeVars, NInv, MessagesTyped, MutexHeld, SwapKnown
<1>2. CASE NoticeStep
  BY <1>2, NoticeNInv
<1>3. ASSUME NEW l \in LearnList, SendDigest(l) PROVE NInv' /\ UNCHANGED forwarded
  <2>1. Send(learning(l), LEA(l, Head(samples[l])))
    BY <1>3 DEF SendDigest
  <2> QED
    BY <2>1, Senders, SendNInv DEF Send, LEA, Notice
<1> QED
  BY <1>1, <1>2, <1>3 DEF Next, vars

\* Once the control plane's call that tells of a new configuration has
\* returned, nothing is forwarded to P4Runtime before the swap is over, not
\* even a notification that was under way (runner.cpp:101-142).
THEOREM SwapsAreQuiet == Spec => QuietDuringSwap
<1>1. NInv /\ [Next]_vars => [swap = "on" => UNCHANGED forwarded]_vars
  BY NextNInv
<1>2. NInv /\ [Next]_vars => NInv'
  BY NextNInv
<1> QED
  BY <1>1, <1>2, InitNInv, PTL DEF Spec, QuietDuringSwap
----------------------------------------------------------------------------
(* Requests.  The registers hold what was asked for.                       *)

Id == 0 .. ValidBit - 1
Register == [0 .. 2 -> Int]
Asked == [session : Id \cup {None}, list : Field, learn : Field,
          resubmit : Field, recirculate : Field]
Packets == [reg : Register, data : SUBSET Header, valid : SUBSET Header,
            egress_spec : Port \cup {drop_port, drop_port + 1}, mcast_grp : Mgid \cup {0}]

\* What the field of the session holds.
SessionField(a) == IF a.session = None THEN 0 ELSE ValidBit + a.session

\* Registers r hold requests a, and nothing else.
Hold(r, a) ==
    /\ r \in Register /\ a \in Asked
    /\ r[1] = Packed(SessionField(a), a.list, a.learn, a.resubmit)
    /\ r[2] = a.recirculate

\* A session id with the valid bit is a field, and can be told from no request.
LEMMA SessionFields ==
    /\ \A a \in Asked : /\ SessionField(a) \in Field
                        /\ SessionField(a) = 0 <=> a.session = None
                        /\ SessionField(a) # 0 => SessionField(a) % ValidBit = a.session
    /\ \A s \in Id : ValidBit + s \in Field
    /\ 0 \in Field /\ SessionId \subseteq Id /\ ListId \subseteq Field
<1>1. ValidBit \in Nat /\ ValidBit > 0 /\ FieldSize = 2 * ValidBit
  BY FieldAssumption DEF ValidBit
<1>2. \A s \in Id : ValidBit + s \in Field /\ ValidBit + s # 0 /\ (ValidBit + s) % ValidBit = s
  BY <1>1 DEF Id, Field
<1>3. \A a \in Asked : a.session \in Id \cup {None}
  BY DEF Asked
<1>4. 0 \in Field /\ SessionId \subseteq Id /\ ListId \subseteq Field /\ None \notin Id
  BY <1>1, FieldAssumption DEF Field, Id, None
<1> QED
  BY <1>2, <1>3, <1>4 DEF SessionField

\* What is read is what was asked for.
LEMMA HoldRead ==
    ASSUME NEW r, NEW a, Hold(r, a)
    PROVE  /\ Get(CLONE_MIRROR_SESSION_ID, r) = SessionField(a)
           /\ Get(CLONE_FIELD_LIST, r) = a.list
           /\ Get(LF_FIELD_LIST, r) = a.learn
           /\ Get(RESUBMIT_FLAG, r) = a.resubmit
           /\ Get(RECIRCULATE_FLAG, r) = a.recirculate
<1>1. /\ SessionField(a) \in Field /\ a.list \in Field /\ a.learn \in Field
      /\ a.resubmit \in Field /\ a.recirculate \in Field
  BY SessionFields DEF Hold, Asked
<1>2. (r[2] \div 1) % FieldSize = a.recirculate
  BY <1>1, FieldSizes DEF Hold, Field
<1> DEFINE s == SessionField(a)
<1>3. /\ (r[1] \div 1) % FieldSize = s
      /\ (r[1] \div FieldSize) % FieldSize = a.list
      /\ (r[1] \div (FieldSize * FieldSize)) % FieldSize = a.learn
      /\ (r[1] \div (FieldSize * FieldSize * FieldSize)) % FieldSize = a.resubmit
  <2>1. r[1] = Packed(s, a.list, a.learn, a.resubmit)
    BY DEF Hold
  <2> HIDE DEF s
  <2> QED
    BY <1>1, <2>1, Unpacked DEF s
<1>4. /\ CLONE_MIRROR_SESSION_ID.reg = 1 /\ CLONE_FIELD_LIST.reg = 1 /\ LF_FIELD_LIST.reg = 1
      /\ RESUBMIT_FLAG.reg = 1 /\ RECIRCULATE_FLAG.reg = 2
  BY DEF CLONE_MIRROR_SESSION_ID, CLONE_FIELD_LIST, LF_FIELD_LIST, RESUBMIT_FLAG,
         RECIRCULATE_FLAG
<1> HIDE DEF s
<1> QED
  BY <1>2, <1>3, <1>4, FieldSizes DEF Get, s

\* A field that changes leaves the others as they are.
LEMMA Repacked ==
    ASSUME NEW a \in Field, NEW b \in Field, NEW c \in Field, NEW d \in Field, NEW v \in Field
    PROVE  /\ Packed(a, b, c, d) + (v - a) * 1 = Packed(v, b, c, d)
           /\ Packed(a, b, c, d) + (v - b) * FieldSize = Packed(a, v, c, d)
           /\ Packed(a, b, c, d) + (v - c) * (FieldSize * FieldSize) = Packed(a, b, v, d)
           /\ Packed(a, b, c, d) + (v - d) * (FieldSize * FieldSize * FieldSize)
                 = Packed(a, b, c, v)
           /\ Packed(a, b, c, d) \in Nat /\ Packed(0, 0, 0, 0) = 0
<1> DEFINE F == FieldSize
           F2 == F * F
           F3 == F * F * F
<1>1. F \in Nat /\ F2 \in Nat /\ F3 \in Nat
  BY FieldSizes
<1>2. a \in Nat /\ b \in Nat /\ c \in Nat /\ d \in Nat /\ v \in Nat
  BY FieldSizes DEF Field
<1>3. \A i, j, k, l : Packed(i, j, k, l) = i + j * F + k * F2 + l * F3
  BY DEF Packed
<1>4. /\ \A x \in Nat : (v - a) * 1 = v - a
      /\ (v - b) * F = v * F - b * F
      /\ (v - c) * F2 = v * F2 - c * F2
      /\ (v - d) * F3 = v * F3 - d * F3
  <2> HIDE DEF F, F2, F3
  <2> QED
    BY <1>1, <1>2
<1>5. /\ b * F \in Nat /\ c * F2 \in Nat /\ d * F3 \in Nat
      /\ v * F \in Nat /\ v * F2 \in Nat /\ v * F3 \in Nat
      /\ 0 * F = 0 /\ 0 * F2 = 0 /\ 0 * F3 = 0
  <2> HIDE DEF F, F2, F3
  <2> QED
    BY <1>1, <1>2
<1> HIDE DEF F, F2, F3
<1> QED
  BY <1>2, <1>3, <1>4, <1>5 DEF F, F2, F3

\* Requests that are noted, or cleared.
LEMMA HoldSet ==
    ASSUME NEW r, NEW a, Hold(r, a), NEW v \in Field
    PROVE  /\ Hold(Set(CLONE_FIELD_LIST, v, r), [a EXCEPT !.list = v])
           /\ Hold(Set(LF_FIELD_LIST, v, r), [a EXCEPT !.learn = v])
           /\ Hold(Set(RESUBMIT_FLAG, v, r), [a EXCEPT !.resubmit = v])
           /\ Hold(Set(RECIRCULATE_FLAG, v, r), [a EXCEPT !.recirculate = v])
           /\ \A s \in Id \cup {None} :
                 v = SessionField([a EXCEPT !.session = s])
                    => Hold(Set(CLONE_MIRROR_SESSION_ID, v, r), [a EXCEPT !.session = s])
           /\ \A f \in {CLONE_MIRROR_SESSION_ID, CLONE_FIELD_LIST, LF_FIELD_LIST,
                        RESUBMIT_FLAG, RECIRCULATE_FLAG} :
                 Set(f, v, r)[0] = r[0]
<1>0. r \in Register /\ a \in Asked
  BY DEF Hold
<1> DEFINE P == SessionField(a)
<1>1. /\ P \in Field /\ a.list \in Field /\ a.learn \in Field
      /\ a.resubmit \in Field /\ a.recirculate \in Field
  BY <1>0, SessionFields DEF Asked
<1>2. Field \subseteq Nat
  BY FieldSizes DEF Field
<1>3. r[1] = Packed(P, a.list, a.learn, a.resubmit) /\ r[2] = a.recirculate
  BY DEF Hold
<1>4. /\ CLONE_MIRROR_SESSION_ID.reg = 1 /\ CLONE_FIELD_LIST.reg = 1 /\ LF_FIELD_LIST.reg = 1
      /\ RESUBMIT_FLAG.reg = 1 /\ RECIRCULATE_FLAG.reg = 2
  BY DEF CLONE_MIRROR_SESSION_ID, CLONE_FIELD_LIST, LF_FIELD_LIST, RESUBMIT_FLAG,
         RECIRCULATE_FLAG
<1>5. /\ Get(CLONE_MIRROR_SESSION_ID, r) = P
      /\ Get(CLONE_FIELD_LIST, r) = a.list
      /\ Get(LF_FIELD_LIST, r) = a.learn
      /\ Get(RESUBMIT_FLAG, r) = a.resubmit
      /\ Get(RECIRCULATE_FLAG, r) = a.recirculate
  BY HoldRead
<1> HIDE DEF P
<1>6. /\ Set(CLONE_MIRROR_SESSION_ID, v, r)
            = [r EXCEPT ![1] = Packed(v, a.list, a.learn, a.resubmit)]
      /\ Set(CLONE_FIELD_LIST, v, r) = [r EXCEPT ![1] = Packed(P, v, a.learn, a.resubmit)]
      /\ Set(LF_FIELD_LIST, v, r) = [r EXCEPT ![1] = Packed(P, a.list, v, a.resubmit)]
      /\ Set(RESUBMIT_FLAG, v, r) = [r EXCEPT ![1] = Packed(P, a.list, a.learn, v)]
      /\ Set(RECIRCULATE_FLAG, v, r) = [r EXCEPT ![2] = v]
  <2>1. /\ r[1] + (v - P) * 1 = Packed(v, a.list, a.learn, a.resubmit)
        /\ r[1] + (v - a.list) * FieldSize = Packed(P, v, a.learn, a.resubmit)
        /\ r[1] + (v - a.learn) * (FieldSize * FieldSize) = Packed(P, a.list, v, a.resubmit)
        /\ r[1] + (v - a.resubmit) * (FieldSize * FieldSize * FieldSize)
              = Packed(P, a.list, a.learn, v)
    BY <1>1, <1>3, Repacked
  <2>2. r[2] + (v - a.recirculate) * 1 = v
    <3>1. v \in Nat /\ a.recirculate \in Nat
      BY <1>1, <1>2
    <3>2. \A i, j \in Nat : j + (i - j) * 1 = i
      OBVIOUS
    <3>3. a.recirculate + (v - a.recirculate) * 1 = v
      BY <3>1, <3>2
    <3> QED
      BY <1>3, <3>3
  <2> QED
    BY <1>4, <1>5, <2>1, <2>2, FieldSizes DEF Set
<1>7. \A i, j, k, l \in Field : Packed(i, j, k, l) \in Nat
  BY Repacked
<1>8. /\ \A n \in Nat : [r EXCEPT ![1] = n] \in Register /\ [r EXCEPT ![1] = n][0] = r[0]
                        /\ [r EXCEPT ![1] = n][1] = n /\ [r EXCEPT ![1] = n][2] = r[2]
      /\ \A n \in Nat : [r EXCEPT ![2] = n] \in Register /\ [r EXCEPT ![2] = n][0] = r[0]
                        /\ [r EXCEPT ![2] = n][2] = n /\ [r EXCEPT ![2] = n][1] = r[1]
  BY <1>0 DEF Register
<1>9. /\ [a EXCEPT !.list = v] \in Asked /\ [a EXCEPT !.learn = v] \in Asked
      /\ [a EXCEPT !.resubmit = v] \in Asked /\ [a EXCEPT !.recirculate = v] \in Asked
      /\ \A s \in Id \cup {None} : [a EXCEPT !.session = s] \in Asked
  BY <1>0 DEF Asked
<1>16. /\ SessionField([a EXCEPT !.list = v]) = P /\ SessionField([a EXCEPT !.learn = v]) = P
       /\ SessionField([a EXCEPT !.resubmit = v]) = P
       /\ SessionField([a EXCEPT !.recirculate = v]) = P
  BY <1>0 DEF Asked, SessionField, P
<1>17. ASSUME NEW b \in Asked, NEW n \in Nat, b.recirculate = a.recirculate,
              n = Packed(SessionField(b), b.list, b.learn, b.resubmit)
       PROVE  Hold([r EXCEPT ![1] = n], b)
  BY <1>3, <1>8, <1>17 DEF Hold
<1>10. Hold(Set(CLONE_FIELD_LIST, v, r), [a EXCEPT !.list = v])
  <2> DEFINE b == [a EXCEPT !.list = v]
  <2>1. /\ b \in Asked /\ SessionField(b) = P /\ b.list = v /\ b.learn = a.learn
        /\ b.resubmit = a.resubmit /\ b.recirculate = a.recirculate
    BY <1>0, <1>9, <1>16 DEF Asked
  <2> DEFINE n == Packed(SessionField(b), b.list, b.learn, b.resubmit)
  <2>2. n \in Nat /\ Set(CLONE_FIELD_LIST, v, r) = [r EXCEPT ![1] = n]
    <3> HIDE DEF b
    <3>1. n \in Nat
      BY <1>1, <1>7, <2>1
    <3> QED
      BY <1>6, <2>1, <3>1
  <2>3. Hold([r EXCEPT ![1] = n], b)
    <3> HIDE DEF b, n
    <3> QED
      BY <1>17, <2>1, <2>2 DEF n
  <2> HIDE DEF n
  <2> QED
    BY <2>2, <2>3
<1>11. Hold(Set(LF_FIELD_LIST, v, r), [a EXCEPT !.learn = v])
  <2> DEFINE b == [a EXCEPT !.learn = v]
  <2>1. /\ b \in Asked /\ SessionField(b) = P /\ b.list = a.list /\ b.learn = v
        /\ b.resubmit = a.resubmit /\ b.recirculate = a.recirculate
    BY <1>0, <1>9, <1>16 DEF Asked
  <2> DEFINE n == Packed(SessionField(b), b.list, b.learn, b.resubmit)
  <2>2. n \in Nat /\ Set(LF_FIELD_LIST, v, r) = [r EXCEPT ![1] = n]
    <3> HIDE DEF b
    <3>1. n \in Nat
      BY <1>1, <1>7, <2>1
    <3> QED
      BY <1>6, <2>1, <3>1
  <2>3. Hold([r EXCEPT ![1] = n], b)
    <3> HIDE DEF b, n
    <3> QED
      BY <1>17, <2>1, <2>2 DEF n
  <2> HIDE DEF n
  <2> QED
    BY <2>2, <2>3
<1>12. Hold(Set(RESUBMIT_FLAG, v, r), [a EXCEPT !.resubmit = v])
  <2> DEFINE b == [a EXCEPT !.resubmit = v]
  <2>1. /\ b \in Asked /\ SessionField(b) = P /\ b.list = a.list /\ b.learn = a.learn
        /\ b.resubmit = v /\ b.recirculate = a.recirculate
    BY <1>0, <1>9, <1>16 DEF Asked
  <2> DEFINE n == Packed(SessionField(b), b.list, b.learn, b.resubmit)
  <2>2. n \in Nat /\ Set(RESUBMIT_FLAG, v, r) = [r EXCEPT ![1] = n]
    <3> HIDE DEF b
    <3>1. n \in Nat
      BY <1>1, <1>7, <2>1
    <3> QED
      BY <1>6, <2>1, <3>1
  <2>3. Hold([r EXCEPT ![1] = n], b)
    <3> HIDE DEF b, n
    <3> QED
      BY <1>17, <2>1, <2>2 DEF n
  <2> HIDE DEF n
  <2> QED
    BY <2>2, <2>3
<1>13. Hold(Set(RECIRCULATE_FLAG, v, r), [a EXCEPT !.recirculate = v])
  <2> DEFINE b == [a EXCEPT !.recirculate = v]
  <2>1. /\ b \in Asked /\ SessionField(b) = P /\ b.list = a.list /\ b.learn = a.learn
        /\ b.resubmit = a.resubmit /\ b.recirculate = v
    BY <1>0, <1>9, <1>16 DEF Asked
  <2>2. v \in Nat
    BY <1>2
  <2> HIDE DEF b
  <2>3. Hold([r EXCEPT ![2] = v], b)
    BY <1>3, <1>8, <2>1, <2>2 DEF Hold
  <2> QED
    BY <1>6, <2>3 DEF b
<1>14. ASSUME NEW s \in Id \cup {None}, v = SessionField([a EXCEPT !.session = s])
       PROVE  Hold(Set(CLONE_MIRROR_SESSION_ID, v, r), [a EXCEPT !.session = s])
  <2> DEFINE b == [a EXCEPT !.session = s]
  <2>1. /\ b \in Asked /\ SessionField(b) = v /\ b.list = a.list /\ b.learn = a.learn
        /\ b.resubmit = a.resubmit /\ b.recirculate = a.recirculate
    BY <1>0, <1>9, <1>14 DEF Asked
  <2> DEFINE n == Packed(SessionField(b), b.list, b.learn, b.resubmit)
  <2>2. n \in Nat /\ Set(CLONE_MIRROR_SESSION_ID, v, r) = [r EXCEPT ![1] = n]
    <3> HIDE DEF b
    <3>1. n \in Nat
      BY <1>1, <1>7, <2>1
    <3> QED
      BY <1>6, <2>1, <3>1
  <2>3. Hold([r EXCEPT ![1] = n], b)
    <3> HIDE DEF b, n
    <3> QED
      BY <1>17, <2>1, <2>2 DEF n
  <2> HIDE DEF n
  <2> QED
    BY <2>2, <2>3
<1>15. \A f \in {CLONE_MIRROR_SESSION_ID, CLONE_FIELD_LIST, LF_FIELD_LIST,
                 RESUBMIT_FLAG, RECIRCULATE_FLAG} : Set(f, v, r)[0] = r[0]
  <2>1. /\ Packed(v, a.list, a.learn, a.resubmit) \in Nat
        /\ Packed(P, v, a.learn, a.resubmit) \in Nat
        /\ Packed(P, a.list, v, a.resubmit) \in Nat
        /\ Packed(P, a.list, a.learn, v) \in Nat /\ v \in Nat
    BY <1>1, <1>2, <1>7
  <2>2. /\ Set(CLONE_MIRROR_SESSION_ID, v, r)[0] = r[0]
        /\ Set(CLONE_FIELD_LIST, v, r)[0] = r[0]
        /\ Set(LF_FIELD_LIST, v, r)[0] = r[0]
        /\ Set(RESUBMIT_FLAG, v, r)[0] = r[0]
        /\ Set(RECIRCULATE_FLAG, v, r)[0] = r[0]
    BY <1>6, <1>8, <2>1
  <2> QED
    BY <2>2
<1> QED
  BY <1>10, <1>11, <1>12, <1>13, <1>14, <1>15

\* Writing the length leaves the requests alone.
LEMMA HoldLength ==
    ASSUME NEW r, NEW a, Hold(r, a), NEW n \in Int
    PROVE  Hold(WithLength(n, r), a) /\ WithLength(n, r)[0] = n
BY DEF Hold, WithLength, PACKET_LENGTH, Register

\* A cleared register holds no request.
LEMMA HoldCleared ==
    ASSUME NEW r \in Register, NEW n \in Int
    PROVE  Hold(WithLength(n, clear_all(r)), Nothing) /\ WithLength(n, clear_all(r))[0] = n
<1>1. Nothing \in Asked /\ SessionField(Nothing) = 0
  BY SessionFields DEF Asked, Nothing, SessionField
<1>2. Packed(0, 0, 0, 0) = 0
  BY SessionFields, Repacked
<1> QED
  BY <1>1, <1>2 DEF Hold, WithLength, clear_all, PACKET_LENGTH, Register, Nothing

----------------------------------------------------------------------------
(* One packet, as long as it is followed.                                  *)

Intents == [drop : BOOLEAN, group : BOOLEAN]

RequestsTyped ==
    /\ place \in Place /\ packet \in Packets
    /\ saved \in [data : SUBSET Header, length : Int]
    /\ intent \in Intents /\ silent \in Int /\ digests \in Seq(Field)

\* Register 0 of p is n short of what its headers add up to.
ShortBy(p, n) == p.reg[0] + n = Size(p.data) + Size(p.valid)

\* A packet is either deparsed or parsed, and never both.
LengthsHold ==
    /\ ShortBy(packet, silent)
    /\ saved.length = Size(saved.data)
    /\ place = "input" => silent = 0
    /\ place \in {"input", "out"} => packet.valid = {}
    /\ place \notin {"input", "out"} => packet.data = {}

\* The metadata of p says of a drop and of a group what intent i does.
Means(p, i) == (p.egress_spec = drop_port <=> i.drop) /\ (p.mcast_grp # 0 <=> i.group)

QInv == RequestsTyped /\ Hold(packet.reg, asked) /\ LengthsHold /\ Means(packet, intent)

\* The drop port is none of the others.
LEMMA Metadata ==
    /\ drop_port \in Nat /\ drop_port # 0 /\ 0 \in Port
    /\ drop_port \notin Port /\ drop_port # drop_port + 1
    /\ \A g \in Mgid : g # 0
BY MetadataAssumption

\* No headers, no bytes.
LEMMA SizeEmpty == Size({}) = 0
<1>1. IsFiniteSet({})
  BY FS_EmptySet
<1> QED
  BY <1>1, SizeStep

\* No packet is under way at the start.
LEMMA InitQInv == Init => QInv
<1>1. SUFFICES ASSUME Init PROVE QInv
  OBVIOUS
<1>2. /\ place = "out" /\ packet = NoPacket /\ saved = [data |-> {}, length |-> 0]
      /\ asked = Nothing /\ intent = NoIntent /\ silent = 0 /\ digests = << >>
  BY <1>1 DEF Init, RequestInit
<1>3. packet \in Packets
  BY <1>2, Metadata DEF Packets, Register, NoPacket
<1>4. RequestsTyped
  <2>1. saved \in [data : SUBSET Header, length : Int]
    BY <1>2
  <2>2. digests \in Seq(Field)
    BY <1>2
  <2>3. intent \in Intents
    BY <1>2 DEF NoIntent, Intents
  <2> QED
    BY <1>2, <1>3, <2>1, <2>2, <2>3 DEF RequestsTyped, Place
<1>5. Hold(packet.reg, asked)
  <2>1. Nothing \in Asked /\ SessionField(Nothing) = 0
    BY SessionFields DEF Asked, Nothing, SessionField
  <2>2. Packed(0, 0, 0, 0) = 0
    BY SessionFields, Repacked
  <2> QED
    BY <1>2, <2>1, <2>2 DEF Hold, Register, NoPacket, Nothing
<1>6. LengthsHold
  BY <1>2, SizeEmpty DEF LengthsHold, ShortBy, NoPacket
<1>7. Means(packet, intent)
  BY <1>2, Metadata DEF Means, NoPacket, NoIntent
<1> QED
  BY <1>4, <1>5, <1>6, <1>7 DEF QInv

\* A packet that another thread is to take up, with nothing asked for.
LEMMA CopiedQInv ==
    ASSUME QInv, NEW p \in Packets, NEW to \in {"input", "queued"}, NEW i \in Intents,
           Copied(p, to, i), UNCHANGED <<saved, digests>>, Hold(p.reg, Nothing),
           silent' \in Int, ShortBy(p, silent'), Means(p, i),
           to = "input" => p.valid = {} /\ silent' = 0,
           to = "queued" => p.data = {}
    PROVE  QInv'
<1>1. /\ packet' = p /\ place' = to /\ asked' = Nothing /\ intent' = i
      /\ saved' = saved /\ digests' = digests
  BY DEF Copied
<1>2. RequestsTyped'
  BY <1>1 DEF QInv, RequestsTyped, Place
<1>3. LengthsHold'
  BY <1>1 DEF QInv, LengthsHold, ShortBy
<1>4. Means(packet, intent)'
  BY <1>1 DEF Means
<1> QED
  BY <1>1, <1>2, <1>3, <1>4 DEF QInv

\* A primitive that is called, and an assignment of the program.
LEMMA CallQInv ==
    ASSUME QInv, NEW where \in SUBSET Pipeline, NEW p \in Packets, Called(where, p),
           Hold(p.reg, asked'), p.data = packet.data,
           silent' \in Int, ShortBy(p, silent'), intent' \in Intents, Means(p, intent')
    PROVE  QInv' /\ UNCHANGED place
<1>1. /\ place \in Pipeline /\ place' = place /\ packet' = p
      /\ saved' = saved /\ digests' = digests
  BY DEF Called
<1>2. RequestsTyped'
  BY <1>1 DEF QInv, RequestsTyped
<1>3. LengthsHold'
  BY <1>1 DEF QInv, LengthsHold, ShortBy, Pipeline
<1>4. Means(packet, intent)'
  BY <1>1 DEF Means
<1> QED
  BY <1>1, <1>2, <1>3, <1>4 DEF QInv

\* A packet goes on as it is.
LEMMA GoneOnQInv ==
    ASSUME QInv, UNCHANGED <<packet, asked, intent, silent, saved>>, digests' \in Seq(Field),
           place' \in Place \ {"input", "out"}, place \notin {"input", "out"}
    PROVE  QInv'
<1>1. RequestsTyped'
  BY DEF QInv, RequestsTyped
<1>2. LengthsHold'
  BY DEF QInv, LengthsHold, ShortBy
<1> QED
  BY <1>1, <1>2 DEF QInv, Means

\* A packet of n bytes about to be parsed into hs.
IsReady(p, hs, n) ==
    /\ p \in Packets /\ Hold(p.reg, Nothing) /\ p.reg[0] = n
    /\ p.data = hs /\ p.valid = {} /\ p.egress_spec = 0 /\ p.mcast_grp = 0

\* What a packet is like when it is about to be parsed.
LEMMA Readied ==
    ASSUME NEW hs \in SUBSET Header, NEW n \in Int, NEW r \in Register
    PROVE  IsReady(ReadyToParse(hs, n, r), hs, n)
BY HoldCleared, Metadata DEF IsReady, ReadyToParse, Packets, Hold

\* A replica holds no requests, and is as long as the packet.
LEMMA Replicated ==
    ASSUME NEW p \in Packets
    PROVE  /\ Replica(p) = [p EXCEPT !.reg = Replica(p).reg] /\ Replica(p) \in Packets
           /\ Hold(Replica(p).reg, Nothing) /\ Replica(p).reg[0] = p.reg[0]
<1>1. p.reg \in Register /\ p.reg[0] \in Int
  BY DEF Packets, Register
<1>2. Replica(p).reg = WithLength(p.reg[0], clear_all(p.reg))
  BY DEF Replica, Length, PACKET_LENGTH, Packets
<1>3. Hold(Replica(p).reg, Nothing) /\ Replica(p).reg[0] = p.reg[0]
  BY <1>1, <1>2, HoldCleared
<1> QED
  BY <1>3 DEF Replica, Packets, Hold

\* A field of the metadata comes over with what was meant by it, and the others
\* say nothing.
LEMMA Fielded ==
    ASSUME QInv, NEW p \in Packets, p.egress_spec = 0, p.mcast_grp = 0, NEW l \in Field
    PROVE  LET q == WithFields(l, p, packet)
           IN  /\ q \in Packets /\ q.reg = p.reg /\ q.data = p.data /\ q.valid = p.valid
               /\ IntentWith(l) \in Intents /\ Means(q, IntentWith(l))
<1>1. packet \in Packets /\ Means(packet, intent) /\ intent \in Intents
  BY DEF QInv, RequestsTyped
<1> DEFINE e == IF "egress_spec" \in Fields[l] THEN packet.egress_spec ELSE p.egress_spec
           g == IF "mcast_grp" \in Fields[l] THEN packet.mcast_grp ELSE p.mcast_grp
           q == WithFields(l, p, packet)
<1>2. q = [p EXCEPT !.egress_spec = e, !.mcast_grp = g]
  BY DEF WithFields
<1>3. e \in Port \cup {drop_port, drop_port + 1} /\ g \in Mgid \cup {0}
  BY <1>1 DEF Packets
<1>4. /\ q \in Packets /\ q.reg = p.reg /\ q.data = p.data /\ q.valid = p.valid
      /\ q.egress_spec = e /\ q.mcast_grp = g
  <2> HIDE DEF e, g, q
  <2> QED
    BY <1>2, <1>3 DEF Packets
<1>5. IntentWith(l) \in Intents
  BY <1>1 DEF Intents, IntentWith
<1>6. Means(q, IntentWith(l))
  <2> HIDE DEF q
  <2> QED
    BY <1>1, <1>4, Metadata DEF Means, IntentWith
<1> QED
  BY <1>4, <1>5, <1>6

\* A primitive that notes a request.
LEMMA RequestQInv ==
    ASSUME QInv, NEW where \in SUBSET Pipeline, NEW r, NEW a, Hold(r, a),
           r[0] = packet.reg[0], Request(where, r, a)
    PROVE  QInv' /\ UNCHANGED place
<1> DEFINE p == [packet EXCEPT !.reg = r]
<1>1. packet \in Packets /\ r \in Register
  BY DEF QInv, RequestsTyped, Hold
<1>2. /\ p \in Packets /\ p.reg = r /\ p.data = packet.data /\ p.valid = packet.valid
      /\ p.egress_spec = packet.egress_spec /\ p.mcast_grp = packet.mcast_grp
  BY <1>1 DEF Packets
<1>3. Called(where, p) /\ asked' = a /\ intent' = intent /\ silent' = silent
  BY DEF Request
<1> HIDE DEF p
<1>4. ShortBy(p, silent') /\ silent' \in Int /\ intent' \in Intents /\ Means(p, intent')
  BY <1>2, <1>3 DEF QInv, RequestsTyped, LengthsHold, ShortBy, Means
<1> QED
  BY <1>2, <1>3, <1>4, CallQInv

\* A primitive that brings or takes headers, and writes register 0 or not.
LEMMA ReshapeQInv ==
    ASSUME QInv, NEW hs \in SUBSET Header, NEW n \in Int, Reshape(hs, n),
           silent' \in Int, n + silent' = Size(packet.data) + Size(hs)
    PROVE  QInv' /\ UNCHANGED place
<1> DEFINE r == WithLength(n, packet.reg)
           p == [packet EXCEPT !.valid = hs, !.reg = r]
<1>1. packet \in Packets /\ Hold(r, asked) /\ r[0] = n
  BY HoldLength DEF QInv, RequestsTyped
<1>2. r \in Register
  BY <1>1 DEF Hold
<1>3. /\ p \in Packets /\ p.reg = r /\ p.data = packet.data /\ p.valid = hs
      /\ p.egress_spec = packet.egress_spec /\ p.mcast_grp = packet.mcast_grp
  <2> HIDE DEF r
  <2> QED
    BY <1>1, <1>2 DEF Packets
<1>4. Called(Pipeline, p) /\ asked' = asked /\ intent' = intent
  BY <1>1 DEF Reshape, Packets
<1> HIDE DEF p, r
<1>5. ShortBy(p, silent') /\ intent' \in Intents /\ Means(p, intent')
  BY <1>1, <1>3, <1>4 DEF QInv, RequestsTyped, ShortBy, Means
<1> QED
  BY <1>1, <1>3, <1>4, <1>5, CallQInv

\* A primitive or an assignment that sets the port or the group.
LEMMA AssignQInv ==
    ASSUME QInv, NEW where \in SUBSET Pipeline, NEW p \in Packets, NEW i \in Intents,
           Assign(where, p, i), p.reg = packet.reg, p.data = packet.data,
           p.valid = packet.valid, Means(p, i)
    PROVE  QInv' /\ UNCHANGED place
<1>1. Called(where, p) /\ asked' = asked /\ intent' = i /\ silent' = silent
  BY DEF Assign
<1>2. ShortBy(p, silent') /\ silent' \in Int /\ Means(p, intent')
  BY <1>1 DEF QInv, RequestsTyped, LengthsHold, ShortBy
<1> QED
  BY <1>1, <1>2, CallQInv DEF QInv

\* Every primitive and assignment leaves the registers as asked, the length
\* that of the headers but for what is done silently, and the metadata as meant.
LEMMA PrimitiveQInv == ASSUME QInv, Primitive PROVE QInv' /\ UNCHANGED place
<1> DEFINE r == packet.reg
<1>0. /\ packet \in Packets /\ Hold(r, asked) /\ intent \in Intents /\ silent \in Int
      /\ packet.valid \in SUBSET Header /\ packet.data \in SUBSET Header
      /\ Length(packet) + silent = Size(packet.data) + Size(packet.valid)
      /\ Length(packet) \in Int
      /\ \A hs \in SUBSET Header : Size(hs) \in Nat
      /\ \A h \in Header : Bytes[h] \in Nat
      /\ Means(packet, intent)
  BY SizeNat, MetadataAssumption
     DEF QInv, RequestsTyped, LengthsHold, ShortBy, Packets, Register, Length, PACKET_LENGTH
<1>1. Pipeline \in SUBSET Pipeline /\ {"ingress"} \in SUBSET Pipeline
  BY DEF Pipeline
<1>2. ASSUME NEW l \in ListId, generate_digest(l) PROVE QInv' /\ UNCHANGED place
  <2>1. l \in Field
    BY SessionFields
  <2>2. /\ Hold(Set(LF_FIELD_LIST, l, r), [asked EXCEPT !.learn = l])
        /\ Set(LF_FIELD_LIST, l, r)[0] = r[0]
    BY <1>0, <2>1, HoldSet
  <2> QED
    BY <1>1, <1>2, <2>2, RequestQInv DEF generate_digest
<1>3. ASSUME NEW l \in ListId, resubmit(l) PROVE QInv' /\ UNCHANGED place
  <2>1. l \in Field
    BY SessionFields
  <2>2. /\ Hold(Set(RESUBMIT_FLAG, l, r), [asked EXCEPT !.resubmit = l])
        /\ Set(RESUBMIT_FLAG, l, r)[0] = r[0]
    BY <1>0, <2>1, HoldSet
  <2> QED
    BY <1>1, <1>3, <2>2, RequestQInv DEF resubmit
<1>4. ASSUME NEW l \in ListId, recirculate(l) PROVE QInv' /\ UNCHANGED place
  <2>1. l \in Field
    BY SessionFields
  <2>2. /\ Hold(Set(RECIRCULATE_FLAG, l, r), [asked EXCEPT !.recirculate = l])
        /\ Set(RECIRCULATE_FLAG, l, r)[0] = r[0]
    BY <1>0, <2>1, HoldSet
  <2> QED
    BY <1>1, <1>4, <2>2, RequestQInv DEF recirculate
<1>5. ASSUME NEW s \in SessionId, NEW l \in ListId, clone(s, l)
      PROVE  QInv' /\ UNCHANGED place
  <2> DEFINE r1 == Set(CLONE_MIRROR_SESSION_ID, ValidBit + s, r)
             a1 == [asked EXCEPT !.session = s]
             r2 == Set(CLONE_FIELD_LIST, l, r1)
             a2 == [a1 EXCEPT !.list = l]
  <2>1. l \in Field /\ s \in Id /\ ValidBit + s \in Field /\ s # None
    BY SessionFields, FieldAssumption DEF Id, None
  <2>2. SessionField([asked EXCEPT !.session = s]) = ValidBit + s
    BY <1>0, <2>1 DEF SessionField, Hold, Asked
  <2>3. Hold(r1, a1) /\ r1[0] = r[0]
    BY <1>0, <2>1, <2>2, HoldSet
  <2>4. Hold(r2, a2) /\ r2[0] = r1[0]
    <3> HIDE DEF r1, a1
    <3> QED
      BY <2>1, <2>3, HoldSet
  <2>5. Request(Pipeline, r2, a2)
    BY <1>0, <1>5 DEF clone, Hold, Asked
  <2> HIDE DEF r1, a1, r2, a2, r
  <2> QED
    BY <1>1, <2>3, <2>4, <2>5, RequestQInv DEF r
<1>6. ASSUME NEW h \in Header, add_header(h) PROVE QInv' /\ UNCHANGED place
  <2> DEFINE V == packet.valid \cup {h}
             n == Length(packet) + IF h \in packet.valid THEN 0 ELSE Bytes[h]
  <2>1. V \in SUBSET Header /\ Reshape(V, n) /\ silent' = silent
    BY <1>0, <1>6 DEF add_header
  <2>2. Size(V) = Size(packet.valid) + IF h \in packet.valid THEN 0 ELSE Bytes[h]
    <3>1. CASE h \in packet.valid
      <4>1. V = packet.valid
        BY <3>1
      <4>2. Size(packet.valid) \in Nat
        BY <1>0
      <4> HIDE DEF V
      <4> QED
        BY <3>1, <4>1, <4>2
    <3>2. CASE h \notin packet.valid
      <4>1. V \ {h} = packet.valid
        BY <3>2
      <4>2. Size(V) = Bytes[h] + Size(V \ {h})
        BY <2>1, SizeAdd
      <4>3. Size(packet.valid) \in Nat /\ Bytes[h] \in Nat
        BY <1>0
      <4> HIDE DEF V
      <4>4. Size(V) = Bytes[h] + Size(packet.valid)
        BY <4>1, <4>2, Zenon
      <4> QED
        BY <3>2, <4>3, <4>4
    <3> HIDE DEF V
    <3> QED
      BY <3>1, <3>2, Zenon
  <2>3. n \in Int /\ n + silent' = Size(packet.data) + Size(V)
    <3>1. /\ Size(packet.data) \in Nat /\ Size(packet.valid) \in Nat /\ Bytes[h] \in Nat
      BY <1>0
    <3> HIDE DEF V
    <3> QED
      BY <1>0, <2>1, <2>2, <3>1
  <2> HIDE DEF V, n
  <2> QED
    BY <1>0, <2>1, <2>3, ReshapeQInv
<1>7. ASSUME NEW h \in Header, remove_header(h) PROVE QInv' /\ UNCHANGED place
  <2> DEFINE V == packet.valid \ {h}
             n == Length(packet) - IF h \in packet.valid THEN Bytes[h] ELSE 0
  <2>1. V \in SUBSET Header /\ Reshape(V, n) /\ silent' = silent
    BY <1>0, <1>7 DEF remove_header
  <2>2. Size(packet.valid) = Size(V) + IF h \in packet.valid THEN Bytes[h] ELSE 0
    <3>1. CASE h \notin packet.valid
      <4>1. V = packet.valid
        BY <3>1
      <4>2. Size(packet.valid) \in Nat
        BY <1>0
      <4> HIDE DEF V
      <4> QED
        BY <3>1, <4>1, <4>2
    <3>2. CASE h \in packet.valid
      <4>1. Size(packet.valid) = Bytes[h] + Size(V)
        BY <1>0, <3>2, SizeAdd
      <4>2. Size(V) \in Nat /\ Bytes[h] \in Nat
        BY <1>0, <2>1
      <4> HIDE DEF V
      <4> QED
        BY <3>2, <4>1, <4>2
    <3> HIDE DEF V
    <3> QED
      BY <3>1, <3>2, Zenon
  <2>3. n \in Int /\ n + silent' = Size(packet.data) + Size(V)
    <3>1. /\ Size(packet.data) \in Nat /\ Size(V) \in Nat /\ Bytes[h] \in Nat
          /\ Length(packet) \in Int /\ silent \in Int
          /\ Length(packet) + silent = Size(packet.data) + Size(packet.valid)
      BY <1>0, <2>1
    <3> HIDE DEF V
    <3>2. CASE h \in packet.valid
      BY <2>1, <2>2, <3>1, <3>2
    <3>3. CASE h \notin packet.valid
      BY <2>1, <2>2, <3>1, <3>3
    <3> QED
      BY <3>2, <3>3
  <2> HIDE DEF V, n
  <2> QED
    BY <1>0, <2>1, <2>3, ReshapeQInv
<1>8. ASSUME NEW hs \in SUBSET Header, ReshapeSilently(hs) PROVE QInv' /\ UNCHANGED place
  <2>1. Reshape(hs, Length(packet)) /\ silent' = silent + Size(hs) - Size(packet.valid)
    BY <1>8 DEF ReshapeSilently
  <2>2. /\ Size(hs) \in Nat /\ Size(packet.data) \in Nat /\ Size(packet.valid) \in Nat
    BY <1>0
  <2>3. silent' \in Int /\ Length(packet) + silent' = Size(packet.data) + Size(hs)
    BY <1>0, <2>1, <2>2
  <2> QED
    BY <1>0, <2>1, <2>3, ReshapeQInv
<1>9. ASSUME NEW h \in Header, add_header_fast(h) PROVE QInv' /\ UNCHANGED place
  <2>1. packet.valid \cup {h} \in SUBSET Header
    BY <1>0
  <2> QED
    BY <1>8, <1>9, <2>1 DEF add_header_fast
<1>10. ASSUME NEW dst \in Header, NEW src \in Header, copy_header(dst, src)
       PROVE  QInv' /\ UNCHANGED place
  <2>1. packet.valid \cup {dst} \in SUBSET Header /\ packet.valid \ {dst} \in SUBSET Header
    BY <1>0
  <2> QED
    BY <1>8, <1>10, <2>1 DEF copy_header
<1>11. ASSUME mark_to_drop PROVE QInv' /\ UNCHANGED place
  <2> DEFINE p == [packet EXCEPT !.egress_spec = drop_port, !.mcast_grp = 0]
             i == [drop |-> TRUE, group |-> FALSE]
  <2>1. /\ p \in Packets /\ p.reg = r /\ p.data = packet.data /\ p.valid = packet.valid
        /\ p.egress_spec = drop_port /\ p.mcast_grp = 0
    BY <1>0 DEF Packets
  <2>2. i \in Intents /\ Assign(Pipeline, p, i)
    BY <1>11 DEF mark_to_drop, Intents
  <2>3. Means(p, i)
    BY <2>1 DEF Means
  <2> HIDE DEF p, i
  <2> QED
    BY <1>1, <2>1, <2>2, <2>3, AssignQInv
<1>12. ASSUME NEW x \in Port, SetEgressSpec(x) PROVE QInv' /\ UNCHANGED place
  <2> DEFINE p == [packet EXCEPT !.egress_spec = x]
             i == [intent EXCEPT !.drop = FALSE]
  <2>1. /\ p \in Packets /\ p.reg = r /\ p.data = packet.data /\ p.valid = packet.valid
        /\ p.egress_spec = x /\ p.mcast_grp = packet.mcast_grp /\ x # drop_port
    BY <1>0, Metadata DEF Packets
  <2>2. /\ i \in Intents /\ i.drop = FALSE /\ i.group = intent.group
        /\ Assign(Pipeline, p, i)
    BY <1>0, <1>12 DEF SetEgressSpec, Intents
  <2>3. Means(p, i)
    BY <1>0, <2>1, <2>2 DEF Means
  <2> HIDE DEF p, i
  <2> QED
    BY <1>1, <2>1, <2>2, <2>3, AssignQInv
<1>13. ASSUME NEW g \in Mgid, SetGroup(g) PROVE QInv' /\ UNCHANGED place
  <2> DEFINE p == [packet EXCEPT !.mcast_grp = g]
             i == [intent EXCEPT !.group = TRUE]
  <2>1. /\ p \in Packets /\ p.reg = r /\ p.data = packet.data /\ p.valid = packet.valid
        /\ p.mcast_grp = g /\ p.egress_spec = packet.egress_spec /\ g # 0
    BY <1>0, Metadata DEF Packets
  <2>2. /\ i \in Intents /\ i.group = TRUE /\ i.drop = intent.drop
        /\ Assign({"ingress"}, p, i)
    BY <1>0, <1>13 DEF SetGroup, Intents
  <2>3. Means(p, i)
    BY <1>0, <2>1, <2>2 DEF Means
  <2> HIDE DEF p, i
  <2> QED
    BY <1>1, <2>1, <2>2, <2>3, AssignQInv
<1> QED
  BY <1>2, <1>3, <1>4, <1>5, <1>6, <1>7, <1>9, <1>10, <1>11, <1>12, <1>13 DEF Primitive

\* Taking the clone request off leaves the other requests.
LEMMA Unclones ==
    ASSUME QInv
    PROVE  LET a == [asked EXCEPT !.session = None, !.list = 0]
           IN  /\ Unclone(packet) = [packet EXCEPT !.reg = Unclone(packet).reg]
               /\ Hold(Unclone(packet).reg, a) /\ Unclone(packet).reg[0] = packet.reg[0]
<1> DEFINE r == packet.reg
           r1 == Set(CLONE_MIRROR_SESSION_ID, 0, r)
           a1 == [asked EXCEPT !.session = None]
           r2 == Set(CLONE_FIELD_LIST, 0, r1)
           a2 == [a1 EXCEPT !.list = 0]
<1>0. packet \in Packets /\ Hold(r, asked) /\ asked \in Asked /\ 0 \in Field
  BY SessionFields DEF QInv, RequestsTyped, Hold
<1>1. SessionField([asked EXCEPT !.session = None]) = 0
  BY <1>0 DEF SessionField, Asked
<1>2. Hold(r1, a1) /\ r1[0] = r[0]
  BY <1>0, <1>1, HoldSet
<1>3. Hold(r2, a2) /\ r2[0] = r1[0]
  <2> HIDE DEF r1, a1
  <2> QED
    BY <1>0, <1>2, HoldSet
<1>4. a2 = [asked EXCEPT !.session = None, !.list = 0]
  BY <1>0 DEF Asked
<1>5. Unclone(packet) = [packet EXCEPT !.reg = r2] /\ Unclone(packet).reg = r2
  BY <1>0 DEF Unclone, Packets
<1> HIDE DEF r1, a1, r2, a2, r
<1> QED
  BY <1>2, <1>3, <1>4, <1>5 DEF r

\* A thread that goes on without a clone takes the request off.
LEMMA UnclonedQInv ==
    ASSUME QInv, place \notin {"input", "out"}, NEW to \in Place \ {"input", "out"},
           GoOnUncloned(to)
    PROVE  QInv'
<1>0. /\ digests' \in Seq(Field) /\ place' = to
      /\ UNCHANGED <<saved, intent, silent, digests>>
  BY DEF QInv, RequestsTyped, GoOnUncloned
<1>1. CASE Get(CLONE_MIRROR_SESSION_ID, packet.reg) = 0
  <2>1. UNCHANGED <<packet, asked>>
    BY <1>1 DEF GoOnUncloned
  <2> QED
    BY <1>0, <2>1, GoneOnQInv
<1>2. CASE Get(CLONE_MIRROR_SESSION_ID, packet.reg) # 0
  <2> DEFINE a == [asked EXCEPT !.session = None, !.list = 0]
             s == Unclone(packet).reg
  <2>1. Hold(s, a) /\ s[0] = packet.reg[0] /\ Unclone(packet) = [packet EXCEPT !.reg = s]
    BY Unclones
  <2>2. packet' = [packet EXCEPT !.reg = s] /\ asked' = a
    BY <1>2, <2>1 DEF GoOnUncloned
  <2>3. packet \in Packets /\ s \in Register
    BY <2>1 DEF QInv, RequestsTyped, Hold
  <2>4. /\ packet' \in Packets /\ packet'.reg = s /\ packet'.data = packet.data
        /\ packet'.valid = packet.valid
        /\ packet'.egress_spec = packet.egress_spec /\ packet'.mcast_grp = packet.mcast_grp
    <3> HIDE DEF s, a
    <3> QED
      BY <2>2, <2>3 DEF Packets
  <2>5. Hold(packet.reg, asked)'
    BY <2>1, <2>2, <2>4
  <2>6. RequestsTyped'
    BY <1>0, <2>4 DEF QInv, RequestsTyped
  <2>7. LengthsHold'
    BY <1>0, <2>1, <2>4 DEF QInv, LengthsHold, ShortBy
  <2>8. Means(packet, intent)'
    BY <1>0, <2>4 DEF QInv, Means
  <2> QED
    BY <2>5, <2>6, <2>7, <2>8 DEF QInv
<1> QED
  BY <1>1, <1>2

\* A pass begins with a packet to be parsed, with the fields of list l.
LEMMA AnewQInv ==
    ASSUME QInv, NEW hs \in SUBSET Header, NEW n \in Int, n = Size(hs),
           NEW r \in Register, NEW l \in Field,
           Copied(WithFields(l, ReadyToParse(hs, n, r), packet), "input", IntentWith(l)),
           silent' = 0, UNCHANGED <<saved, digests>>
    PROVE  QInv'
<1> DEFINE p == ReadyToParse(hs, n, r)
           q == WithFields(l, p, packet)
<1>1. /\ p \in Packets /\ Hold(p.reg, Nothing) /\ p.reg[0] = n
      /\ p.data = hs /\ p.valid = {} /\ p.egress_spec = 0 /\ p.mcast_grp = 0
  <2>1. IsReady(p, hs, n)
    BY Readied
  <2> QED
    BY <2>1, Zenon DEF IsReady
<1>2. /\ q \in Packets /\ q.reg = p.reg /\ q.data = hs /\ q.valid = {}
      /\ IntentWith(l) \in Intents /\ Means(q, IntentWith(l))
  <2> HIDE DEF p
  <2> QED
    BY <1>1, Fielded
<1>3. Copied(q, "input", IntentWith(l))
  OBVIOUS
<1> HIDE DEF p, q
<1>4. silent' \in Int /\ ShortBy(q, silent')
  BY <1>1, <1>2, SizeEmpty DEF ShortBy
<1> QED
  BY <1>1, <1>2, <1>3, <1>4, CopiedQInv

\* The rest of ingress, and the packet that comes next.
LEMMA IngressQInv ==
    ASSUME QInv,
           \/ \E hs \in SUBSET Header : Receive(hs)
           \/ StartIngress \/ EndIngress \/ CloneAtIngress \/ Learn \/ Resubmit \/ Forward
    PROVE  /\ QInv'
           /\ place = "forward" => (place' = "gone" <=> intent.drop /\ ~intent.group)
           /\ place # "verdict"
<1>0. /\ packet \in Packets /\ packet.reg \in Register /\ packet.data \in SUBSET Header
      /\ packet.valid \in SUBSET Header
      /\ saved.data \in SUBSET Header /\ saved.length \in Int
      /\ asked \in Asked /\ intent \in Intents /\ silent \in Int
      /\ ShortBy(packet, silent) /\ Means(packet, intent) /\ saved.length = Size(saved.data)
      /\ \A hs \in SUBSET Header : Size(hs) \in Nat
      /\ Size({}) = 0 /\ digests \in Seq(Field)
  BY SizeNat, SizeEmpty DEF QInv, RequestsTyped, LengthsHold, Packets, Hold
<1>1. ASSUME NEW hs \in SUBSET Header, Receive(hs) PROVE QInv' /\ place \in {"out", "gone"}
  <2> DEFINE p == ReadyToParse(hs, Size(hs), packet.reg)
  <2>1. /\ p \in Packets /\ Hold(p.reg, Nothing) /\ p.reg[0] = Size(hs)
        /\ p.data = hs /\ p.valid = {} /\ p.egress_spec = 0 /\ p.mcast_grp = 0
    <3>1. Size(hs) \in Int /\ packet.reg \in Register
      BY <1>0
    <3>2. IsReady(p, hs, Size(hs))
      BY <3>1, Readied
    <3> QED
      BY <3>2, Zenon DEF IsReady
  <2>2. /\ Copied(p, "input", NoIntent) /\ UNCHANGED <<saved, digests>>
        /\ silent' = 0 /\ place \in {"out", "gone"}
    BY <1>1 DEF Receive
  <2> HIDE DEF p
  <2>3. /\ NoIntent \in Intents /\ Means(p, NoIntent)
    BY <2>1, Metadata DEF Means, NoIntent, Intents
  <2>4. silent' \in Int /\ ShortBy(p, silent')
    BY <1>0, <2>1, <2>2 DEF ShortBy
  <2> QED
    BY <2>1, <2>2, <2>3, <2>4, CopiedQInv
<1>2. ASSUME StartIngress PROVE QInv' /\ place = "input"
  <2>1. /\ place = "input" /\ place' = "ingress"
        /\ saved' = [data |-> packet.data, length |-> packet.reg[0]]
        /\ packet' = [packet EXCEPT !.data = {}, !.valid = packet.data]
        /\ UNCHANGED <<asked, intent, silent, digests>>
    BY <1>2 DEF StartIngress, Length, PACKET_LENGTH, historyVars
  <2>2. packet.valid = {} /\ silent = 0
    BY <2>1 DEF QInv, LengthsHold
  <2>3. /\ packet' \in Packets /\ packet'.reg = packet.reg /\ packet'.data = {}
        /\ packet'.valid = packet.data
        /\ packet'.egress_spec = packet.egress_spec /\ packet'.mcast_grp = packet.mcast_grp
    BY <1>0, <2>1 DEF Packets
  <2>4. packet.reg[0] = Size(packet.data) /\ packet.reg[0] \in Int
    BY <1>0, <2>2 DEF ShortBy, Register
  <2>5. RequestsTyped'
    BY <1>0, <2>1, <2>3, <2>4 DEF RequestsTyped, Place
  <2>6. Hold(packet.reg, asked)'
    BY <2>1, <2>3 DEF QInv
  <2>7. LengthsHold'
    <3>1. ShortBy(packet, silent)'
      BY <1>0, <2>1, <2>2, <2>3, <2>4 DEF ShortBy
    <3>2. saved'.length = Size(saved'.data)
      BY <2>1, <2>4
    <3> QED
      BY <2>1, <2>3, <3>1, <3>2 DEF LengthsHold
  <2>8. Means(packet, intent)'
    BY <1>0, <2>1, <2>3 DEF Means
  <2> QED
    BY <2>1, <2>5, <2>6, <2>7, <2>8 DEF QInv
<1>3. ASSUME EndIngress PROVE QInv' /\ place = "ingress"
  BY <1>0, <1>3, GoneOnQInv DEF EndIngress, Place, historyVars
<1>4. ASSUME CloneAtIngress PROVE QInv' /\ place = "clone"
  <2>0. place = "clone" /\ Hold(packet.reg, asked)
    BY <1>4 DEF CloneAtIngress, QInv
  <2>1. CASE GoOnUncloned("learn")
    <3>1. "learn" \in Place \ {"input", "out"}
      BY DEF Place
    <3> QED
      BY <2>0, <2>1, <3>1, UnclonedQInv
  <2>2. CASE ClonesTo(IngressClone(packet), "queued") /\ silent' = 0
    <3> DEFINE p0 == ReadyToParse({}, saved.length, packet.reg)
               p == [p0 EXCEPT !.valid = saved.data]
               q == WithFields(asked.list, p, packet)
    <3>1. /\ p0 \in Packets /\ Hold(p0.reg, Nothing) /\ p0.reg[0] = saved.length
          /\ p0.data = {} /\ p0.egress_spec = 0 /\ p0.mcast_grp = 0
      <4>1. {} \in SUBSET Header /\ saved.length \in Int /\ packet.reg \in Register
        BY <1>0
      <4>2. IsReady(p0, {}, saved.length)
        BY <4>1, Readied
      <4> QED
        BY <4>2, Zenon DEF IsReady
    <3>2. /\ p \in Packets /\ p.reg = p0.reg /\ p.data = {} /\ p.valid = saved.data
          /\ p.egress_spec = 0 /\ p.mcast_grp = 0
      <4> HIDE DEF p0
      <4> QED
        BY <1>0, <3>1 DEF Packets
    <3>3. asked.list \in Field /\ CloneFields(packet) = asked.list
      BY <1>0, <2>0, HoldRead DEF CloneFields, Asked
    <3>4. IngressClone(packet) = q
      BY <3>3 DEF IngressClone
    <3>5. /\ q \in Packets /\ q.reg = p.reg /\ q.data = {} /\ q.valid = saved.data
          /\ IntentWith(asked.list) \in Intents /\ Means(q, IntentWith(asked.list))
      <4> HIDE DEF p
      <4> QED
        BY <3>2, <3>3, Fielded
    <3>6. Copied(q, "queued", IntentWith(asked.list)) /\ UNCHANGED <<saved, digests>>
      BY <2>2, <3>4 DEF ClonesTo
    <3> HIDE DEF p0, p, q
    <3>7. silent' \in Int /\ ShortBy(q, silent')
      BY <1>0, <2>2, <3>1, <3>2, <3>5 DEF ShortBy
    <3> QED
      BY <2>0, <3>1, <3>2, <3>5, <3>6, <3>7, CopiedQInv
  <2> QED
    BY <1>4, <2>0, <2>1, <2>2 DEF CloneAtIngress
<1>5. ASSUME Learn PROVE QInv' /\ place = "learn"
  <2>1. asked.learn \in Field
    BY <1>0 DEF Asked
  <2>2. digests' \in Seq(Field)
    BY <1>0, <1>5, <2>1 DEF Learn
  <2> QED
    BY <1>5, <2>2, GoneOnQInv DEF Learn, Place
<1>6. ASSUME Resubmit PROVE QInv' /\ place = "resubmit"
  <2>1. CASE Get(RESUBMIT_FLAG, packet.reg) = 0
    BY <1>0, <1>6, <2>1, GoneOnQInv DEF Resubmit, Place
  <2>2. CASE Get(RESUBMIT_FLAG, packet.reg) # 0
    <3> DEFINE s == Set(RESUBMIT_FLAG, 0, packet.reg)
    <3>1. Hold(s, [asked EXCEPT !.resubmit = 0])
      BY SessionFields, HoldSet DEF QInv
    <3>2. s \in Register
      BY <3>1 DEF Hold
    <3>3. asked.resubmit \in Field /\ Get(RESUBMIT_FLAG, packet.reg) = asked.resubmit
      BY <1>0, HoldRead DEF QInv, Asked
    <3>4. /\ Copied(WithFields(asked.resubmit, ReadyToParse(saved.data, saved.length, s), packet),
                    "input", IntentWith(asked.resubmit))
          /\ silent' = 0 /\ UNCHANGED <<saved, digests>> /\ place = "resubmit"
      BY <1>6, <2>2, <3>3 DEF Resubmit
    <3> HIDE DEF s
    <3> QED
      BY <1>0, <3>2, <3>3, <3>4, AnewQInv
  <2> QED
    BY <2>1, <2>2
<1>7. ASSUME Forward
      PROVE  /\ QInv' /\ place = "forward"
             /\ place' = "gone" <=> intent.drop /\ ~intent.group
  <2>0. place = "forward" /\ UNCHANGED <<saved, silent, digests>> /\ packet.data = {}
    BY <1>7 DEF Forward, QInv, LengthsHold
  <2>1. CASE packet.mcast_grp # 0 /\ Copied(Replica(packet), "queued", intent)
    <3> DEFINE p == Replica(packet)
    <3>1. /\ p = [packet EXCEPT !.reg = p.reg] /\ p \in Packets
          /\ Hold(p.reg, Nothing) /\ p.reg[0] = packet.reg[0]
      BY <1>0, Replicated
    <3>2. /\ p.data = {} /\ p.valid = packet.valid
          /\ p.egress_spec = packet.egress_spec /\ p.mcast_grp = packet.mcast_grp
      <4> HIDE DEF p
      <4> QED
        BY <1>0, <2>0, <3>1 DEF Packets
    <3>3. Copied(p, "queued", intent) /\ place' = "queued" /\ intent.group
      BY <1>0, <2>1 DEF Copied, Means
    <3> HIDE DEF p
    <3>4. silent' \in Int /\ ShortBy(p, silent') /\ Means(p, intent)
      BY <1>0, <2>0, <3>1, <3>2 DEF ShortBy, Means
    <3> QED
      BY <1>0, <2>0, <3>1, <3>2, <3>3, <3>4, CopiedQInv
  <2>2. CASE /\ packet.mcast_grp = 0
             /\ place' \in IF packet.egress_spec = drop_port THEN {"gone"}
                                                          ELSE {"queued", "calendar queue"}
             /\ UNCHANGED <<packet, asked, intent>>
    <3>1. place' = "gone" <=> intent.drop /\ ~intent.group
      BY <1>0, <2>0, <2>2 DEF Means
    <3>2. place' \in {"gone", "queued", "calendar queue"}
      BY <2>2
    <3> QED
      BY <1>0, <2>0, <2>2, <3>1, <3>2, GoneOnQInv DEF Place
  <2> QED
    BY <1>7, <2>0, <2>1, <2>2 DEF Forward
<1> QED
  BY <1>1, <1>2, <1>3, <1>4, <1>5, <1>6, <1>7

\* The steps of egress and of the deparser keep the invariant, and a packet leaves at
\* the verdict exactly if it is marked.
LEMMA EgressQInv ==
    ASSUME QInv, StartEgress \/ EndEgress \/ CloneAtEgress \/ EgressDrop \/ Deparse
    PROVE  /\ QInv'
           /\ place = "verdict" => (place' = "gone" <=> intent.drop)
           /\ place # "forward"
<1>0. /\ packet \in Packets /\ packet.reg \in Register /\ packet.data \in SUBSET Header
      /\ packet.valid \in SUBSET Header
      /\ asked \in Asked /\ intent \in Intents /\ silent \in Int
      /\ ShortBy(packet, silent) /\ Means(packet, intent)
      /\ \A hs \in SUBSET Header : Size(hs) \in Nat
      /\ Size({}) = 0 /\ digests \in Seq(Field)
  BY SizeNat, SizeEmpty DEF QInv, RequestsTyped, LengthsHold, Packets, Hold
<1>1. ASSUME StartEgress PROVE QInv' /\ place \in {"queued", "calendar queue"}
  <2>1. /\ place \in {"queued", "calendar queue"} /\ place' \in {"egress", "calendar"}
        /\ packet' = FreshSpec(packet) /\ intent' = [intent EXCEPT !.drop = FALSE]
        /\ UNCHANGED <<asked, saved, silent, digests>>
    BY <1>1 DEF StartEgress
  <2>2. /\ packet' \in Packets /\ packet'.reg = packet.reg /\ packet'.data = packet.data
        /\ packet'.valid = packet.valid /\ packet'.egress_spec = drop_port + 1
        /\ packet'.mcast_grp = packet.mcast_grp
    BY <1>0, <2>1 DEF FreshSpec, Packets
  <2>3. intent' \in Intents /\ intent'.drop = FALSE /\ intent'.group = intent.group
    BY <1>0, <2>1 DEF Intents
  <2>4. RequestsTyped'
    BY <2>1, <2>2, <2>3 DEF QInv, RequestsTyped, Place
  <2>5. LengthsHold'
    BY <2>1, <2>2 DEF QInv, LengthsHold, ShortBy
  <2>6. Means(packet, intent)'
    BY <1>0, <2>2, <2>3, Metadata DEF Means
  <2> QED
    BY <2>1, <2>2, <2>4, <2>5, <2>6 DEF QInv
<1>2. ASSUME EndEgress PROVE QInv' /\ place \in {"egress", "calendar"}
  <2>1. /\ place \in {"egress", "calendar"} /\ place' \in {"egress clone", "verdict"}
        /\ UNCHANGED <<packet, asked, intent, silent, saved, digests>>
    BY <1>2 DEF EndEgress, historyVars
  <2> QED
    BY <1>0, <2>1, GoneOnQInv DEF Place
<1>3. ASSUME CloneAtEgress PROVE QInv' /\ place = "egress clone"
  <2>0. place = "egress clone" /\ packet.data = {} /\ Hold(packet.reg, asked)
    BY <1>3 DEF CloneAtEgress, QInv, LengthsHold
  <2>1. CASE GoOnUncloned("verdict")
    <3>1. "verdict" \in Place \ {"input", "out"}
      BY DEF Place
    <3> QED
      BY <2>0, <2>1, <3>1, UnclonedQInv
  <2>2. CASE ClonesTo(EgressClone(packet), "queued") /\ UNCHANGED silent
    <3> DEFINE p0 == Replica(packet)
               p == [p0 EXCEPT !.egress_spec = 0, !.mcast_grp = 0]
               q == WithFields(asked.list, p, packet)
    <3>1. /\ p0 = [packet EXCEPT !.reg = p0.reg] /\ p0 \in Packets
          /\ Hold(p0.reg, Nothing) /\ p0.reg[0] = packet.reg[0]
      BY <1>0, Replicated
    <3>2. /\ p \in Packets /\ p.reg = p0.reg /\ p.data = {} /\ p.valid = packet.valid
          /\ p.egress_spec = 0 /\ p.mcast_grp = 0
      <4> HIDE DEF p0
      <4> QED
        BY <1>0, <2>0, <3>1, Metadata DEF Packets
    <3>3. asked.list \in Field /\ CloneFields(packet) = asked.list
      BY <1>0, <2>0, HoldRead DEF CloneFields, Asked
    <3>4. EgressClone(packet) = q
      BY <3>3 DEF EgressClone
    <3>5. /\ q \in Packets /\ q.reg = p.reg /\ q.data = {} /\ q.valid = packet.valid
          /\ IntentWith(asked.list) \in Intents /\ Means(q, IntentWith(asked.list))
      <4> HIDE DEF p
      <4> QED
        BY <3>2, <3>3, Fielded
    <3>6. /\ Copied(q, "queued", IntentWith(asked.list)) /\ UNCHANGED <<saved, digests>>
          /\ silent' = silent
      BY <2>2, <3>4 DEF ClonesTo
    <3> HIDE DEF p0, p, q
    <3>7. silent' \in Int /\ ShortBy(q, silent')
      BY <1>0, <2>0, <3>1, <3>2, <3>5, <3>6 DEF ShortBy
    <3> QED
      BY <2>0, <3>1, <3>2, <3>5, <3>6, <3>7, CopiedQInv
  <2> QED
    BY <1>3, <2>0, <2>1, <2>2 DEF CloneAtEgress
<1>4. ASSUME EgressDrop PROVE QInv' /\ place = "verdict" /\ place' = "gone" /\ intent.drop
  <2>1. /\ place = "verdict" /\ packet.egress_spec = drop_port /\ place' = "gone"
        /\ UNCHANGED <<packet, asked, intent, silent, saved, digests>>
    BY <1>4 DEF EgressDrop, historyVars
  <2>2. intent.drop
    BY <1>0, <2>1 DEF Means
  <2> QED
    BY <1>0, <2>1, <2>2, GoneOnQInv DEF Place
<1>5. ASSUME Deparse PROVE QInv' /\ place = "verdict" /\ place' # "gone" /\ ~intent.drop
  <2>0. /\ place = "verdict" /\ UNCHANGED <<saved, digests>> /\ ~intent.drop
        /\ packet.data = {}
    BY <1>5 DEF Deparse, QInv, LengthsHold, Means
  <2>1. CASE Get(RECIRCULATE_FLAG, packet.reg) = 0
    <3>1. /\ packet' = [packet EXCEPT !.data = @ \cup packet.valid, !.valid = {}]
          /\ place' = "out" /\ UNCHANGED <<asked, intent, silent>>
      BY <1>5, <2>1 DEF Deparse
    <3>2. packet.data \cup packet.valid = packet.valid
      BY <2>0
    <3>3. /\ packet' \in Packets /\ packet'.reg = packet.reg /\ packet'.data = packet.valid
          /\ packet'.valid = {}
          /\ packet'.egress_spec = packet.egress_spec /\ packet'.mcast_grp = packet.mcast_grp
      BY <1>0, <3>1, <3>2 DEF Packets
    <3>4. RequestsTyped'
      BY <2>0, <3>1, <3>3 DEF QInv, RequestsTyped, Place
    <3>5. ShortBy(packet, silent)'
      BY <1>0, <2>0, <3>1, <3>3 DEF ShortBy
    <3>6. LengthsHold'
      BY <2>0, <3>1, <3>3, <3>5 DEF QInv, LengthsHold
    <3>7. Means(packet, intent)'
      BY <1>0, <3>1, <3>3 DEF Means
    <3> QED
      BY <2>0, <3>1, <3>3, <3>4, <3>6, <3>7 DEF QInv
  <2>2. CASE Get(RECIRCULATE_FLAG, packet.reg) # 0
    <3> DEFINE s == Set(RECIRCULATE_FLAG, 0, packet.reg)
    <3>1. Hold(s, [asked EXCEPT !.recirculate = 0])
      BY SessionFields, HoldSet DEF QInv
    <3>2. s \in Register
      BY <3>1 DEF Hold
    <3>3. asked.recirculate \in Field /\ Get(RECIRCULATE_FLAG, packet.reg) = asked.recirculate
      BY <1>0, HoldRead DEF QInv, Asked
    <3>4. /\ Copied(WithFields(asked.recirculate,
                               ReadyToParse(packet.valid, Size(packet.valid), s), packet),
                    "input", IntentWith(asked.recirculate))
          /\ silent' = 0 /\ UNCHANGED <<saved, digests>>
      BY <1>5, <2>2, <3>3 DEF Deparse
    <3>5. place' = "input" /\ Size(packet.valid) \in Int
      BY <1>0, <3>4 DEF Copied
    <3> HIDE DEF s
    <3>6. QInv'
      BY <1>0, <3>2, <3>3, <3>4, <3>5, AnewQInv
    <3> QED
      BY <2>0, <3>5, <3>6
  <2> QED
    BY <2>0, <2>1, <2>2
<1> QED
  BY <1>1, <1>2, <1>3, <1>4, <1>5

\* So does every step.
LEMMA NextQInv ==
    ASSUME QInv, [Next]_vars
    PROVE  /\ QInv'
           /\ place = "forward" /\ place' # place
                => (place' = "gone" <=> intent.drop /\ ~intent.group)
           /\ place = "verdict" /\ place' # place => (place' = "gone" <=> intent.drop)
<1>1. CASE UNCHANGED <<place, packet, saved, historyVars>>
  BY <1>1 DEF historyVars, QInv, RequestsTyped, LengthsHold, ShortBy, Means
<1>2. CASE Primitive
  BY <1>2, PrimitiveQInv
<1>3. CASE \/ \E hs \in SUBSET Header : Receive(hs)
           \/ StartIngress \/ EndIngress \/ CloneAtIngress \/ Learn \/ Resubmit \/ Forward
  BY <1>3, IngressQInv
<1>4. CASE StartEgress \/ EndEgress \/ CloneAtEgress \/ EgressDrop \/ Deparse
  BY <1>4, EgressQInv
<1> QED
  BY <1>1, <1>2, <1>3, <1>4 DEF Next, vars, requestVars, SendDigest, RequestStep

\* Whatever a program calls and in whichever order, the registers of a packet
\* hold what was asked for this very packet and is still to do, and nothing
\* else, of any width the fields may have (register_access.h:27-113,
\* primitives.cpp, and the threads of tor_switch.cpp that read and clear them).
THEOREM RequestsKept == Spec => []RequestsAsAsked
<1>1. QInv /\ [Next]_vars => QInv'
  BY NextQInv
<1>2. QInv => RequestsAsAsked
  BY HoldRead DEF QInv, RequestsAsAsked, SessionField
<1> QED
  BY <1>1, <1>2, InitQInv, PTL DEF Spec

\* Register 0 is the length of the packet wherever it is, also of a copy, but for
\* what add_header_fast and copy_header did since it was last measured; of a
\* packet that comes to ingress, from outside or again, it is the length exactly
\* (tor_switch.cpp:263, 683-692, 818-832, primitives.cpp:226-273).
THEOREM LengthsExact == Spec => []LengthExact
<1>1. QInv /\ [Next]_vars => QInv'
  BY NextQInv
<1>2. QInv => LengthExact
  <2>1. SUFFICES ASSUME QInv PROVE LengthExact
    OBVIOUS
  <2>2. packet.reg[0] \in Int /\ packet.data \in SUBSET Header
    BY <2>1 DEF QInv, RequestsTyped, Packets, Register
  <2>3. Size(packet.data) \in Nat
    BY <2>2, SizeNat
  <2>4. /\ Length(packet) + silent = Size(packet.data) + Size(packet.valid)
        /\ place = "input" => silent = 0 /\ packet.valid = {}
    BY <2>1 DEF QInv, LengthsHold, ShortBy, Length, PACKET_LENGTH
  <2>5. place = "input" => Length(packet) = Size(packet.data)
    BY <2>2, <2>3, <2>4, SizeEmpty DEF Length, PACKET_LENGTH
  <2> QED
    BY <2>4, <2>5 DEF LengthExact
<1> QED
  BY <1>1, <1>2, InitQInv, PTL DEF Spec

\* A packet is dropped at the end of ingress or egress if and only if the
\* program marked it and assigned no port or group since, in that pass or, where
\* the field lists in between named the fields, in one before
\* (primitives.cpp:164-205, tor_switch.cpp:502-511, 683-692, 796-832).
THEOREM MarkedAreDropped == Spec => DroppedIffMarked
<1>1. QInv /\ [Next]_vars
        => [/\ place = "forward" /\ place' # place
                 => (place' = "gone" <=> intent.drop /\ ~intent.group)
            /\ place = "verdict" /\ place' # place
                 => (place' = "gone" <=> intent.drop)]_vars
  BY NextQInv
<1>2. QInv /\ [Next]_vars => QInv'
  BY NextQInv
<1> QED
  BY <1>1, <1>2, InitQInv, PTL DEF Spec, DroppedIffMarked
----------------------------------------------------------------------------
(* Digests.  From the learning engine to P4Runtime.                        *)

\* The calls into PI that tell of a digest of list l.
Heard(f, l) == {i \in DOMAIN f : f[i][1] = "LEA" /\ f[i][2] = l}

\* What an appended element changes of a sequence.
LEMMA OneMore ==
    ASSUME NEW T, NEW f \in Seq(T), NEW e \in T
    PROVE  LET g == Append(f, e)
               k == Len(f) + 1
           IN  /\ DOMAIN g = DOMAIN f \cup {k} /\ g[k] = e /\ k \in Int
               /\ \A i \in DOMAIN f : g[i] = f[i] /\ i \in Int /\ i < k
  OBVIOUS

NoticesTyped ==
    /\ samples \in [Field -> Seq(DOMAIN digests)]
    /\ mutex \in Sender \cup {nobody} /\ ongoing_swap \in BOOLEAN
    /\ \A s \in Sender :
          /\ pc[s] \in {"idle", "send", "dispatch", "forward"}
          /\ Notice(msg[s]) => msg[s].id \in Field \cup Table /\ msg[s].serial \in Nat
    /\ forwarded \in Seq({"LEA", "AGE"} \X (Field \cup Table) \X Nat)
    /\ \A l \in LearnList : msg[learning(l)].topic \in {"LEA", "none"}
    /\ msg[ageing].topic \in {"AGE", "none"}
    /\ ~Notice(msg[config])

\* Who speaks while there is a swap meets it.
SwapsSeen ==
    /\ swap # "none" => \A s \in Sender \ {config} : pc[s] # "idle" => s \in overlapped
    /\ ongoing_swap => swap # "none"

\* Digest n was asked for, of list l.
DigestOf(n, l) == n \in DOMAIN digests /\ digests[n] = l

\* The digests that wait in the buffer of list l, those P4Runtime has heard of
\* and the one that is being sent.
Waiting(l) ==
    /\ \A i \in DOMAIN samples[l] : DigestOf(samples[l][i], l)
    /\ \A i, j \in DOMAIN samples[l] : i < j => samples[l][i] < samples[l][j]

Told(l) ==
    /\ \A i \in Heard(forwarded, l) : DigestOf(forwarded[i][3], l)
    /\ \A i, j \in Heard(forwarded, l) : i < j => forwarded[i][3] < forwarded[j][3]
    /\ \A i \in Heard(forwarded, l), j \in DOMAIN samples[l] : forwarded[i][3] < samples[l][j]

Telling(l) ==
    LET m == msg[learning(l)]
    IN  /\ pc[learning(l)] = "idle" => m.topic # "LEA"
        /\ m.topic = "LEA" =>
              /\ m.id = l /\ m.n \in {0, 1} /\ DigestOf(m.serial, l)
              /\ \A j \in DOMAIN samples[l] : m.serial < samples[l][j]
              /\ m.n = 1 => \A i \in Heard(forwarded, l) : forwarded[i][3] < m.serial

DigestsSent == \A l \in LearnList : Waiting(l) /\ Told(l) /\ Telling(l)

WInv == NoticesTyped /\ SwapsSeen /\ DigestsSent

\* Learn lists fit their field.
LEMMA Lists == LearnList \subseteq Field
BY LearnListAssumption DEF Field

\* Nothing was forwarded at the start.
LEMMA InitWInv == Init => WInv
<1>1. SUFFICES ASSUME Init PROVE WInv
  OBVIOUS
<1>2. /\ samples = [l \in Field |-> << >>] /\ digests = << >> /\ mutex = nobody
      /\ ongoing_swap = FALSE
      /\ pc = [s \in Sender |-> "idle"] /\ msg = [s \in Sender |-> Nil]
      /\ forwarded = << >> /\ swap = "none"
  BY <1>1 DEF Init, RequestInit, NoticeInit, Field
<1>3. Nil.topic = "none" /\ ~Notice(Nil)
  BY DEF Nil, Notice
<1>4. \A u \in Sender : pc[u] = "idle" /\ msg[u] = Nil
  BY <1>2
<1>5. NoticesTyped /\ SwapsSeen
  <2>1. /\ << >> \in Seq(DOMAIN digests)
        /\ << >> \in Seq({"LEA", "AGE"} \X (Field \cup Table) \X Nat)
    OBVIOUS
  <2>2. samples \in [Field -> Seq(DOMAIN digests)]
    BY <1>2, <2>1
  <2> QED
    BY <1>2, <1>3, <1>4, <2>1, <2>2, Senders DEF NoticesTyped, SwapsSeen
<1>6. ASSUME NEW l \in LearnList PROVE Waiting(l) /\ Told(l) /\ Telling(l)
  <2>1. samples[l] = << >> /\ DOMAIN samples[l] = {}
    BY <1>2, Lists
  <2>2. Heard(forwarded, l) = {}
    BY <1>2 DEF Heard
  <2>3. msg[learning(l)].topic # "LEA"
    BY <1>3, <1>4, Senders
  <2> QED
    BY <2>1, <2>2, <2>3 DEF Waiting, Told, Telling
<1> QED
  BY <1>5, <1>6 DEF WInv, DigestsSent

\* A step that touches neither the digests of a list nor the calls that tell of
\* them.
LEMMA DigestsStay ==
    ASSUME NEW l \in LearnList, Waiting(l), Told(l), Telling(l),
           UNCHANGED <<samples, digests, forwarded>>,
           msg'[learning(l)] = msg[learning(l)],
           pc'[learning(l)] = "idle" => pc[learning(l)] = "idle"
    PROVE  Waiting(l)' /\ Told(l)' /\ Telling(l)'
<1>1. Heard(forwarded, l)' = Heard(forwarded, l)
  BY DEF Heard
<1>2. \A n : DigestOf(n, l)' <=> DigestOf(n, l)
  BY DEF DigestOf
<1>3. Waiting(l)'
  BY <1>2 DEF Waiting
<1>4. Told(l)'
  BY <1>1, <1>2 DEF Told
<1>5. Telling(l)'
  BY <1>1, <1>2 DEF Telling
<1> QED
  BY <1>3, <1>4, <1>5

\* Calling send_msgs_ does not change which swap a sender has seen.
LEMMA SendSeen ==
    ASSUME NInv, SwapsSeen, NEW s \in Sender, NEW m, Send(s, m),
           s # config => m.topic # "SWP"
    PROVE  SwapsSeen'
<1>1. /\ pc' = [pc EXCEPT ![s] = "send"] /\ pc[s] = "idle" /\ UNCHANGED ongoing_swap
  BY DEF Send, Goto
<1>2. pc'[s] = "send" /\ \A u \in Sender \ {s} : pc'[u] = pc[u]
  BY <1>1 DEF NInv, MessagesTyped
<1>3. CASE Starts(m) \/ (Ends(m) /\ swap = "on")
  <2>1. s = config
    BY <1>3, OnlySwapsMatter
  <2>2. swap' # "none" /\ overlapped' = overlapped \cup {u \in Sender : pc[u] # "idle"}
    BY <1>3 DEF Send, SwapSeenAs
  <2> QED
    BY <1>2, <2>1, <2>2 DEF SwapsSeen
<1>4. CASE ~Starts(m) /\ ~(Ends(m) /\ swap = "on")
  <2>1. /\ overlapped' = IF swap = "none" THEN overlapped ELSE overlapped \cup {s}
        /\ swap' = swap
    <3>1. ~Starts(m) /\ ~(Ends(m) /\ swap = "on")
      BY <1>4, Zenon
    <3>2. /\ overlapped' = IF swap = "none" THEN overlapped ELSE overlapped \cup {s}
          /\ UNCHANGED swap
      BY <3>1, Zenon DEF Send
    <3> QED
      BY <3>2
  <2> QED
    BY <1>1, <1>2, <2>1 DEF SwapsSeen
<1> QED
  BY <1>3, <1>4

\* The ageing monitor and the control plane have something to say.
LEMMA SendWInv ==
    ASSUME NInv, WInv, NEW s \in {ageing, config}, NEW m, Send(s, m),
           UNCHANGED <<samples, digests>>,
           s = ageing => m.topic = "AGE" /\ m.id \in Table /\ m.serial \in Nat,
           s = config => ~Notice(m)
    PROVE  WInv'
<1>1. s \in Sender /\ \A l \in LearnList : learning(l) \in Sender /\ learning(l) # s
  BY Senders
<1>2. /\ pc' = [pc EXCEPT ![s] = "send"] /\ msg' = [msg EXCEPT ![s] = m]
      /\ UNCHANGED <<mutex, ongoing_swap, forwarded>>
  BY DEF Send, Goto
<1>3. /\ pc'[s] = "send" /\ msg'[s] = m
      /\ \A u \in Sender \ {s} : pc'[u] = pc[u] /\ msg'[u] = msg[u]
  BY <1>1, <1>2 DEF NInv, MessagesTyped
<1>4. NoticesTyped'
  BY <1>1, <1>2, <1>3, Senders DEF WInv, NoticesTyped
<1>5. SwapsSeen'
  BY <1>1, SendSeen DEF WInv
<1>6. DigestsSent'
  <2>1. SUFFICES ASSUME NEW l \in LearnList PROVE Waiting(l)' /\ Told(l)' /\ Telling(l)'
    BY DEF DigestsSent
  <2>2. Waiting(l) /\ Told(l) /\ Telling(l)
    BY DEF WInv, DigestsSent
  <2> QED
    BY <1>1, <1>2, <1>3, <2>2, DigestsStay
<1> QED
  BY <1>4, <1>5, <1>6 DEF WInv

\* So has the learning engine.
LEMMA SendDigestWInv ==
    ASSUME NInv, WInv, digests \in Seq(Field), NEW l \in LearnList, SendDigest(l)
    PROVE  WInv'
<1> DEFINE s == learning(l)
           q == samples[l]
           m == LEA(l, Head(q))
<1>0. s \in Sender /\ l \in Field /\ s \notin {ageing, config}
  BY Senders, Lists
<1>1. /\ q # << >> /\ samples' = [samples EXCEPT ![l] = Tail(q)] /\ digests' = digests
      /\ Send(s, m)
  BY DEF SendDigest, historyVars
<1>2. /\ pc' = [pc EXCEPT ![s] = "send"] /\ msg' = [msg EXCEPT ![s] = m] /\ pc[s] = "idle"
      /\ UNCHANGED <<mutex, ongoing_swap, forwarded>>
  BY <1>1 DEF Send, Goto
<1> HIDE DEF s
<1>3. /\ pc'[s] = "send" /\ msg'[s] = m
      /\ \A u \in Sender \ {s} : pc'[u] = pc[u] /\ msg'[u] = msg[u]
  BY <1>0, <1>2 DEF NInv, MessagesTyped
<1>4. q \in Seq(DOMAIN digests) /\ samples \in [Field -> Seq(DOMAIN digests)]
  BY <1>0 DEF WInv, NoticesTyped
<1>5. /\ samples' \in [Field -> Seq(DOMAIN digests')] /\ samples'[l] = Tail(q)
      /\ \A k \in Field \ {l} : samples'[k] = samples[k]
      /\ Head(q) = q[1] /\ 1 \in DOMAIN q /\ q[1] \in DOMAIN digests
      /\ \A i \in DOMAIN Tail(q) : /\ Tail(q)[i] = q[i + 1] /\ i + 1 \in DOMAIN q
                                 /\ i \in Int /\ 1 < i + 1
  <2>1. Tail(q) \in Seq(DOMAIN digests)
    <3>1. q \in Seq(DOMAIN digests) /\ q # << >>
      BY <1>1, <1>4
    <3>2. \A D : \A z \in Seq(D) : z # << >> => Tail(z) \in Seq(D)
      OBVIOUS
    <3> QED
      BY <3>1, <3>2, Zenon
  <2>2. /\ Head(q) = q[1] /\ 1 \in DOMAIN q /\ q[1] \in DOMAIN digests
        /\ \A i \in DOMAIN Tail(q) : /\ Tail(q)[i] = q[i + 1] /\ i + 1 \in DOMAIN q
                                   /\ i \in Int /\ 1 < i + 1
    BY <1>1, <1>4
  <2> HIDE DEF q
  <2> QED
    BY <1>0, <1>1, <1>4, <2>1, <2>2
<1>6. m.topic = "LEA" /\ m.id = l /\ m.serial = q[1] /\ m.n = 1 /\ q[1] \in Nat
  BY <1>5 DEF LEA
<1> HIDE DEF m
<1>7. NoticesTyped'
  <2>1. \A u \in Sender :
           /\ pc'[u] \in {"idle", "send", "dispatch", "forward"}
           /\ Notice(msg'[u]) => msg'[u].id \in Field \cup Table /\ msg'[u].serial \in Nat
    BY <1>0, <1>3, <1>6 DEF WInv, NoticesTyped
  <2>2. /\ \A k \in LearnList : msg'[learning(k)].topic \in {"LEA", "none"}
        /\ msg'[ageing].topic \in {"AGE", "none"} /\ ~Notice(msg'[config])
    BY <1>0, <1>3, <1>6, Senders DEF WInv, NoticesTyped
  <2> QED
    BY <1>2, <1>5, <2>1, <2>2 DEF WInv, NoticesTyped
<1>8. SwapsSeen'
  BY <1>0, <1>1, <1>6, SendSeen DEF WInv
<1>9. ASSUME NEW k \in LearnList PROVE Waiting(k)' /\ Told(k)' /\ Telling(k)'
  <2>0. /\ Waiting(k) /\ Told(k) /\ Telling(k) /\ k \in Field
        /\ Heard(forwarded, k)' = Heard(forwarded, k)
        /\ \A n : DigestOf(n, k)' <=> DigestOf(n, k)
    BY <1>1, <1>2, Lists DEF WInv, DigestsSent, Heard, DigestOf
  <2>1. CASE k # l
    <3>1. /\ samples'[k] = samples[k] /\ msg'[learning(k)] = msg[learning(k)]
          /\ pc'[learning(k)] = pc[learning(k)]
      BY <1>3, <1>5, <2>0, <2>1, Senders DEF s
    <3>2. Waiting(k)'
      BY <2>0, <3>1 DEF Waiting
    <3>3. Told(k)'
      BY <1>2, <2>0, <3>1 DEF Told
    <3>4. Telling(k)'
      BY <1>2, <2>0, <3>1 DEF Telling
    <3> QED
      BY <3>2, <3>3, <3>4
  <2>2. CASE k = l
    <3> DEFINE t == Tail(q)
    <3>1. /\ \A i \in DOMAIN t : /\ t[i] = q[i + 1] /\ i + 1 \in DOMAIN q
                                /\ i \in Int /\ 1 < i + 1
          /\ 1 \in DOMAIN q /\ samples'[k] = t /\ samples[k] = q
          /\ msg'[learning(k)] = m /\ pc'[learning(k)] = "send"
          /\ \A i, j \in DOMAIN t : i < j => i + 1 < j + 1
      BY <1>3, <1>5, <2>2 DEF s
    <3> HIDE DEF t, q
    <3>2. Waiting(k)'
      BY <2>0, <3>1 DEF Waiting
    <3>3. Told(k)'
      BY <1>2, <2>0, <3>1 DEF Told
    <3>4. Telling(k)'
      <4>1. DigestOf(q[1], k) /\ \A j \in DOMAIN t : q[1] < t[j]
        BY <2>0, <3>1 DEF Waiting
      <4>2. \A i \in Heard(forwarded, k) : forwarded[i][3] < q[1]
        BY <2>0, <3>1 DEF Told
      <4> QED
        BY <1>2, <1>6, <2>0, <2>2, <3>1, <4>1, <4>2 DEF Telling
    <3> QED
      BY <3>2, <3>3, <3>4
  <2> QED
    BY <2>1, <2>2
<1> QED
  BY <1>7, <1>8, <1>9 DEF WInv, DigestsSent

\* A call is over.
LEMMA ReturnWInv ==
    ASSUME NInv, WInv, NEW s \in Sender, pc[s] \in {"dispatch", "forward"}, Return(s),
           UNCHANGED <<samples, digests, forwarded>>, digests \in Seq(Field),
           IF Starts(msg[s]) THEN ongoing_swap' = TRUE
             ELSE IF Ends(msg[s]) THEN ongoing_swap' = FALSE ELSE UNCHANGED ongoing_swap
    PROVE  WInv'
<1>1. /\ pc' = [pc EXCEPT ![s] = "idle"] /\ msg' = [msg EXCEPT ![s] = Nil]
      /\ mutex' = nobody /\ overlapped' = overlapped \ {s}
      /\ swap' = IF Starts(msg[s]) THEN "on" ELSE IF Ends(msg[s]) THEN "none" ELSE swap
  BY DEF Return, Goto
<1>2. /\ pc'[s] = "idle" /\ msg'[s] = Nil
      /\ \A u \in Sender \ {s} : pc'[u] = pc[u] /\ msg'[u] = msg[u]
  BY <1>1 DEF NInv, MessagesTyped
<1>3. Nil.topic = "none" /\ ~Notice(Nil)
  BY DEF Nil, Notice
<1>4. NoticesTyped'
  <2>1. ongoing_swap' \in BOOLEAN
    BY DEF WInv, NoticesTyped
  <2> QED
    BY <1>1, <1>2, <1>3, <2>1, Senders DEF WInv, NoticesTyped
<1>5. SwapsSeen'
  <2>1. Starts(msg[s]) => swap # "none"
    BY OnlySwapsMatter, Senders DEF NInv, MessagesTyped, SwapKnown
  <2>2. swap' # "none" => swap # "none"
    BY <1>1, <2>1
  <2>3. ongoing_swap' => swap' # "none"
    BY <1>1 DEF WInv, SwapsSeen
  <2> QED
    BY <1>1, <1>2, <2>2, <2>3 DEF WInv, SwapsSeen
<1>6. ASSUME NEW l \in LearnList PROVE Waiting(l)' /\ Told(l)' /\ Telling(l)'
  <2>0. Waiting(l) /\ Told(l) /\ Telling(l)
    BY DEF WInv, DigestsSent
  <2>1. CASE s # learning(l)
    BY <1>2, <2>0, <2>1, Senders, DigestsStay
  <2>2. CASE s = learning(l)
    <3>1. Heard(forwarded, l)' = Heard(forwarded, l) /\ \A n : DigestOf(n, l)' <=> DigestOf(n, l)
      BY DEF Heard, DigestOf
    <3>2. Waiting(l)'
      BY <2>0, <3>1 DEF Waiting
    <3>3. Told(l)'
      BY <2>0, <3>1 DEF Told
    <3>4. Telling(l)'
      BY <1>2, <1>3, <2>2 DEF Telling
    <3> QED
      BY <3>2, <3>3, <3>4
  <2> QED
    BY <2>1, <2>2
<1> QED
  BY <1>4, <1>5, <1>6 DEF WInv, DigestsSent

\* One call into PI.
LEMMA CallPIWInv ==
    ASSUME NInv, WInv, NEW s \in Sender, CallPI(s), UNCHANGED <<samples, digests>>,
           digests \in Seq(Field)
    PROVE  WInv'
<1> DEFINE c == <<msg[s].topic, msg[s].id, msg[s].serial>>
<1>1. /\ pc[s] = "forward" /\ msg[s].n > 0 /\ forwarded' = Append(forwarded, c)
      /\ msg' = [msg EXCEPT ![s].n = @ - 1]
      /\ UNCHANGED <<ongoing_swap, mutex, pc, swap, overlapped>>
  BY DEF CallPI
<1>2. Notice(msg[s]) /\ DOMAIN msg[s] = {"topic", "id", "serial", "n"}
  BY <1>1 DEF NInv, MessagesTyped
<1>3. /\ msg'[s] = [msg[s] EXCEPT !.n = @ - 1]
      /\ \A u \in Sender \ {s} : msg'[u] = msg[u]
  BY <1>1 DEF NInv, MessagesTyped
<1>4. /\ msg'[s].topic = msg[s].topic /\ msg'[s].id = msg[s].id
      /\ msg'[s].serial = msg[s].serial /\ msg'[s].n = msg[s].n - 1
  BY <1>2, <1>3
<1>5. c \in {"LEA", "AGE"} \X (Field \cup Table) \X Nat
  BY <1>2 DEF Notice, WInv, NoticesTyped
<1>6. NoticesTyped'
  <2>1. forwarded' \in Seq({"LEA", "AGE"} \X (Field \cup Table) \X Nat)
    <3> HIDE DEF c
    <3> QED
      BY <1>1, <1>5 DEF WInv, NoticesTyped
  <2> QED
    BY <1>1, <1>3, <1>4, <2>1, Senders DEF WInv, NoticesTyped, Notice
<1>7. SwapsSeen'
  BY <1>1 DEF WInv, SwapsSeen
<1>8. ASSUME NEW l \in LearnList PROVE Waiting(l)' /\ Told(l)' /\ Telling(l)'
  <2> DEFINE k == Len(forwarded) + 1
             H == Heard(forwarded, l)
  <2>0. /\ Waiting(l) /\ Told(l) /\ Telling(l) /\ \A n : DigestOf(n, l)' <=> DigestOf(n, l)
    BY DEF WInv, DigestsSent, DigestOf
  <2>1. /\ \A i \in H : forwarded'[i] = forwarded[i] /\ i \in Int /\ i < k
        /\ forwarded'[k] = c /\ k \in Int
        /\ c[1] = "LEA" /\ c[2] = l => Heard(forwarded', l) = H \cup {k}
        /\ ~(c[1] = "LEA" /\ c[2] = l) => Heard(forwarded', l) = H
    <3> DEFINE T == {"LEA", "AGE"} \X (Field \cup Table) \X Nat
    <3>1. forwarded \in Seq(T) /\ c \in T /\ forwarded' = Append(forwarded, c)
      BY <1>1, <1>5 DEF WInv, NoticesTyped
    <3> HIDE DEF c, T
    <3>2. /\ DOMAIN Append(forwarded, c) = DOMAIN forwarded \cup {k}
          /\ Append(forwarded, c)[k] = c /\ k \in Int
          /\ \A i \in DOMAIN forwarded :
                Append(forwarded, c)[i] = forwarded[i] /\ i \in Int /\ i < k
      BY <3>1, OneMore
    <3>3. /\ DOMAIN forwarded' = DOMAIN forwarded \cup {k}
          /\ forwarded'[k] = c /\ k \in Int
          /\ \A i \in DOMAIN forwarded : forwarded'[i] = forwarded[i] /\ i \in Int /\ i < k
      BY <3>1, <3>2
    <3> HIDE DEF k
    <3> QED
      BY ONLY <3>3 DEF Heard, H
  <2>2. Waiting(l)'
    BY <2>0 DEF Waiting
  <2>3. CASE s = learning(l)
    <3>1. /\ msg[s].topic = "LEA" /\ msg[s].n = 1 /\ msg[s].id = l /\ DigestOf(msg[s].serial, l)
          /\ \A j \in DOMAIN samples[l] : msg[s].serial < samples[l][j]
          /\ \A i \in H : forwarded[i][3] < msg[s].serial
      BY <1>1, <1>2, <2>0, <2>3 DEF Notice, WInv, NoticesTyped, Telling
    <3>2. c[1] = "LEA" /\ c[2] = l /\ c[3] = msg[s].serial
      BY <3>1
    <3>3. Heard(forwarded', l) = H \cup {k}
      BY <2>1, <3>2
    <3> HIDE DEF c, k, H
    <3>4. /\ \A i \in Heard(forwarded', l) : DigestOf(forwarded'[i][3], l)
          /\ \A i \in Heard(forwarded', l), j \in DOMAIN samples[l] :
                forwarded'[i][3] < samples[l][j]
      BY <2>0, <2>1, <3>1, <3>2, <3>3 DEF Told, H
    <3>5. ASSUME NEW i \in Heard(forwarded', l), NEW j \in Heard(forwarded', l), i < j
          PROVE  forwarded'[i][3] < forwarded'[j][3]
      <4>1. i \in H
        BY <2>1, <3>3, <3>5
      <4>2. CASE j \in H
        BY <2>0, <2>1, <3>5, <4>1, <4>2 DEF Told, H
      <4>3. CASE j = k
        BY <2>1, <3>1, <3>2, <4>1, <4>3
      <4> QED
        BY <3>3, <4>2, <4>3
    <3>6. Told(l)'
      BY <2>0, <3>4, <3>5 DEF Told
    <3>7. Telling(l)'
      BY <1>1, <1>4, <2>0, <2>3, <3>1 DEF Telling
    <3> QED
      BY <2>2, <3>6, <3>7
  <2>4. CASE s # learning(l)
    <3>1. msg'[learning(l)] = msg[learning(l)]
      BY <1>3, <2>4, Senders
    <3>2. ~(c[1] = "LEA" /\ c[2] = l)
      <4>1. CASE s \in {ageing, config}
        BY <1>2, <4>1 DEF WInv, NoticesTyped, Notice
      <4>2. ASSUME NEW x \in LearnList, s = learning(x), c[1] = "LEA" PROVE c[2] # l
        <5>1. Telling(x) /\ x # l
          BY <2>4, <4>2 DEF WInv, DigestsSent
        <5> QED
          BY <4>2, <5>1 DEF Telling
      <4> QED
        BY <4>1, <4>2 DEF Sender
    <3>3. Heard(forwarded', l) = H
      BY <2>1, <3>2
    <3> HIDE DEF c, k, H
    <3>4. Told(l)'
      BY <2>0, <2>1, <3>3 DEF Told, H
    <3>5. Telling(l)'
      BY <1>1, <2>0, <2>1, <3>1, <3>3 DEF Telling, H
    <3> QED
      BY <2>2, <3>4, <3>5
  <2> QED
    BY <2>3, <2>4
<1> QED
  BY <1>6, <1>7, <1>8 DEF WInv, DigestsSent

\* Sender s is through with a message that is known, although no swap met it.
Silenced(s) ==
    /\ pc[s] # "idle" /\ pc'[s] = "idle" /\ Known(msg[s]) /\ s \notin overlapped
    /\ ~(pc[s] = "forward" /\ msg[s].n = 0)

\* A step of a sender keeps the order of digests, and silences nobody who is not in a swap.
LEMMA NoticeWInv ==
    ASSUME NInv, WInv, digests \in Seq(Field), NoticeStep, UNCHANGED <<samples, digests>>
    PROVE  WInv' /\ \A u \in Sender : ~Silenced(u)
<1>1. CASE Notify
  <2>1. ASSUME NEW c \in Context, NEW status \in SwapStatus,
               Send(config, SWP(c, status))
        PROVE  WInv'
    BY <2>1, Senders, SendWInv DEF SWP, Notice
  <2>2. ASSUME Send(config, PRT) PROVE WInv'
    BY <2>2, Senders, SendWInv DEF PRT, Notice
  <2>3. ASSUME NEW t \in Table, NEW n \in 1 .. Entries, Send(ageing, AGE(t, n))
        PROVE  WInv'
    BY <2>3, Senders, SendWInv DEF AGE
  <2>4. ASSUME NEW s \in Sender, NEW m, Send(s, m), NEW u \in Sender PROVE ~Silenced(u)
    BY <2>4 DEF Send, Goto, Silenced, NInv, MessagesTyped
  <2> QED
    BY <1>1, <2>1, <2>2, <2>3, <2>4, Senders DEF Notify
<1>2. ASSUME NEW s \in Sender, Lock(s) PROVE WInv' /\ \A u \in Sender : ~Silenced(u)
  <2>1. /\ pc'[s] = "dispatch" /\ \A u \in Sender \ {s} : pc'[u] = pc[u]
        /\ pc[s] = "send" /\ mutex' = s
        /\ UNCHANGED <<ongoing_swap, msg, forwarded, swap, overlapped>>
    BY <1>2 DEF Lock, Goto, NInv, MessagesTyped
  <2>2. NoticesTyped' /\ SwapsSeen'
    BY <2>1 DEF WInv, NoticesTyped, SwapsSeen
  <2>3. DigestsSent'
    <3>1. SUFFICES ASSUME NEW l \in LearnList PROVE Waiting(l)' /\ Told(l)' /\ Telling(l)'
      BY DEF DigestsSent
    <3>2. Waiting(l) /\ Told(l) /\ Telling(l)
      BY DEF WInv, DigestsSent
    <3> QED
      BY <2>1, <3>2, Senders, DigestsStay
  <2> QED
    BY <2>1, <2>2, <2>3 DEF WInv, Silenced
<1>3. ASSUME NEW s \in Sender, handle_SWP(s) PROVE WInv' /\ \A u \in Sender : ~Silenced(u)
  <2>1. /\ pc[s] = "dispatch" /\ Return(s) /\ UNCHANGED forwarded /\ ~Known(msg[s])
        /\ IF Starts(msg[s]) THEN ongoing_swap' = TRUE
             ELSE IF Ends(msg[s]) THEN ongoing_swap' = FALSE ELSE UNCHANGED ongoing_swap
    BY <1>3 DEF handle_SWP, Starts, Ends, EndsSwap, Known,
                NEW_CONFIG_LOADED, SWAP_COMPLETED, SWAP_CANCELLED
  <2>2. WInv'
    BY <2>1, ReturnWInv
  <2> QED
    BY <2>1, <2>2 DEF Return, Goto, Silenced, NInv, MessagesTyped
<1>4. ASSUME NEW s \in Sender, Check(s) PROVE WInv' /\ \A u \in Sender : ~Silenced(u)
  <2>1. /\ pc[s] = "dispatch" /\ Notice(msg[s]) /\ s # config
        /\ ~Starts(msg[s]) /\ ~Ends(msg[s]) /\ UNCHANGED <<ongoing_swap, forwarded>>
    BY <1>4, OnlySwapsMatter DEF Check, Notice, WInv, NoticesTyped
  <2>2. CASE Return(s) /\ (ongoing_swap \/ ~Known(msg[s]))
    <3>1. WInv'
      BY <2>1, <2>2, ReturnWInv
    <3>2. Known(msg[s]) => s \in overlapped
      BY <2>1, <2>2 DEF WInv, SwapsSeen
    <3> QED
      BY <2>1, <2>2, <3>1, <3>2 DEF Return, Goto, Silenced, NInv, MessagesTyped
  <2>3. CASE Admit(s) /\ UNCHANGED <<msg, swap, overlapped>>
    <3>1. /\ pc'[s] = "forward" /\ \A u \in Sender \ {s} : pc'[u] = pc[u]
          /\ UNCHANGED mutex
      BY <2>3 DEF Admit, Goto, NInv, MessagesTyped
    <3>2. NoticesTyped' /\ SwapsSeen'
      BY <2>1, <2>3, <3>1 DEF WInv, NoticesTyped, SwapsSeen
    <3>3. DigestsSent'
      <4>1. SUFFICES ASSUME NEW l \in LearnList PROVE Waiting(l)' /\ Told(l)' /\ Telling(l)'
        BY DEF DigestsSent
      <4>2. Waiting(l) /\ Told(l) /\ Telling(l)
        BY DEF WInv, DigestsSent
      <4> QED
        BY <2>1, <2>3, <3>1, <4>2, Senders, DigestsStay
    <3> QED
      BY <3>1, <3>2, <3>3 DEF WInv, Silenced
  <2> QED
    BY <1>4, <2>2, <2>3 DEF Check
<1>5. ASSUME NEW s \in Sender, CallPI(s) PROVE WInv' /\ \A u \in Sender : ~Silenced(u)
  <2>1. WInv'
    BY <1>5, CallPIWInv
  <2> QED
    BY <1>5, <2>1 DEF CallPI, Silenced
<1>6. ASSUME NEW s \in Sender, CalledPI(s) PROVE WInv' /\ \A u \in Sender : ~Silenced(u)
  <2>1. /\ pc[s] = "forward" /\ msg[s].n = 0 /\ Return(s)
        /\ UNCHANGED <<ongoing_swap, forwarded>>
    BY <1>6 DEF CalledPI
  <2>2. ~Starts(msg[s]) /\ ~Ends(msg[s])
    BY <2>1, OnlySwapsMatter DEF NInv, MessagesTyped, Notice
  <2>3. WInv'
    BY <2>1, <2>2, ReturnWInv
  <2> QED
    BY <2>1, <2>3 DEF Return, Goto, Silenced, NInv, MessagesTyped
<1>7. ASSUME NEW s \in Sender, Ignore(s) PROVE WInv' /\ \A u \in Sender : ~Silenced(u)
  <2>1. /\ pc[s] = "dispatch" /\ Return(s) /\ UNCHANGED <<ongoing_swap, forwarded>>
        /\ ~Starts(msg[s]) /\ ~Ends(msg[s]) /\ ~Known(msg[s])
    BY <1>7, OnlySwapsMatter DEF Ignore, Known
  <2>2. WInv'
    BY <2>1, ReturnWInv
  <2> QED
    BY <2>1, <2>2 DEF Return, Goto, Silenced, NInv, MessagesTyped
<1> QED
  BY <1>1, <1>2, <1>3, <1>4, <1>5, <1>6, <1>7 DEF NoticeStep

\* A step of no sender that brings no digest.
LEMMA WInvStays == ASSUME WInv, UNCHANGED <<samples, digests, noticeVars>> PROVE WInv'
<1>1. NoticesTyped' /\ SwapsSeen'
  BY DEF noticeVars, WInv, NoticesTyped, SwapsSeen
<1>2. ASSUME NEW l \in LearnList PROVE Waiting(l)' /\ Told(l)' /\ Telling(l)'
  <2>1. Waiting(l) /\ Told(l) /\ Telling(l)
    BY DEF WInv, DigestsSent
  <2> QED
    BY <2>1, DigestsStay DEF noticeVars
<1> QED
  BY <1>1, <1>2 DEF WInv, DigestsSent

\* What the ingress thread hands to the learning engine is what was asked for,
\* and the engine keeps it in the order it comes.
LEMMA LearnWInv ==
    ASSUME QInv, WInv, Learn, UNCHANGED noticeVars PROVE WInv'
<1>0. PICK d, e : d = asked.learn /\ e = Len(digests) + 1
  OBVIOUS
<1>1. LearnId = d /\ d \in Field /\ digests \in Seq(Field)
  BY <1>0, HoldRead DEF QInv, RequestsTyped, LearnId, Hold, Asked
<1>2. samples \in [Field -> Seq(DOMAIN digests)]
  BY DEF WInv, NoticesTyped
<1>3. CASE d > 0
  <2>1. digests' = Append(digests, d) /\ learn(d)
    BY <1>0, <1>1, <1>3 DEF Learn
  <2>2. /\ DOMAIN digests' = DOMAIN digests \cup {e} /\ digests'[e] = d /\ e \in Nat
        /\ \A n \in DOMAIN digests : n \in Nat /\ n < e /\ digests'[n] = digests[n]
    BY <1>0, <1>1, <2>1
  <2>3. \A l : samples[l] \in Seq(DOMAIN digests) => samples[l] \in Seq(DOMAIN digests')
    BY <2>2
  <2>4. /\ samples' \in [Field -> Seq(DOMAIN digests')]
        /\ \A l \in Field : samples'[l] = samples[l] \/ (l = d /\ samples'[l] = Append(samples[l], e))
    <3>1. Append(samples[d], e) \in Seq(DOMAIN digests')
      <4>1. samples[d] \in Seq(DOMAIN digests') /\ e \in DOMAIN digests'
        BY <1>1, <1>2, <2>2, <2>3
      <4> QED
        BY <4>1
    <3>2. samples \in [Field -> Seq(DOMAIN digests')]
      BY <1>2, <2>3
    <3>3. samples' = [samples EXCEPT ![d] = Append(@, e)] \/ samples' = samples
      BY <1>0, <2>1 DEF learn
    <3> QED
      BY <1>1, <3>1, <3>2, <3>3
  <2>5. ASSUME NEW l \in LearnList PROVE Waiting(l)' /\ Told(l)' /\ Telling(l)'
    <3>. PICK q : q = samples[l]
      OBVIOUS
    <3>0. /\ l \in Field /\ q = samples[l] /\ q \in Seq(DOMAIN digests)
          /\ Waiting(l) /\ Told(l) /\ Telling(l)
      BY <1>2, Lists DEF WInv, DigestsSent
    <3>1. /\ forwarded' = forwarded /\ Heard(forwarded, l)' = Heard(forwarded, l)
          /\ msg' = msg /\ pc' = pc
      BY DEF noticeVars, Heard
    <3>2. \A n : DigestOf(n, l) => DigestOf(n, l)' /\ n < e
      BY <2>2 DEF DigestOf
    <3>3. CASE samples'[l] = q
      <4>1. Waiting(l)'
        BY <3>0, <3>2, <3>3 DEF Waiting
      <4>2. Told(l)'
        BY <3>0, <3>1, <3>2, <3>3 DEF Told
      <4>3. Telling(l)'
        BY <3>0, <3>1, <3>2, <3>3 DEF Telling
      <4> QED
        BY <4>1, <4>2, <4>3
    <3>4. CASE l = d /\ samples'[l] = Append(q, e)
      <4>0. PICK t, k : t = Append(q, e) /\ k = Len(q) + 1
        OBVIOUS
      <4>1. /\ DOMAIN t = DOMAIN q \cup {k} /\ t[k] = e /\ k \in Int
            /\ \A i \in DOMAIN q : t[i] = q[i] /\ i < k /\ i \in Int
        BY <3>0, <4>0
      <4>2. samples'[l] = t /\ DigestOf(e, l)'
        BY <2>2, <3>4, <4>0 DEF DigestOf
      <4>3. \A i \in DOMAIN q : q[i] < e
        BY <3>0, <3>2 DEF Waiting
      <4>4. Waiting(l)'
        <5>1. \A i \in DOMAIN t : DigestOf(t[i], l)'
          BY <3>0, <3>2, <4>1, <4>2 DEF Waiting
        <5>2. ASSUME NEW i \in DOMAIN t, NEW j \in DOMAIN t, i < j PROVE t[i] < t[j]
          <6>1. i \in DOMAIN q
            BY <4>1, <5>2
          <6>2. CASE j \in DOMAIN q
            BY <3>0, <4>1, <5>2, <6>1, <6>2 DEF Waiting
          <6>3. CASE j = k
            BY <4>1, <4>3, <6>1, <6>3
          <6> QED
            BY <4>1, <6>2, <6>3
        <5> QED
          BY <4>2, <5>1, <5>2 DEF Waiting
      <4>5. Told(l)'
        BY <3>0, <3>1, <3>2, <4>1, <4>2 DEF Told
      <4>6. Telling(l)'
        BY <3>0, <3>1, <3>2, <4>1, <4>2 DEF Telling
      <4> QED
        BY <4>4, <4>5, <4>6
    <3> QED
      BY <2>4, <3>0, <3>3, <3>4
  <2>6. NoticesTyped' /\ SwapsSeen'
    BY <2>4 DEF noticeVars, WInv, NoticesTyped, SwapsSeen
  <2> QED
    BY <2>5, <2>6 DEF WInv, DigestsSent
<1>4. CASE ~(d > 0)
  <2>1. UNCHANGED <<samples, digests, noticeVars>>
    BY <1>0, <1>1, <1>4 DEF Learn
  <2> QED
    BY <2>1, WInvStays
<1> QED
  BY <1>3, <1>4

\* So does every step.
LEMMA NextWInv ==
    ASSUME QInv, NInv, WInv, [Next]_vars PROVE WInv' /\ \A s \in Sender : ~Silenced(s)
<1>0. digests \in Seq(Field)
  BY DEF QInv, RequestsTyped
<1>1. CASE UNCHANGED <<samples, digests, noticeVars>>
  BY <1>1, WInvStays DEF noticeVars, Silenced
<1>2. CASE Learn /\ UNCHANGED noticeVars
  BY <1>2, LearnWInv DEF noticeVars, Silenced
<1>3. CASE RequestStep /\ ~Learn /\ UNCHANGED noticeVars
  <2>1. UNCHANGED <<samples, digests>>
    BY <1>3 DEF RequestStep, Receive, StartIngress, EndIngress, CloneAtIngress, Resubmit,
           Forward, StartEgress, EndEgress, CloneAtEgress, EgressDrop, Deparse, Primitive,
           generate_digest, resubmit, recirculate, clone, add_header, remove_header,
           add_header_fast, copy_header, mark_to_drop, SetEgressSpec, SetGroup, Called,
           Request, Reshape, ReshapeSilently, Assign, GoOnUncloned, ClonesTo, historyVars
  <2> QED
    BY <1>1, <1>3, <2>1
<1>4. CASE NoticeStep /\ UNCHANGED requestVars
  BY <1>0, <1>4, NoticeWInv DEF requestVars, historyVars
<1>5. ASSUME NEW l \in LearnList, SendDigest(l) PROVE WInv' /\ \A s \in Sender : ~Silenced(s)
  <2>1. WInv'
    BY <1>0, <1>5, SendDigestWInv
  <2>2. ASSUME NEW u \in Sender PROVE ~Silenced(u)
    BY <1>5, Senders DEF SendDigest, Send, Goto, Silenced, NInv, MessagesTyped
  <2> QED
    BY <2>1, <2>2
<1> QED
  BY <1>1, <1>2, <1>3, <1>4, <1>5 DEF Next, vars, requestVars, historyVars

\* Only a swap silences: what is known and met no swap is forwarded in full, by
\* every interleaving of the senders (runner.cpp:101-240).
THEOREM SwapsAloneSilence == Spec => OnlySwapsSilence
<1> DEFINE Loud == \A s \in Sender :
                      pc[s] # "idle" /\ pc'[s] = "idle" /\ Known(msg[s]) /\ s \notin overlapped
                        => pc[s] = "forward" /\ msg[s].n = 0
<1>1. QInv /\ NInv /\ WInv /\ [Next]_vars => [Loud]_vars
  BY NextWInv DEF Silenced
<1>2. QInv /\ NInv /\ WInv /\ [Next]_vars => QInv' /\ NInv' /\ WInv'
  BY NextQInv, NextNInv, NextWInv
<1>3. Init => QInv /\ NInv /\ WInv
  BY InitQInv, InitNInv, InitWInv
<1> QED
  BY <1>1, <1>2, <1>3, PTL DEF Spec, OnlySwapsSilence

\* P4Runtime hears of the digests packets asked for, of none twice and of none
\* that was not asked for, and of those of one learn list in their order, however
\* far the engine lags behind and whichever lists overtake each other
\* (tor_switch.cpp:665-668, runner.cpp:101-240).
THEOREM DigestsHeardInOrder == Spec => []DigestsInOrder
<1>1. WInv => DigestsInOrder
  BY DEF WInv, DigestsSent, Told, Heard, DigestOf, DigestsInOrder
<1>2. QInv /\ NInv /\ WInv /\ [Next]_vars => QInv' /\ NInv' /\ WInv'
  BY NextQInv, NextNInv, NextWInv
<1>3. Init => QInv /\ NInv /\ WInv
  BY InitQInv, InitNInv, InitWInv
<1> QED
  BY <1>1, <1>2, <1>3, PTL DEF Spec

\* No field of a register outgrows its place, and the rest is of its type
\* (register_access.h:27-113).
THEOREM RegistersTyped == Spec => []TypeOK
<1>1. QInv /\ NInv /\ WInv => TypeOK
  <2>1. SUFFICES ASSUME QInv, NInv, WInv PROVE TypeOK
    OBVIOUS
  <2>2. packet \in Packets /\ packet.reg \in Register /\ asked \in Asked
    BY <2>1 DEF QInv, RequestsTyped, Hold
  <2>3. packet.reg[1] \in 0 .. FieldSize * Weight(RESUBMIT_FLAG) - 1
    BY <2>1, <2>2, SessionFields, Unpacked DEF QInv, Hold, Asked
  <2>4. packet.reg[2] \in 0 .. FieldSize - 1
    BY <2>1, <2>2 DEF QInv, Hold, Asked, Field
  <2>5. pc \in [Sender -> {"idle", "send", "dispatch", "forward"}]
    BY <2>1 DEF NInv, MessagesTyped, WInv, NoticesTyped
  <2>6. samples \in [0 .. FieldSize - 1 -> Seq(DOMAIN digests)]
    BY <2>1 DEF WInv, NoticesTyped, Field
  <2> QED
    BY <2>1, <2>2, <2>3, <2>4, <2>5, <2>6
    DEF TypeOK, QInv, RequestsTyped, WInv, NoticesTyped, Packets, Register
<1>2. QInv /\ NInv /\ WInv /\ [Next]_vars => QInv' /\ NInv' /\ WInv'
  BY NextQInv, NextNInv, NextWInv
<1>3. Init => QInv /\ NInv /\ WInv
  BY InitQInv, InitNInv, InitWInv
<1> QED
  BY <1>1, <1>2, <1>3, PTL DEF Spec
============================================================================
