------------------------ MODULE OpticalNetworkProofs ------------------------
(***************************************************************************)
(* Proofs that the whole network delivers what it handles on time, and in  *)
(* order, for every topology with one link per ToR and slice, every set of *)
(* routes that lead to their destination, every set of flows and every     *)
(* capacity.                                                               *)
(*                                                                         *)
(* The queues are lines: a step takes the head of one line and adds it,    *)
(* changed, to another or loses it.  Where a packet is says how many hops  *)
(* it has left and, when it was on time, at which ToR it must be.  The     *)
(* lines a packet goes through are ranked, and of two packets of a flow    *)
(* with one path the one of higher rank was sent first.                    *)
(***************************************************************************)
EXTENDS OpticalNetwork, SequenceTheorems, FiniteSetTheorems, TLAPS

CalendarKey == {0, 1} \X Slice

\* The queues.  The second component tells those of one kind apart.
Line ==
    ({"in", "normal", "out", "ocsout", "delivered"} \X Tor)
    \cup ({"calendar"} \X (Tor \X CalendarKey)) \cup ({"ocsin"} \X {0})

In(t) == <<"in", t>>
Calendar(t, key) == <<"calendar", <<t, key>>>>
Normal(t) == <<"normal", t>>
Out(t) == <<"out", t>>
OcsIn == <<"ocsin", 0>>
OcsOut(u) == <<"ocsout", u>>
Delivered(t) == <<"delivered", t>>

Content(k) ==
    CASE k[1] = "in" -> tor_in[k[2]]
      [] k[1] = "calendar" -> calendar[k[2][1]][k[2][2]]
      [] k[1] = "normal" -> tor_normal[k[2]]
      [] k[1] = "out" -> tor_out[k[2]]
      [] k[1] = "ocsin" -> ocs_in
      [] k[1] = "ocsout" -> ocs_out[k[2]]
      [] OTHER -> delivered[k[2]]

\* The packet an element of line k carries.
Carried(k, e) == IF k[1] \in {"out", "ocsin"} THEN e.pkt ELSE e

----------------------------------------------------------------------------
(* Types.                                                                  *)

HopSet == [valid_flag : {0, 1, 255}, send_slice : Int]

Packet ==
    [id : Nat, src : Tor, dst : Tor, host : HostPorts, port : Nat, arrival : Slice,
     hops : Seq(HopSet), path : Seq(Slice), late : BOOLEAN, slice : Slice]

OutElement == [port : {0, 1, 2}, pkt : Packet]
InElement == [in : {t + 1 : t \in Tor}, pkt : Packet]

Element(k) ==
    CASE k[1] = "out" -> OutElement [] k[1] = "ocsin" -> InElement [] OTHER -> Packet

Typed ==
    /\ now \in Nat /\ nb_sent \in Nat
    /\ paths \in PathTables
    /\ tor_in \in [Tor -> Seq(Packet)]
    /\ calendar \in [Tor -> [CalendarKey -> Seq(Packet)]]
    /\ tor_normal \in [Tor -> Seq(Packet)]
    /\ tor_out \in [Tor -> Seq(OutElement)]
    /\ ocs_in \in Seq(InElement)
    /\ ocs_out \in [Tor -> Seq(Packet)]
    /\ delivered \in [Tor -> Seq(Packet)]

----------------------------------------------------------------------------
(* Where a packet may be.                                                  *)

\* The hops of a path still in the header after i of them.
HopsLeft(path, i) == [j \in 1 .. ssrr_len - i |-> ssrr_entry(path)[i + j]]

\* How many hops of its path a packet has been given.
HopsDone(p) == IF p.hops = << >> THEN Len(p.path) + 1 ELSE ssrr_len - Len(p.hops)

\* The ToRs on a path: any that lead from src to dst.
Via(p) == CHOOSE at \in [0 .. Len(p.path) -> Tor] : Leads(at, p.src, p.path, p.dst)

RouteKey(p) == <<p.src, p.dst, p.arrival>>

\* p was given the path of the table of its first ToR.
HasRoute(p) == RouteKey(p) \in DOMAIN paths /\ p.path = paths[RouteKey(p)]

\* p was given hop i of its path, and has those after it in its header.
OnHop(p, i) ==
    HasRoute(p) /\ i \in 1 .. Len(p.path) /\ p.hops = HopsLeft(p.path, i)

\* Waiting at ToR t to be sent in slice s, or sent and not yet switched.
Leaving(p, t, s) ==
    LET i == HopsDone(p)
    IN  OnHop(p, i) /\ s = p.path[i] /\ (~p.late => t = Via(p)[i - 1])

\* Switched, on the way to ToR u.
Reaching(p, u) ==
    LET i == HopsDone(p)
    IN  OnHop(p, i) /\ (~p.late => u = Via(p)[i])

\* All hops done, at ToR t.
Done(p, t) == HasRoute(p) /\ p.hops = << >> /\ (~p.late => t = p.dst)

\* As its host sent it to ToR t.
Fresh(p, t) ==
    /\ p.src = t /\ p.port \in HostPorts
    /\ p.hops = << >> /\ p.path = << >> /\ ~p.late

\* No route: not from port 2, or none in the table.
Unroutable(p) ==
    /\ p.port \in HostPorts /\ p.path = << >>
    /\ p.port = 2 => RouteKey(p) \notin DOMAIN paths

InOut(o, t) ==
    /\ o.port = 0 => Unroutable(o.pkt)
    /\ o.port = 1 => Leaving(o.pkt, t, o.pkt.slice)
    /\ o.port = 2 => Done(o.pkt, t)

Placed(k, e) ==
    /\ Carried(k, e).id <= nb_sent
    /\ k[1] = "in" => IF e.port = 1 THEN Reaching(e, k[2]) ELSE Fresh(e, k[2])
    /\ k[1] = "calendar" =>
          IF k[2][2][1] = 1 THEN Leaving(e, k[2][1], k[2][2][2]) ELSE Unroutable(e)
    /\ k[1] \in {"normal", "delivered"} => Done(e, k[2])
    /\ k[1] = "out" => InOut(e, k[2])
    /\ k[1] = "ocsin" => Leaving(e.pkt, e.in - 1, e.pkt.slice)
    /\ k[1] = "ocsout" => Reaching(e, k[2])

Places == \A k \in Line : \A n \in DOMAIN Content(k) : Placed(k, Content(k)[n])

LostRightly(l) ==
    /\ l.where = "no_entry" => l.pkt.late
    /\ l.where = "no_link" => Unroutable(l.pkt)

\* The inductive invariant behind OnTimePacketsArrive.
LInv ==
    /\ Typed
    /\ Places
    /\ \A l \in lost : LostRightly(l)

----------------------------------------------------------------------------
(* Which of two packets was sent first.                                    *)

IsFresh(k, e) == k[1] = "in" /\ e.port # 1

\* The place of line k among those a packet with i hops done goes through:
\* calendar (or normal) queue, output buffer, OCS, queue of the OCS, ToR.
Offset(k) ==
    CASE k[1] \in {"calendar", "normal"} -> 0
      [] k[1] = "out" -> 1
      [] k[1] \in {"ocsin", "delivered"} -> 2
      [] k[1] = "ocsout" -> 3
      [] OTHER -> 4
Rank(k, e) == IF IsFresh(k, e) THEN 4 ELSE 5 * HopsDone(Carried(k, e)) + Offset(k)

\* On time so far, and on a path or still to be given one.
Tracked(k, e) == ~Carried(k, e).late /\ (IsFresh(k, e) \/ Carried(k, e).path # << >>)

\* Of one flow, and on one path or still to be given one.
Alike(k, e, l, f) ==
    LET p == Carried(k, e)
        q == Carried(l, f)
    IN  /\ p.src = q.src /\ p.dst = q.dst
        /\ IsFresh(k, e) \/ IsFresh(l, f) \/ p.path = q.path

\* Element e, the m-th of line k, is further than f, the n-th of line l.
Further(k, e, m, l, f, n) ==
    \/ Rank(k, e) > Rank(l, f)
    \/ Rank(k, e) = Rank(l, f) /\ k = l /\ m < n

InOrder(k, e, m, l, f, n) ==
    Tracked(k, e) /\ Tracked(l, f) /\ Alike(k, e, l, f) /\ Further(k, e, m, l, f, n)
      => Carried(k, e).id < Carried(l, f).id

Ordered ==
    \A k, l \in Line : \A m \in DOMAIN Content(k), n \in DOMAIN Content(l) :
        InOrder(k, Content(k)[m], m, l, Content(l)[n], n)

FInv == LInv /\ Ordered

----------------------------------------------------------------------------
(* Lines.                                                                  *)

Kept(k) == Content(k)' = Content(k)

\* The head of line k leaves it, and nothing else happens to the lines.
Loses(k) ==
    /\ Content(k) # << >> /\ Content(k)' = Tail(Content(k))
    /\ \A j \in Line \ {k} : Kept(j)

\* The head of line k leaves it and becomes f at the end of line l.
Passes(k, l, f) ==
    /\ k # l
    /\ Content(k) # << >> /\ Content(k)' = Tail(Content(k))
    /\ Content(l)' = Append(Content(l), f)
    /\ \A j \in Line \ {k, l} : Kept(j)

\* The names are lines.
LEMMA LineNames ==
    /\ \A t \in Tor : {In(t), Normal(t), Out(t), OcsOut(t), Delivered(t)} \subseteq Line
    /\ \A t \in Tor, key \in CalendarKey : Calendar(t, key) \in Line
    /\ OcsIn \in Line
BY DEF Line, In, Normal, Out, OcsOut, Delivered, Calendar, OcsIn

\* Every line has one of the names.
LEMMA Kinds ==
    ASSUME NEW k \in Line
    PROVE  \/ \E t \in Tor : k = In(t)
           \/ \E t \in Tor, key \in CalendarKey : k = Calendar(t, key)
           \/ \E t \in Tor : k = Normal(t)
           \/ \E t \in Tor : k = Out(t)
           \/ k = OcsIn
           \/ \E t \in Tor : k = OcsOut(t)
           \/ \E t \in Tor : k = Delivered(t)
BY DEF Line, In, Normal, Out, OcsOut, Delivered, Calendar, OcsIn

\* A name gives back what it was made of.
LEMMA NamesDiffer ==
    /\ \A t : /\ In(t)[1] = "in" /\ In(t)[2] = t
              /\ Normal(t)[1] = "normal" /\ Normal(t)[2] = t
              /\ Out(t)[1] = "out" /\ Out(t)[2] = t
              /\ OcsOut(t)[1] = "ocsout" /\ OcsOut(t)[2] = t
              /\ Delivered(t)[1] = "delivered" /\ Delivered(t)[2] = t
    /\ OcsIn[1] = "ocsin"
    /\ \A t, key : /\ Calendar(t, key)[1] = "calendar"
                   /\ Calendar(t, key)[2][1] = t /\ Calendar(t, key)[2][2] = key
BY DEF In, Normal, Out, OcsOut, Delivered, Calendar, OcsIn

\* The content of each line, before and after a step.
LEMMA Contents ==
    /\ \A t : Content(In(t)) = tor_in[t] /\ Content(In(t))' = tor_in'[t]
    /\ \A t, key : /\ Content(Calendar(t, key)) = calendar[t][key]
                   /\ Content(Calendar(t, key))' = calendar'[t][key]
    /\ \A t : Content(Normal(t)) = tor_normal[t] /\ Content(Normal(t))' = tor_normal'[t]
    /\ \A t : Content(Out(t)) = tor_out[t] /\ Content(Out(t))' = tor_out'[t]
    /\ Content(OcsIn) = ocs_in /\ Content(OcsIn)' = ocs_in'
    /\ \A t : Content(OcsOut(t)) = ocs_out[t] /\ Content(OcsOut(t))' = ocs_out'[t]
    /\ \A t : /\ Content(Delivered(t)) = delivered[t]
              /\ Content(Delivered(t))' = delivered'[t]
BY NamesDiffer DEF Content

\* What each line holds.
LEMMA Elements ==
    /\ \A t : /\ Element(In(t)) = Packet /\ Element(Normal(t)) = Packet
              /\ Element(OcsOut(t)) = Packet /\ Element(Delivered(t)) = Packet
              /\ Element(Out(t)) = OutElement
    /\ \A t, key : Element(Calendar(t, key)) = Packet
    /\ Element(OcsIn) = InElement
BY NamesDiffer DEF Element

\* Each line holds elements of its kind.
LEMMA ContentTyped ==
    ASSUME Typed, NEW k \in Line
    PROVE  Content(k) \in Seq(Element(k))
<1>1. /\ \A t \in Tor : tor_in[t] \in Seq(Packet) /\ tor_normal[t] \in Seq(Packet)
      /\ \A t \in Tor : ocs_out[t] \in Seq(Packet) /\ delivered[t] \in Seq(Packet)
      /\ \A t \in Tor : tor_out[t] \in Seq(OutElement)
      /\ \A t \in Tor, key \in CalendarKey : calendar[t][key] \in Seq(Packet)
      /\ ocs_in \in Seq(InElement)
  BY DEF Typed
<1> QED
  BY <1>1, Kinds, Contents, Elements

\* An element of a line carries a packet.
LEMMA CarriedTyped ==
    ASSUME NEW k \in Line, NEW e \in Element(k)
    PROVE  Carried(k, e) \in Packet
BY Kinds, NamesDiffer DEF Element, Carried, OutElement, InElement
----------------------------------------------------------------------------
(* The header.                                                             *)

\* What the header holds after i hops, and what a hop takes from it.
LEMMA HeaderTyped ==
    ASSUME NEW path \in Seq(Slice), Len(path) \in 1 .. ssrr_len - 1,
           NEW i \in 0 .. Len(path)
    PROVE  /\ HopsLeft(path, i) \in Seq(HopSet)
           /\ Len(HopsLeft(path, i)) = ssrr_len - i
           /\ HopsLeft(path, i) # << >>
           /\ \A j \in 1 .. ssrr_len - i : HopsLeft(path, i)[j] = ssrr_entry(path)[i + j]
<1>1. Len(path) \in Nat /\ \A j \in 1 .. Len(path) : path[j] \in Int
  BY SlicesAssumption DEF Slice
<1>2. \A j \in 1 .. ssrr_len : ssrr_entry(path)[j] \in HopSet
  <2> SUFFICES ASSUME NEW j \in 1 .. ssrr_len PROVE ssrr_entry(path)[j] \in HopSet
    OBVIOUS
  <2> DEFINE hop == IF j <= Len(path) THEN Hop(1, path[j]) ELSE Hop(0, -1)
  <2>1. hop \in HopSet
    BY <1>1 DEF Hop, HopSet, ssrr_len
  <2>2. ssrr_entry(path)[j] = IF j = ssrr_len THEN [hop EXCEPT !.valid_flag = 255] ELSE hop
    BY DEF ssrr_entry
  <2> HIDE DEF hop
  <2>3. [hop EXCEPT !.valid_flag = 255] \in HopSet
    BY <2>1 DEF HopSet
  <2> QED
    BY <2>1, <2>2, <2>3
<1>0. Len(path) \in 1 .. 5 /\ ssrr_len = 6
  BY DEF ssrr_len
<1>3. i \in 0 .. 5 /\ ssrr_len = 6
  <2>1. PICK n \in 1 .. 5 : n = Len(path)
    BY <1>0
  <2>2. i \in 0 .. n
    BY <2>1
  <2> QED
    BY <1>0, <2>2
<1>4. \A j \in 1 .. ssrr_len - i : i + j \in 1 .. ssrr_len
  BY <1>3
<1>5. HopsLeft(path, i) \in Seq(HopSet) /\ Len(HopsLeft(path, i)) = ssrr_len - i
  BY <1>2, <1>3, <1>4 DEF HopsLeft
<1> QED
  BY <1>3, <1>5 DEF HopsLeft

\* The header of a path: its hops, padding, and the end marker.
LEMMA HeaderHops ==
    ASSUME NEW path \in Seq(Slice), Len(path) \in 1 .. ssrr_len - 1
    PROVE  /\ \A j \in 1 .. Len(path) : ssrr_entry(path)[j] = Hop(1, path[j])
           /\ \A j \in Len(path) + 1 .. ssrr_len - 1 : ssrr_entry(path)[j] = Hop(0, -1)
           /\ ssrr_entry(path)[ssrr_len] = Hop(255, -1)
           /\ ssrr_entry(path) = HopsLeft(path, 0)
<1>1. Len(path) \in 1 .. 5 /\ ssrr_len = 6
  BY DEF ssrr_len
<1>2. ssrr_entry(path)[ssrr_len] = Hop(255, -1)
  BY <1>1 DEF ssrr_entry, Hop
<1>3. \A j \in 1 .. ssrr_len - 1 :
        ssrr_entry(path)[j] = IF j <= Len(path) THEN Hop(1, path[j]) ELSE Hop(0, -1)
  BY <1>1 DEF ssrr_entry
<1>4. ssrr_entry(path) = HopsLeft(path, 0)
  <2>1. ssrr_entry(path) = [j \in 1 .. ssrr_len |-> ssrr_entry(path)[j]]
    BY DEF ssrr_entry
  <2>2. \A j \in 1 .. ssrr_len : j = 0 + j
    BY <1>1
  <2>3. ssrr_len - 0 = ssrr_len
    BY <1>1
  <2> QED
    BY <2>1, <2>2, <2>3 DEF HopsLeft
<1> QED
  BY <1>1, <1>2, <1>3, <1>4

\* A hop that is done leaves the hops after it.
LEMMA HeaderTail ==
    ASSUME NEW path \in Seq(Slice), Len(path) \in 1 .. ssrr_len - 1,
           NEW i \in 0 .. Len(path) - 1
    PROVE  /\ Head(HopsLeft(path, i)) = Hop(1, path[i + 1])
           /\ Tail(HopsLeft(path, i)) = HopsLeft(path, i + 1)
<1>0. Len(path) \in 1 .. 5 /\ ssrr_len = 6
  BY DEF ssrr_len
<1>1. Len(path) \in 1 .. 5 /\ ssrr_len = 6 /\ i \in 0 .. 4 /\ i \in 0 .. Len(path)
      /\ i + 1 \in 0 .. Len(path) /\ i + 1 \in 1 .. Len(path)
  <2>1. PICK n \in 1 .. 5 : n = Len(path)
    BY <1>0
  <2>2. i \in 0 .. n - 1
    BY <2>1
  <2> QED
    BY <1>0, <2>1, <2>2
<1> DEFINE h == HopsLeft(path, i)
           g == HopsLeft(path, i + 1)
<1>2. /\ h \in Seq(HopSet) /\ Len(h) = ssrr_len - i /\ h # << >>
      /\ \A j \in 1 .. ssrr_len - i : h[j] = ssrr_entry(path)[i + j]
  BY <1>1, HeaderTyped
<1>3. /\ g \in Seq(HopSet) /\ Len(g) = ssrr_len - (i + 1)
      /\ \A j \in 1 .. ssrr_len - (i + 1) : g[j] = ssrr_entry(path)[i + 1 + j]
  BY <1>1, HeaderTyped
<1> HIDE DEF h, g
<1>4. Head(h) = ssrr_entry(path)[i + 1]
  BY <1>1, <1>2
<1>5. Tail(h) \in Seq(HopSet) /\ Len(Tail(h)) = Len(h) - 1
      /\ \A j \in 1 .. Len(h) - 1 : Tail(h)[j] = h[j + 1]
  BY <1>2
<1>6. \A j \in 1 .. Len(g) : Tail(h)[j] = g[j]
  <2> SUFFICES ASSUME NEW j \in 1 .. Len(g) PROVE Tail(h)[j] = g[j]
    OBVIOUS
  <2>1. j \in 1 .. Len(h) - 1 /\ j + 1 \in 1 .. ssrr_len - i /\ i + (j + 1) = i + 1 + j
    BY <1>1, <1>2, <1>3
  <2> QED
    BY <1>2, <1>3, <1>5, <2>1
<1>7. Len(Tail(h)) = Len(g)
  BY <1>1, <1>2, <1>3, <1>5
<1>8. Tail(h) = g
  BY <1>3, <1>5, <1>6, <1>7, SeqEqual
<1> QED
  BY <1>1, <1>4, <1>8, HeaderHops DEF h, g
\* What a later ToR finds of a header: the hops after the padding it skips,
\* which is the end marker when no hop of the path is left.
LEMMA HeaderSkip ==
    ASSUME NEW path \in Seq(Slice), Len(path) \in 1 .. ssrr_len - 1,
           NEW i \in 1 .. Len(path)
    PROVE  SkipPadding(HopsLeft(path, i)) =
             IF i < Len(path) THEN HopsLeft(path, i) ELSE <<Hop(255, -1)>>
<1>0. Len(path) \in 1 .. 5 /\ ssrr_len = 6
  BY DEF ssrr_len
<1>1. PICK n \in 1 .. 5 : n = Len(path)
  BY <1>0
<1>2. i \in 1 .. n /\ i \in 0 .. Len(path) /\ i \in Nat
  BY <1>1
<1> DEFINE h == HopsLeft(path, i)
<1>3. /\ h \in Seq(HopSet) /\ Len(h) = ssrr_len - i
      /\ \A j \in 1 .. ssrr_len - i : h[j] = ssrr_entry(path)[i + j]
  BY <1>2, HeaderTyped
<1> HIDE DEF h
<1> DEFINE used == {j \in DOMAIN h : h[j].valid_flag # 0}
           first == CHOOSE j \in used : \A l \in used : j <= l
<1>4. SkipPadding(h) = IF used = {} THEN << >> ELSE SubSeq(h, first, Len(h))
  BY DEF SkipPadding
<1>5. DOMAIN h = 1 .. 6 - i
  BY <1>0, <1>3
<1>6. CASE i < Len(path)
  <2>1. h[1] = Hop(1, path[i + 1])
    <3>1. 1 \in 1 .. ssrr_len - i /\ i + 1 \in 1 .. Len(path)
      BY <1>0, <1>1, <1>2, <1>6
    <3> QED
      BY <1>3, <3>1, HeaderHops
  <2>2. 1 \in used /\ \A l \in used : 1 <= l
    BY <1>0, <1>1, <1>2, <1>5, <1>6, <2>1 DEF Hop
  <2>3. first \in used /\ \A l \in used : first <= l
    BY <2>2
  <2>4. used \subseteq Int
    BY <1>5
  <2> HIDE DEF used, first
  <2>5. first = 1
    BY <2>2, <2>3, <2>4
  <2>6. SubSeq(h, 1, Len(h)) = h
    BY <1>3, SubSeqFull
  <2> QED
    BY <1>4, <1>6, <2>2, <2>5, <2>6 DEF h
<1>7. CASE i = Len(path)
  <2>1. PICK m \in 1 .. 5 : m = 6 - i
    BY <1>1, <1>2
  <2>2. h[m] = Hop(255, -1)
    <3>1. m \in 1 .. ssrr_len - i /\ i + m = ssrr_len
      BY <1>0, <1>1, <1>2, <2>1
    <3> QED
      BY <1>3, <3>1, HeaderHops
  <2>3. \A j \in 1 .. m - 1 : h[j] = Hop(0, -1)
    <3> SUFFICES ASSUME NEW j \in 1 .. m - 1 PROVE h[j] = Hop(0, -1)
      OBVIOUS
    <3>1. j \in 1 .. ssrr_len - i /\ i + j \in Len(path) + 1 .. ssrr_len - 1
      BY <1>0, <1>1, <1>2, <1>7, <2>1
    <3> QED
      BY <1>3, <3>1, HeaderHops
  <2>4. \A j \in 1 .. m : h[j].valid_flag # 0 <=> j = m
    <3> SUFFICES ASSUME NEW j \in 1 .. m PROVE h[j].valid_flag # 0 <=> j = m
      OBVIOUS
    <3>1. j = m \/ j \in 1 .. m - 1
      BY <2>1
    <3>2. ASSUME j \in 1 .. m - 1 PROVE h[j].valid_flag = 0 /\ j # m
      BY <2>1, <2>3, <3>2 DEF Hop
    <3>3. h[m].valid_flag # 0
      BY <2>2 DEF Hop
    <3> QED
      BY <3>1, <3>2, <3>3
  <2>5. used = {m}
    BY <1>5, <2>1, <2>4
  <2>6. first = m
    <3> HIDE DEF used
    <3> QED
      BY <2>1, <2>5
  <2>7. Len(h) = m
    BY <1>0, <1>3, <2>1
  <2>8. SubSeq(h, m, m) = <<h[m]>>
    <3>1. \A j \in m .. m : h[j] \in HopSet
      BY <1>3, <2>1, <2>7
    <3>2. /\ SubSeq(h, m, m) \in Seq(HopSet) /\ Len(SubSeq(h, m, m)) = m - m + 1
          /\ \A j \in 1 .. m - m + 1 : SubSeq(h, m, m)[j] = h[m + j - 1]
      BY <2>1, <3>1, SubSeqProperties
    <3>3. m - m + 1 = 1 /\ m + 1 - 1 = m
      BY <2>1
    <3>4. Len(SubSeq(h, m, m)) = 1 /\ SubSeq(h, m, m)[1] = h[m]
      BY <3>2, <3>3
    <3>5. h[m] \in HopSet
      BY <2>1, <3>1
    <3>6. PICK x, s : x = h[m] /\ s = SubSeq(h, m, m)
      OBVIOUS
    <3>7. x \in HopSet /\ s \in Seq(HopSet) /\ Len(s) = 1 /\ s[1] = x
      BY <3>2, <3>4, <3>5, <3>6
    <3>8. s = <<x>>
      BY <3>7
    <3> QED
      BY <3>6, <3>8
  <2> HIDE DEF used, first
  <2> QED
    BY <1>4, <1>7, <2>2, <2>5, <2>6, <2>7, <2>8 DEF h
<1> QED
  BY <1>1, <1>2, <1>6, <1>7
----------------------------------------------------------------------------
(* Packets.                                                                *)

\* A packet with a route has a path of one to five hops that leads from its
\* source to its destination.
LEMMA RouteLeads ==
    ASSUME Typed, NEW p \in Packet, HasRoute(p)
    PROVE  /\ Len(p.path) \in 1 .. ssrr_len - 1 /\ p.path \in Seq(Slice)
           /\ Via(p) \in [0 .. Len(p.path) -> Tor]
           /\ Leads(Via(p), p.src, p.path, p.dst)
<1>1. /\ paths \in PathTables /\ RouteKey(p) \in DOMAIN paths
      /\ p.path = paths[RouteKey(p)]
  BY DEF Typed, HasRoute
<1>2. RouteKey(p)[1] = p.src /\ RouteKey(p)[2] = p.dst
  BY DEF RouteKey
<1>3. Len(p.path) \in 1 .. ssrr_len - 1 /\ p.path \in Seq(Slice)
  BY <1>1, PathsAssumption
<1>4. \E at \in [0 .. Len(p.path) -> Tor] : Leads(at, p.src, p.path, p.dst)
  BY <1>1, <1>2, RoutesAssumption
<1> QED
  BY <1>3, <1>4 DEF Via

\* The clock always shows a slice.
LEMMA ClockTyped == ASSUME Typed PROVE CurrentSlice \in Slice
<1>1. now % ClockModulus \in Nat
  BY ModulusAssumption DEF Typed
<1>2. (now % ClockModulus) \div SliceTicks \in Nat
  BY <1>1, TicksAssumption
<1>3. \A n \in Nat : n % nb_calendar_queues \in 0 .. nb_calendar_queues - 1
  BY SlicesAssumption
<1> QED
  BY <1>2, <1>3 DEF CurrentSlice, ts2time_slice, Slice

\* The table of the OCS leads to ToRs.
LEMMA OcsTyped ==
    ASSUME NEW key \in DOMAIN ocs_table
    PROVE  ocs_table[key] - 1 \in Tor
<1> DEFINE entries == OcsEntries(topology)
           Outs(k) == {e.out : e \in {e \in entries : <<e.port, e.slice>> = k}}
           keys == {<<e.port, e.slice>> : e \in entries}
           doubtful == {k \in keys : Cardinality(Outs(k)) > 1}
           firsts == {f \in [doubtful -> UNION {Outs(k) : k \in doubtful}] :
                         \A k \in doubtful : f[k] \in Outs(k)}
<1>1. \E f \in OcsTables(topology) : TRUE
  <2>1. OcsTables(topology) # {}
    BY TopologyAssumption, FS_EmptySet
  <2> QED
    BY <2>1
<1>2. ocs_table \in OcsTables(topology)
  BY <1>1 DEF ocs_table
<1>3. OcsTables(topology) =
        {[k \in keys |-> IF k \in doubtful THEN f[k] ELSE CHOOSE o \in Outs(k) : TRUE] :
            f \in firsts}
  BY DEF OcsTables
<1>4. \A e \in entries : e.out - 1 \in Tor
  <2>1. \A t \in Nodes(topology) : t \in Tor /\ (t + 1) - 1 = t
    BY TopologyAssumption DEF Tor
  <2>2. ASSUME NEW e \in entries PROVE \E x \in Nodes(topology) : e.out = x + 1
    <3>1. PICK i \in DOMAIN topology :
            e \in {[port |-> d[1] + 1, slice |-> i - 1, out |-> d[2] + 1] :
                     d \in {p \in Nodes(topology) \X Nodes(topology) :
                              p[1] # p[2] /\ {p[1], p[2]} \in topology[i].edges}}
      BY <2>2 DEF OcsEntries
    <3>2. PICK d \in Nodes(topology) \X Nodes(topology) :
            e = [port |-> d[1] + 1, slice |-> i - 1, out |-> d[2] + 1]
      BY <3>1
    <3> QED
      BY <3>2
  <2> QED
    BY <2>1, <2>2
<1>5. \A k \in keys : Outs(k) # {} /\ \A o \in Outs(k) : o - 1 \in Tor
  BY <1>4
<1> HIDE DEF Outs, keys
<1>6. PICK f \in firsts :
        ocs_table = [k \in keys |-> IF k \in doubtful THEN f[k] ELSE CHOOSE o \in Outs(k) : TRUE]
  BY <1>2, <1>3
<1>7. key \in keys
  BY <1>6
<1>8. ocs_table[key] \in Outs(key)
  <2>1. CASE key \in doubtful
    BY <1>6, <1>7, <2>1
  <2>2. CASE key \notin doubtful
    BY <1>5, <1>6, <1>7, <2>2
  <2> QED
    BY <2>1, <2>2
<1> QED
  BY <1>5, <1>7, <1>8
\* What is said of a packet depends on its header, its path and where it goes.
LEMMA SamePacket ==
    ASSUME NEW p, NEW q, p.src = q.src, p.dst = q.dst, p.arrival = q.arrival,
           p.path = q.path, p.hops = q.hops
    PROVE  /\ HopsDone(q) = HopsDone(p) /\ Via(q) = Via(p)
           /\ HasRoute(q) <=> HasRoute(p)
           /\ \A i : OnHop(q, i) <=> OnHop(p, i)
BY DEF HopsDone, Via, HasRoute, RouteKey, OnHop

\* A packet on a hop has as many hops done as its header says.
LEMMA HopNumber ==
    ASSUME Typed, NEW p \in Packet, NEW i, OnHop(p, i)
    PROVE  HopsDone(p) = i /\ i \in 1 .. Len(p.path) /\ p.path # << >> /\ p.hops # << >>
<1>1. Len(p.path) \in 1 .. ssrr_len - 1 /\ p.path \in Seq(Slice)
  BY RouteLeads DEF OnHop
<1>2. i \in 1 .. Len(p.path) /\ p.hops = HopsLeft(p.path, i)
  BY DEF OnHop
<1>3. PICK n : n = Len(p.path)
  OBVIOUS
<1>4. n \in 1 .. 5 /\ ssrr_len = 6
  BY <1>1, <1>3 DEF ssrr_len
<1>5. i \in 1 .. n /\ i \in 0 .. n
  BY <1>2, <1>3, <1>4
<1>6. Len(p.hops) = ssrr_len - i /\ p.hops # << >>
  BY <1>1, <1>2, <1>3, <1>5, HeaderTyped
<1>7. p.path # << >>
  <2>1. n # 0
    BY <1>4
  <2>2. Len(p.path) # 0
    BY <1>3, <2>1
  <2> QED
    BY <2>2
<1>8. HopsDone(p) = ssrr_len - Len(p.hops)
  BY <1>6 DEF HopsDone
<1> QED
  BY <1>2, <1>4, <1>5, <1>6, <1>7, <1>8

\* A packet with all hops done has one more than its path.
LEMMA DoneNumber ==
    ASSUME Typed, NEW p \in Packet, NEW t, Done(p, t)
    PROVE  HopsDone(p) = Len(p.path) + 1 /\ p.path # << >>
<1>1. Len(p.path) \in 1 .. ssrr_len - 1
  BY RouteLeads DEF Done
<1>2. Len(p.path) # 0
  BY <1>1 DEF ssrr_len
<1> QED
  BY <1>2 DEF Done, HopsDone

\* The steps of a packet from line k to line l.
Follows(k, e, l, f) ==
    LET p == Carried(k, e)
        q == Carried(l, f)
    IN  /\ q.id = p.id /\ q.src = p.src /\ q.dst = p.dst /\ ~IsFresh(l, f)
        /\ Tracked(l, f) =>
              /\ Tracked(k, e) /\ Rank(l, f) = Rank(k, e) + 1
              /\ q.path = p.path \/ IsFresh(k, e)

\* f may take the place of e, at the end of line l.
Fits(k, e, l, f) == f \in Element(l) /\ Placed(l, f) /\ Follows(k, e, l, f)

\* What each line carries.
LEMMA CarriedAre ==
    /\ \A t, e : /\ Carried(In(t), e) = e /\ Carried(Normal(t), e) = e
                 /\ Carried(OcsOut(t), e) = e /\ Carried(Delivered(t), e) = e
                 /\ Carried(Out(t), e) = e.pkt
    /\ \A t, key, e : Carried(Calendar(t, key), e) = e
    /\ \A e : Carried(OcsIn, e) = e.pkt
BY NamesDiffer DEF Carried

\* Only a packet on the way in, and not from the OCS, is fresh.
LEMMA FreshAre ==
    /\ \A t, e : /\ ~IsFresh(Normal(t), e) /\ ~IsFresh(Out(t), e)
                 /\ ~IsFresh(Delivered(t), e) /\ ~IsFresh(OcsOut(t), e)
                 /\ IsFresh(In(t), e) <=> e.port # 1
    /\ \A t, key, e : ~IsFresh(Calendar(t, key), e)
    /\ \A e : ~IsFresh(OcsIn, e)
BY NamesDiffer DEF IsFresh

\* The rank in each line.
LEMMA Ranks ==
    /\ \A t, key, e : Rank(Calendar(t, key), e) = 5 * HopsDone(e) + 0
    /\ \A t, e : Rank(Normal(t), e) = 5 * HopsDone(e) + 0
    /\ \A t, o : Rank(Out(t), o) = 5 * HopsDone(o.pkt) + 1
    /\ \A o : Rank(OcsIn, o) = 5 * HopsDone(o.pkt) + 2
    /\ \A t, e : Rank(Delivered(t), e) = 5 * HopsDone(e) + 2
    /\ \A t, e : Rank(OcsOut(t), e) = 5 * HopsDone(e) + 3
    /\ \A t, e : Rank(In(t), e) = IF e.port = 1 THEN 5 * HopsDone(e) + 4 ELSE 4
<1>1. /\ \A t : /\ Offset(Normal(t)) = 0 /\ Offset(Out(t)) = 1 /\ Offset(In(t)) = 4
                /\ Offset(OcsOut(t)) = 3 /\ Offset(Delivered(t)) = 2
      /\ \A t, key : Offset(Calendar(t, key)) = 0
      /\ Offset(OcsIn) = 2
  BY NamesDiffer DEF Offset
<1> QED
  BY <1>1, CarriedAre, FreshAre DEF Rank

\* What a place in each line says of a packet.
LEMMA Placements ==
    /\ \A t, e : /\ Placed(In(t), e) <=>
                       /\ e.id <= nb_sent
                       /\ IF e.port = 1 THEN Reaching(e, t) ELSE Fresh(e, t)
                 /\ Placed(Normal(t), e) <=> e.id <= nb_sent /\ Done(e, t)
                 /\ Placed(Delivered(t), e) <=> e.id <= nb_sent /\ Done(e, t)
                 /\ Placed(OcsOut(t), e) <=> e.id <= nb_sent /\ Reaching(e, t)
    /\ \A t, key, e :
          Placed(Calendar(t, key), e) <=>
             /\ e.id <= nb_sent
             /\ IF key[1] = 1 THEN Leaving(e, t, key[2]) ELSE Unroutable(e)
    /\ \A t, o : Placed(Out(t), o) <=> o.pkt.id <= nb_sent /\ InOut(o, t)
    /\ \A o : Placed(OcsIn, o) <=>
                 o.pkt.id <= nb_sent /\ Leaving(o.pkt, o.in - 1, o.pkt.slice)
BY NamesDiffer, CarriedAre DEF Placed

\* What Follows asks of a step between two lines, when the packet is tracked
\* before and after.
LEMMA Onwards ==
    ASSUME NEW k, NEW e, NEW l, NEW f,
           Carried(l, f).id = Carried(k, e).id,
           Carried(l, f).src = Carried(k, e).src,
           Carried(l, f).dst = Carried(k, e).dst,
           Carried(l, f).path = Carried(k, e).path,
           Carried(k, e).late => Carried(l, f).late,
           Carried(l, f).path # << >> => Rank(l, f) = Rank(k, e) + 1,
           ~IsFresh(l, f)
    PROVE  Follows(k, e, l, f)
BY DEF Follows, Tracked

\* The calendar thread: the packet is sent for the slice of its queue.
LEMMA PopFits ==
    ASSUME Typed, NEW t \in Tor, NEW key \in CalendarKey, NEW p \in Packet,
           Placed(Calendar(t, key), p)
    PROVE  Fits(Calendar(t, key), p, Out(t),
                [port |-> key[1], pkt |-> [p EXCEPT !.slice = key[2]]])
<1> DEFINE q == [p EXCEPT !.slice = key[2]]
           o == [port |-> key[1], pkt |-> q]
<1>1. key[1] \in {0, 1} /\ key[2] \in Slice
  BY DEF CalendarKey
<1>2. /\ q \in Packet /\ q.slice = key[2]
      /\ q.id = p.id /\ q.src = p.src /\ q.dst = p.dst /\ q.arrival = p.arrival
      /\ q.path = p.path /\ q.hops = p.hops /\ q.late = p.late /\ q.port = p.port
  BY <1>1 DEF Packet
<1> HIDE DEF q
<1>3. o.port = key[1] /\ o.pkt = q /\ o \in OutElement
  BY <1>1, <1>2 DEF OutElement
<1> HIDE DEF o
<1>4. p.id <= nb_sent /\ (IF key[1] = 1 THEN Leaving(p, t, key[2]) ELSE Unroutable(p))
  BY Placements
<1>5. /\ HopsDone(q) = HopsDone(p) /\ Via(q) = Via(p)
      /\ \A i : OnHop(q, i) <=> OnHop(p, i)
  BY <1>2, SamePacket
<1>6. key[1] = 1 => Leaving(q, t, q.slice) /\ HopsDone(p) \in Int /\ p.path # << >>
  <2> SUFFICES ASSUME key[1] = 1
               PROVE  Leaving(q, t, q.slice) /\ HopsDone(p) \in Int /\ p.path # << >>
    OBVIOUS
  <2>1. OnHop(p, HopsDone(p))
    BY <1>4 DEF Leaving
  <2>2. HopsDone(p) \in Int /\ p.path # << >>
    BY <2>1, HopNumber
  <2> QED
    BY <1>2, <1>4, <1>5, <2>2 DEF Leaving
<1>7. key[1] = 0 => Unroutable(q) /\ p.path = << >>
  BY <1>2, <1>4 DEF Unroutable, RouteKey
<1>8. Placed(Out(t), o)
  BY <1>1, <1>2, <1>3, <1>4, <1>6, <1>7, Placements DEF InOut
<1>9. q.path # << >> => Rank(Out(t), o) = Rank(Calendar(t, key), p) + 1
  BY <1>1, <1>2, <1>3, <1>5, <1>6, <1>7, Ranks
<1>10. Follows(Calendar(t, key), p, Out(t), o)
  BY <1>2, <1>3, <1>9, CarriedAre, FreshAre, Onwards
<1> QED
  BY <1>3, <1>8, <1>10, Elements DEF Fits, o, q

\* The normal egress thread.
LEMMA NormalFits ==
    ASSUME Typed, NEW t \in Tor, NEW p \in Packet, Placed(Normal(t), p)
    PROVE  Fits(Normal(t), p, Out(t), [port |-> 2, pkt |-> p])
<1> DEFINE o == [port |-> 2, pkt |-> p]
<1>1. o.port = 2 /\ o.pkt = p /\ o \in OutElement
  BY DEF OutElement
<1> HIDE DEF o
<1>2. p.id <= nb_sent /\ Done(p, t)
  BY Placements
<1>3. HopsDone(p) = Len(p.path) + 1 /\ p.path # << >>
  BY <1>2, DoneNumber
<1>4. Len(p.path) \in Int
  BY DEF Packet
<1>5. Placed(Out(t), o)
  BY <1>1, <1>2, Placements DEF InOut
<1>6. Rank(Out(t), o) = Rank(Normal(t), p) + 1
  BY <1>1, <1>3, <1>4, Ranks
<1>7. Follows(Normal(t), p, Out(t), o)
  BY <1>1, <1>3, <1>6, CarriedAre, FreshAre, Onwards
<1> QED
  BY <1>1, <1>5, <1>7, Elements DEF Fits, o

\* The transmit thread, towards the OCS and towards the host.
LEMMA TransmitFits ==
    ASSUME Typed, NEW t \in Tor, NEW o \in OutElement, Placed(Out(t), o)
    PROVE  /\ o.port = 1 => Fits(Out(t), o, OcsIn, [in |-> t + 1, pkt |-> o.pkt])
           /\ o.port = 2 => Fits(Out(t), o, Delivered(t), o.pkt)
           /\ o.port = 0 => Unroutable(o.pkt)
<1> DEFINE i == [in |-> t + 1, pkt |-> o.pkt]
<1>1. o.pkt \in Packet /\ o.pkt.id <= nb_sent /\ InOut(o, t)
  BY Placements DEF OutElement
<1>2. i.in = t + 1 /\ i.pkt = o.pkt /\ i \in InElement /\ i.in - 1 = t
  BY <1>1 DEF InElement, Tor
<1> HIDE DEF i
<1>3. ASSUME o.port = 1 PROVE Fits(Out(t), o, OcsIn, i)
  <2>1. Leaving(o.pkt, t, o.pkt.slice)
    BY <1>1, <1>3 DEF InOut
  <2>2. HopsDone(o.pkt) \in Int /\ o.pkt.path # << >>
    BY <1>1, <2>1, HopNumber DEF Leaving
  <2>3. Placed(OcsIn, i)
    BY <1>1, <1>2, <2>1, Placements
  <2>4. Rank(OcsIn, i) = Rank(Out(t), o) + 1
    BY <1>2, <2>2, Ranks
  <2>5. Follows(Out(t), o, OcsIn, i)
    BY <1>2, <2>2, <2>4, CarriedAre, FreshAre, Onwards
  <2> QED
    BY <1>2, <2>3, <2>5, Elements DEF Fits
<1>4. ASSUME o.port = 2 PROVE Fits(Out(t), o, Delivered(t), o.pkt)
  <2>1. Done(o.pkt, t)
    BY <1>1, <1>4 DEF InOut
  <2>2. HopsDone(o.pkt) = Len(o.pkt.path) + 1 /\ o.pkt.path # << >>
    BY <1>1, <2>1, DoneNumber
  <2>3. Len(o.pkt.path) \in Int
    BY <1>1 DEF Packet
  <2>4. Placed(Delivered(t), o.pkt)
    BY <1>1, <2>1, Placements
  <2>5. Rank(Delivered(t), o.pkt) = Rank(Out(t), o) + 1
    BY <2>2, <2>3, Ranks
  <2>6. Follows(Out(t), o, Delivered(t), o.pkt)
    BY <2>2, <2>5, CarriedAre, FreshAre, Onwards
  <2> QED
    BY <1>1, <2>4, <2>6, Elements DEF Fits
<1> QED
  BY <1>1, <1>3, <1>4 DEF InOut, i

\* The ingress thread of the OCS: on time, the packet goes to the next ToR of
\* its path; without an entry it is late.
LEMMA SwitchFits ==
    ASSUME Typed, NEW i \in InElement, Placed(OcsIn, i)
    PROVE  LET key == <<i.in, CurrentSlice>>
               q == [i.pkt EXCEPT !.late = @ \/ CurrentSlice # i.pkt.slice, !.slice = 0]
               u == ocs_table[key] - 1
           IN  /\ key \notin DOMAIN ocs_table => q.late
               /\ key \in DOMAIN ocs_table => u \in Tor /\ Fits(OcsIn, i, OcsOut(u), q)
<1> DEFINE key == <<i.in, CurrentSlice>>
           p == i.pkt
           now_late == p.late \/ CurrentSlice # p.slice
           q == [p EXCEPT !.late = now_late, !.slice = 0]
           u == ocs_table[key] - 1
           n == HopsDone(p)
<1>1. /\ p \in Packet /\ p.id <= nb_sent /\ Leaving(p, i.in - 1, p.slice)
      /\ i.in \in Int
  BY Placements DEF InElement, Tor
<1>2. CurrentSlice \in Slice /\ 0 \in Slice
  BY ClockTyped, SlicesAssumption DEF Slice
<1>3. /\ q \in Packet /\ q.late = now_late /\ q.slice = 0
      /\ q.id = p.id /\ q.src = p.src /\ q.dst = p.dst /\ q.arrival = p.arrival
      /\ q.path = p.path /\ q.hops = p.hops /\ q.port = p.port
  <2>1. now_late \in BOOLEAN
    BY <1>1 DEF Packet
  <2> HIDE DEF now_late
  <2> QED
    BY <1>1, <1>2, <2>1 DEF Packet
<1> HIDE DEF q
<1>4. OnHop(p, n) /\ p.slice = p.path[n] /\ (~p.late => i.in - 1 = Via(p)[n - 1])
  BY <1>1 DEF Leaving
<1>5. n \in 1 .. Len(p.path) /\ p.path # << >>
  BY <1>1, <1>4, HopNumber
<1>6. /\ Via(p) \in [0 .. Len(p.path) -> Tor]
      /\ Leads(Via(p), p.src, p.path, p.dst) /\ Len(p.path) \in Nat
  BY <1>1, <1>4, RouteLeads DEF OnHop, ssrr_len
<1>7. Via(p)[n - 1] \in Tor /\ Via(p)[n] \in Tor /\ n \in Int
  BY <1>5, <1>6
<1>8. /\ <<Via(p)[n - 1] + 1, p.path[n]>> \in DOMAIN ocs_table
      /\ ocs_table[<<Via(p)[n - 1] + 1, p.path[n]>>] = Via(p)[n] + 1
  BY <1>5, <1>6 DEF Leads
<1>9. ~now_late => key \in DOMAIN ocs_table /\ u = Via(p)[n]
  <2> SUFFICES ASSUME ~now_late PROVE key \in DOMAIN ocs_table /\ u = Via(p)[n]
    OBVIOUS
  <2>1. i.in = Via(p)[n - 1] + 1 /\ CurrentSlice = p.path[n]
    BY <1>1, <1>4, <1>7 DEF Tor
  <2>2. key = <<Via(p)[n - 1] + 1, p.path[n]>>
    BY <2>1
  <2> HIDE DEF key, n
  <2>3. key \in DOMAIN ocs_table /\ ocs_table[key] = Via(p)[n] + 1
    BY <1>8, <2>2
  <2>4. Via(p)[n] \in Int
    BY <1>7 DEF Tor
  <2> QED
    BY <2>3, <2>4
<1>10. ASSUME key \in DOMAIN ocs_table PROVE u \in Tor /\ Fits(OcsIn, i, OcsOut(u), q)
  <2>1. u \in Tor
    BY <1>10, OcsTyped
  <2> HIDE DEF key, u, now_late
  <2>2. /\ HopsDone(q) = n /\ Via(q) = Via(p) /\ OnHop(q, n)
    BY <1>3, <1>4, SamePacket
  <2>3. ~q.late => u = Via(q)[n]
    BY <1>3, <1>9, <2>2
  <2>4. Reaching(q, u)
    BY <2>2, <2>3 DEF Reaching
  <2>5. Placed(OcsOut(u), q)
    BY <1>1, <1>3, <2>4, Placements
  <2>6. Rank(OcsOut(u), q) = Rank(OcsIn, i) + 1
    BY <1>7, <2>2, Ranks
  <2>7. p.late => q.late
    BY <1>3 DEF now_late
  <2>8. Follows(OcsIn, i, OcsOut(u), q)
    BY <1>3, <2>6, <2>7, CarriedAre, FreshAre, Onwards
  <2> QED
    BY <1>3, <2>1, <2>5, <2>8, Elements DEF Fits
<1>11. key \notin DOMAIN ocs_table => q.late
  BY <1>3, <1>9
<1> QED
  BY <1>10, <1>11 DEF q

\* The threads of the OCS that send, and the ToR that receives.
LEMMA ArriveFits ==
    ASSUME Typed, NEW u \in Tor, NEW p \in Packet, Placed(OcsOut(u), p)
    PROVE  Fits(OcsOut(u), p, In(u), [p EXCEPT !.port = 1])
<1> DEFINE q == [p EXCEPT !.port = 1]
<1>1. p.id <= nb_sent /\ Reaching(p, u)
  BY Placements
<1>2. /\ q \in Packet /\ q.port = 1
      /\ q.id = p.id /\ q.src = p.src /\ q.dst = p.dst /\ q.arrival = p.arrival
      /\ q.path = p.path /\ q.hops = p.hops /\ q.late = p.late
  BY DEF Packet
<1> HIDE DEF q
<1>3. HopsDone(p) \in Int /\ p.path # << >>
  BY <1>1, HopNumber DEF Reaching
<1>4. Reaching(q, u) /\ HopsDone(q) = HopsDone(p)
  BY <1>1, <1>2, SamePacket DEF Reaching
<1>5. Placed(In(u), q)
  BY <1>1, <1>2, <1>4, Placements
<1>6. Rank(In(u), q) = Rank(OcsOut(u), p) + 1
  BY <1>2, <1>3, <1>4, Ranks
<1>7. Follows(OcsOut(u), p, In(u), q)
  BY <1>2, <1>6, CarriedAre, FreshAre, Onwards
<1> QED
  BY <1>2, <1>5, <1>7, Elements DEF Fits, q
\* The ingress thread of a ToR: the next hop of a packet with a route goes to
\* the calendar queue of its slice, a packet with no hop left to the host, and
\* one without a route to port 0.
Forwarded(t, p) ==
    LET hops == HopsAt(t, p)
    IN  [p EXCEPT !.path = IF p.port = 1 THEN @ ELSE SourceRoute(t, p),
                  !.hops = IF hops = << >> THEN << >> ELSE Tail(hops)]

\* A packet that goes on gets the hop with number n.
LEMMA GoesOn ==
    ASSUME Typed, NEW t \in Tor, NEW p \in Packet, NEW q \in Packet, NEW n,
           q.id = p.id, q.src = p.src, q.dst = p.dst, q.late = p.late,
           q.id <= nb_sent, OnHop(q, n), ~q.late => t = Via(q)[n - 1],
           \/ p.port = 1 /\ HopsDone(p) = n - 1 /\ p.path = q.path
           \/ p.port # 1 /\ n = 1
    PROVE  /\ q.path[n] \in Slice
           /\ Fits(In(t), p, Calendar(t, <<1, q.path[n]>>), q)
<1> DEFINE key == <<1, q.path[n]>>
<1>1. HopsDone(q) = n /\ n \in 1 .. Len(q.path) /\ q.path # << >>
  BY HopNumber
<1>2. q.path \in Seq(Slice)
  BY DEF Packet
<1>3. q.path[n] \in Slice /\ n \in Int
  BY <1>1, <1>2
<1>4. key[1] = 1 /\ key[2] = q.path[n]
  OBVIOUS
<1> HIDE DEF key
<1>5. Leaving(q, t, key[2])
  BY <1>1, <1>4 DEF Leaving
<1>6. Placed(Calendar(t, key), q)
  BY <1>4, <1>5, Placements
<1>7. Rank(Calendar(t, key), q) = 5 * n + 0
  BY <1>1, Ranks
<1>8. Rank(In(t), p) = 5 * (n - 1) + 4
  <2>1. CASE p.port = 1
    BY <2>1, Ranks
  <2>2. CASE p.port # 1
    BY <2>2, Ranks
  <2> QED
    BY <2>1, <2>2
<1>9. Rank(Calendar(t, key), q) = Rank(In(t), p) + 1
  BY <1>3, <1>7, <1>8
<1>10. Tracked(Calendar(t, key), q) => Tracked(In(t), p)
  BY <1>1, CarriedAre, FreshAre DEF Tracked
<1>11. Follows(In(t), p, Calendar(t, key), q)
  BY <1>9, <1>10, CarriedAre, FreshAre DEF Follows
<1> QED
  BY <1>3, <1>6, <1>11, Elements DEF Fits, key
\* A packet from the OCS with hops left.
LEMMA RelayFits ==
    ASSUME Typed, NEW t \in Tor, NEW p \in Packet, Placed(In(t), p), p.port = 1,
           HopsDone(p) < Len(p.path)
    PROVE  LET hops == HopsAt(t, p)
           IN  /\ hops # << >> /\ Head(hops).valid_flag = 1
               /\ Head(hops).send_slice \in Slice
               /\ Fits(In(t), p, Calendar(t, <<1, Head(hops).send_slice>>), Forwarded(t, p))
<1> DEFINE hops == HopsAt(t, p)
           q == Forwarded(t, p)
           i == HopsDone(p)
<1>1. p.id <= nb_sent /\ Reaching(p, t)
  BY Placements
<1>2. OnHop(p, i) /\ HasRoute(p) /\ p.hops = HopsLeft(p.path, i) /\ (~p.late => t = Via(p)[i])
  BY <1>1 DEF Reaching, OnHop
<1>3. i \in 1 .. Len(p.path) /\ p.path # << >>
  BY <1>2, HopNumber
<1>4. /\ Len(p.path) \in 1 .. ssrr_len - 1 /\ p.path \in Seq(Slice)
      /\ Leads(Via(p), p.src, p.path, p.dst)
  BY <1>2, RouteLeads
<1>5. Len(p.path) \in Nat
  BY <1>4
<1>6. hops = HopsLeft(p.path, i)
  BY <1>2, <1>3, <1>4, HeaderSkip DEF HopsAt
<1>7. i \in 0 .. Len(p.path) - 1 /\ i \in 0 .. Len(p.path) /\ i + 1 \in 0 .. Len(p.path)
      /\ i + 1 \in 1 .. Len(p.path) /\ (i + 1) - 1 = i
  <2>1. PICK m \in Nat : m = Len(p.path)
    BY <1>5
  <2>2. i \in 1 .. m /\ i < m
    BY <1>3, <2>1
  <2> HIDE DEF i
  <2> QED
    BY <2>1, <2>2
<1>8. /\ Head(hops) = Hop(1, p.path[i + 1])
      /\ Tail(hops) = HopsLeft(p.path, i + 1) /\ hops # << >>
  BY <1>4, <1>6, <1>7, HeaderTail, HeaderTyped
<1>9. HopsLeft(p.path, i + 1) \in Seq(HopSet)
  BY <1>4, <1>7, HeaderTyped
<1>10. Head(hops).valid_flag = 1 /\ Head(hops).send_slice = p.path[i + 1]
  BY <1>8 DEF Hop
<1> HIDE DEF hops
<1>11. q = [p EXCEPT !.path = p.path, !.hops = Tail(hops)]
  BY <1>8 DEF Forwarded, hops
<1> HIDE DEF q
<1>12. /\ q \in Packet /\ q.hops = HopsLeft(p.path, i + 1)
       /\ q.id = p.id /\ q.src = p.src /\ q.dst = p.dst /\ q.arrival = p.arrival
       /\ q.path = p.path /\ q.late = p.late
  BY <1>8, <1>9, <1>11 DEF Packet
<1>13. HasRoute(q) /\ Via(q) = Via(p)
  BY <1>2, <1>12 DEF HasRoute, RouteKey, Via
<1> HIDE DEF i
<1>14. OnHop(q, i + 1)
  BY <1>7, <1>12, <1>13 DEF OnHop
<1>15. ~q.late => t = Via(q)[(i + 1) - 1]
  BY <1>2, <1>7, <1>12, <1>13
<1>16. /\ q.path[i + 1] \in Slice
       /\ Fits(In(t), p, Calendar(t, <<1, q.path[i + 1]>>), q)
  BY <1>1, <1>7, <1>12, <1>14, <1>15, GoesOn DEF i
<1> QED
  BY <1>8, <1>10, <1>12, <1>16 DEF hops, q

\* A packet from the OCS with no hop left: the end marker takes it to the
\* host, at its destination when it was on time.
LEMMA HostFits ==
    ASSUME Typed, NEW t \in Tor, NEW p \in Packet, Placed(In(t), p), p.port = 1,
           HopsDone(p) >= Len(p.path)
    PROVE  LET hops == HopsAt(t, p)
           IN  /\ hops # << >> /\ Head(hops).valid_flag = 255
               /\ Fits(In(t), p, Normal(t), Forwarded(t, p))
<1> DEFINE hops == HopsAt(t, p)
           q == Forwarded(t, p)
           i == HopsDone(p)
<1>1. p.id <= nb_sent /\ Reaching(p, t)
  BY Placements
<1>2. OnHop(p, i) /\ HasRoute(p) /\ p.hops = HopsLeft(p.path, i) /\ (~p.late => t = Via(p)[i])
  BY <1>1 DEF Reaching, OnHop
<1>3. i \in 1 .. Len(p.path) /\ p.path # << >>
  BY <1>2, HopNumber
<1>4. /\ Len(p.path) \in 1 .. ssrr_len - 1 /\ p.path \in Seq(Slice)
      /\ Leads(Via(p), p.src, p.path, p.dst)
  BY <1>2, RouteLeads
<1>5. Len(p.path) \in Nat /\ i = Len(p.path) /\ ~(i < Len(p.path))
  BY <1>3, <1>4
<1>6. hops = <<Hop(255, -1)>>
  BY <1>2, <1>3, <1>4, <1>5, HeaderSkip DEF HopsAt
<1>7. hops # << >> /\ Head(hops).valid_flag = 255 /\ Tail(hops) = << >>
  BY <1>6 DEF Hop
<1> HIDE DEF hops
<1>8. q = [p EXCEPT !.path = p.path, !.hops = << >>]
  BY <1>7 DEF Forwarded, hops
<1> HIDE DEF q
<1>9. /\ q \in Packet /\ q.hops = << >>
      /\ q.id = p.id /\ q.src = p.src /\ q.dst = p.dst /\ q.arrival = p.arrival
      /\ q.path = p.path /\ q.late = p.late
  <2>0. << >> \in Seq(HopSet)
    OBVIOUS
  <2>1. PICK h : h = << >> /\ h \in Seq(HopSet)
    BY <2>0
  <2>2. q = [p EXCEPT !.path = p.path, !.hops = h]
    BY <1>8, <2>1
  <2> QED
    BY <2>1, <2>2 DEF Packet
<1>10. HasRoute(q)
  BY <1>2, <1>9 DEF HasRoute, RouteKey
<1>11. ~q.late => t = q.dst
  BY <1>2, <1>4, <1>5, <1>9 DEF Leads
<1>12. Done(q, t)
  BY <1>9, <1>10, <1>11 DEF Done
<1>13. HopsDone(q) = Len(p.path) + 1
  BY <1>9, <1>12, DoneNumber
<1>14. Placed(Normal(t), q)
  BY <1>1, <1>9, <1>12, Placements
<1>15. Rank(Normal(t), q) = Rank(In(t), p) + 1
  BY <1>5, <1>13, Ranks
<1>16. Follows(In(t), p, Normal(t), q)
  BY <1>9, <1>15, CarriedAre, FreshAre, Onwards
<1> QED
  BY <1>7, <1>9, <1>14, <1>16, Elements DEF Fits, hops, q
\* A packet from a host with a route.
LEMMA FirstFits ==
    ASSUME Typed, NEW t \in Tor, NEW p \in Packet, Placed(In(t), p), p.port # 1,
           SourceRoute(t, p) # << >>
    PROVE  LET hops == HopsAt(t, p)
           IN  /\ hops # << >> /\ Head(hops).valid_flag = 1
               /\ Head(hops).send_slice \in Slice
               /\ Fits(In(t), p, Calendar(t, <<1, Head(hops).send_slice>>), Forwarded(t, p))
<1> DEFINE hops == HopsAt(t, p)
           q == Forwarded(t, p)
<1>1. p.id <= nb_sent /\ Fresh(p, t)
  BY Placements
<1>2. PICK path : path = SourceRoute(t, p)
  OBVIOUS
<1>3. RouteKey(p) = <<t, p.dst, p.arrival>>
  BY <1>1 DEF RouteKey, Fresh
<1>4. RouteKey(p) \in DOMAIN paths /\ path = paths[RouteKey(p)]
  BY <1>2, <1>3 DEF SourceRoute
<1>5. Len(path) \in 1 .. ssrr_len - 1 /\ path \in Seq(Slice)
  BY <1>4, PathsAssumption DEF Typed
<1>6. Len(path) \in 1 .. 5
  BY <1>5 DEF ssrr_len
<1>7. 0 \in 0 .. Len(path) - 1 /\ 0 \in 0 .. Len(path) /\ 1 \in 0 .. Len(path)
      /\ 1 \in 1 .. Len(path) /\ 0 + 1 = 1
  <2>1. PICK m \in 1 .. 5 : m = Len(path)
    BY <1>6
  <2> QED
    BY <2>1
<1>8. hops = HopsLeft(path, 0)
  BY <1>2, <1>5, HeaderHops DEF HopsAt
<1>9. /\ Head(hops) = Hop(1, path[1])
      /\ Tail(hops) = HopsLeft(path, 1) /\ hops # << >>
      /\ HopsLeft(path, 1) \in Seq(HopSet)
  BY <1>5, <1>7, <1>8, HeaderTail, HeaderTyped
<1>10. Head(hops).valid_flag = 1 /\ Head(hops).send_slice = path[1]
  BY <1>9 DEF Hop
<1> HIDE DEF hops
<1>11. q = [p EXCEPT !.path = path, !.hops = Tail(hops)]
  BY <1>2, <1>9 DEF Forwarded, hops
<1> HIDE DEF q
<1>12. /\ q \in Packet /\ q.hops = HopsLeft(path, 1)
       /\ q.id = p.id /\ q.src = p.src /\ q.dst = p.dst /\ q.arrival = p.arrival
       /\ q.path = path /\ q.late = p.late
  BY <1>5, <1>9, <1>11 DEF Packet
<1>13. HasRoute(q)
  BY <1>4, <1>12 DEF HasRoute, RouteKey
<1>14. OnHop(q, 1)
  BY <1>7, <1>12, <1>13 DEF OnHop
<1>15. Via(q)[0] = t
  BY <1>1, <1>12, <1>13, RouteLeads DEF Leads, Fresh
<1>16. /\ q.path[1] \in Slice
       /\ Fits(In(t), p, Calendar(t, <<1, q.path[1]>>), q)
  <2>1. ~q.late => t = Via(q)[1 - 1]
    BY <1>15
  <2> QED
    BY <1>1, <1>12, <1>14, <2>1, GoesOn
<1> QED
  BY <1>9, <1>10, <1>12, <1>16 DEF hops, q

\* A packet from a host without a route.
LEMMA UnroutedFits ==
    ASSUME Typed, NEW t \in Tor, NEW p \in Packet, Placed(In(t), p), p.port # 1,
           SourceRoute(t, p) = << >>
    PROVE  /\ HopsAt(t, p) = << >>
           /\ Fits(In(t), p, Calendar(t, <<0, 0>>), Forwarded(t, p))
<1> DEFINE q == Forwarded(t, p)
           key == <<0, 0>>
<1>1. p.id <= nb_sent /\ Fresh(p, t)
  BY Placements
<1>2. HopsAt(t, p) = << >>
  BY DEF HopsAt
<1>3. q = [p EXCEPT !.path = << >>, !.hops = << >>]
  BY <1>2 DEF Forwarded
<1> HIDE DEF q
<1>4. /\ q \in Packet /\ q.path = << >> /\ q.port = p.port
      /\ q.id = p.id /\ q.src = p.src /\ q.dst = p.dst /\ q.arrival = p.arrival
  <2>0. << >> \in Seq(HopSet) /\ << >> \in Seq(Slice)
    OBVIOUS
  <2>1. PICK h : h = << >> /\ h \in Seq(HopSet) /\ h \in Seq(Slice)
    BY <2>0
  <2>2. q = [p EXCEPT !.path = h, !.hops = h]
    BY <1>3, <2>1
  <2> QED
    BY <2>1, <2>2 DEF Packet
<1>5. p.port = 2 => RouteKey(p) \notin DOMAIN paths
  <2> SUFFICES ASSUME p.port = 2, RouteKey(p) \in DOMAIN paths PROVE FALSE
    OBVIOUS
  <2>1. RouteKey(p) = <<t, p.dst, p.arrival>>
    BY <1>1 DEF RouteKey, Fresh
  <2>2. paths[RouteKey(p)] = << >>
    BY <2>1 DEF SourceRoute
  <2>3. Len(paths[RouteKey(p)]) \in 1 .. ssrr_len - 1
    BY PathsAssumption DEF Typed
  <2>4. Len(<< >>) \in 1 .. 5
    BY <2>2, <2>3 DEF ssrr_len
  <2> QED
    BY <2>4
<1>6. Unroutable(q)
  BY <1>1, <1>4, <1>5 DEF Unroutable, Fresh, RouteKey
<1>7. key[1] # 1
  OBVIOUS
<1> HIDE DEF key
<1>8. Placed(Calendar(t, key), q)
  BY <1>1, <1>4, <1>6, <1>7, Placements
<1>9. ~Tracked(Calendar(t, key), q)
  BY <1>4, CarriedAre, FreshAre DEF Tracked
<1>10. Follows(In(t), p, Calendar(t, key), q)
  BY <1>4, <1>9, CarriedAre, FreshAre DEF Follows
<1> QED
  BY <1>2, <1>4, <1>8, <1>10, Elements DEF Fits, key, q
----------------------------------------------------------------------------
(* A tracked packet of some rank can only be in one line.                  *)

\* The line a packet with i hops done is in, at an offset.
Spot(p, i, offset) ==
    CASE i = 0 -> In(p.src)
      [] i \in 1 .. Len(p.path) /\ offset = 0 -> Calendar(Via(p)[i - 1], <<1, p.path[i]>>)
      [] i \in 1 .. Len(p.path) /\ offset = 1 -> Out(Via(p)[i - 1])
      [] i \in 1 .. Len(p.path) /\ offset = 2 -> OcsIn
      [] i \in 1 .. Len(p.path) /\ offset = 3 -> OcsOut(Via(p)[i])
      [] i \in 1 .. Len(p.path) /\ offset = 4 -> In(Via(p)[i])
      [] i = Len(p.path) + 1 /\ offset = 0 -> Normal(p.dst)
      [] i = Len(p.path) + 1 /\ offset = 1 -> Out(p.dst)
      [] OTHER -> Delivered(p.dst)

\* The lines of hop i of a path, in the order of their offsets.
LEMMA SpotOnHop ==
    ASSUME NEW p, Len(p.path) \in Nat, NEW i \in 1 .. Len(p.path)
    PROVE  /\ Spot(p, i, 0) = Calendar(Via(p)[i - 1], <<1, p.path[i]>>)
           /\ Spot(p, i, 1) = Out(Via(p)[i - 1])
           /\ Spot(p, i, 2) = OcsIn
           /\ Spot(p, i, 3) = OcsOut(Via(p)[i])
           /\ Spot(p, i, 4) = In(Via(p)[i])
<1>1. i # 0 /\ i # Len(p.path) + 1
  OBVIOUS
<1> QED
  BY <1>1 DEF Spot

\* The lines after the last hop.
LEMMA SpotDone ==
    ASSUME NEW p, Len(p.path) \in Nat, NEW i, i = Len(p.path) + 1
    PROVE  /\ Spot(p, i, 0) = Normal(p.dst)
           /\ Spot(p, i, 1) = Out(p.dst)
           /\ Spot(p, i, 2) = Delivered(p.dst)
<1>1. i # 0 /\ i \notin 1 .. Len(p.path)
  OBVIOUS
<1> QED
  BY <1>1 DEF Spot

\* The facts a hop says of a packet on time.
LEMMA LeavingSpot ==
    ASSUME Typed, NEW p \in Packet, ~p.late, NEW t, NEW s, Leaving(p, t, s)
    PROVE  /\ Len(p.path) \in Nat /\ HopsDone(p) \in 1 .. Len(p.path)
           /\ t = Via(p)[HopsDone(p) - 1] /\ s = p.path[HopsDone(p)]
<1>1. OnHop(p, HopsDone(p)) /\ t = Via(p)[HopsDone(p) - 1] /\ s = p.path[HopsDone(p)]
  BY DEF Leaving
<1> QED
  BY <1>1, HopNumber DEF Packet

\* The same of a packet the OCS has switched.
LEMMA ReachingSpot ==
    ASSUME Typed, NEW p \in Packet, ~p.late, NEW u, Reaching(p, u)
    PROVE  /\ Len(p.path) \in Nat /\ HopsDone(p) \in 1 .. Len(p.path)
           /\ u = Via(p)[HopsDone(p)]
<1>1. OnHop(p, HopsDone(p)) /\ u = Via(p)[HopsDone(p)]
  BY DEF Reaching
<1> QED
  BY <1>1, HopNumber DEF Packet

\* The same of a packet at its last ToR.
LEMMA DoneSpot ==
    ASSUME Typed, NEW p \in Packet, ~p.late, NEW t, Done(p, t)
    PROVE  Len(p.path) \in Nat /\ HopsDone(p) = Len(p.path) + 1 /\ t = p.dst
BY DoneNumber DEF Done, Packet

\* A rank has one hop number and one offset.
LEMMA Digits ==
    \A i, j \in Nat : \A o, n \in 0 .. 4 : 5 * i + o = 5 * j + n => i = j /\ o = n
OBVIOUS

\* A tracked packet is in the line of its rank.
LEMMA Spotted ==
    ASSUME Typed, NEW k \in Line, NEW e \in Element(k), Placed(k, e), Tracked(k, e)
    PROVE  \E i \in Nat, offset \in 0 .. 4 :
             k = Spot(Carried(k, e), i, offset) /\ Rank(k, e) = 5 * i + offset
<1> DEFINE At(p) == \E i \in Nat, offset \in 0 .. 4 :
                      k = Spot(p, i, offset) /\ Rank(k, e) = 5 * i + offset
<1>0. ~Carried(k, e).late /\ (IsFresh(k, e) \/ Carried(k, e).path # << >>)
  BY DEF Tracked
<1>1. ASSUME NEW t \in Tor, k = In(t) PROVE At(e)
  <2>1. e \in Packet /\ ~e.late
    BY <1>0, <1>1, CarriedAre, Elements
  <2>2. CASE e.port = 1
    <3>1. Reaching(e, t)
      BY <1>1, <2>2, Placements
    <3>2. /\ Len(e.path) \in Nat /\ HopsDone(e) \in 1 .. Len(e.path)
          /\ t = Via(e)[HopsDone(e)]
      BY <2>1, <3>1, ReachingSpot
    <3>3. Rank(k, e) = 5 * HopsDone(e) + 4
      BY <1>1, <2>2, Ranks
    <3>4. HopsDone(e) \in Nat
      BY <3>2
    <3>5. Spot(e, HopsDone(e), 4) = In(Via(e)[HopsDone(e)])
      BY <3>2, SpotOnHop
    <3>6. k = Spot(e, HopsDone(e), 4)
      BY <1>1, <3>2, <3>5
    <3> QED
      BY <3>3, <3>4, <3>6
  <2>3. CASE e.port # 1
    <3>1. Fresh(e, t)
      BY <1>1, <2>3, Placements
    <3>2. Rank(k, e) = 5 * 0 + 4
      BY <1>1, <2>3, Ranks
    <3>3. k = Spot(e, 0, 4)
      BY <1>1, <3>1 DEF Spot, Fresh
    <3> QED
      BY <3>2, <3>3
  <2> QED
    BY <2>2, <2>3
<1>2. ASSUME NEW t \in Tor, NEW key \in CalendarKey, k = Calendar(t, key)
      PROVE  At(e)
  <2>1. e \in Packet /\ ~e.late /\ e.path # << >>
    BY <1>0, <1>2, CarriedAre, FreshAre, Elements
  <2>2. key[1] = 1 /\ Leaving(e, t, key[2])
    BY <1>2, <2>1, Placements DEF Unroutable
  <2>3. /\ Len(e.path) \in Nat /\ HopsDone(e) \in 1 .. Len(e.path)
        /\ t = Via(e)[HopsDone(e) - 1] /\ key[2] = e.path[HopsDone(e)]
    BY <2>1, <2>2, LeavingSpot
  <2>4. Rank(k, e) = 5 * HopsDone(e) + 0
    BY <1>2, Ranks
  <2>5. key = <<1, e.path[HopsDone(e)]>>
    BY <2>2, <2>3 DEF CalendarKey
  <2> QED
    BY <1>2, <2>3, <2>4, <2>5, SpotOnHop
<1>3. ASSUME NEW t \in Tor, k \in {Normal(t), Delivered(t)}
      PROVE  At(e)
  <2>1. e \in Packet /\ ~e.late /\ Done(e, t)
    BY <1>0, <1>3, CarriedAre, Elements, Placements
  <2>2. Len(e.path) \in Nat /\ HopsDone(e) = Len(e.path) + 1 /\ t = e.dst
    BY <2>1, DoneSpot
  <2>3. CASE k = Normal(t)
    BY <2>2, <2>3, Ranks, SpotDone
  <2>4. CASE k = Delivered(t)
    BY <2>2, <2>4, Ranks, SpotDone
  <2> QED
    BY <1>3, <2>3, <2>4
<1>4. ASSUME NEW t \in Tor, k = Out(t)
      PROVE  At(e.pkt)
  <2>0. e \in OutElement /\ Carried(k, e) = e.pkt /\ ~IsFresh(k, e) /\ InOut(e, t)
    BY <1>4, CarriedAre, FreshAre, Elements, Placements
  <2>1. /\ e.pkt \in Packet /\ e.port \in {0, 1, 2} /\ ~e.pkt.late /\ e.pkt.path # << >>
        /\ InOut(e, t)
    BY <1>0, <2>0 DEF OutElement
  <2>2. Rank(k, e) = 5 * HopsDone(e.pkt) + 1
    BY <1>4, Ranks
  <2>3. CASE e.port = 1
    <3>1. /\ Len(e.pkt.path) \in Nat /\ HopsDone(e.pkt) \in 1 .. Len(e.pkt.path)
          /\ t = Via(e.pkt)[HopsDone(e.pkt) - 1]
      BY <2>1, <2>3, LeavingSpot DEF InOut
    <3>2. HopsDone(e.pkt) \in Nat
      BY <3>1
    <3>3. Spot(e.pkt, HopsDone(e.pkt), 1) = Out(Via(e.pkt)[HopsDone(e.pkt) - 1])
      BY <3>1, SpotOnHop
    <3>4. k = Spot(e.pkt, HopsDone(e.pkt), 1)
      BY <1>4, <3>1, <3>3
    <3> QED
      BY <2>2, <3>2, <3>4
  <2>4. CASE e.port = 2
    <3>1. /\ Len(e.pkt.path) \in Nat /\ HopsDone(e.pkt) = Len(e.pkt.path) + 1
          /\ t = e.pkt.dst
      BY <2>1, <2>4, DoneSpot DEF InOut
    <3> QED
      BY <1>4, <2>2, <3>1, SpotDone
  <2>5. e.port # 0
    BY <2>1 DEF InOut, Unroutable
  <2> QED
    BY <2>1, <2>3, <2>4, <2>5
<1>5. ASSUME k = OcsIn PROVE At(e.pkt)
  <2>0. /\ e \in InElement /\ Carried(k, e) = e.pkt
        /\ Leaving(e.pkt, e.in - 1, e.pkt.slice)
    BY <1>5, CarriedAre, Elements, Placements
  <2>1. e.pkt \in Packet /\ ~e.pkt.late /\ Leaving(e.pkt, e.in - 1, e.pkt.slice)
    BY <1>0, <2>0 DEF InElement
  <2>2. Len(e.pkt.path) \in Nat /\ HopsDone(e.pkt) \in 1 .. Len(e.pkt.path)
    BY <2>1, LeavingSpot
  <2>3. Rank(k, e) = 5 * HopsDone(e.pkt) + 2
    BY <1>5, Ranks
  <2>4. HopsDone(e.pkt) \in Nat
    BY <2>2
  <2>5. k = Spot(e.pkt, HopsDone(e.pkt), 2)
    BY <1>5, <2>2, SpotOnHop
  <2> QED
    BY <2>3, <2>4, <2>5
<1>6. ASSUME NEW u \in Tor, k = OcsOut(u)
      PROVE  At(e)
  <2>1. e \in Packet /\ ~e.late /\ Reaching(e, u)
    BY <1>0, <1>6, CarriedAre, Elements, Placements
  <2>2. /\ Len(e.path) \in Nat /\ HopsDone(e) \in 1 .. Len(e.path)
        /\ u = Via(e)[HopsDone(e)]
    BY <2>1, ReachingSpot
  <2>3. Rank(k, e) = 5 * HopsDone(e) + 3
    BY <1>6, Ranks
  <2>4. HopsDone(e) \in Nat
    BY <2>2
  <2>5. Spot(e, HopsDone(e), 3) = OcsOut(Via(e)[HopsDone(e)])
    BY <2>2, SpotOnHop
  <2>6. k = Spot(e, HopsDone(e), 3)
    BY <1>6, <2>2, <2>5
  <2> QED
    BY <2>3, <2>4, <2>6
<1> QED
  BY <1>1, <1>2, <1>3, <1>4, <1>5, <1>6, Kinds, CarriedAre

\* Two packets of a flow with one path and one rank are in one line.
LEMMA SameLine ==
    ASSUME Typed, NEW k \in Line, NEW e \in Element(k), NEW l \in Line, NEW f \in Element(l),
           Placed(k, e), Placed(l, f), Tracked(k, e), Tracked(l, f), Alike(k, e, l, f),
           Rank(k, e) = Rank(l, f)
    PROVE  k = l
<1> DEFINE p == Carried(k, e)
           q == Carried(l, f)
<1>1. PICK i \in Nat, o \in 0 .. 4 : k = Spot(p, i, o) /\ Rank(k, e) = 5 * i + o
  BY Spotted
<1>2. PICK j \in Nat, n \in 0 .. 4 : l = Spot(q, j, n) /\ Rank(l, f) = 5 * j + n
  BY Spotted
<1>3. i = j /\ o = n
  BY <1>1, <1>2, Digits
<1>4. p.src = q.src /\ p.dst = q.dst
  BY DEF Alike
<1>5. CASE IsFresh(k, e) \/ IsFresh(l, f)
  <2>1. Rank(k, e) = 4
    BY <1>5 DEF Rank
  <2>2. i = 0
    BY <1>1, <2>1
  <2> HIDE DEF p, q
  <2> QED
    BY <1>1, <1>2, <1>3, <1>4, <2>2 DEF Spot
<1>6. CASE p.path = q.path
  <2>1. Via(p) = Via(q)
    BY <1>4, <1>6 DEF Via
  <2> HIDE DEF p, q
  <2>2. Spot(p, i, o) = Spot(q, i, o)
    BY <1>4, <1>6, <2>1 DEF Spot
  <2> QED
    BY <1>1, <1>2, <1>3, <2>2
<1> QED
  BY <1>5, <1>6 DEF Alike
----------------------------------------------------------------------------
(* What a step between lines preserves.                                    *)

\* What is said of an element stays true of it.
LEMMA PlacedStays ==
    ASSUME Typed, UNCHANGED paths, nb_sent' \in Nat, nb_sent <= nb_sent',
           NEW k \in Line, NEW e \in Element(k), Placed(k, e)
    PROVE  Placed(k, e)'
<1>1. Carried(k, e).id \in Nat /\ nb_sent \in Nat
  BY CarriedTyped DEF Typed, Packet
<1>2. /\ \A p, t, s : Leaving(p, t, s)' <=> Leaving(p, t, s)
      /\ \A p, u : Reaching(p, u)' <=> Reaching(p, u)
      /\ \A p, t : Done(p, t)' <=> Done(p, t)
      /\ \A p : Unroutable(p)' <=> Unroutable(p)
  BY DEF Leaving, Reaching, Done, Unroutable, OnHop, HasRoute
<1>3. \A o, t : InOut(o, t)' <=> InOut(o, t)
  BY <1>2 DEF InOut
<1>4. Carried(k, e).id <= nb_sent'
  BY <1>1 DEF Placed
<1> QED
  BY <1>2, <1>3, <1>4 DEF Placed

\* The elements that stay when the first leaves.
LEMMA TailAt ==
    ASSUME NEW S, NEW s \in Seq(S), s # << >>
    PROVE  \A n \in DOMAIN Tail(s) :
             n \in Int /\ n + 1 \in DOMAIN s /\ n + 1 # 1 /\ Tail(s)[n] = s[n + 1]
OBVIOUS

\* The first element.
LEMMA HeadAt ==
    ASSUME NEW S, NEW s \in Seq(S), s # << >>
    PROVE  1 \in DOMAIN s /\ s[1] = Head(s) /\ Head(s) \in S
OBVIOUS

\* The elements when one is added.
LEMMA AppendAt ==
    ASSUME NEW S, NEW s \in Seq(S), NEW f
    PROVE  /\ Len(s) \in Nat
           /\ \A n \in DOMAIN Append(s, f) :
                \/ n \in DOMAIN s /\ n \in Int /\ n <= Len(s) /\ Append(s, f)[n] = s[n]
                \/ n = Len(s) + 1 /\ Append(s, f)[n] = f
OBVIOUS

\* Where an element of a line was before the head of line k left.
LEMMA LosesFrom ==
    ASSUME Typed, NEW k \in Line, Loses(k), NEW j \in Line, NEW n \in DOMAIN Content(j)'
    PROVE  /\ n \in Int
           /\ (IF j = k THEN n + 1 ELSE n) \in DOMAIN Content(j)
           /\ Content(j)'[n] = Content(j)[IF j = k THEN n + 1 ELSE n]
<1>1. Content(j) \in Seq(Element(j))
  BY ContentTyped
<1>2. CASE j = k
  <2>1. PICK s : s = Content(j)
    OBVIOUS
  <2>2. Content(j)' = Tail(s) /\ s \in Seq(Element(j)) /\ s # << >>
    BY <1>1, <1>2, <2>1 DEF Loses
  <2> QED
    BY <1>2, <2>1, <2>2, TailAt
<1>3. CASE j # k
  <2>1. Content(j)' = Content(j)
    BY <1>3 DEF Loses, Kept
  <2>2. DOMAIN Content(j) \subseteq Int
    BY <1>1
  <2> QED
    BY <1>3, <2>1, <2>2
<1> QED
  BY <1>2, <1>3

\* A loss leaves every packet in its place,
LEMMA LosesKeepPlaces ==
    ASSUME Typed, Places, UNCHANGED <<paths, nb_sent>>, NEW k \in Line, Loses(k)
    PROVE  Places'
<1> SUFFICES ASSUME NEW j \in Line, NEW n \in DOMAIN Content(j)'
             PROVE  Placed(j, Content(j)[n])'
  BY DEF Places
<1>1. PICK m \in DOMAIN Content(j) : Content(j)'[n] = Content(j)[m]
  BY LosesFrom
<1>2. PICK e : e = Content(j)[m]
  OBVIOUS
<1>3. e \in Element(j) /\ Placed(j, e)
  BY <1>2, ContentTyped DEF Places
<1>4. Placed(j, e)'
  <2>1. nb_sent' \in Nat /\ nb_sent <= nb_sent'
    BY DEF Typed
  <2> QED
    BY <1>3, <2>1, PlacedStays
<1> QED
  BY <1>1, <1>2, <1>4

\* and in order.
LEMMA LosesKeepOrder ==
    ASSUME Typed, Ordered, NEW k \in Line, Loses(k)
    PROVE  Ordered'
<1> SUFFICES ASSUME NEW j \in Line, NEW l \in Line, NEW m \in DOMAIN Content(j)',
                    NEW n \in DOMAIN Content(l)'
             PROVE  InOrder(j, Content(j)'[m], m, l, Content(l)'[n], n)
  BY DEF Ordered, InOrder, Further, Tracked, Alike, Rank, IsFresh, Carried, Offset
<1>1. PICK a \in DOMAIN Content(j) :
        Content(j)'[m] = Content(j)[a] /\ a = (IF j = k THEN m + 1 ELSE m) /\ m \in Int
  BY LosesFrom
<1>2. PICK b \in DOMAIN Content(l) :
        Content(l)'[n] = Content(l)[b] /\ b = (IF l = k THEN n + 1 ELSE n) /\ n \in Int
  BY LosesFrom
<1>3. InOrder(j, Content(j)[a], a, l, Content(l)[b], b)
  BY DEF Ordered
<1>4. j = l /\ m < n => a < b
  BY <1>1, <1>2
<1> QED
  BY <1>1, <1>2, <1>3, <1>4 DEF InOrder, Further
\* The same when the head of line k passes to line l: an element is the new
\* one, or was there before.
WasAt(k, j, n, m) ==
    /\ n \in Int /\ m \in DOMAIN Content(j)
    /\ Content(j)'[n] = Content(j)[m]
    /\ m = IF j = k THEN n + 1 ELSE n

\* Every element after a pass is the new one, or was there before.
LEMMA PassesFrom ==
    ASSUME Typed, NEW k \in Line, NEW l \in Line, NEW f \in Element(l), Passes(k, l, f),
           NEW j \in Line, NEW n \in DOMAIN Content(j)'
    PROVE  /\ Len(Content(l)) \in Nat
           /\ \/ /\ j = l /\ n = Len(Content(l)) + 1 /\ Content(j)'[n] = f
              \/ /\ WasAt(k, j, n, IF j = k THEN n + 1 ELSE n)
                 /\ j = l => n < Len(Content(l)) + 1
<1>1. Content(j) \in Seq(Element(j)) /\ Len(Content(l)) \in Nat /\ k # l
  BY ContentTyped DEF Passes
<1>2. CASE j = k
  <2>1. PICK s : s = Content(j)
    OBVIOUS
  <2>2. Content(j)' = Tail(s) /\ s \in Seq(Element(j)) /\ s # << >>
    BY <1>1, <1>2, <2>1 DEF Passes
  <2>3. n \in Int /\ n + 1 \in DOMAIN Content(j) /\ Content(j)'[n] = Content(j)[n + 1]
    BY <2>1, <2>2, TailAt
  <2> QED
    BY <1>1, <1>2, <2>3 DEF WasAt
<1>3. CASE j = l
  <2>1. PICK s : s = Content(j)
    OBVIOUS
  <2>2. Content(j)' = Append(s, f) /\ s \in Seq(Element(j))
    BY <1>1, <1>3, <2>1 DEF Passes
  <2>3. \/ n \in DOMAIN s /\ n \in Int /\ n <= Len(s) /\ Content(j)'[n] = s[n]
        \/ n = Len(s) + 1 /\ Content(j)'[n] = f
    BY <2>2, AppendAt
  <2> QED
    BY <1>1, <1>3, <2>1, <2>3 DEF WasAt
<1>4. CASE j # k /\ j # l
  <2>1. Content(j)' = Content(j)
    BY <1>4 DEF Passes, Kept
  <2>2. DOMAIN Content(j) \subseteq Int
    BY <1>1
  <2> QED
    BY <1>1, <1>4, <2>1, <2>2 DEF WasAt
<1> QED
  BY <1>2, <1>3, <1>4

\* A packet that passes to a line where it may be leaves all in their places.
LEMMA PassesKeepPlaces ==
    ASSUME Typed, Places, UNCHANGED <<paths, nb_sent>>,
           NEW k \in Line, NEW l \in Line, NEW f \in Element(l), Passes(k, l, f), Placed(l, f)
    PROVE  Places'
<1> SUFFICES ASSUME NEW j \in Line, NEW n \in DOMAIN Content(j)'
             PROVE  Placed(j, Content(j)[n])'
  BY DEF Places
<1>0. nb_sent' \in Nat /\ nb_sent <= nb_sent'
  BY DEF Typed
<1>1. CASE j = l /\ Content(j)'[n] = f
  <2>1. Placed(l, f)'
    BY <1>0, PlacedStays
  <2> QED
    BY <1>1, <2>1
<1>2. CASE \E m \in DOMAIN Content(j) : Content(j)'[n] = Content(j)[m]
  <2>1. PICK m \in DOMAIN Content(j) : Content(j)'[n] = Content(j)[m]
    BY <1>2
  <2>2. PICK e : e = Content(j)[m]
    OBVIOUS
  <2>3. e \in Element(j) /\ Placed(j, e)
    BY <2>2, ContentTyped DEF Places
  <2>4. Placed(j, e)'
    BY <1>0, <2>3, PlacedStays
  <2> QED
    BY <2>1, <2>2, <2>4
<1> QED
  BY <1>1, <1>2, PassesFrom DEF WasAt

\* The packet that passes on stays in order with every other.
LEMMA PassesKeepOrder ==
    ASSUME Typed, Places, Ordered,
           NEW k \in Line, NEW l \in Line, NEW f \in Element(l), Passes(k, l, f),
           Follows(k, Head(Content(k)), l, f)
    PROVE  Ordered'
<1> DEFINE last == Len(Content(l)) + 1
<1>1. PICK e : e = Content(k)[1]
  OBVIOUS
<1>2. /\ 1 \in DOMAIN Content(k) /\ e = Head(Content(k)) /\ e \in Element(k)
      /\ Placed(k, e)
  <2>1. PICK s : s = Content(k)
    OBVIOUS
  <2>2. s \in Seq(Element(k)) /\ s # << >>
    BY <2>1, ContentTyped DEF Passes
  <2>3. 1 \in DOMAIN s /\ s[1] = Head(s) /\ Head(s) \in Element(k)
    BY <2>2, HeadAt
  <2> QED
    BY <1>1, <2>1, <2>3 DEF Places
<1>3. Follows(k, e, l, f) /\ k # l
  BY <1>2 DEF Passes
<1>4. ASSUME Tracked(l, f)
      PROVE  /\ Tracked(k, e) /\ Rank(l, f) = Rank(k, e) + 1 /\ Rank(k, e) \in Int
             /\ Carried(l, f).id = Carried(k, e).id
             /\ \A j, g : Alike(j, g, l, f) => Alike(j, g, k, e)
             /\ \A j, g : Alike(l, f, j, g) => Alike(k, e, j, g)
  <2>1. Tracked(k, e) /\ Rank(l, f) = Rank(k, e) + 1
    BY <1>3, <1>4 DEF Follows
  <2>2. PICK i \in Nat, o \in 0 .. 4 : Rank(k, e) = 5 * i + o
    BY <1>2, <2>1, Spotted
  <2>3. Rank(k, e) \in Int /\ Rank(k, e) >= 0
    BY <2>2
  <2> QED
    BY <1>3, <1>4, <2>1, <2>3 DEF Follows, Alike
<1> SUFFICES ASSUME NEW j \in Line, NEW h \in Line, NEW m \in DOMAIN Content(j)',
                    NEW n \in DOMAIN Content(h)'
             PROVE  InOrder(j, Content(j)'[m], m, h, Content(h)'[n], n)
  BY DEF Ordered, InOrder, Further, Tracked, Alike, Rank, IsFresh, Carried, Offset
<1> DEFINE a == IF j = k THEN m + 1 ELSE m
           b == IF h = k THEN n + 1 ELSE n
           x == Content(j)'[m]
           y == Content(h)'[n]
<1>5. /\ last \in Nat
      /\ \/ j = l /\ m = last /\ x = f
         \/ WasAt(k, j, m, a) /\ (j = l => m < last)
  BY PassesFrom
<1>6. \/ h = l /\ n = last /\ y = f
      \/ WasAt(k, h, n, b) /\ (h = l => n < last)
  BY PassesFrom
<1>7. CASE WasAt(k, j, m, a) /\ WasAt(k, h, n, b)
  <2>1. InOrder(j, Content(j)[a], a, h, Content(h)[b], b)
    BY <1>7 DEF Ordered, WasAt
  <2>2. j = h /\ m < n => a < b
    BY <1>7 DEF WasAt
  <2>3. x = Content(j)[a] /\ y = Content(h)[b]
    BY <1>7 DEF WasAt
  <2>4. InOrder(j, x, a, h, y, b)
    BY <2>1, <2>3
  <2>5. InOrder(j, x, m, h, y, n)
    <3> HIDE DEF a, b, x, y
    <3> QED
      BY <2>2, <2>4 DEF InOrder, Further
  <2> QED
    BY <2>5
<1>8. CASE j = l /\ m = last /\ x = f /\ WasAt(k, h, n, b) /\ (h = l => n < last)
  <2>0. PICK g : g = Content(h)[b]
    OBVIOUS
  <2>1. g = y /\ b \in DOMAIN Content(h) /\ g \in Element(h) /\ Placed(h, g)
    BY <1>8, <2>0, ContentTyped DEF WasAt, Places
  <2> SUFFICES ASSUME Tracked(l, f), Tracked(h, g), Alike(l, f, h, g),
                      Further(l, f, last, h, g, n)
               PROVE  Carried(l, f).id < Carried(h, g).id
    BY <1>8, <2>1 DEF InOrder
  <2>2. /\ Tracked(k, e) /\ Rank(l, f) = Rank(k, e) + 1 /\ Rank(k, e) \in Int
        /\ Carried(l, f).id = Carried(k, e).id /\ Alike(k, e, h, g)
    BY <1>4
  <2>3. Rank(h, g) \in Int
    <3>1. PICK i \in Nat, o \in 0 .. 4 : Rank(h, g) = 5 * i + o
      BY <2>1, Spotted
    <3> QED
      BY <3>1
  <2>4. ~(l = h /\ last < n)
    BY <1>5, <1>8 DEF WasAt
  <2>5. Rank(l, f) > Rank(h, g)
    BY <2>4 DEF Further
  <2>6. Rank(k, e) > Rank(h, g) \/ Rank(k, e) = Rank(h, g)
    BY <2>2, <2>3, <2>5
  <2>7. Rank(k, e) = Rank(h, g) => h = k
    BY <1>2, <2>1, <2>2, SameLine
  <2>8. h = k => 1 < b
    <3> SUFFICES ASSUME h = k PROVE 1 < b
      OBVIOUS
    <3>1. n \in Int /\ n + 1 \in DOMAIN Content(k) /\ b = n + 1
      BY <1>8 DEF WasAt
    <3>2. n \in DOMAIN Tail(Content(k))
      BY DEF Passes
    <3>3. n >= 1
      <4>1. PICK s : s = Content(k)
        OBVIOUS
      <4>2. s \in Seq(Element(k)) /\ s # << >> /\ n \in DOMAIN Tail(s)
        BY <3>2, <4>1, ContentTyped DEF Passes
      <4> QED
        BY <4>2
    <3> QED
      BY <3>1, <3>3
  <2>9. Further(k, e, 1, h, g, b)
    BY <2>6, <2>7, <2>8 DEF Further
  <2>10. InOrder(k, e, 1, h, g, b)
    BY <1>1, <1>2, <2>0, <2>1 DEF Ordered
  <2> QED
    BY <2>2, <2>9, <2>10 DEF InOrder
<1>9. CASE WasAt(k, j, m, a) /\ (j = l => m < last) /\ h = l /\ n = last /\ y = f
  <2>0. PICK g : g = Content(j)[a]
    OBVIOUS
  <2>1. g = x /\ a \in DOMAIN Content(j) /\ g \in Element(j) /\ Placed(j, g)
    BY <1>9, <2>0, ContentTyped DEF WasAt, Places
  <2> SUFFICES ASSUME Tracked(j, g), Tracked(l, f), Alike(j, g, l, f),
                      Further(j, g, m, l, f, last)
               PROVE  Carried(j, g).id < Carried(l, f).id
    BY <1>9, <2>1 DEF InOrder
  <2>2. /\ Tracked(k, e) /\ Rank(l, f) = Rank(k, e) + 1 /\ Rank(k, e) \in Int
        /\ Carried(l, f).id = Carried(k, e).id /\ Alike(j, g, k, e)
    BY <1>4
  <2>3. Rank(j, g) \in Int
    <3>1. PICK i \in Nat, o \in 0 .. 4 : Rank(j, g) = 5 * i + o
      BY <2>1, Spotted
    <3> QED
      BY <3>1
  <2>4. Rank(j, g) > Rank(k, e)
    BY <2>2, <2>3 DEF Further
  <2>5. Further(j, g, a, k, e, 1)
    BY <2>4 DEF Further
  <2>6. InOrder(j, g, a, k, e, 1)
    BY <1>1, <1>2, <2>0, <2>1 DEF Ordered
  <2> QED
    BY <2>2, <2>5, <2>6 DEF InOrder
<1>10. CASE j = l /\ m = last /\ x = f /\ h = l /\ n = last /\ y = f
  <2> SUFFICES ASSUME Tracked(l, f), Further(l, f, last, l, f, last) PROVE FALSE
    BY <1>10 DEF InOrder
  <2>1. Rank(l, f) \in Int
    BY <1>4
  <2> QED
    BY <1>5, <2>1 DEF Further
<1> QED
  BY <1>5, <1>6, <1>7, <1>8, <1>9, <1>10
\* A host sends: a packet comes to line l, and nothing else happens to the lines.
Joins(l, f) ==
    /\ Content(l)' = Append(Content(l), f)
    /\ \A j \in Line \ {l} : Kept(j)

\* Every element after a packet joined is the new one, or was there before.
LEMMA JoinsFrom ==
    ASSUME Typed, NEW l \in Line, NEW f, Joins(l, f),
           NEW j \in Line, NEW n \in DOMAIN Content(j)'
    PROVE  /\ Len(Content(l)) \in Nat
           /\ \/ j = l /\ n = Len(Content(l)) + 1 /\ Content(j)'[n] = f
              \/ /\ n \in DOMAIN Content(j) /\ n \in Int /\ Content(j)'[n] = Content(j)[n]
                 /\ j = l => n < Len(Content(l)) + 1
<1>1. Content(j) \in Seq(Element(j)) /\ Len(Content(l)) \in Nat
  BY ContentTyped
<1>2. CASE j = l
  <2>1. PICK s : s = Content(j)
    OBVIOUS
  <2>2. Content(j)' = Append(s, f) /\ s \in Seq(Element(j))
    BY <1>1, <1>2, <2>1 DEF Joins
  <2>3. \/ n \in DOMAIN s /\ n \in Int /\ n <= Len(s) /\ Content(j)'[n] = s[n]
        \/ n = Len(s) + 1 /\ Content(j)'[n] = f
    BY <2>2, AppendAt
  <2> QED
    BY <1>1, <1>2, <2>1, <2>3
<1>3. CASE j # l
  <2>1. Content(j)' = Content(j)
    BY <1>3 DEF Joins, Kept
  <2>2. DOMAIN Content(j) \subseteq Int
    BY <1>1
  <2> QED
    BY <1>1, <1>3, <2>1, <2>2
<1> QED
  BY <1>2, <1>3

\* A new packet leaves all others in their places.
LEMMA JoinsKeepPlaces ==
    ASSUME Typed, Places, UNCHANGED paths, nb_sent' = nb_sent + 1,
           NEW l \in Line, NEW f, Joins(l, f), Placed(l, f)'
    PROVE  Places'
<1> SUFFICES ASSUME NEW j \in Line, NEW n \in DOMAIN Content(j)'
             PROVE  Placed(j, Content(j)[n])'
  BY DEF Places
<1>0. nb_sent' \in Nat /\ nb_sent <= nb_sent'
  BY DEF Typed
<1>1. CASE j = l /\ Content(j)'[n] = f
  BY <1>1
<1>2. CASE n \in DOMAIN Content(j) /\ Content(j)'[n] = Content(j)[n]
  <2>1. PICK e : e = Content(j)[n]
    OBVIOUS
  <2>2. e \in Element(j) /\ Placed(j, e)
    BY <1>2, <2>1, ContentTyped DEF Places
  <2>3. Placed(j, e)'
    BY <1>0, <2>2, PlacedStays
  <2> QED
    BY <1>2, <2>1, <2>3
<1> QED
  BY <1>1, <1>2, JoinsFrom

\* A packet its host has just sent is behind all others.
LEMMA LowestRank ==
    ASSUME Typed, NEW k \in Line, NEW e \in Element(k), Placed(k, e), Tracked(k, e)
    PROVE  Rank(k, e) \in Int /\ Rank(k, e) >= 4
<1>1. PICK i \in Nat, o \in 0 .. 4 :
        k = Spot(Carried(k, e), i, o) /\ Rank(k, e) = 5 * i + o
  BY Spotted
<1>2. Rank(k, e) \in Int /\ (i >= 1 => Rank(k, e) >= 4)
  BY <1>1
<1>3. CASE i = 0
  <2>1. PICK t : k = In(t)
    BY <1>1, <1>3 DEF Spot
  <2>2. CASE e.port # 1
    BY <2>1, <2>2, Ranks
  <2>3. CASE e.port = 1
    <3>1. Reaching(e, t) /\ e \in Packet
      BY <2>1, <2>3, Placements, Elements
    <3>2. HopsDone(e) \in 1 .. Len(e.path)
      BY <3>1, HopNumber DEF Reaching
    <3>3. Rank(k, e) = 5 * HopsDone(e) + 4
      BY <2>1, <2>3, Ranks
    <3> QED
      BY <3>2, <3>3
  <2> QED
    BY <2>2, <2>3
<1> QED
  BY <1>2, <1>3

\* A new packet is the newest and the least far.
LEMMA JoinsKeepOrder ==
    ASSUME Typed, Places, Ordered, NEW l \in Line, NEW f, Joins(l, f),
           IsFresh(l, f), Carried(l, f).id = nb_sent + 1
    PROVE  Ordered'
<1> DEFINE last == Len(Content(l)) + 1
<1>1. Rank(l, f) = 4
  BY DEF Rank
<1> SUFFICES ASSUME NEW j \in Line, NEW h \in Line, NEW m \in DOMAIN Content(j)',
                    NEW n \in DOMAIN Content(h)'
             PROVE  InOrder(j, Content(j)'[m], m, h, Content(h)'[n], n)
  BY DEF Ordered, InOrder, Further, Tracked, Alike, Rank, IsFresh, Carried, Offset
<1> DEFINE x == Content(j)'[m]
           y == Content(h)'[n]
           IsOld(k, i) == i \in DOMAIN Content(k) /\ i \in Int /\ Content(k)'[i] = Content(k)[i]
<1>2. /\ last \in Nat
      /\ \/ j = l /\ m = last /\ x = f
         \/ IsOld(j, m) /\ (j = l => m < last)
  BY JoinsFrom
<1>3. \/ h = l /\ n = last /\ y = f
      \/ IsOld(h, n) /\ (h = l => n < last)
  BY JoinsFrom
<1>4. CASE IsOld(j, m) /\ IsOld(h, n)
  BY <1>4 DEF Ordered
<1>5. CASE j = l /\ m = last /\ x = f /\ IsOld(h, n) /\ (h = l => n < last)
  <2>0. PICK g : g = Content(h)[n]
    OBVIOUS
  <2>1. g = y /\ g \in Element(h) /\ Placed(h, g)
    BY <1>5, <2>0, ContentTyped DEF Places
  <2> SUFFICES ASSUME Tracked(h, g), Further(l, f, last, h, g, n) PROVE FALSE
    BY <1>5, <2>1 DEF InOrder
  <2>2. Rank(h, g) \in Int /\ Rank(h, g) >= 4
    BY <2>1, LowestRank
  <2> QED
    BY <1>1, <1>2, <1>5, <2>2 DEF Further
<1>6. CASE IsOld(j, m) /\ h = l /\ n = last /\ y = f
  <2>0. PICK g : g = Content(j)[m]
    OBVIOUS
  <2>1. g = x /\ g \in Element(j) /\ Placed(j, g)
    BY <1>6, <2>0, ContentTyped DEF Places
  <2>2. Carried(j, g).id <= nb_sent /\ Carried(j, g).id \in Nat /\ nb_sent \in Nat
    BY <2>1, CarriedTyped DEF Placed, Packet, Typed
  <2>3. Carried(j, g).id < Carried(l, f).id
    BY <2>2
  <2> QED
    BY <1>6, <2>1, <2>3 DEF InOrder
<1>7. CASE j = l /\ m = last /\ x = f /\ h = l /\ n = last /\ y = f
  <2> SUFFICES ASSUME Further(l, f, last, l, f, last) PROVE FALSE
    BY <1>7 DEF InOrder
  <2> QED
    BY <1>1, <1>2 DEF Further
<1> QED
  BY <1>2, <1>3, <1>4, <1>5, <1>6, <1>7
----------------------------------------------------------------------------
(* The steps.                                                              *)

\* A step that passes a packet on preserves the invariant.
LEMMA PassStep ==
    ASSUME FInv, UNCHANGED <<paths, nb_sent, lost>>, Typed',
           NEW k \in Line, NEW l \in Line, NEW f,
           Fits(k, Head(Content(k)), l, f), Passes(k, l, f)
    PROVE  FInv'
<1>1. f \in Element(l) /\ Placed(l, f) /\ Follows(k, Head(Content(k)), l, f)
  BY DEF Fits
<1>2. Places'
  BY <1>1, PassesKeepPlaces DEF FInv, LInv
<1>3. Ordered'
  BY <1>1, PassesKeepOrder DEF FInv, LInv
<1>4. (\A g \in lost : LostRightly(g))'
  BY DEF FInv, LInv, LostRightly, Unroutable
<1> QED
  BY <1>2, <1>3, <1>4 DEF FInv, LInv

\* A step that loses a packet rightly preserves the invariant.
LEMMA LoseStep ==
    ASSUME FInv, UNCHANGED <<paths, nb_sent>>, Typed', NEW k \in Line, Loses(k),
           NEW g, lost' = lost \cup {g}, LostRightly(g)
    PROVE  FInv'
<1>1. Places'
  BY LosesKeepPlaces DEF FInv, LInv
<1>2. Ordered'
  BY LosesKeepOrder DEF FInv, LInv
<1>3. (\A h \in lost : LostRightly(h))'
  <2>1. \A h : LostRightly(h)' <=> LostRightly(h)
    BY DEF LostRightly, Unroutable
  <2> QED
    BY <2>1 DEF FInv, LInv
<1> QED
  BY <1>1, <1>2, <1>3 DEF FInv, LInv

\* The lines not in X are as they were.
RestKept(X) ==
    /\ \A u \in Tor : /\ In(u) \notin X => tor_in'[u] = tor_in[u]
                      /\ Normal(u) \notin X => tor_normal'[u] = tor_normal[u]
                      /\ Out(u) \notin X => tor_out'[u] = tor_out[u]
                      /\ OcsOut(u) \notin X => ocs_out'[u] = ocs_out[u]
                      /\ Delivered(u) \notin X => delivered'[u] = delivered[u]
    /\ \A u \in Tor, key \in CalendarKey :
          Calendar(u, key) \notin X => calendar'[u][key] = calendar[u][key]
    /\ OcsIn \notin X => ocs_in' = ocs_in

\* The lines not in X keep their content.
LEMMA Rest == ASSUME NEW X, RestKept(X) PROVE \A j \in Line \ X : Kept(j)
<1> SUFFICES ASSUME NEW j \in Line, j \notin X PROVE Kept(j)
  OBVIOUS
<1> QED
  BY Kinds, Contents DEF RestKept, Kept

\* A pass and a loss, from the lines they change.
LEMMA Passing ==
    ASSUME NEW k \in Line, NEW l \in Line, NEW f, k # l, Content(k) # << >>,
           Content(k)' = Tail(Content(k)), Content(l)' = Append(Content(l), f),
           RestKept({k, l})
    PROVE  Passes(k, l, f)
<1>1. \A j \in Line \ {k, l} : Kept(j)
  BY Rest
<1> QED
  BY <1>1 DEF Passes

\* The same for a loss.
LEMMA Losing ==
    ASSUME NEW k \in Line, Content(k) # << >>, Content(k)' = Tail(Content(k)),
           RestKept({k})
    PROVE  Loses(k)
<1>1. \A j \in Line \ {k} : Kept(j)
  BY Rest
<1> QED
  BY <1>1 DEF Loses

\* The head of a non-empty line.
LEMMA HeadOf ==
    ASSUME Typed, Places, NEW k \in Line, Content(k) # << >>
    PROVE  Head(Content(k)) \in Element(k) /\ Placed(k, Head(Content(k)))
<1>1. PICK s : s = Content(k)
  OBVIOUS
<1>2. s \in Seq(Element(k)) /\ s # << >>
  BY <1>1, ContentTyped
<1>3. 1 \in DOMAIN s /\ s[1] = Head(s) /\ Head(s) \in Element(k)
  BY <1>2, HeadAt
<1> QED
  BY <1>1, <1>3 DEF Places

\* The calendar thread.
LEMMA CalendarPopStep ==
    ASSUME FInv, NEW t \in Tor, CalendarPop(t)
    PROVE  FInv'
<1>1. PICK key \in CalendarKey :
        /\ calendar[t][key] # << >>
        /\ calendar' = [calendar EXCEPT ![t][key] = Tail(@)]
        /\ tor_out' = [tor_out EXCEPT ![t] = Append(@,
              [port |-> key[1], pkt |-> [Head(calendar[t][key]) EXCEPT !.slice = key[2]]])]
        /\ UNCHANGED <<now, paths, nb_sent, tor_in, tor_normal, ocs_in, ocs_out,
                       delivered, lost>>
  BY DEF CalendarPop, CalendarKey
<1>2. Typed
  BY DEF FInv, LInv
<1>3. PICK k, l, p : k = Calendar(t, key) /\ l = Out(t) /\ p = Head(calendar[t][key])
  OBVIOUS
<1>4. k \in Line /\ l \in Line /\ k # l /\ Content(k) = calendar[t][key]
  BY <1>3, LineNames, NamesDiffer, Contents
<1>5. p \in Packet /\ p = Head(Content(k)) /\ Placed(k, p)
  BY <1>1, <1>3, <1>4, HeadOf, Elements DEF FInv, LInv
<1>6. PICK f : f = [port |-> key[1], pkt |-> [p EXCEPT !.slice = key[2]]]
  OBVIOUS
<1>7. Fits(k, p, l, f) /\ f \in OutElement
  BY <1>2, <1>3, <1>5, <1>6, PopFits, Elements DEF Fits
<1>8. /\ calendar'[t][key] = Tail(calendar[t][key])
      /\ tor_out'[t] = Append(tor_out[t], f)
  BY <1>1, <1>2, <1>3, <1>6 DEF Typed
<1>9. RestKept({k, l})
  BY <1>1, <1>2, <1>3 DEF RestKept, Typed
<1>10. Passes(k, l, f)
  <2>1. Content(k)' = Tail(Content(k))
    BY <1>3, <1>4, <1>8, Contents
  <2>2. Content(l)' = Append(Content(l), f)
    BY <1>3, <1>8, Contents
  <2> QED
    BY <1>1, <1>4, <1>9, <2>1, <2>2, Passing
<1>11. Typed'
  <2>1. Tail(calendar[t][key]) \in Seq(Packet)
    BY <1>1, <1>2 DEF Typed
  <2>2. calendar' \in [Tor -> [CalendarKey -> Seq(Packet)]]
    BY <1>1, <1>2, <2>1 DEF Typed
  <2>3. tor_out' \in [Tor -> Seq(OutElement)]
    BY <1>1, <1>2, <1>3, <1>6, <1>7 DEF Typed
  <2> QED
    BY <1>1, <1>2, <2>2, <2>3 DEF Typed
<1> QED
  BY <1>1, <1>4, <1>5, <1>7, <1>10, <1>11, PassStep

\* The normal egress thread.
LEMMA EgressStep ==
    ASSUME FInv, NEW t \in Tor, EgressToOut(t)
    PROVE  FInv'
<1>1. /\ tor_normal[t] # << >>
      /\ tor_normal' = [tor_normal EXCEPT ![t] = Tail(@)]
      /\ tor_out' = [tor_out EXCEPT ![t] = Append(@, [port |-> 2, pkt |-> Head(tor_normal[t])])]
      /\ UNCHANGED <<now, paths, nb_sent, tor_in, calendar, ocs_in, ocs_out,
                     delivered, lost>>
  BY DEF EgressToOut
<1>2. Typed
  BY DEF FInv, LInv
<1>3. PICK k, l, p : k = Normal(t) /\ l = Out(t) /\ p = Head(tor_normal[t])
  OBVIOUS
<1>4. k \in Line /\ l \in Line /\ k # l /\ Content(k) = tor_normal[t]
  BY <1>3, LineNames, NamesDiffer, Contents
<1>5. p \in Packet /\ p = Head(Content(k)) /\ Placed(k, p)
  BY <1>1, <1>3, <1>4, HeadOf, Elements DEF FInv, LInv
<1>6. PICK f : f = [port |-> 2, pkt |-> p]
  OBVIOUS
<1>7. Fits(k, p, l, f) /\ f \in OutElement
  BY <1>2, <1>3, <1>5, <1>6, NormalFits, Elements DEF Fits
<1>8. /\ tor_normal'[t] = Tail(tor_normal[t])
      /\ tor_out'[t] = Append(tor_out[t], f)
  BY <1>1, <1>2, <1>3, <1>6 DEF Typed
<1>9. RestKept({k, l})
  BY <1>1, <1>2, <1>3 DEF RestKept, Typed
<1>10. Passes(k, l, f)
  <2>1. Content(k)' = Tail(Content(k))
    BY <1>3, <1>4, <1>8, Contents
  <2>2. Content(l)' = Append(Content(l), f)
    BY <1>3, <1>8, Contents
  <2> QED
    BY <1>1, <1>4, <1>9, <2>1, <2>2, Passing
<1>11. Typed'
  <2>1. Tail(tor_normal[t]) \in Seq(Packet)
    BY <1>1, <1>2 DEF Typed
  <2>2. tor_normal' \in [Tor -> Seq(Packet)]
    BY <1>1, <1>2, <2>1 DEF Typed
  <2>3. tor_out' \in [Tor -> Seq(OutElement)]
    BY <1>1, <1>2, <1>3, <1>6, <1>7 DEF Typed
  <2> QED
    BY <1>1, <1>2, <2>2, <2>3 DEF Typed
<1> QED
  BY <1>1, <1>4, <1>5, <1>7, <1>10, <1>11, PassStep

\* The transmit thread of a ToR: to the OCS, to the host, or to no link.
LEMMA TransmitStep ==
    ASSUME FInv, NEW t \in Tor, TorTransmit(t)
    PROVE  FInv'
<1>1. /\ tor_out[t] # << >>
      /\ tor_out' = [tor_out EXCEPT ![t] = Tail(@)]
      /\ UNCHANGED <<now, paths, nb_sent, tor_in, calendar, tor_normal, ocs_out>>
  BY DEF TorTransmit
<1>2. Typed
  BY DEF FInv, LInv
<1>3. PICK k, o : k = Out(t) /\ o = Head(tor_out[t])
  OBVIOUS
<1>4. k \in Line /\ Content(k) = tor_out[t]
  BY <1>3, LineNames, Contents
<1>5. o \in OutElement /\ o = Head(Content(k)) /\ Placed(k, o)
  BY <1>1, <1>3, <1>4, HeadOf, Elements DEF FInv, LInv
<1>6. \/ /\ o.port = 1
         /\ ocs_in' = Append(ocs_in, [in |-> t + 1, pkt |-> o.pkt])
         /\ UNCHANGED <<delivered, lost>>
      \/ /\ o.port = 2
         /\ delivered' = [delivered EXCEPT ![t] = Append(@, o.pkt)]
         /\ UNCHANGED <<ocs_in, lost>>
      \/ /\ o.port = 0
         /\ Lose(o.pkt, "no_link")
         /\ UNCHANGED <<ocs_in, delivered>>
  BY <1>3 DEF TorTransmit
<1>7. tor_out'[t] = Tail(tor_out[t]) /\ tor_out' \in [Tor -> Seq(OutElement)]
  <2>1. Tail(tor_out[t]) \in Seq(OutElement)
    BY <1>1, <1>2 DEF Typed
  <2> QED
    BY <1>1, <1>2, <2>1 DEF Typed
<1>8. Content(k)' = Tail(Content(k))
  BY <1>3, <1>4, <1>7, Contents
<1>9. CASE o.port = 1
  <2>1. PICK l, f : l = OcsIn /\ f = [in |-> t + 1, pkt |-> o.pkt]
    OBVIOUS
  <2>2. ocs_in' = Append(ocs_in, f) /\ UNCHANGED <<delivered, lost>>
    BY <1>6, <1>9, <2>1
  <2>3. l \in Line /\ k # l /\ Content(l)' = Append(Content(l), f)
    BY <1>3, <2>1, <2>2, LineNames, NamesDiffer, Contents
  <2>4. Fits(k, o, l, f) /\ f \in InElement
    BY <1>2, <1>3, <1>5, <1>9, <2>1, TransmitFits, Elements DEF Fits
  <2>5. RestKept({k, l})
    BY <1>1, <1>2, <1>3, <2>1, <2>2 DEF RestKept, Typed
  <2>6. Typed'
    BY <1>1, <1>2, <1>7, <2>2, <2>4 DEF Typed
  <2>7. Passes(k, l, f)
    BY <1>1, <1>4, <1>8, <2>3, <2>5, Passing
  <2> QED
    BY <1>1, <1>4, <1>5, <2>2, <2>3, <2>4, <2>6, <2>7, PassStep
<1>10. CASE o.port = 2
  <2>1. PICK l, f : l = Delivered(t) /\ f = o.pkt
    OBVIOUS
  <2>2. /\ delivered' = [delivered EXCEPT ![t] = Append(@, f)]
        /\ UNCHANGED <<ocs_in, lost>>
    BY <1>6, <1>10, <2>1
  <2>3. delivered'[t] = Append(delivered[t], f)
    BY <1>2, <2>2 DEF Typed
  <2>4. l \in Line /\ k # l /\ Content(l)' = Append(Content(l), f)
    BY <1>3, <2>1, <2>3, LineNames, NamesDiffer, Contents
  <2>5. Fits(k, o, l, f) /\ f \in Packet
    BY <1>2, <1>3, <1>5, <1>10, <2>1, TransmitFits, Elements DEF Fits
  <2>6. RestKept({k, l})
    BY <1>1, <1>2, <1>3, <2>1, <2>2 DEF RestKept, Typed
  <2>7. Typed'
    <3>1. delivered' \in [Tor -> Seq(Packet)]
      BY <1>2, <2>2, <2>5 DEF Typed
    <3> QED
      BY <1>1, <1>2, <1>7, <2>2, <3>1 DEF Typed
  <2>8. Passes(k, l, f)
    BY <1>1, <1>4, <1>8, <2>4, <2>6, Passing
  <2> QED
    BY <1>1, <1>4, <1>5, <2>2, <2>4, <2>5, <2>7, <2>8, PassStep
<1>11. CASE o.port = 0
  <2>1. PICK g : g = [pkt |-> o.pkt, where |-> "no_link"]
    OBVIOUS
  <2>2. lost' = lost \cup {g} /\ UNCHANGED <<ocs_in, delivered>>
    BY <1>6, <1>11, <2>1 DEF Lose
  <2>3. Unroutable(o.pkt)
    BY <1>2, <1>3, <1>5, <1>11, TransmitFits
  <2>4. LostRightly(g)
    BY <2>1, <2>3 DEF LostRightly
  <2>5. RestKept({k})
    BY <1>1, <1>2, <1>3, <2>2 DEF RestKept, Typed
  <2>6. Typed'
    BY <1>1, <1>2, <1>7, <2>2 DEF Typed
  <2>7. Loses(k)
    BY <1>1, <1>4, <1>8, <2>5, Losing
  <2> QED
    BY <1>1, <1>4, <2>2, <2>4, <2>6, <2>7, LoseStep
<1> QED
  BY <1>6, <1>9, <1>10, <1>11

\* The ingress thread of a ToR, when the packet goes to a calendar queue.
LEMMA ToCalendarStep ==
    ASSUME FInv, NEW t \in Tor, tor_in[t] # << >>,
           tor_in' = [tor_in EXCEPT ![t] = Tail(@)],
           UNCHANGED <<now, paths, nb_sent, tor_out, ocs_in, ocs_out, delivered>>,
           NEW port, NEW s, <<port, s>> \in CalendarKey, NEW q,
           Fits(In(t), Head(tor_in[t]), Calendar(t, <<port, s>>), q),
           ToCalendar(t, port, s, q)
    PROVE  FInv'
<1>1. Typed
  BY DEF FInv, LInv
<1>2. PICK key : key = <<port, s>> /\ key \in CalendarKey
  OBVIOUS
<1>3. PICK k, l, p : k = In(t) /\ l = Calendar(t, key) /\ p = Head(tor_in[t])
  OBVIOUS
<1>4. /\ k \in Line /\ l \in Line /\ k # l
      /\ Content(k) = tor_in[t] /\ Content(l) = calendar[t][key]
  BY <1>2, <1>3, LineNames, NamesDiffer, Contents
<1>5. p \in Packet /\ p = Head(Content(k)) /\ Placed(k, p)
  BY <1>1, <1>3, <1>4, HeadOf, Elements DEF FInv, LInv
<1>6. Fits(k, p, l, q) /\ q \in Packet
  BY <1>2, <1>3, Elements DEF Fits
<1>7. tor_in'[t] = Tail(tor_in[t]) /\ tor_in' \in [Tor -> Seq(Packet)]
  <2>1. Tail(tor_in[t]) \in Seq(Packet)
    BY <1>1 DEF Typed
  <2> QED
    BY <1>1, <2>1 DEF Typed
<1>8. Content(k)' = Tail(Content(k))
  BY <1>3, <1>4, <1>7, Contents
<1>9. CASE Len(calendar[t][key]) < CalendarCapacity
  <2>1. calendar' = [calendar EXCEPT ![t][key] = Append(@, q)] /\ UNCHANGED <<lost, tor_normal>>
    BY <1>2, <1>9 DEF ToCalendar
  <2>2. calendar'[t][key] = Append(calendar[t][key], q)
    BY <1>1, <1>2, <2>1 DEF Typed
  <2>3. Content(l)' = Append(Content(l), q)
    BY <1>3, <1>4, <2>2, Contents
  <2>4. RestKept({k, l})
    BY <1>1, <1>2, <1>3, <2>1 DEF RestKept, Typed
  <2>5. calendar' \in [Tor -> [CalendarKey -> Seq(Packet)]]
    BY <1>1, <1>2, <1>6, <2>1 DEF Typed
  <2>6. Typed'
    BY <1>1, <1>7, <2>1, <2>5 DEF Typed
  <2>7. Passes(k, l, q)
    BY <1>4, <1>8, <2>3, <2>4, Passing
  <2> QED
    BY <1>4, <1>5, <1>6, <2>1, <2>6, <2>7, PassStep
<1>10. CASE ~(Len(calendar[t][key]) < CalendarCapacity)
  <2>1. PICK g : g = [pkt |-> q, where |-> "calendar_queue_full"]
    OBVIOUS
  <2>2. lost' = lost \cup {g} /\ UNCHANGED <<calendar, tor_normal>>
    BY <1>2, <1>10, <2>1 DEF ToCalendar, Lose
  <2>3. LostRightly(g)
    BY <2>1 DEF LostRightly
  <2>4. RestKept({k})
    BY <1>1, <1>3, <2>2 DEF RestKept, Typed
  <2>5. Typed'
    BY <1>1, <1>7, <2>2 DEF Typed
  <2>6. Loses(k)
    BY <1>4, <1>8, <2>4, Losing
  <2> QED
    BY <1>4, <2>2, <2>3, <2>5, <2>6, LoseStep
<1> QED
  BY <1>9, <1>10

\* The same, when it goes to the host.
LEMMA ToHostStep ==
    ASSUME FInv, NEW t \in Tor, tor_in[t] # << >>,
           tor_in' = [tor_in EXCEPT ![t] = Tail(@)],
           UNCHANGED <<now, paths, nb_sent, tor_out, ocs_in, ocs_out, delivered>>,
           NEW q, Fits(In(t), Head(tor_in[t]), Normal(t), q), ToHost(t, q)
    PROVE  FInv'
<1>1. Typed
  BY DEF FInv, LInv
<1>3. PICK k, l, p : k = In(t) /\ l = Normal(t) /\ p = Head(tor_in[t])
  OBVIOUS
<1>4. /\ k \in Line /\ l \in Line /\ k # l
      /\ Content(k) = tor_in[t] /\ Content(l) = tor_normal[t]
  BY <1>3, LineNames, NamesDiffer, Contents
<1>5. p \in Packet /\ p = Head(Content(k)) /\ Placed(k, p)
  BY <1>1, <1>3, <1>4, HeadOf, Elements DEF FInv, LInv
<1>6. Fits(k, p, l, q) /\ q \in Packet
  BY <1>3, Elements DEF Fits
<1>7. tor_in'[t] = Tail(tor_in[t]) /\ tor_in' \in [Tor -> Seq(Packet)]
  <2>1. Tail(tor_in[t]) \in Seq(Packet)
    BY <1>1 DEF Typed
  <2> QED
    BY <1>1, <2>1 DEF Typed
<1>8. Content(k)' = Tail(Content(k))
  BY <1>3, <1>4, <1>7, Contents
<1>9. CASE Len(tor_normal[t]) < EgressCapacity
  <2>1. tor_normal' = [tor_normal EXCEPT ![t] = Append(@, q)] /\ UNCHANGED <<lost, calendar>>
    BY <1>9 DEF ToHost
  <2>2. tor_normal'[t] = Append(tor_normal[t], q)
    BY <1>1, <2>1 DEF Typed
  <2>3. Content(l)' = Append(Content(l), q)
    BY <1>3, <1>4, <2>2, Contents
  <2>4. RestKept({k, l})
    BY <1>1, <1>3, <2>1 DEF RestKept, Typed
  <2>5. tor_normal' \in [Tor -> Seq(Packet)]
    BY <1>1, <1>6, <2>1 DEF Typed
  <2>6. Typed'
    BY <1>1, <1>7, <2>1, <2>5 DEF Typed
  <2>7. Passes(k, l, q)
    BY <1>4, <1>8, <2>3, <2>4, Passing
  <2> QED
    BY <1>4, <1>5, <1>6, <2>1, <2>6, <2>7, PassStep
<1>10. CASE ~(Len(tor_normal[t]) < EgressCapacity)
  <2>1. PICK g : g = [pkt |-> q, where |-> "normal_queue_full"]
    OBVIOUS
  <2>2. lost' = lost \cup {g} /\ UNCHANGED <<calendar, tor_normal>>
    BY <1>10, <2>1 DEF ToHost, Lose
  <2>3. LostRightly(g)
    BY <2>1 DEF LostRightly
  <2>4. RestKept({k})
    BY <1>1, <1>3, <2>2 DEF RestKept, Typed
  <2>5. Typed'
    BY <1>1, <1>7, <2>2 DEF Typed
  <2>6. Loses(k)
    BY <1>4, <1>8, <2>4, Losing
  <2> QED
    BY <1>4, <2>2, <2>3, <2>5, <2>6, LoseStep
<1> QED
  BY <1>9, <1>10

\* The ingress thread of a ToR: the header decides where the packet goes.
LEMMA IngressStep ==
    ASSUME FInv, NEW t \in Tor, TorIngress(t)
    PROVE  FInv'
<1>1. /\ tor_in[t] # << >>
      /\ tor_in' = [tor_in EXCEPT ![t] = Tail(@)]
      /\ UNCHANGED <<now, paths, nb_sent, tor_out, ocs_in, ocs_out, delivered>>
  BY DEF TorIngress
<1>2. Typed
  BY DEF FInv, LInv
<1>3. PICK p, hops, q : /\ p = Head(tor_in[t])
                        /\ hops = HopsAt(t, p) /\ q = Forwarded(t, p)
  OBVIOUS
<1>4. \/ /\ hops # << >> /\ Head(hops).valid_flag = 1
         /\ ToCalendar(t, 1, Head(hops).send_slice, q)
      \/ /\ hops # << >> /\ Head(hops).valid_flag = 255
         /\ ToHost(t, q)
      \/ /\ hops = << >>
         /\ ToCalendar(t, 0, 0, q)
  BY <1>3 DEF TorIngress, Forwarded
<1>5. p \in Packet /\ Placed(In(t), p)
  BY <1>1, <1>2, <1>3, HeadOf, Elements, Contents, LineNames DEF FInv, LInv
<1>6. ASSUME /\ hops # << >> /\ Head(hops).valid_flag = 1
             /\ Head(hops).send_slice \in Slice
             /\ Fits(In(t), p, Calendar(t, <<1, Head(hops).send_slice>>), q)
      PROVE  FInv'
  <2>1. PICK s : s = Head(hops).send_slice
    OBVIOUS
  <2>2. ToCalendar(t, 1, s, q)
    BY <1>4, <1>6, <2>1
  <2>3. <<1, s>> \in CalendarKey /\ Fits(In(t), Head(tor_in[t]), Calendar(t, <<1, s>>), q)
    BY <1>3, <1>6, <2>1 DEF CalendarKey
  <2> QED
    BY <1>1, <2>2, <2>3, ToCalendarStep
<1>7. CASE p.port = 1 /\ HopsDone(p) < Len(p.path)
  BY <1>2, <1>3, <1>5, <1>6, <1>7, RelayFits
<1>8. CASE p.port = 1 /\ HopsDone(p) >= Len(p.path)
  <2>1. hops # << >> /\ Head(hops).valid_flag = 255 /\ Fits(In(t), p, Normal(t), q)
    BY <1>2, <1>3, <1>5, <1>8, HostFits
  <2>2. ToHost(t, q)
    BY <1>4, <2>1
  <2>3. Fits(In(t), Head(tor_in[t]), Normal(t), q)
    BY <1>3, <2>1
  <2> QED
    BY <1>1, <2>2, <2>3, ToHostStep
<1>9. CASE p.port # 1 /\ SourceRoute(t, p) # << >>
  BY <1>2, <1>3, <1>5, <1>6, <1>9, FirstFits
<1>10. CASE p.port # 1 /\ SourceRoute(t, p) = << >>
  <2>1. hops = << >> /\ Fits(In(t), p, Calendar(t, <<0, 0>>), q)
    BY <1>2, <1>3, <1>5, <1>10, UnroutedFits
  <2>2. ToCalendar(t, 0, 0, q)
    BY <1>4, <2>1
  <2>3. <<0, 0>> \in CalendarKey
    BY SlicesAssumption DEF CalendarKey, Slice
  <2> QED
    BY <1>1, <1>3, <2>1, <2>2, <2>3, ToCalendarStep
<1>11. p.port = 1 => HopsDone(p) < Len(p.path) \/ HopsDone(p) >= Len(p.path)
  <2> SUFFICES ASSUME p.port = 1
               PROVE  HopsDone(p) < Len(p.path) \/ HopsDone(p) >= Len(p.path)
    OBVIOUS
  <2>1. OnHop(p, HopsDone(p))
    BY <1>5, Placements DEF Reaching
  <2>2. HopsDone(p) \in 1 .. Len(p.path) /\ Len(p.path) \in 1 .. ssrr_len - 1
    BY <1>2, <1>5, <2>1, HopNumber, RouteLeads DEF OnHop
  <2>3. HopsDone(p) \in Int /\ Len(p.path) \in Int
    BY <2>2
  <2> QED
    BY <2>3
<1> QED
  BY <1>7, <1>8, <1>9, <1>10, <1>11

\* The ingress thread of the OCS.
LEMMA OcsIngressStep ==
    ASSUME FInv, OcsIngress
    PROVE  FInv'
<1>1. /\ ocs_in # << >> /\ ocs_in' = Tail(ocs_in)
      /\ UNCHANGED <<now, paths, nb_sent, tor_in, calendar, tor_normal, tor_out,
                     delivered>>
  BY DEF OcsIngress
<1>2. Typed
  BY DEF FInv, LInv
<1>0. PICK i : i = Head(ocs_in)
  OBVIOUS
<1> DEFINE changed == [i.pkt EXCEPT !.late = @ \/ CurrentSlice # i.pkt.slice, !.slice = 0]
<1>3. PICK key, q : key = <<i.in, CurrentSlice>> /\ q = changed
  OBVIOUS
<1>4. PICK u : u = ocs_table[key] - 1
  OBVIOUS
<1>5. \/ /\ key \notin DOMAIN ocs_table
         /\ Lose(q, "no_entry") /\ UNCHANGED ocs_out
      \/ /\ key \in DOMAIN ocs_table
         /\ IF Len(ocs_out[u]) < OcsCapacity
              THEN ocs_out' = [ocs_out EXCEPT ![u] = Append(@, q)] /\ UNCHANGED lost
              ELSE Lose(q, "ocs_queue_full") /\ UNCHANGED ocs_out
  BY <1>0, <1>3, <1>4, Zenon DEF OcsIngress
<1>6. OcsIn \in Line /\ Content(OcsIn) = ocs_in
  BY LineNames, Contents
<1>7. i \in InElement /\ i = Head(Content(OcsIn)) /\ Placed(OcsIn, i)
  BY <1>0, <1>1, <1>6, HeadOf, Elements DEF FInv, LInv
<1>8. /\ key \notin DOMAIN ocs_table => q.late
      /\ key \in DOMAIN ocs_table => u \in Tor /\ Fits(OcsIn, i, OcsOut(u), q)
  BY <1>2, <1>3, <1>4, <1>7, SwitchFits, Zenon
<1>9. ocs_in' \in Seq(InElement)
  BY <1>1, <1>2 DEF Typed
<1>10. Content(OcsIn)' = Tail(Content(OcsIn))
  BY <1>1, <1>6, Contents
<1>11. ASSUME NEW g, lost' = lost \cup {g}, LostRightly(g), UNCHANGED ocs_out
       PROVE  FInv'
  <2>1. RestKept({OcsIn})
    BY <1>1, <1>2, <1>11 DEF RestKept, Typed
  <2>2. Typed'
    BY <1>1, <1>2, <1>9, <1>11 DEF Typed
  <2>3. Loses(OcsIn)
    BY <1>1, <1>6, <1>10, <2>1, Losing
  <2> QED
    BY <1>1, <1>6, <1>11, <2>2, <2>3, LoseStep
<1>12. CASE key \notin DOMAIN ocs_table
  <2>1. PICK g : g = [pkt |-> q, where |-> "no_entry"]
    OBVIOUS
  <2>2. lost' = lost \cup {g} /\ UNCHANGED ocs_out
    BY <1>5, <1>12, <2>1 DEF Lose
  <2>3. LostRightly(g)
    BY <1>8, <1>12, <2>1 DEF LostRightly
  <2> QED
    BY <1>11, <2>2, <2>3
<1>13. CASE key \in DOMAIN ocs_table /\ ~(Len(ocs_out[u]) < OcsCapacity)
  <2>1. PICK g : g = [pkt |-> q, where |-> "ocs_queue_full"]
    OBVIOUS
  <2>2. lost' = lost \cup {g} /\ UNCHANGED ocs_out
    BY <1>5, <1>13, <2>1 DEF Lose
  <2>3. LostRightly(g)
    BY <2>1 DEF LostRightly
  <2> QED
    BY <1>11, <2>2, <2>3
<1>14. CASE key \in DOMAIN ocs_table /\ Len(ocs_out[u]) < OcsCapacity
  <2>1. ocs_out' = [ocs_out EXCEPT ![u] = Append(@, q)] /\ UNCHANGED lost
    BY <1>5, <1>14
  <2>2. u \in Tor /\ Fits(OcsIn, i, OcsOut(u), q) /\ q \in Packet
    BY <1>8, <1>14, Elements DEF Fits
  <2>3. ocs_out'[u] = Append(ocs_out[u], q) /\ ocs_out' \in [Tor -> Seq(Packet)]
    BY <1>2, <2>1, <2>2 DEF Typed
  <2>4. PICK l : l = OcsOut(u)
    OBVIOUS
  <2>5. l \in Line /\ l # OcsIn /\ Content(l)' = Append(Content(l), q)
    BY <2>2, <2>3, <2>4, LineNames, NamesDiffer, Contents
  <2>6. RestKept({OcsIn, l})
    BY <1>1, <1>2, <2>1, <2>2, <2>4 DEF RestKept, Typed
  <2>7. Typed'
    BY <1>1, <1>2, <1>9, <2>3 DEF Typed
  <2>8. Passes(OcsIn, l, q)
    BY <1>1, <1>6, <1>10, <2>5, <2>6, Passing
  <2> QED
    BY <1>1, <1>6, <1>7, <2>1, <2>2, <2>4, <2>5, <2>7, <2>8, PassStep
<1> QED
  BY <1>12, <1>13, <1>14

\* The threads of the OCS that send, and the ToR that receives.
LEMMA OcsTransmitStep ==
    ASSUME FInv, NEW u \in Tor, OcsTransmit(u)
    PROVE  FInv'
<1>1. /\ ocs_out[u] # << >>
      /\ ocs_out' = [ocs_out EXCEPT ![u] = Tail(@)]
      /\ tor_in' = [tor_in EXCEPT ![u] = Append(@, [Head(ocs_out[u]) EXCEPT !.port = 1])]
      /\ UNCHANGED <<now, paths, nb_sent, calendar, tor_normal, tor_out, ocs_in,
                     delivered, lost>>
  BY DEF OcsTransmit
<1>2. Typed
  BY DEF FInv, LInv
<1>3. PICK k, l, p : k = OcsOut(u) /\ l = In(u) /\ p = Head(ocs_out[u])
  OBVIOUS
<1>4. k \in Line /\ l \in Line /\ k # l /\ Content(k) = ocs_out[u]
  BY <1>3, LineNames, NamesDiffer, Contents
<1>5. p \in Packet /\ p = Head(Content(k)) /\ Placed(k, p)
  BY <1>1, <1>3, <1>4, HeadOf, Elements DEF FInv, LInv
<1>6. PICK f : f = [p EXCEPT !.port = 1]
  OBVIOUS
<1>7. Fits(k, p, l, f) /\ f \in Packet
  BY <1>2, <1>3, <1>5, <1>6, ArriveFits, Elements DEF Fits
<1>8. /\ ocs_out'[u] = Tail(ocs_out[u]) /\ ocs_out' \in [Tor -> Seq(Packet)]
      /\ tor_in'[u] = Append(tor_in[u], f) /\ tor_in' \in [Tor -> Seq(Packet)]
  <2>1. Tail(ocs_out[u]) \in Seq(Packet)
    BY <1>1, <1>2 DEF Typed
  <2>2. tor_in' = [tor_in EXCEPT ![u] = Append(@, f)]
    BY <1>1, <1>3, <1>6
  <2> QED
    BY <1>1, <1>2, <1>7, <2>1, <2>2 DEF Typed
<1>9. RestKept({k, l})
  BY <1>1, <1>2, <1>3 DEF RestKept, Typed
<1>10. Passes(k, l, f)
  <2>1. Content(k)' = Tail(Content(k))
    BY <1>3, <1>4, <1>8, Contents
  <2>2. Content(l)' = Append(Content(l), f)
    BY <1>3, <1>8, Contents
  <2> QED
    BY <1>1, <1>4, <1>9, <2>1, <2>2, Passing
<1>11. Typed'
  BY <1>1, <1>2, <1>8 DEF Typed
<1> QED
  BY <1>1, <1>4, <1>5, <1>7, <1>10, <1>11, PassStep

\* A host sends.
LEMMA HostSendStep ==
    ASSUME FInv, NEW f \in Flows, HostSend(f)
    PROVE  FInv'
<1> DEFINE sent == [id |-> nb_sent + 1, src |-> f[1], dst |-> f[3], host |-> f[4],
                    port |-> f[2], arrival |-> CurrentSlice,
                    hops |-> << >>, path |-> << >>, late |-> FALSE, slice |-> 0]
<1>1. /\ nb_sent' = nb_sent + 1
      /\ tor_in' = [tor_in EXCEPT ![f[1]] = Append(@, sent)]
      /\ UNCHANGED <<now, paths, calendar, tor_normal, tor_out, ocs_in,
                     ocs_out, delivered, lost>>
  BY DEF HostSend
<1>2. Typed
  BY DEF FInv, LInv
<1>3. PICK t, l, p : t = f[1] /\ l = In(t) /\ p = sent
  OBVIOUS
<1>4. t \in Tor /\ f[3] \in Tor /\ f[2] \in HostPorts /\ f[4] \in HostPorts
  BY <1>3, FlowsAssumption
<1>5. f[2] \in Nat /\ f[2] # 1
  BY <1>4, HostPortsAssumption
<1>6. /\ p.id = nb_sent + 1 /\ p.src = t /\ p.port = f[2] /\ p.hops = << >>
      /\ p.path = << >> /\ p.late = FALSE
  BY <1>3
<1>7. p \in Packet
  <2>1. << >> \in Seq(HopSet) /\ << >> \in Seq(Slice)
    OBVIOUS
  <2>2. CurrentSlice \in Slice /\ 0 \in Slice
    BY <1>2, ClockTyped, SlicesAssumption DEF Slice
  <2>3. nb_sent + 1 \in Nat
    BY <1>2 DEF Typed
  <2> QED
    BY <1>3, <1>4, <1>5, <2>1, <2>2, <2>3 DEF Packet
<1> HIDE DEF sent
<1>8. tor_in'[t] = Append(tor_in[t], p) /\ tor_in' \in [Tor -> Seq(Packet)]
  BY <1>1, <1>2, <1>3, <1>4, <1>7 DEF Typed
<1>9. l \in Line /\ Content(l)' = Append(Content(l), p)
  BY <1>3, <1>4, <1>8, LineNames, Contents
<1>10. RestKept({l})
  BY <1>1, <1>2, <1>3 DEF RestKept, Typed
<1>11. Joins(l, p)
  BY <1>9, <1>10, Rest DEF Joins
<1>12. Typed'
  <2>1. nb_sent' \in Nat
    BY <1>1, <1>2 DEF Typed
  <2> QED
    BY <1>1, <1>2, <1>8, <2>1 DEF Typed
<1>13. IsFresh(l, p) /\ Carried(l, p) = p
  BY <1>3, <1>5, <1>6, FreshAre, CarriedAre
<1>14. Placed(l, p)'
  <2>1. p.id <= nb_sent'
    BY <1>1, <1>2, <1>6 DEF Typed
  <2>2. Fresh(p, t)
    BY <1>4, <1>6 DEF Fresh
  <2>3. l[1] = "in" /\ l[2] = t /\ p.port # 1
    BY <1>3, <1>5, <1>6, NamesDiffer
  <2> QED
    BY <1>13, <2>1, <2>2, <2>3 DEF Placed
<1>15. Places'
  BY <1>1, <1>2, <1>9, <1>11, <1>14, JoinsKeepPlaces DEF FInv, LInv
<1>16. Ordered'
  BY <1>2, <1>6, <1>9, <1>11, <1>13, JoinsKeepOrder DEF FInv, LInv
<1>17. (\A g \in lost : LostRightly(g))'
  <2>1. \A g : LostRightly(g)' <=> LostRightly(g)
    BY <1>1 DEF LostRightly, Unroutable
  <2> QED
    BY <1>1, <2>1 DEF FInv, LInv
<1> QED
  BY <1>12, <1>15, <1>16, <1>17 DEF FInv, LInv

\* A step of the clock, or none.
LEMMA ClockStep ==
    ASSUME FInv, now' \in Nat,
           UNCHANGED <<paths, nb_sent, tor_in, calendar, tor_normal, tor_out,
                       ocs_in, ocs_out, delivered, lost>>
    PROVE  FInv'
<1>1. \A k \in Line : Content(k)' = Content(k)
  BY DEF Content
<1>2. Typed /\ Typed'
  BY DEF FInv, LInv, Typed
<1>3. Places'
  <2> SUFFICES ASSUME NEW k \in Line, NEW n \in DOMAIN Content(k)'
               PROVE  Placed(k, Content(k)[n])'
    BY DEF Places
  <2>1. PICK e : e = Content(k)[n]
    OBVIOUS
  <2>2. e \in Element(k) /\ Placed(k, e)
    BY <1>1, <1>2, <2>1, ContentTyped DEF Places, FInv, LInv
  <2>3. nb_sent' \in Nat /\ nb_sent <= nb_sent'
    BY <1>2 DEF Typed
  <2>4. Placed(k, e)'
    BY <1>2, <2>2, <2>3, PlacedStays
  <2> QED
    BY <1>1, <2>1, <2>4
<1>4. Ordered'
  <2> SUFFICES ASSUME NEW j \in Line, NEW l \in Line, NEW m \in DOMAIN Content(j)',
                      NEW n \in DOMAIN Content(l)'
               PROVE  InOrder(j, Content(j)'[m], m, l, Content(l)'[n], n)
    BY DEF Ordered, InOrder, Further, Tracked, Alike, Rank, IsFresh, Carried, Offset
  <2> QED
    BY <1>1 DEF FInv, Ordered
<1>5. (\A g \in lost : LostRightly(g))'
  BY DEF FInv, LInv, LostRightly, Unroutable
<1> QED
  BY <1>2, <1>3, <1>4, <1>5 DEF FInv, LInv

----------------------------------------------------------------------------
(* The invariant, and what it says of what is delivered.                   *)

\* All lines are empty at the start.
LEMMA InitFInv == Init => FInv
<1> SUFFICES ASSUME Init PROVE FInv
  OBVIOUS
<1>1. Typed
  <2>1. << >> \in Seq(Packet) /\ << >> \in Seq(OutElement) /\ << >> \in Seq(InElement)
    OBVIOUS
  <2> QED
    BY <2>1 DEF Init, Typed, CalendarKey
<1>2. \A k \in Line : Content(k) = << >>
  BY Kinds, Contents DEF Init, CalendarKey
<1>3. DOMAIN << >> = {}
  OBVIOUS
<1>4. Places /\ Ordered
  BY <1>2, <1>3 DEF Places, Ordered
<1>5. lost = {}
  BY DEF Init
<1> QED
  BY <1>1, <1>4, <1>5 DEF FInv, LInv

\* Every step preserves the invariant.
LEMMA NextFInv == FInv /\ [Next]_vars => FInv'
<1> SUFFICES ASSUME FInv, [Next]_vars PROVE FInv'
  OBVIOUS
<1>1. CASE Tick
  <2>1. now' \in Nat
    BY <1>1, ModulusAssumption DEF Tick, FInv, LInv, Typed
  <2> QED
    BY <1>1, <2>1, ClockStep DEF Tick
<1>2. CASE \E f \in Flows : HostSend(f)
  BY <1>2, HostSendStep
<1>3. CASE \E t \in Tor : TorStep(t)
  BY <1>3, IngressStep, CalendarPopStep, EgressStep, TransmitStep DEF TorStep
<1>4. CASE OcsIngress
  BY <1>4, OcsIngressStep
<1>5. CASE \E u \in Tor : OcsTransmit(u)
  BY <1>5, OcsTransmitStep
<1>6. CASE UNCHANGED vars
  <2>1. now' \in Nat
    BY <1>6 DEF vars, FInv, LInv, Typed
  <2> QED
    BY <1>6, <2>1, ClockStep DEF vars
<1> QED
  BY <1>1, <1>2, <1>3, <1>4, <1>5, <1>6 DEF Next

\* The invariant of the network.
LEMMA FInvHolds == Spec => []FInv
BY InitFInv, NextFInv, PTL DEF Spec

\* Two packets of one flow and path that have both been delivered are at the
\* same ToR, with the same rank: their order in the line decides.
LEMMA OrderOut == FInv => FlowOrder
<1> SUFFICES ASSUME FInv, NEW t \in Tor,
                    NEW i \in DOMAIN delivered[t], NEW j \in DOMAIN delivered[t], i < j,
                    delivered[t][i].src = delivered[t][j].src,
                    delivered[t][i].dst = delivered[t][j].dst,
                    delivered[t][i].path = delivered[t][j].path,
                    ~delivered[t][i].late, ~delivered[t][j].late
             PROVE  delivered[t][i].id < delivered[t][j].id
  BY DEF FlowOrder
<1>1. PICK k, p, q : k = Delivered(t) /\ p = delivered[t][i] /\ q = delivered[t][j]
  OBVIOUS
<1>2. /\ k \in Line /\ Content(k) = delivered[t]
      /\ Carried(k, p) = p /\ Carried(k, q) = q
  BY <1>1, LineNames, Contents, CarriedAre
<1>3. Typed /\ Places
  BY DEF FInv, LInv
<1>4. p \in Packet /\ q \in Packet /\ Done(p, t) /\ Done(q, t)
  <2>1. Placed(k, p) /\ Placed(k, q)
    BY <1>1, <1>2, <1>3 DEF Places
  <2>2. delivered[t] \in Seq(Packet)
    BY <1>3 DEF Typed
  <2> QED
    BY <1>1, <2>1, <2>2, Placements
<1>5. /\ HopsDone(p) = Len(p.path) + 1 /\ HopsDone(q) = Len(q.path) + 1
      /\ p.path # << >> /\ q.path # << >>
  BY <1>3, <1>4, DoneNumber
<1>6. Rank(k, p) = Rank(k, q)
  BY <1>1, <1>5, Ranks
<1>7. Tracked(k, p) /\ Tracked(k, q) /\ Alike(k, p, k, q) /\ Further(k, p, i, k, q, j)
  BY <1>1, <1>2, <1>5, <1>6 DEF Tracked, Alike, Further
<1>8. InOrder(k, p, i, k, q, j)
  BY <1>1, <1>2 DEF FInv, Ordered
<1> QED
  BY <1>1, <1>2, <1>7, <1>8 DEF InOrder

\* Packets of one flow that were given the same path, and that the OCS handled
\* in the slices they were sent for, are delivered in the order their host
\* sent them: one thread empties each queue of the ToRs (tor_switch.cpp) and
\* of the OCS (optical_switch.cpp), and packets of one path and hop meet in
\* the same ones (tor.p4:283-308, ocs.p4:80-118).  This holds for every
\* topology, choice of routes, number of hops and capacity of the queues.
THEOREM FlowsKeepOrder == Spec => []FlowOrder
BY FInvHolds, OrderOut, PTL

\* The places of packets delivered or lost are those asked for.
LEMMA OnTimeOut ==
    ASSUME HostPorts = {2}, FInv
    PROVE  OnTimePacketsArrive
<1>1. ASSUME NEW t \in Tor, NEW p \in Arrived(t), ~p.late
      PROVE  t = p.dst /\ p.host = 2
  <2>1. delivered[t] \in Seq(Packet)
    BY DEF FInv, LInv, Typed
  <2>2. PICK i \in DOMAIN delivered[t] : p = delivered[t][i]
    BY <1>1 DEF Arrived, ToSet
  <2>3. p \in Packet
    BY <2>1, <2>2
  <2>4. Placed(Delivered(t), p)
    BY <2>2, LineNames, Contents DEF FInv, LInv, Places
  <2>5. t = p.dst
    BY <1>1, <2>4, Placements DEF Done
  <2> QED
    BY <2>3, <2>5 DEF Packet
<1>2. ASSUME NEW l \in lost, l.where = "no_entry"
      PROVE  l.pkt.late
  BY <1>2 DEF FInv, LInv, LostRightly
<1>3. ASSUME NEW l \in lost, l.where = "no_link"
      PROVE  <<l.pkt.src, l.pkt.dst, l.pkt.arrival>> \notin DOMAIN paths
  <2>1. Unroutable(l.pkt)
    BY <1>3 DEF FInv, LInv, LostRightly
  <2>2. l.pkt.port = 2
    BY <2>1 DEF Unroutable
  <2> QED
    BY <2>1, <2>2 DEF Unroutable, RouteKey
<1> QED
  BY <1>1, <1>2, <1>3 DEF OnTimePacketsArrive

\* What the OCS handles in the slices it was sent for reaches the ToR and port
\* it is for, and is lost only to a full queue or for want of a route: the
\* tables of the ToRs, the header tor.p4 takes apart hop by hop and the table
\* of the OCS agree (tor.p4:283-308, ocs.p4:80-118, OpticalToolbox.py:182-236,
\* 515-603).  The one host of a ToR is at port 2, the only port tor.p4 looks
\* up routes for (tor.p4:285).
THEOREM OnTimeArrive ==
    ASSUME HostPorts = {2}
    PROVE  Spec => []OnTimePacketsArrive
<1>1. FInv => OnTimePacketsArrive
  BY OnTimeOut
<1> QED
  BY <1>1, FInvHolds, PTL
============================================================================
