-------------------------- MODULE TorSwitchProofs --------------------------
(***************************************************************************)
(* Proofs about the ToR switch, for every set of ports, every capacity,    *)
(* every P4 program (set of verdicts), clock and number of slices: that it *)
(* uses its calendar queues as their specification allows, its types, that *)
(* it loses no packet without trace, duplicates none, and counts its       *)
(* drops; that it reports a bounded loss rate, for every program that      *)
(* makes no copies; and that it keeps the order of the packets of a queue, *)
(* for every program that only sends packets on.                           *)
(*                                                                         *)
(* The places where a packet can be are lines: the buffers, the lists of   *)
(* tasks, what was sent, and the set of packets that are gone.  A step     *)
(* takes a packet from one line to another, or makes new ones.             *)
(***************************************************************************)
EXTENDS TorSwitch, FiniteSetTheorems, TLAPS

\* The slice read from the clock is one the switch has.
LEMMA SliceOfClock ==
    ASSUME NEW t \in Nat
    PROVE  ts2time_slice(t) \in CQ!Slice
<1>1. t % ClockModulus \in Nat
  BY ModulusAssumption
<1>2. (t % ClockModulus) \div SliceTicks \in Nat
  BY <1>1, TicksAssumption
<1> DEFINE n == (t % ClockModulus) \div SliceTicks
<1>3. n % nb_calendar_queues \in 0 .. nb_calendar_queues - 1
  <2> HIDE DEF n
  <2> QED
    BY <1>2, SlicesAssumption DEF n
<1> QED
  BY <1>3 DEF ts2time_slice, CQ!Slice

----------------------------------------------------------------------------
(* The inductive invariant: types (of the deques only what the switch      *)
(* needs; the counters are the business of CalendarQueueProofs), and what  *)
(* a thread holds at the places where it uses it without looking.          *)

DequesTyped == calendar_queues \in [CQ!Slice -> Seq(CQ!QE)]

ThreadsHold ==
    /\ pc["rx"] = "push" => rx_packet \in Packet
    /\ \A t \in Worker : pc[t] = "work" => work[t] # << >>

TInv == ThreadsTyped /\ BuffersTyped /\ CountersTyped /\ DequesTyped /\ ThreadsHold

----------------------------------------------------------------------------
(* What the helpers do to the threads. *)

LEMMA ThreadSets ==
    /\ Worker \subseteq Thread
    /\ {"rx", "transmit", "main"} \subseteq Thread
    /\ "rx" \notin Worker /\ "transmit" \notin Worker /\ "main" \notin Worker
BY DEF Worker, Thread

\* The next task of a thread that has one.
LEMMA TaskType ==
    ASSUME TInv, NEW t \in Worker, NEW op, HasTask(t, op)
    PROVE  /\ work[t] \in Seq(Tasked) /\ work[t] # << >>
           /\ Head(work[t]) \in Tasked
           /\ Tail(work[t]) \in Seq(Tasked)
<1>1. work[t] \in Seq(Tasked) /\ work[t] # << >>
  BY DEF TInv, ThreadsTyped, ThreadsHold, HasTask
<1> QED
  BY <1>1

\* Taking a task off a list, and going on.
LEMMA TaskDoneType ==
    ASSUME TInv, NEW t \in Worker, NEW op, HasTask(t, op), TaskDone(t)
    PROVE  /\ work' \in [Worker -> Seq(Tasked)]
           /\ pc' \in [Thread -> Label]
           /\ pc'["rx"] = pc["rx"]
           /\ \A u \in Worker : pc'[u] = "work" => work'[u] # << >>
<1>1. Tail(work[t]) \in Seq(Tasked)
  BY TaskType
<1>2. work \in [Worker -> Seq(Tasked)] /\ pc \in [Thread -> Label]
  BY DEF TInv, ThreadsTyped
<1>3. t \in Thread /\ t # "rx"
  BY ThreadSets
<1>4. (IF Tail(work[t]) = << >> THEN Home(t) ELSE "work") \in Label
  BY DEF Home, Label
<1>5. work' \in [Worker -> Seq(Tasked)] /\ pc' \in [Thread -> Label]
  BY <1>1, <1>2, <1>4 DEF TaskDone, Goto
<1>6. pc'["rx"] = pc["rx"]
  BY <1>2, <1>3 DEF TaskDone, Goto
<1>7. ASSUME NEW u \in Worker, pc'[u] = "work" PROVE work'[u] # << >>
  <2>1. CASE u = t
    BY <1>2, <1>3, <1>7, <2>1 DEF TaskDone, Goto, Home
  <2>2. CASE u # t
    BY <1>2, <1>7, <2>2, ThreadSets DEF TaskDone, Goto, TInv, ThreadsHold
  <2> QED
    BY <2>1, <2>2
<1> QED
  BY <1>5, <1>6, <1>7

LEMMA CountDropType ==
    ASSUME TInv, NEW t \in Worker, NEW op, HasTask(t, op), CountDrop(t)
    PROVE  /\ work' \in [Worker -> Seq(Tasked)]
           /\ pc' \in [Thread -> Label]
           /\ pc'["rx"] = pc["rx"]
           /\ \A u \in Worker : pc'[u] = "work" => work'[u] # << >>
<1>1. Tail(work[t]) \in Seq(Tasked)
  BY TaskType
<1>2. work \in [Worker -> Seq(Tasked)] /\ pc \in [Thread -> Label]
  BY DEF TInv, ThreadsTyped
<1>3. t \in Thread /\ t # "rx" /\ "count" \in Label
  BY ThreadSets DEF Label
<1>4. work' \in [Worker -> Seq(Tasked)] /\ pc' \in [Thread -> Label] /\ pc'["rx"] = pc["rx"]
  BY <1>1, <1>2, <1>3 DEF CountDrop, Goto
<1>5. ASSUME NEW u \in Worker, pc'[u] = "work" PROVE work'[u] # << >>
  BY <1>2, <1>3, <1>5, ThreadSets DEF CountDrop, Goto, TInv, ThreadsHold
<1> QED
  BY <1>4, <1>5

\* A thread that goes to a place other than "push" or "work" upsets nothing.
LEMMA GotoType ==
    ASSUME TInv, NEW t \in Thread, NEW l \in Label \ {"push", "work"}, Goto(t, l),
           UNCHANGED work
    PROVE  /\ pc' \in [Thread -> Label]
           /\ pc'["rx"] = "push" => pc["rx"] = "push"
           /\ \A u \in Worker : pc'[u] = "work" => work'[u] # << >>
<1>1. pc \in [Thread -> Label]
  BY DEF TInv, ThreadsTyped
<1> QED
  BY <1>1, ThreadSets DEF Goto, TInv, ThreadsHold

\* The list of tasks a pipeline leaves.
LEMMA ProcessType ==
    ASSUME TInv, NEW t \in Worker, NEW x \in Packet, NEW p \in Port, NEW q \in Nat,
           NEW verdicts, \A v \in verdicts : \E fates : IsVerdict(v, fates) /\ "copy" \notin fates,
           Process(t, x, p, q, verdicts)
    PROVE  /\ work' \in [Worker -> Seq(Tasked)]
           /\ pc' \in [Thread -> Label]
           /\ pc'["rx"] = pc["rx"]
           /\ packet_id' \in 0 .. MaxPackets
           /\ \A u \in Worker : pc'[u] = "work" => work'[u] # << >>
<1>1. PICK v \in verdicts :
        /\ packet_id + Replicas(v) <= MaxPackets
        /\ packet_id' = packet_id + Replicas(v)
        /\ work' = [work EXCEPT ![t] =
              [i \in 1 .. Len(v) |->
                  CASE v[i].op = "copy" -> [v[i] EXCEPT !.pkt = packet_id + i]
                    [] v[i].op = "emit" -> [v[i] EXCEPT !.pkt = x, !.port = p, !.queue = q]
                    [] OTHER -> [v[i] EXCEPT !.pkt = x]]]
        /\ pc' = [pc EXCEPT ![t] = "work"]
  BY DEF Process
<1>0. packet_id + Replicas(v) <= MaxPackets /\ packet_id' = packet_id + Replicas(v)
  BY <1>1
<1>2. /\ v \in Seq(TaskOf({nullptr})) /\ v # << >>
      /\ v[Len(v)].op # "copy"
  BY DEF IsVerdict
<1>3. /\ Len(v) \in Nat /\ Len(v) > 0
      /\ \A i \in 1 .. Len(v) : v[i] \in TaskOf({nullptr})
  BY <1>2
<1>4. packet_id \in Nat /\ packet_id <= MaxPackets
  BY BoundAssumption DEF TInv, ThreadsTyped
<1> DEFINE task(i) == CASE v[i].op = "copy" -> [v[i] EXCEPT !.pkt = packet_id + i]
                        [] v[i].op = "emit" -> [v[i] EXCEPT !.pkt = x, !.port = p, !.queue = q]
                        [] OTHER -> [v[i] EXCEPT !.pkt = x]
<1>5. ASSUME NEW i \in 1 .. Len(v) PROVE task(i) \in Tasked
  <2>1. v[i] \in TaskOf({nullptr})
    BY <1>3
  <2>2. CASE v[i].op = "copy"
    <3>1. i # Len(v)
      BY <1>2, <2>2
    <3>2. i <= Replicas(v)
      BY <1>3, <3>1 DEF Replicas
    <3>3. packet_id + i \in Packet
      <4>1. i \in Nat /\ i >= 1 /\ Replicas(v) \in Int
        BY <1>3 DEF Replicas
      <4> QED
        BY <1>0, <1>4, <3>2, <4>1, BoundAssumption DEF Packet
    <3>4. task(i) = [v[i] EXCEPT !.pkt = packet_id + i]
      BY <2>2
    <3> QED
      BY <2>1, <3>3, <3>4 DEF Tasked, TaskOf
  <2>3. CASE v[i].op = "emit"
    <3>1. task(i) = [v[i] EXCEPT !.pkt = x, !.port = p, !.queue = q]
      BY <2>3
    <3> QED
      BY <2>1, <3>1 DEF Tasked, TaskOf
  <2>4. CASE v[i].op # "copy" /\ v[i].op # "emit"
    <3>1. task(i) = [v[i] EXCEPT !.pkt = x]
      BY <2>4
    <3> QED
      BY <2>1, <3>1 DEF Tasked, TaskOf
  <2> QED
    BY <2>2, <2>3, <2>4
<1> DEFINE tasks == [i \in 1 .. Len(v) |-> task(i)]
<1>6. tasks \in Seq(Tasked) /\ Len(tasks) = Len(v)
  <2> HIDE DEF task
  <2> QED
    BY <1>3, <1>5
<1>7. tasks # << >>
  <2> HIDE DEF tasks
  <2> QED
    BY <1>3, <1>6
<1>8. work' = [work EXCEPT ![t] = tasks] /\ pc' = [pc EXCEPT ![t] = "work"]
  BY <1>1
<1>9. work \in [Worker -> Seq(Tasked)] /\ pc \in [Thread -> Label]
  BY DEF TInv, ThreadsTyped
<1> HIDE DEF tasks, task
<1>10. work' \in [Worker -> Seq(Tasked)]
  BY <1>6, <1>8, <1>9
<1>11. pc' \in [Thread -> Label] /\ pc'["rx"] = pc["rx"]
  BY <1>8, <1>9, ThreadSets DEF Label
<1>12. packet_id' \in 0 .. MaxPackets
  BY <1>0, <1>3, <1>4, BoundAssumption DEF Replicas
<1>13. ASSUME NEW u \in Worker, pc'[u] = "work" PROVE work'[u] # << >>
  BY <1>7, <1>8, <1>9, <1>13, ThreadSets DEF TInv, ThreadsHold
<1> QED
  BY <1>10, <1>11, <1>12, <1>13

----------------------------------------------------------------------------
(* Every action keeps the invariant. *)

LEMMA InitTInv == Init => TInv
<1> SUFFICES ASSUME Init PROVE TInv
  OBVIOUS
<1>1. ThreadsTyped
  <2>1. 0 \in CQ!Slice
    BY SlicesAssumption DEF CQ!Slice
  <2>2. pc \in [Thread -> Label]
    BY DEF Init, Label
  <2> QED
    BY <2>1, <2>2, BoundAssumption DEF Init, ThreadsTyped
<1>2. BuffersTyped
  BY DEF Init, BuffersTyped
<1>3. CountersTyped
  BY DEF Init, CountersTyped
<1>4. DequesTyped
  BY DEF Init, DequesTyped, CQ!Init
<1>5. ThreadsHold
  BY ThreadSets DEF Init, ThreadsHold, Worker
<1> QED
  BY <1>1, <1>2, <1>3, <1>4, <1>5 DEF TInv

LEMMA TickTInv == ASSUME TInv, Tick PROVE TInv'
<1>1. now' \in 0 .. ClockModulus - 1
  BY ModulusAssumption DEF Tick, TInv, ThreadsTyped
<1> QED
  BY <1>1 DEF Tick, TInv, ThreadsTyped, BuffersTyped, CountersTyped, DequesTyped, ThreadsHold,
     inputVars, cqVars, countVars

LEMMA ReceiveTInv == ASSUME TInv, Receive PROVE TInv'
<1>1. packet_id' \in 0 .. MaxPackets /\ rx_packet' \in Packet
  BY BoundAssumption DEF Receive, TInv, ThreadsTyped, Packet
<1>2. pc' \in [Thread -> Label] /\ \A t \in Worker : pc'[t] = pc[t]
  BY ThreadSets DEF Receive, Goto, TInv, ThreadsTyped, Label
<1>3. ThreadsTyped' /\ ThreadsHold'
  BY <1>1, <1>2 DEF Receive, TInv, ThreadsTyped, ThreadsHold
<1>4. BuffersTyped' /\ CountersTyped' /\ DequesTyped'
  BY DEF Receive, TInv, ThreadsTyped, BuffersTyped, CountersTyped, DequesTyped, ThreadsHold,
     inputVars, cqVars, countVars
<1> QED
  BY <1>3, <1>4 DEF TInv

LEMMA ReceivePushTInv == ASSUME TInv, ReceivePush PROVE TInv'
<1>1. /\ pc' \in [Thread -> Label] /\ pc'["rx"] # "push"
      /\ \A u \in Worker : pc'[u] = "work" => work'[u] # << >>
  BY ThreadSets DEF ReceivePush, Goto, TInv, ThreadsTyped, ThreadsHold, Label
<1>2. queue_lo' \in Seq(Packet)
  BY DEF ReceivePush, TInv, BuffersTyped, ThreadsHold
<1> QED
  BY <1>1, <1>2 DEF ReceivePush, TInv, ThreadsTyped, BuffersTyped, CountersTyped, DequesTyped,
     ThreadsHold, inputVars, cqVars, countVars

LEMMA ReceiveCountTInv == ASSUME TInv, ReceiveCount PROVE TInv'
<1>1. /\ pc' \in [Thread -> Label] /\ pc'["rx"] # "push"
      /\ \A u \in Worker : pc'[u] = "work" => work'[u] # << >>
  BY ThreadSets DEF ReceiveCount, Goto, TInv, ThreadsTyped, ThreadsHold, Label
<1>2. ThreadsTyped' /\ ThreadsHold'
  BY <1>1 DEF ReceiveCount, TInv, ThreadsTyped, ThreadsHold
<1>3. nb_pkts_rcvd' \in Nat
  BY DEF ReceiveCount, TInv, CountersTyped
<1>4. BuffersTyped' /\ CountersTyped' /\ DequesTyped'
  BY <1>3 DEF ReceiveCount, TInv, BuffersTyped, CountersTyped, DequesTyped, inputVars,
              cqVars, countVars
<1> QED
  BY <1>2, <1>4 DEF TInv

\* What IngressTake needs and keeps.
LEMMA IngressTakeType ==
    ASSUME TInv, NEW x \in Packet \cup {nullptr}, IngressTake(x)
    PROVE  ThreadsTyped' /\ ThreadsHold' /\ CountersTyped' /\ DequesTyped'
<1>1. "ingress" \in Worker /\ "done" \in Label \ {"push", "work"}
  BY DEF Worker, Label
<1>2. /\ work' \in [Worker -> Seq(Tasked)]
      /\ pc' \in [Thread -> Label]
      /\ pc'["rx"] = "push" => pc["rx"] = "push"
      /\ packet_id' \in 0 .. MaxPackets
      /\ \A u \in Worker : pc'[u] = "work" => work'[u] # << >>
  <2>1. CASE x = nullptr
    BY <1>1, <2>1, GotoType, ThreadSets DEF IngressTake, TInv, ThreadsTyped
  <2>2. CASE x # nullptr
    <3>1. Process("ingress", x, 0, 0, IngressVerdicts)
      BY <2>2 DEF IngressTake
    <3>2. \A v \in IngressVerdicts : \E fates : IsVerdict(v, fates) /\ "copy" \notin fates
      <4> DEFINE F == {"host", "calendar", "resubmit", "drop", "discard"}
      <4>1. "copy" \notin F /\ \A v \in IngressVerdicts : IsVerdict(v, F)
        BY VerdictsAssumption
      <4> QED
        BY <4>1
    <3>3. x \in Packet
      BY <2>2
    <3> QED
      BY <1>1, <3>1, <3>2, <3>3, PortAssumption, ProcessType
  <2> QED
    BY <2>1, <2>2
<1> QED
  BY <1>2 DEF IngressTake, TInv, ThreadsTyped, BuffersTyped, CountersTyped, DequesTyped,
     ThreadsHold, cqVars, countVars

LEMMA IngressPopTInv == ASSUME TInv, IngressPop PROVE TInv'
<1>1. CASE /\ queue_hi # << >>
           /\ queue_hi' = Tail(queue_hi) /\ UNCHANGED queue_lo
           /\ IngressTake(Head(queue_hi))
  <2>1. Head(queue_hi) \in Packet \cup {nullptr} /\ Tail(queue_hi) \in Seq(Packet \cup {nullptr})
    BY <1>1 DEF TInv, BuffersTyped
  <2>2. ThreadsTyped' /\ ThreadsHold' /\ CountersTyped' /\ DequesTyped'
    BY <1>1, <2>1, IngressTakeType
  <2>3. BuffersTyped'
    BY <1>1, <2>1 DEF IngressTake, TInv, BuffersTyped
  <2> QED
    BY <2>2, <2>3 DEF TInv
<1>2. CASE /\ queue_hi = << >> /\ queue_lo # << >>
           /\ queue_lo' = Tail(queue_lo) /\ UNCHANGED queue_hi
           /\ IngressTake(Head(queue_lo))
  <2>1. Head(queue_lo) \in Packet \cup {nullptr} /\ Tail(queue_lo) \in Seq(Packet)
    BY <1>2 DEF TInv, BuffersTyped
  <2>2. ThreadsTyped' /\ ThreadsHold' /\ CountersTyped' /\ DequesTyped'
    BY <1>2, <2>1, IngressTakeType
  <2>3. BuffersTyped'
    BY <1>2, <2>1 DEF IngressTake, TInv, BuffersTyped
  <2> QED
    BY <2>2, <2>3 DEF TInv
<1> QED
  BY <1>1, <1>2 DEF IngressPop

LEMMA BackToIngressTInv ==
    ASSUME TInv, NEW t \in Worker, NEW op, BackToIngress(t, op)
    PROVE  TInv'
<1>1. HasTask(t, op) /\ TaskDone(t)
  BY DEF BackToIngress
<1>2. Head(work[t]).pkt \in Packet
  BY <1>1, TaskType DEF Tasked, TaskOf
<1> DEFINE x == Head(work[t]).pkt
<1>3. queue_hi' \in Seq(Packet \cup {nullptr})
  <2>1. queue_hi' = queue_hi \/ queue_hi' = Append(queue_hi, x)
    BY DEF BackToIngress
  <2> HIDE DEF x
  <2>2. x \in Packet \cup {nullptr} /\ queue_hi \in Seq(Packet \cup {nullptr})
    BY <1>2 DEF x, TInv, BuffersTyped
  <2> QED
    BY <2>1, <2>2
<1> QED
  BY <1>1, <1>3, TaskDoneType DEF BackToIngress, TInv, ThreadsTyped, BuffersTyped,
     CountersTyped, DequesTyped, ThreadsHold, cqVars, countVars

LEMMA DiscardTInv == ASSUME TInv, DiscardOriginal PROVE TInv'
<1>1. "ingress" \in Worker /\ HasTask("ingress", "discard") /\ TaskDone("ingress")
  BY DEF DiscardOriginal, Worker
<1> QED
  BY <1>1, TaskDoneType DEF DiscardOriginal, TInv, ThreadsTyped, BuffersTyped, CountersTyped,
     DequesTyped, ThreadsHold, inputVars, cqVars, countVars

LEMMA DropTInv == ASSUME TInv, NEW t \in Worker, DropPacket(t) PROVE TInv'
<1>1. HasTask(t, "drop") /\ CountDrop(t)
  BY DEF DropPacket
<1> QED
  BY <1>1, CountDropType DEF DropPacket, TInv, ThreadsTyped, BuffersTyped, CountersTyped,
     DequesTyped, ThreadsHold, inputVars, cqVars, countVars

\* A normal queue with one more element.
LEMMA EgressAppend ==
    ASSUME TInv, NEW q \in Queue, NEW qe \in [pkt : Packet \cup {nullptr}, port : Port],
           egress_buffers' = [egress_buffers EXCEPT ![q] = Append(@, qe)]
    PROVE  egress_buffers' \in [Queue -> Seq([pkt : Packet \cup {nullptr}, port : Port])]
<1> DEFINE E == [pkt : Packet \cup {nullptr}, port : Port]
<1>1. egress_buffers \in [Queue -> Seq(E)] /\ qe \in E
  BY DEF TInv, BuffersTyped
<1> HIDE DEF E
<1>2. egress_buffers' \in [Queue -> Seq(E)]
  BY <1>1
<1> QED
  BY <1>2 DEF E

LEMMA EnqueueNormalTInv == ASSUME TInv, NEW t \in Worker, EnqueueNormal(t) PROVE TInv'
<1> DEFINE task == Head(work[t])
           q == nb_queues_per_port - 1 - task.priority
<1>1. PICK op : HasTask(t, op)
  BY DEF EnqueueNormal
<1>2. task \in Tasked
  BY <1>1, TaskType
<1>3. task.pkt \in Packet /\ task.port \in Port /\ task.priority \in Nat
  BY <1>2 DEF Tasked, TaskOf
<1>4. TaskDone(t) \/ CountDrop(t)
  BY DEF EnqueueNormal
<1>5. egress_buffers' \in [Queue -> Seq([pkt : Packet \cup {nullptr}, port : Port])]
  <2>1. CASE UNCHANGED egress_buffers
    BY <2>1 DEF TInv, BuffersTyped
  <2>2. CASE /\ task.priority < nb_queues_per_port
             /\ egress_buffers' = [egress_buffers EXCEPT
                    ![q] = Append(@, [pkt |-> task.pkt, port |-> task.port])]
    <3>1. q \in Queue
      BY <1>3, <2>2, CapacitiesAssumption DEF Queue
    <3> DEFINE element == [pkt |-> task.pkt, port |-> task.port]
    <3>2. element \in [pkt : Packet \cup {nullptr}, port : Port]
      BY <1>3
    <3> HIDE DEF q, task, element
    <3>3. egress_buffers' = [egress_buffers EXCEPT ![q] = Append(@, element)]
      BY <2>2 DEF element
    <3> QED
      BY <3>1, <3>2, <3>3, EgressAppend
  <2> QED
    BY <2>1, <2>2 DEF EnqueueNormal
<1> QED
  BY <1>1, <1>4, <1>5, TaskDoneType, CountDropType
  DEF EnqueueNormal, TInv, ThreadsTyped, BuffersTyped, CountersTyped, DequesTyped,
     ThreadsHold, inputVars, cqVars, countVars

\* Where the ingress thread may put a packet in the calendar queues.
LEMMA CalendarTask ==
    ASSUME TInv, HasTask("ingress", "calendar"), ~NoSuchSlice(Head(work["ingress"]).queue)
    PROVE  LET task == Head(work["ingress"])
           IN  task.port \in Port /\ task.queue \in CQ!Slice /\ task.pkt \in Packet
<1>1. "ingress" \in Worker
  BY DEF Worker
<1>2. Head(work["ingress"]) \in Tasked
  BY <1>1, TaskType
<1> QED
  BY <1>2, SlicesAssumption DEF Tasked, TaskOf, NoSuchSlice, CQ!Slice

LEMMA EnqueueCalendarTInv == ASSUME TInv, EnqueueCalendar PROVE TInv'
<1> DEFINE task == Head(work["ingress"])
<1>1. "ingress" \in Worker /\ HasTask("ingress", "calendar")
  BY DEF EnqueueCalendar, Worker
<1>2. CASE UNCHANGED <<cqVars, work, pc>> /\ exited' = TRUE
  BY <1>2 DEF EnqueueCalendar, TInv, ThreadsTyped, BuffersTyped, CountersTyped, DequesTyped,
     ThreadsHold, inputVars, cqVars, countVars
<1>3. CASE /\ ~NoSuchSlice(task.queue) /\ UNCHANGED exited
           /\ TaskDone("ingress") \/ CountDrop("ingress")
  <2>1. task.port \in Port /\ task.queue \in CQ!Slice /\ task.pkt \in Packet
    BY <1>1, <1>3, CalendarTask
  <2>2. DequesTyped'
    <3>1. CASE UNCHANGED calendar_queues
      BY <3>1 DEF TInv, DequesTyped
    <3>2. CASE CQ!PushFront(task.port, task.queue, task.pkt)
      <4> DEFINE qe == [e |-> task.pkt, port_id |-> task.port]
      <4>1. qe \in CQ!QE
        BY <2>1 DEF CQ!QE
      <4>2. calendar_queues' = [calendar_queues EXCEPT ![task.queue] = Append(@, qe)]
        BY <3>2 DEF CQ!PushFront
      <4> HIDE DEF qe, task
      <4> QED
        BY <2>1, <4>1, <4>2 DEF TInv, DequesTyped
    <3> QED
      BY <1>3, <3>1, <3>2 DEF EnqueueCalendar, CQ!PushFull, cqVars
  <2> QED
    BY <1>1, <1>3, <2>2, TaskDoneType, CountDropType
    DEF EnqueueCalendar, TInv, ThreadsTyped, BuffersTyped, CountersTyped, DequesTyped,
       ThreadsHold, inputVars, countVars
<1> QED
  BY <1>2, <1>3 DEF EnqueueCalendar

LEMMA LoadDroppedTInv == ASSUME TInv, NEW t \in Worker, LoadDropped(t) PROVE TInv'
<1>1. t \in Thread /\ "store" \in Label \ {"push", "work"}
  BY ThreadSets DEF Label
<1>2. /\ pc' \in [Thread -> Label]
      /\ pc'["rx"] = "push" => pc["rx"] = "push"
      /\ \A u \in Worker : pc'[u] = "work" => work'[u] # << >>
  BY <1>1, GotoType DEF LoadDropped
<1> QED
  BY <1>2 DEF LoadDropped, TInv, ThreadsTyped, BuffersTyped, CountersTyped, DequesTyped,
     ThreadsHold, inputVars, cqVars

LEMMA StoreDroppedTInv == ASSUME TInv, NEW t \in Worker, StoreDropped(t) PROVE TInv'
<1>1. pc \in [Thread -> Label] /\ t \in Thread /\ t # "rx"
  BY ThreadSets DEF TInv, ThreadsTyped
<1>2. (IF work[t] = << >> THEN Home(t) ELSE "work") \in Label
  BY DEF Home, Label
<1>3. pc' \in [Thread -> Label] /\ pc'["rx"] = pc["rx"]
  BY <1>1, <1>2 DEF StoreDropped, Goto
<1>4. ASSUME NEW u \in Worker, pc'[u] = "work" PROVE work'[u] # << >>
  <2>1. CASE u = t
    BY <1>1, <1>4, <2>1 DEF StoreDropped, Goto, Home
  <2>2. CASE u # t
    BY <1>1, <1>4, <2>2, ThreadSets DEF StoreDropped, Goto, TInv, ThreadsHold
  <2> QED
    BY <2>1, <2>2
<1>5. nb_pkts_dropped' \in Nat
  BY DEF StoreDropped, TInv, CountersTyped
<1> QED
  BY <1>3, <1>4, <1>5 DEF StoreDropped, TInv, ThreadsTyped, BuffersTyped, CountersTyped,
     DequesTyped, ThreadsHold, inputVars, cqVars

LEMMA ReadActiveSliceTInv == ASSUME TInv, ReadActiveSlice PROVE TInv'
<1>1. "cq" \in Thread /\ "pop" \in Label \ {"push", "work"}
  BY DEF Thread, Worker, Label
<1>2. /\ pc' \in [Thread -> Label]
      /\ pc'["rx"] = "push" => pc["rx"] = "push"
      /\ \A u \in Worker : pc'[u] = "work" => work'[u] # << >>
  BY <1>1, GotoType DEF ReadActiveSlice
<1>3. now \in Nat
  BY ModulusAssumption DEF TInv, ThreadsTyped
<1>4. active_q' \in CQ!Slice
  BY <1>3, SliceOfClock DEF ReadActiveSlice
<1> QED
  BY <1>2, <1>4 DEF ReadActiveSlice, TInv, ThreadsTyped, BuffersTyped, CountersTyped,
     DequesTyped, ThreadsHold, inputVars, cqVars, countVars

LEMMA CalendarEmptyTInv == ASSUME TInv, CalendarEmpty PROVE TInv'
<1>1. "cq" \in Thread /\ "read" \in Label \ {"push", "work"}
  BY DEF Thread, Worker, Label
<1>2. /\ pc' \in [Thread -> Label]
      /\ pc'["rx"] = "push" => pc["rx"] = "push"
      /\ \A u \in Worker : pc'[u] = "work" => work'[u] # << >>
  BY <1>1, GotoType DEF CalendarEmpty
<1> QED
  BY <1>2 DEF CalendarEmpty, CQ!PopEmpty, CQ!vars, TInv, ThreadsTyped, BuffersTyped,
     CountersTyped, DequesTyped, ThreadsHold, inputVars, countVars

LEMMA CalendarPopTInv == ASSUME TInv, CalendarPop PROVE TInv'
<1> DEFINE q == calendar_queues[active_q]
<1>1. "cq" \in Worker /\ active_q \in CQ!Slice /\ active_q \in Nat
  BY SlicesAssumption DEF Worker, TInv, ThreadsTyped, CQ!Slice
<1>2. q \in Seq(CQ!QE) /\ q # << >>
  BY <1>1 DEF CalendarPop, TakeFromCalendar, CQ!PopBack, TInv, DequesTyped
<1>3. Head(q) \in CQ!QE /\ Tail(q) \in Seq(CQ!QE)
  BY <1>2
<1>4. Head(q).e \in Packet /\ Head(q).port_id \in Port
  BY <1>3 DEF CQ!QE
<1>5. Process("cq", Head(q).e, Head(q).port_id, active_q, CqVerdicts)
  BY DEF CalendarPop
<1>6. \A v \in CqVerdicts : \E fates : IsVerdict(v, fates) /\ "copy" \notin fates
  <2> DEFINE F == {"emit", "recirculate", "drop"}
  <2>1. "copy" \notin F /\ \A v \in CqVerdicts : IsVerdict(v, F)
    BY VerdictsAssumption
  <2> QED
    BY <2>1
<1>7. /\ work' \in [Worker -> Seq(Tasked)]
      /\ pc' \in [Thread -> Label]
      /\ pc'["rx"] = pc["rx"]
      /\ packet_id' \in 0 .. MaxPackets
      /\ \A u \in Worker : pc'[u] = "work" => work'[u] # << >>
  BY <1>1, <1>4, <1>5, <1>6, ProcessType
<1>8. DequesTyped'
  BY <1>1, <1>3 DEF CalendarPop, TakeFromCalendar, CQ!PopBack, TInv, DequesTyped
<1> QED
  BY <1>7, <1>8 DEF CalendarPop, TInv, ThreadsTyped, BuffersTyped, CountersTyped, DequesTyped,
     ThreadsHold, inputVars, countVars

LEMMA EgressPopTInv == ASSUME TInv, EgressPop PROVE TInv'
<1>1. PICK q \in Queue :
        /\ egress_buffers[q] # << >>
        /\ egress_buffers' = [egress_buffers EXCEPT ![q] = Tail(@)]
        /\ LET head == Head(egress_buffers[q])
           IN  IF head.pkt = nullptr
                 THEN Goto("egress", "done") /\ UNCHANGED <<packet_id, work>>
                 ELSE Process("egress", head.pkt, head.port, q, EgressVerdicts)
  BY DEF EgressPop
<1> DEFINE head == Head(egress_buffers[q])
<1>2. egress_buffers[q] \in Seq([pkt : Packet \cup {nullptr}, port : Port])
  BY DEF TInv, BuffersTyped
<1> DEFINE E == [pkt : Packet \cup {nullptr}, port : Port]
<1>3. /\ head.pkt \in Packet \cup {nullptr} /\ head.port \in Port
      /\ Tail(egress_buffers[q]) \in Seq([pkt : Packet \cup {nullptr}, port : Port])
  <2>1. egress_buffers[q] \in Seq(E) /\ egress_buffers[q] # << >>
    BY <1>1, <1>2
  <2> HIDE DEF E
  <2>2. head \in E /\ Tail(egress_buffers[q]) \in Seq(E)
    BY <2>1
  <2> USE DEF E
  <2>3. head \in [pkt : Packet \cup {nullptr}, port : Port]
    BY <2>2
  <2> HIDE DEF head
  <2> QED
    BY <2>2, <2>3
<1>4. egress_buffers' \in [Queue -> Seq([pkt : Packet \cup {nullptr}, port : Port])]
  BY <1>1, <1>3 DEF TInv, BuffersTyped
<1>5. "egress" \in Worker /\ "done" \in Label \ {"push", "work"} /\ q \in Nat
  BY CapacitiesAssumption DEF Worker, Label, Queue
<1>6. /\ work' \in [Worker -> Seq(Tasked)]
      /\ pc' \in [Thread -> Label]
      /\ pc'["rx"] = "push" => pc["rx"] = "push"
      /\ packet_id' \in 0 .. MaxPackets
      /\ \A u \in Worker : pc'[u] = "work" => work'[u] # << >>
  <2>1. CASE head.pkt = nullptr
    BY <1>1, <1>5, <2>1, GotoType, ThreadSets DEF TInv, ThreadsTyped
  <2>2. CASE head.pkt # nullptr
    <3>1. Process("egress", head.pkt, head.port, q, EgressVerdicts)
      BY <1>1, <2>2
    <3>2. \A v \in EgressVerdicts : \E fates : IsVerdict(v, fates) /\ "copy" \notin fates
      <4> DEFINE F == {"emit", "recirculate", "drop"}
      <4>1. "copy" \notin F /\ \A v \in EgressVerdicts : IsVerdict(v, F)
        BY VerdictsAssumption
      <4> QED
        BY <4>1
    <3>3. head.pkt \in Packet
      BY <1>3, <2>2
    <3> HIDE DEF head
    <3> QED
      BY <1>3, <1>5, <3>1, <3>2, <3>3, ProcessType
  <2> QED
    BY <2>1, <2>2
<1> QED
  BY <1>4, <1>6 DEF EgressPop, TInv, ThreadsTyped, BuffersTyped, CountersTyped, DequesTyped,
     ThreadsHold, inputVars, cqVars, countVars

LEMMA EmitTInv ==
    ASSUME TInv, NEW t \in {"cq", "egress"}, EmitPacket(t)
    PROVE  TInv'
<1> DEFINE task == Head(work[t])
           out == [pkt |-> task.pkt, port |-> task.port, from |-> t, queue |-> task.queue]
<1>1. t \in Worker /\ HasTask(t, "emit") /\ TaskDone(t)
  BY DEF EmitPacket, Worker
<1>2. task \in Tasked
  BY <1>1, TaskType
<1>3. out \in Outgoing
  BY <1>2 DEF Tasked, TaskOf, Outgoing
<1>4. output_buffer' \in Seq(Outgoing \cup {EndOfOutput})
  <2>1. output_buffer' = Append(output_buffer, out)
    BY DEF EmitPacket
  <2> HIDE DEF out
  <2> QED
    BY <1>3, <2>1 DEF TInv, BuffersTyped
<1> QED
  BY <1>1, <1>4, TaskDoneType DEF EmitPacket, TInv, ThreadsTyped, BuffersTyped, CountersTyped,
     DequesTyped, ThreadsHold, inputVars, cqVars, countVars

LEMMA TransmitTInv == ASSUME TInv, Transmit PROVE TInv'
<1>1. Head(output_buffer) \in Outgoing \cup {EndOfOutput}
      /\ Tail(output_buffer) \in Seq(Outgoing \cup {EndOfOutput})
  BY DEF Transmit, TInv, BuffersTyped
<1> DEFINE out == Head(output_buffer)
<1>2. sent' \in Seq(Outgoing)
  <2>1. sent' = sent \/ (out # EndOfOutput /\ sent' = Append(sent, out))
    BY DEF Transmit
  <2>2. out \in Outgoing \cup {EndOfOutput} /\ sent \in Seq(Outgoing)
    BY <1>1 DEF TInv, BuffersTyped
  <2> HIDE DEF out
  <2> QED
    BY <2>1, <2>2
<1>3. /\ pc' \in [Thread -> Label]
      /\ pc'["rx"] = "push" => pc["rx"] = "push"
      /\ \A u \in Worker : pc'[u] = "work" => work'[u] # << >>
  <2>1. CASE UNCHANGED pc
    BY <2>1 DEF Transmit, TInv, ThreadsTyped, ThreadsHold
  <2>2. CASE Goto("transmit", "done")
    <3>1. "transmit" \in Thread /\ "done" \in Label \ {"push", "work"}
      BY DEF Thread, Label
    <3> QED
      BY <2>2, <3>1, GotoType DEF Transmit
  <2> QED
    BY <2>1, <2>2 DEF Transmit
<1> QED
  BY <1>1, <1>2, <1>3 DEF Transmit, TInv, ThreadsTyped, BuffersTyped, CountersTyped,
     DequesTyped, ThreadsHold, inputVars, cqVars, countVars

LEMMA DestructorTInv == ASSUME TInv, Destructor PROVE TInv'
<1>1. "main" \in Thread
  BY DEF Thread
<1>2. PICK l \in Label \ {"push", "work"} : Goto("main", l) /\ UNCHANGED work
  BY DEF Destructor, Destroy, StopIngress, StopEgress, StopTransmit, Join, Label
<1>3. /\ pc' \in [Thread -> Label]
      /\ pc'["rx"] = "push" => pc["rx"] = "push"
      /\ \A u \in Worker : pc'[u] = "work" => work'[u] # << >>
  BY <1>1, <1>2, GotoType
<1>4. CASE Destroy
  BY <1>3, <1>4 DEF Destroy, TInv, ThreadsTyped, BuffersTyped, CountersTyped, DequesTyped,
     ThreadsHold, inputVars, cqVars, countVars
<1>5. CASE StopIngress
  <2>1. queue_hi' \in Seq(Packet \cup {nullptr})
    <3>1. queue_hi \in Seq(Packet \cup {nullptr}) /\ nullptr \in Packet \cup {nullptr}
      BY DEF TInv, BuffersTyped
    <3>2. queue_hi' = Append(queue_hi, nullptr)
      BY <1>5 DEF StopIngress
    <3> DEFINE S == Packet \cup {nullptr}
    <3> HIDE DEF S
    <3>3. queue_hi \in Seq(S) /\ nullptr \in S
      BY <3>1 DEF S
    <3> QED
      BY <3>2, <3>3 DEF S
  <2> QED
    BY <1>3, <1>5, <2>1 DEF StopIngress, TInv, ThreadsTyped, BuffersTyped, CountersTyped,
       DequesTyped, ThreadsHold, cqVars, countVars
<1>6. CASE StopEgress
  <2> DEFINE sentinel == [pkt |-> nullptr, port |-> 0]
  <2>1. sentinel \in [pkt : Packet \cup {nullptr}, port : Port] /\ 0 \in Queue
    BY PortAssumption, CapacitiesAssumption DEF Queue
  <2>2. egress_buffers' = [egress_buffers EXCEPT ![0] = Append(@, sentinel)]
    BY <1>6 DEF StopEgress
  <2>3. egress_buffers' \in [Queue -> Seq([pkt : Packet \cup {nullptr}, port : Port])]
    <3> HIDE DEF sentinel
    <3> QED
      BY <2>1, <2>2, EgressAppend
  <2> QED
    BY <1>3, <1>6, <2>3 DEF StopEgress, TInv, ThreadsTyped, BuffersTyped, CountersTyped,
       DequesTyped, ThreadsHold, inputVars, cqVars, countVars
<1>7. CASE StopTransmit
  <2>1. output_buffer' = Append(output_buffer, EndOfOutput)
    BY <1>7 DEF StopTransmit
  <2>2. output_buffer' \in Seq(Outgoing \cup {EndOfOutput})
    BY <2>1 DEF TInv, BuffersTyped
  <2> QED
    BY <1>3, <1>7, <2>2 DEF StopTransmit, TInv, ThreadsTyped, BuffersTyped, CountersTyped,
       DequesTyped, ThreadsHold, inputVars, cqVars, countVars
<1>8. CASE Join
  BY <1>3, <1>8 DEF Join, TInv, ThreadsTyped, BuffersTyped, CountersTyped, DequesTyped,
     ThreadsHold, inputVars, cqVars, countVars
<1> QED
  BY <1>4, <1>5, <1>6, <1>7, <1>8 DEF Destructor

LEMMA StutterTInv == ASSUME TInv, UNCHANGED vars PROVE TInv'
BY DEF vars, TInv, ThreadsTyped, BuffersTyped, CountersTyped, DequesTyped, ThreadsHold

LEMMA NextTInv == TInv /\ [Next]_vars => TInv'
<1> SUFFICES ASSUME TInv, [Next]_vars PROVE TInv'
  OBVIOUS
<1>0. {"ingress", "cq", "egress"} \subseteq Worker
  BY DEF Worker
<1>1. CASE Tick
  BY <1>1, TickTInv
<1>2. CASE ReceiveThread
  BY <1>2, ReceiveTInv, ReceivePushTInv, ReceiveCountTInv DEF ReceiveThread
<1>3. CASE IngressThread
  BY <1>0, <1>3, IngressPopTInv, BackToIngressTInv, DiscardTInv, EnqueueCalendarTInv,
     EnqueueNormalTInv, DropTInv, LoadDroppedTInv, StoreDroppedTInv
  DEF IngressThread, ResubmitPacket, CountStep
<1>4. CASE CqThread
  BY <1>0, <1>4, ReadActiveSliceTInv, CalendarEmptyTInv, CalendarPopTInv, EmitTInv,
     BackToIngressTInv, DropTInv, LoadDroppedTInv, StoreDroppedTInv
  DEF CqThread, RecirculatePacket, CountStep
<1>5. CASE EgressThread
  BY <1>0, <1>5, EgressPopTInv, EnqueueNormalTInv, EmitTInv, BackToIngressTInv, DropTInv,
     LoadDroppedTInv, StoreDroppedTInv
  DEF EgressThread, RecirculatePacket, CountStep
<1>6. CASE Transmit
  BY <1>6, TransmitTInv
<1>7. CASE Destructor
  BY <1>7, DestructorTInv
<1>8. CASE UNCHANGED vars
  BY <1>8, StutterTInv
<1> QED
  BY <1>1, <1>2, <1>3, <1>4, <1>5, <1>6, <1>7, <1>8 DEF Next

LEMMA SpecTInv == Spec => []TInv
BY InitTInv, NextTInv, PTL DEF Spec

----------------------------------------------------------------------------
(* The switch implements the specification of its calendar queues. *)

LEMMA StepCQ == TInv /\ [Next]_vars => [CQ!Next]_(CQ!vars)
<1> SUFFICES ASSUME TInv, [Next]_vars PROVE CQ!Next \/ UNCHANGED CQ!vars
  OBVIOUS
<1> USE DEF CQ!vars, cqVars
<1>1. CASE Tick \/ ReceiveThread \/ EgressThread \/ Transmit \/ UNCHANGED vars
  BY <1>1 DEF Tick, ReceiveThread, Receive, ReceivePush, ReceiveCount, EgressThread,
     EgressPop, EnqueueNormal, EmitPacket, RecirculatePacket, BackToIngress, DropPacket,
     CountStep, LoadDropped, StoreDropped, Transmit, vars
<1>2. CASE Destructor
  BY <1>2 DEF Destructor, Destroy, StopIngress, StopEgress, StopTransmit, Join
<1>3. CASE IngressThread
  <2>1. CASE EnqueueCalendar
    <3> DEFINE task == Head(work["ingress"])
    <3>1. CASE UNCHANGED cqVars
      BY <3>1
    <3>2. CASE ~NoSuchSlice(task.queue) /\ CQ!PushFull(task.port, task.queue)
      <4>1. task.port \in Port /\ task.queue \in CQ!Slice
        BY <2>1, <3>2, CalendarTask DEF EnqueueCalendar
      <4> QED
        BY <3>2, <4>1 DEF CQ!Next
    <3>3. CASE ~NoSuchSlice(task.queue) /\ CQ!PushFront(task.port, task.queue, task.pkt)
      <4>1. task.port \in Port /\ task.queue \in CQ!Slice /\ task.pkt \in Packet
        BY <2>1, <3>3, CalendarTask DEF EnqueueCalendar
      <4> QED
        BY <3>3, <4>1 DEF CQ!Next
    <3> QED
      BY <2>1, <3>1, <3>2, <3>3 DEF EnqueueCalendar
  <2>2. CASE ~EnqueueCalendar
    BY <1>3, <2>2 DEF IngressThread, IngressPop, IngressTake, ResubmitPacket, BackToIngress,
       DiscardOriginal, EnqueueNormal, DropPacket, CountStep, LoadDropped, StoreDropped
  <2> QED
    BY <2>1, <2>2
<1>4. CASE CqThread
  <2>1. CASE CalendarPop
    <3>1. active_q \in CQ!Slice /\ CQ!PopBack(active_q)
      BY <2>1 DEF CalendarPop, TakeFromCalendar, TInv, ThreadsTyped
    <3> QED
      BY <3>1 DEF CQ!Next
  <2>2. CASE CalendarEmpty
    BY <2>2 DEF CalendarEmpty, CQ!PopEmpty
  <2>3. CASE ~CalendarPop /\ ~CalendarEmpty
    BY <1>4, <2>3 DEF CqThread, ReadActiveSlice, EmitPacket, RecirculatePacket,
       BackToIngress, DropPacket, CountStep, LoadDropped, StoreDropped
  <2> QED
    BY <2>1, <2>2, <2>3
<1> QED
  BY <1>1, <1>2, <1>3, <1>4 DEF Next

----------------------------------------------------------------------------
(* The theorems. *)

\* Whatever its threads and the P4 program do, the switch only ever changes
\* the calendar queues the way push_front and pop_back do, for ports and
\* slices that exist (tor_switch.cpp:442-471, 754-769).
THEOREM ImplementsCalendarQueue == Spec => UsesCalendarQueues
<1>1. Init => CQ!Init
  BY DEF Init
<1> QED
  BY <1>1, StepCQ, SpecTInv, PTL DEF Spec, UsesCalendarQueues, CQ!Spec

\* The theorems about calendar queues, for those of the switch. The switch
\* keeps no record of what a call returned, so ret, which only the
\* refinement of PortFifos speaks of, is a constant here.
CQP == INSTANCE CalendarQueueProofs
        WITH Item <- Packet, capacity <- CalendarCapacity, Word <- 2, ret <- <<"none">>

LEMMA QueueAssumptions ==
    CalendarCapacity \in Nat /\ nb_calendar_queues \in Nat \ {0} /\ 2 \in Nat \ {0}
BY CapacitiesAssumption, SlicesAssumption

LEMMA SameSpec ==
    /\ CQ!Init <=> CQP!Init
    /\ [CQ!Next]_(CQ!vars) <=> [CQP!Next]_(CQP!vars)
<1> USE DEF CQ!vars, CQP!vars, CQ!Slice, CQP!Slice, CQ!size, CQP!size, CQ!SetSize,
            CQP!SetSize
<1>1. CQ!Init <=> CQP!Init
  BY DEF CQ!Init, CQP!Init
<1>2. ASSUME NEW p, NEW s, NEW x PROVE CQ!PushFront(p, s, x) <=> CQP!PushFront(p, s, x)
  BY DEF CQ!PushFront, CQP!PushFront
<1>3. ASSUME NEW p, NEW s PROVE CQ!PushFull(p, s) <=> CQP!PushFull(p, s)
  BY DEF CQ!PushFull, CQP!PushFull
<1>4. ASSUME NEW s PROVE CQ!PopBack(s) <=> CQP!PopBack(s)
  BY DEF CQ!PopBack, CQP!PopBack
<1>5. ASSUME NEW s PROVE CQ!PopEmpty(s) <=> CQP!PopEmpty(s)
  BY DEF CQ!PopEmpty, CQP!PopEmpty
<1>6. CQ!Next <=> CQP!Next
  BY <1>2, <1>3, <1>4, <1>5 DEF CQ!Next, CQP!Next
<1> QED
  BY <1>1, <1>6

LEMMA SpecIsProved == Spec => CQP!Spec
BY ImplementsCalendarQueue, SameSpec, PTL DEF UsesCalendarQueues, CQ!Spec, CQP!Spec

\* Every variable of the switch keeps its type; in particular each thread
\* takes only packets, ports and slices that exist from the buffers.
THEOREM SwitchTypeCorrect == Spec => []TypeOK
<1>1. Spec => []CQP!TypeOK
  BY QueueAssumptions, SpecIsProved, CQP!TypeCorrect, PTL
<1>2. CQP!TypeOK => CQ!TypeOK
  BY DEF CQP!TypeOK, CQ!TypeOK, CQP!QE, CQ!QE, CQP!Slice, CQ!Slice, CQP!QueueKey, CQ!QueueKey
<1>3. TInv /\ CQ!TypeOK => TypeOK
  BY DEF TInv, TypeOK
<1> QED
  BY <1>1, <1>2, <1>3, SpecTInv, PTL

\* In the switch, too, the counters of the calendar queues are exact, no
\* (port, slice) is over its capacity, and the calendar thread never meets a
\* missing or zero counter.
THEOREM SwitchQueuesCorrect ==
    Spec => []CQ!CountersExact /\ []CQ!CapacityPerPair /\ []CQ!PopFindsItsEntry
<1> USE DEF CQ!Slice, CQP!Slice, CQ!size, CQP!size
<1>0. ASSUME NEW q, NEW p PROVE CQ!Positions(q, p) = CQP!Positions(q, p)
  BY DEF CQ!Positions, CQP!Positions
<1>c. ASSUME NEW S PROVE CQ!Cardinality(S) = CQP!Cardinality(S)
  BY DEF CQ!Cardinality, CQP!Cardinality
<1>1. Spec => []CQP!CountersExact /\ []CQP!CapacityPerPair /\ []CQP!PopFindsItsEntry
  BY QueueAssumptions, SpecIsProved, CQP!CountersAreExact, CQP!CapacityIsPerPair,
     CQP!PopNeverThrows, PTL
<1>2. CQP!CountersExact => CQ!CountersExact
  BY <1>0, <1>c DEF CQP!CountersExact, CQ!CountersExact
<1>3. CQP!CapacityPerPair => CQ!CapacityPerPair
  BY <1>0, <1>c DEF CQP!CapacityPerPair, CQ!CapacityPerPair
<1>4. CQP!PopFindsItsEntry => CQ!PopFindsItsEntry
  BY DEF CQP!PopFindsItsEntry, CQ!PopFindsItsEntry
<1> QED
  BY <1>1, <1>2, <1>3, <1>4, PTL
----------------------------------------------------------------------------
\* The lines.  The second component tells those of one kind apart.
Line ==
    ({"hi", "lo", "rx", "out", "sent", "gone"} \X {0})
    \cup ({"work"} \X Worker) \cup ({"cq"} \X CQ!Slice) \cup ({"egress"} \X Queue)

\* What is in a line, except "gone", in order; and the elements that stand for
\* packet x there.
Content(k) ==
    CASE k[1] = "hi" -> queue_hi
      [] k[1] = "lo" -> queue_lo
      [] k[1] = "rx" -> <<rx_packet>>
      [] k[1] = "out" -> output_buffer
      [] k[1] = "sent" -> sent
      [] k[1] = "work" -> work[k[2]]
      [] k[1] = "cq" -> calendar_queues[k[2]]
      [] OTHER -> egress_buffers[k[2]]
Of(k, x) ==
    CASE k[1] \in {"hi", "lo", "rx"} -> {x}
      [] k[1] \in {"out", "sent"} ->
            [pkt : {x}, port : Port, from : {"cq", "egress"}, queue : Nat]
      [] k[1] = "work" -> TaskOf({x})
      [] k[1] = "cq" -> [e : {x}, port_id : Port]
      [] OTHER -> [pkt : {x}, port : Port]

Hits(s, X) == {i \in DOMAIN s : s[i] \in X}

\* Where in line k packet x is: at which index, or gone for which reason.
Spots(k, x) ==
    IF k[1] = "gone" THEN {g.why : g \in {g \in gone : g.pkt = x}}
                     ELSE Hits(Content(k), Of(k, x))

Lone(S) == \E i \in S : S = {i}

\* Packet x is in line k and nowhere else.
OnlyIn(k, x) == Lone(Spots(k, x)) /\ \A j \in Line \ {k} : Spots(j, x) = {}

\* Every packet that exists is in one place, and one that does not is in none.
InPlace ==
    /\ \A x \in 1 .. packet_id : \E k \in Line : OnlyIn(k, x)
    /\ \A x \in Packet : x > packet_id => \A k \in Line : Spots(k, x) = {}

\* A thread has tasks only while it is at work or counts a drop, and the
\* receiving thread has a packet only while it pushes one.
Idle ==
    /\ pc["rx"] # "push" => rx_packet = nullptr
    /\ \A t \in Worker : pc[t] \notin {"work", "count", "store"} => work[t] = << >>

PInv == InPlace /\ Idle

\* The drops not yet added to nb_pkts_dropped.
Counting == {t \in Worker : pc[t] \in {"count", "store"}}
Storing == {t \in Worker : pc[t] = "store"}

CInv ==
    /\ IsFiniteSet(gone)
    /\ nb_pkts_dropped + Cardinality(Counting) <= Cardinality(Counted)
    /\ \A t \in Storing : reg[t] + Cardinality(Counting) <= Cardinality(Counted)
    /\ ~raced =>
          /\ nb_pkts_dropped + Cardinality(Counting) = Cardinality(Counted)
          /\ \A t \in Storing : reg[t] = nb_pkts_dropped
          /\ \A t, u \in Storing : t = u
----------------------------------------------------------------------------
(* What a step may do to a line.                                           *)

Gone == <<"gone", 0>>

\* Gone packets have a reason, and lines are sequences.
Element(k) ==
    CASE k[1] \in {"hi", "lo", "rx"} -> Packet \cup {nullptr}
      [] k[1] \in {"out", "sent"} -> Outgoing \cup {EndOfOutput}
      [] k[1] = "work" -> Tasked
      [] k[1] = "cq" -> CQ!QE
      [] OTHER -> [pkt : Packet \cup {nullptr}, port : Port]

Kept(k) == IF k = Gone THEN UNCHANGED gone ELSE Content(k)' = Content(k)
Taken(k) == k # Gone /\ Content(k) # << >> /\ Content(k)' = Tail(Content(k))
Added(k, e) == k # Gone /\ Content(k)' = Append(Content(k), e)

\* Packet x is in the line after the step as it was before.
Like(k, x) ==
    /\ Spots(k, x) = {} => Spots(k, x)' = {}
    /\ Lone(Spots(k, x)) => Lone(Spots(k, x)')

LEMMA TailHits ==
    ASSUME NEW S, NEW s \in Seq(S), s # << >>, NEW X
    PROVE  /\ Head(s) \notin X =>
                 /\ Hits(s, X) = {} => Hits(Tail(s), X) = {}
                 /\ Lone(Hits(s, X)) => Lone(Hits(Tail(s), X))
           /\ Head(s) \in X =>
                 /\ Hits(s, X) # {}
                 /\ Lone(Hits(s, X)) => Hits(Tail(s), X) = {}
<1>1. /\ Tail(s) \in Seq(S) /\ Len(Tail(s)) = Len(s) - 1 /\ Head(s) = s[1]
      /\ Len(s) \in Nat /\ Len(s) > 0 /\ 1 \in DOMAIN s
      /\ DOMAIN s = 1 .. Len(s) /\ DOMAIN Tail(s) = 1 .. Len(s) - 1
      /\ \A i \in DOMAIN Tail(s) : Tail(s)[i] = s[i + 1]
  OBVIOUS
<1>2. \A i \in Hits(Tail(s), X) : i + 1 \in Hits(s, X) /\ i + 1 # 1
  BY <1>1 DEF Hits
<1>3. \A i \in Hits(s, X) : i = 1 \/ i - 1 \in Hits(Tail(s), X)
  BY <1>1 DEF Hits
<1>4. Head(s) \in X <=> 1 \in Hits(s, X)
  BY <1>1 DEF Hits
<1>5. \A i \in Hits(s, X) : i \in Nat
  BY <1>1 DEF Hits
<1>6. \A i \in Hits(Tail(s), X) : i \in Nat
  BY <1>1 DEF Hits
<1>7. ASSUME Head(s) \notin X, Lone(Hits(s, X)) PROVE Lone(Hits(Tail(s), X))
  <2>1. PICK i \in Hits(s, X) : Hits(s, X) = {i}
    BY <1>7 DEF Lone
  <2>2. i \in Nat /\ i # 1 /\ i - 1 \in Hits(Tail(s), X)
    BY <1>3, <1>4, <1>5, <1>7, <2>1
  <2>3. \A j \in Hits(Tail(s), X) : j + 1 = i
    BY <1>2, <2>1
  <2>4. \A j \in Hits(Tail(s), X) : j = i - 1
    BY <1>6, <2>2, <2>3
  <2> QED
    BY <2>2, <2>4 DEF Lone
<1>8. ASSUME Head(s) \in X, Lone(Hits(s, X)) PROVE Hits(Tail(s), X) = {}
  BY <1>2, <1>4, <1>8 DEF Lone
<1> QED
  BY <1>2, <1>4, <1>7, <1>8

LEMMA AppendHits ==
    ASSUME NEW S, NEW s \in Seq(S), NEW e \in S, NEW X
    PROVE  /\ e \notin X => Hits(Append(s, e), X) = Hits(s, X)
           /\ e \in X /\ Hits(s, X) = {} => Lone(Hits(Append(s, e), X))
<1>1. /\ DOMAIN s = 1 .. Len(s) /\ Len(s) \in Nat
      /\ DOMAIN Append(s, e) = 1 .. Len(s) + 1
      /\ \A i \in 1 .. Len(s) : Append(s, e)[i] = s[i]
      /\ Append(s, e)[Len(s) + 1] = e
  OBVIOUS
<1>2. ASSUME e \notin X PROVE Hits(Append(s, e), X) = Hits(s, X)
  BY <1>1, <1>2 DEF Hits
<1>3. ASSUME e \in X, Hits(s, X) = {} PROVE Lone(Hits(Append(s, e), X))
  <2>1. Len(s) + 1 \in Hits(Append(s, e), X)
    BY <1>1, <1>3 DEF Hits
  <2>2. \A i \in Hits(Append(s, e), X) : i = Len(s) + 1
    BY <1>1, <1>3 DEF Hits
  <2> QED
    BY <2>1, <2>2 DEF Lone
<1> QED
  BY <1>2, <1>3

LEMMA Kinds ==
    ASSUME NEW k \in Line, k # Gone
    PROVE  /\ k[1] \in {"hi", "lo", "rx", "out", "sent", "work", "cq", "egress"}
           /\ k[1] # "gone"
           /\ k[1] = "work" => k[2] \in Worker
           /\ k[1] = "cq" => k[2] \in CQ!Slice
           /\ k[1] = "egress" => k[2] \in Queue
BY DEF Line, Gone

LEMMA SpotsAre ==
    ASSUME NEW k \in Line, NEW x
    PROVE  /\ k # Gone => /\ Spots(k, x) = Hits(Content(k), Of(k, x))
                          /\ Spots(k, x)' = Hits(Content(k)', Of(k, x))
           /\ Spots(Gone, x) = {g.why : g \in {g \in gone : g.pkt = x}}
           /\ Spots(Gone, x)' = {g.why : g \in {g \in gone' : g.pkt = x}}
<1>1. Of(k, x)' = Of(k, x)
  BY DEF Of
<1>2. k # Gone => k[1] # "gone"
  BY Kinds
<1> QED
  BY <1>1, <1>2 DEF Spots, Hits, Gone

LEMMA LineTyped ==
    ASSUME TInv, NEW k \in Line, k # Gone
    PROVE  Content(k) \in Seq(Element(k))
<1> USE DEF TInv, ThreadsTyped, BuffersTyped, DequesTyped, Content, Element
<1>1. CASE k[1] = "hi"
  BY <1>1
<1>2. CASE k[1] = "lo"
  BY <1>2
<1>3. CASE k[1] = "rx"
  BY <1>3
<1>4. CASE k[1] = "out"
  BY <1>4
<1>5. CASE k[1] = "sent"
  BY <1>5
<1>6. CASE k[1] = "work"
  BY <1>6, Kinds
<1>7. CASE k[1] = "cq"
  BY <1>7, Kinds
<1>8. CASE k[1] = "egress"
  BY <1>8, Kinds
<1> QED
  BY <1>1, <1>2, <1>3, <1>4, <1>5, <1>6, <1>7, <1>8, Kinds

LEMMA KeptLike == ASSUME NEW k \in Line, NEW x, Kept(k) PROVE Like(k, x)
BY SpotsAre DEF Kept, Like

LEMMA TakenLike ==
    ASSUME TInv, NEW k \in Line, Taken(k), NEW x
    PROVE  /\ Head(Content(k)) \notin Of(k, x) => Like(k, x)
           /\ Head(Content(k)) \in Of(k, x) =>
                 /\ Spots(k, x) # {}
                 /\ Lone(Spots(k, x)) => Spots(k, x)' = {}
<1>1. k # Gone /\ Content(k) \in Seq(Element(k)) /\ Content(k) # << >>
  BY LineTyped DEF Taken
<1>2. /\ Spots(k, x) = Hits(Content(k), Of(k, x))
      /\ Spots(k, x)' = Hits(Tail(Content(k)), Of(k, x))
  BY <1>1, SpotsAre DEF Taken
<1> QED
  BY <1>1, <1>2, TailHits DEF Like

LEMMA AddedLike ==
    ASSUME TInv, NEW k \in Line, NEW e \in Element(k), Added(k, e), NEW x
    PROVE  /\ e \notin Of(k, x) => Like(k, x)
           /\ e \in Of(k, x) /\ Spots(k, x) = {} => Lone(Spots(k, x)')
<1>1. k # Gone /\ Content(k) \in Seq(Element(k))
  BY LineTyped DEF Added
<1>2. /\ Spots(k, x) = Hits(Content(k), Of(k, x))
      /\ Spots(k, x)' = Hits(Append(Content(k), e), Of(k, x))
  BY <1>1, SpotsAre DEF Added
<1> QED
  BY <1>1, <1>2, AppendHits DEF Like

LEMMA LoseLike ==
    ASSUME NEW y, NEW why, Lose(y, why), NEW x
    PROVE  /\ x # y => Like(Gone, x)
           /\ Spots(Gone, y) = {} => Lone(Spots(Gone, y)')
<1>1. gone' = gone \cup {[pkt |-> y, why |-> why]} /\ Gone \in Line
  BY DEF Lose, Gone, Line
<1>2. ASSUME x # y PROVE Spots(Gone, x)' = Spots(Gone, x)
  <2>1. {g \in gone' : g.pkt = x} = {g \in gone : g.pkt = x}
    BY <1>1, <1>2
  <2> QED
    BY <1>1, <2>1, SpotsAre
<1>3. ASSUME Spots(Gone, y) = {} PROVE Spots(Gone, y)' = {why}
  <2>1. \A g \in gone : g.pkt # y
    BY <1>1, <1>3, SpotsAre
  <2>2. {g \in gone' : g.pkt = y} = {[pkt |-> y, why |-> why]}
    BY <1>1, <2>1
  <2>3. Spots(Gone, y)' = {g.why : g \in {[pkt |-> y, why |-> why]}}
    BY <1>1, <2>2, SpotsAre
  <2> QED
    BY <2>3
<1> QED
  BY <1>2, <1>3 DEF Like, Lone
----------------------------------------------------------------------------
(* What a step may do to all of them.                                      *)

\* Packets stay in their lines.
LEMMA StayInPlace ==
    ASSUME InPlace, packet_id' = packet_id,
           \A k \in Line, y \in Packet : Like(k, y),
           packet_id \in 0 .. MaxPackets
    PROVE  InPlace'
<1>1. ASSUME NEW y \in 1 .. packet_id PROVE \E k \in Line : OnlyIn(k, y)'
  <2>1. y \in Packet
    BY BoundAssumption DEF Packet
  <2>2. PICK k \in Line : OnlyIn(k, y)
    BY DEF InPlace
  <2> QED
    BY <2>1, <2>2 DEF OnlyIn, Like
<1>2. ASSUME NEW y \in Packet, y > packet_id, NEW k \in Line PROVE Spots(k, y)' = {}
  BY <1>2 DEF InPlace, Like
<1> QED
  BY <1>1, <1>2 DEF InPlace

\* Packet x leaves line a for line b.
LEMMA MoveInPlace ==
    ASSUME InPlace, packet_id' = packet_id, packet_id \in 0 .. MaxPackets,
           NEW a \in Line, NEW b \in Line, a # b, NEW x \in Packet,
           Spots(a, x) # {},
           Lone(Spots(a, x)) => Spots(a, x)' = {},
           Spots(b, x) = {} => Lone(Spots(b, x)'),
           \A k \in Line, y \in Packet : y # x \/ k \notin {a, b} => Like(k, y)
    PROVE  InPlace'
<1>0. x \in 1 .. packet_id
  BY BoundAssumption DEF InPlace, Packet
<1>1. OnlyIn(a, x)
  BY <1>0 DEF InPlace, OnlyIn
<1>2. Spots(a, x)' = {} /\ Lone(Spots(b, x)')
  BY <1>1 DEF OnlyIn
<1>3. OnlyIn(b, x)'
  BY <1>1, <1>2 DEF OnlyIn, Like
<1>4. ASSUME NEW y \in 1 .. packet_id PROVE \E k \in Line : OnlyIn(k, y)'
  <2>1. CASE y = x
    BY <1>3, <2>1
  <2>2. CASE y # x
    <3>1. y \in Packet
      BY BoundAssumption DEF Packet
    <3>2. PICK k \in Line : OnlyIn(k, y)
      BY DEF InPlace
    <3> QED
      BY <2>2, <3>1, <3>2 DEF OnlyIn, Like
  <2> QED
    BY <2>1, <2>2
<1>5. ASSUME NEW y \in Packet, y > packet_id, NEW k \in Line PROVE Spots(k, y)' = {}
  <2>1. y # x
    BY <1>0, <1>5, BoundAssumption DEF Packet
  <2> QED
    BY <1>5, <2>1 DEF InPlace, Like
<1> QED
  BY <1>4, <1>5 DEF InPlace

\* Packet x leaves line a for line b, which was empty, together with new
\* packets.
LEMMA ProcessInPlace ==
    ASSUME InPlace, packet_id \in 0 .. MaxPackets, packet_id' \in packet_id .. MaxPackets,
           NEW a \in Line, NEW b \in Line, a # b, NEW x \in Packet,
           Spots(a, x) # {},
           Lone(Spots(a, x)) => Spots(a, x)' = {},
           \A y \in Packet :
              /\ Spots(b, y) = {}
              /\ IF y = x \/ y \in packet_id + 1 .. packet_id'
                   THEN Lone(Spots(b, y)') ELSE Spots(b, y)' = {},
           \A k \in Line, y \in Packet : k # b /\ (y # x \/ k # a) => Like(k, y)
    PROVE  InPlace'
<1>0. x \in 1 .. packet_id
  BY BoundAssumption DEF InPlace, Packet
<1>1. OnlyIn(a, x)
  BY <1>0 DEF InPlace, OnlyIn
<1>2. Spots(a, x)' = {} /\ Lone(Spots(b, x)')
  BY <1>1 DEF OnlyIn
<1>3. OnlyIn(b, x)'
  BY <1>1, <1>2 DEF OnlyIn, Like
<1>4. ASSUME NEW y \in 1 .. packet_id' PROVE \E k \in Line : OnlyIn(k, y)'
  <2>0. y \in Packet /\ packet_id' \in Nat /\ packet_id \in Nat
    BY BoundAssumption DEF Packet
  <2>1. CASE y = x
    BY <1>3, <2>1
  <2>2. CASE y # x /\ y > packet_id
    <3>1. Lone(Spots(b, y)')
      BY <2>0, <2>2
    <3>2. \A k \in Line \ {b} : Spots(k, y)' = {}
      BY <2>0, <2>2 DEF InPlace, Like
    <3> QED
      BY <3>1, <3>2 DEF OnlyIn
  <2>3. CASE y # x /\ y <= packet_id
    <3>2. PICK k \in Line : OnlyIn(k, y)
      BY <2>0, <2>3 DEF InPlace
    <3>3. k # b
      BY <2>0, <3>2 DEF OnlyIn, Lone
    <3>4. Spots(b, y)' = {}
      BY <2>0, <2>3
    <3> QED
      BY <2>0, <2>3, <3>2, <3>3, <3>4 DEF OnlyIn, Like
  <2> QED
    BY <2>0, <2>1, <2>2, <2>3
<1>5. ASSUME NEW y \in Packet, y > packet_id', NEW k \in Line PROVE Spots(k, y)' = {}
  <2>1. y # x /\ y > packet_id /\ y \notin packet_id + 1 .. packet_id'
    BY <1>0, <1>5, BoundAssumption DEF Packet
  <2> QED
    BY <1>5, <2>1 DEF InPlace, Like
<1> QED
  BY <1>4, <1>5 DEF InPlace

\* A new packet is in line b.
LEMMA ArriveInPlace ==
    ASSUME InPlace, packet_id \in 0 .. MaxPackets, NEW x \in Packet,
           x = packet_id + 1, packet_id' = x, NEW b \in Line,
           Spots(b, x) = {} => Lone(Spots(b, x)'),
           \A k \in Line, y \in Packet : k # b \/ y # x => Like(k, y)
    PROVE  InPlace'
<1>0. x > packet_id /\ packet_id \in Nat
  BY BoundAssumption DEF Packet
<1>1. \A k \in Line : Spots(k, x) = {}
  BY <1>0 DEF InPlace
<1>2. Lone(Spots(b, x)') /\ \A k \in Line \ {b} : Spots(k, x)' = {}
  BY <1>1 DEF Like
<1>3. ASSUME NEW y \in 1 .. packet_id' PROVE \E k \in Line : OnlyIn(k, y)'
  <2>1. CASE y = x
    BY <1>2, <2>1 DEF OnlyIn
  <2>2. CASE y # x
    <3>1. y \in 1 .. packet_id /\ y \in Packet
      BY <1>0, <2>2, BoundAssumption DEF Packet
    <3>2. PICK k \in Line : OnlyIn(k, y)
      BY <3>1 DEF InPlace
    <3> QED
      BY <2>2, <3>1, <3>2 DEF OnlyIn, Like
  <2> QED
    BY <2>1, <2>2
<1>4. ASSUME NEW y \in Packet, y > packet_id', NEW k \in Line PROVE Spots(k, y)' = {}
  BY <1>0, <1>4 DEF InPlace, Like, Packet
<1> QED
  BY <1>3, <1>4 DEF InPlace
----------------------------------------------------------------------------
(* The lines by name.                                                      *)

Hi == <<"hi", 0>>
Lo == <<"lo", 0>>
Rx == <<"rx", 0>>
Out == <<"out", 0>>
Sent == <<"sent", 0>>
Work(t) == <<"work", t>>
Cq(s) == <<"cq", s>>
Egress(q) == <<"egress", q>>

LEMMA LineNames ==
    /\ {Hi, Lo, Rx, Out, Sent, Gone} \subseteq Line
    /\ Hi # Gone /\ Lo # Gone /\ Rx # Gone /\ Out # Gone /\ Sent # Gone
    /\ \A t \in Worker : Work(t) \in Line /\ Work(t) # Gone /\ Work(t)[1] = "work"
    /\ \A s \in CQ!Slice : Cq(s) \in Line /\ Cq(s) # Gone
    /\ \A q \in Queue : Egress(q) \in Line /\ Egress(q) # Gone
BY DEF Line, Hi, Lo, Rx, Out, Sent, Gone, Work, Cq, Egress

LEMMA Contents ==
    /\ Content(Hi) = queue_hi /\ Content(Hi)' = queue_hi'
    /\ Content(Lo) = queue_lo /\ Content(Lo)' = queue_lo'
    /\ Content(Rx) = <<rx_packet>> /\ Content(Rx)' = <<rx_packet'>>
    /\ Content(Out) = output_buffer /\ Content(Out)' = output_buffer'
    /\ Content(Sent) = sent /\ Content(Sent)' = sent'
    /\ \A t : Content(Work(t)) = work[t] /\ Content(Work(t))' = work'[t]
    /\ \A s : Content(Cq(s)) = calendar_queues[s] /\ Content(Cq(s))' = calendar_queues'[s]
    /\ \A q : Content(Egress(q)) = egress_buffers[q] /\ Content(Egress(q))' = egress_buffers'[q]
BY DEF Content, Hi, Lo, Rx, Out, Sent, Work, Cq, Egress

\* The lines a step does not touch.
LEMMA KeptLines ==
    ASSUME NEW k \in Line
    PROVE  /\ k = Gone /\ UNCHANGED gone => Kept(k)
           /\ k[1] = "hi" /\ UNCHANGED queue_hi => Kept(k)
           /\ k[1] = "lo" /\ UNCHANGED queue_lo => Kept(k)
           /\ k[1] = "rx" /\ UNCHANGED rx_packet => Kept(k)
           /\ k[1] = "out" /\ UNCHANGED output_buffer => Kept(k)
           /\ k[1] = "sent" /\ UNCHANGED sent => Kept(k)
           /\ k[1] = "work" /\ UNCHANGED work => Kept(k)
           /\ k[1] = "cq" /\ UNCHANGED calendar_queues => Kept(k)
           /\ k[1] = "egress" /\ UNCHANGED egress_buffers => Kept(k)
           /\ k[1] \in {"hi", "lo", "rx", "out", "sent", "work", "cq", "egress", "gone"}
           /\ k[1] = "hi" <=> k = Hi
           /\ k[1] = "lo" <=> k = Lo
           /\ k[1] = "rx" <=> k = Rx
           /\ k[1] = "out" <=> k = Out
           /\ k[1] = "sent" <=> k = Sent
           /\ k[1] = "gone" <=> k = Gone
<1>1. /\ k[1] \in {"hi", "lo", "rx", "out", "sent", "work", "cq", "egress", "gone"}
      /\ k[1] = "hi" <=> k = Hi
      /\ k[1] = "lo" <=> k = Lo
      /\ k[1] = "rx" <=> k = Rx
      /\ k[1] = "out" <=> k = Out
      /\ k[1] = "sent" <=> k = Sent
      /\ k[1] = "gone" <=> k = Gone
  BY DEF Line, Gone, Hi, Lo, Rx, Out, Sent
<1>2. k = Gone /\ UNCHANGED gone => Kept(k)
  BY DEF Kept
<1>3. ASSUME k # Gone, Content(k)' = Content(k) PROVE Kept(k)
  BY <1>3 DEF Kept
<1> QED
  BY <1>1, <1>2, <1>3 DEF Content

LEMMA KeptWork ==
    ASSUME NEW t \in Worker, NEW e, work' = [work EXCEPT ![t] = e],
           work \in [Worker -> Seq(Tasked)], NEW k \in Line, k[1] = "work", k # Work(t)
    PROVE  Kept(k)
<1>1. k # Gone /\ k = Work(k[2]) /\ k[2] \in Worker
  BY DEF Line, Gone, Work
<1>2. k[2] # t
  BY <1>1
<1> QED
  BY <1>1, <1>2, Contents DEF Kept

LEMMA KeptCalendar ==
    ASSUME TInv, NEW s \in CQ!Slice, NEW e, calendar_queues' = [calendar_queues EXCEPT ![s] = e],
           NEW k \in Line, k[1] = "cq", k # Cq(s)
    PROVE  Kept(k)
<1>1. k # Gone /\ k = Cq(k[2]) /\ k[2] \in CQ!Slice
  BY DEF Line, Gone, Cq
<1>2. k[2] # s
  BY <1>1
<1> QED
  BY <1>1, <1>2, Contents DEF Kept, TInv, DequesTyped

LEMMA KeptEgress ==
    ASSUME TInv, NEW q \in Queue, NEW e, egress_buffers' = [egress_buffers EXCEPT ![q] = e],
           NEW k \in Line, k[1] = "egress", k # Egress(q)
    PROVE  Kept(k)
<1>1. k # Gone /\ k = Egress(k[2]) /\ k[2] \in Queue
  BY DEF Line, Gone, Egress
<1>2. k[2] # q
  BY <1>1
<1> QED
  BY <1>1, <1>2, Contents DEF Kept, TInv, BuffersTyped

\* Which packet an element of a line stands for.
LEMMA ElementOf ==
    ASSUME NEW y \in Packet
    PROVE  /\ Of(Hi, y) = {y} /\ Of(Lo, y) = {y} /\ Of(Rx, y) = {y}
           /\ \A e \in Outgoing \cup {EndOfOutput} :
                 /\ e \in Of(Out, y) <=> e.pkt = y
                 /\ e \in Of(Sent, y) <=> e.pkt = y
           /\ \A t : \A e \in Tasked : e \in Of(Work(t), y) <=> e.pkt = y
           /\ \A s : \A e \in CQ!QE : e \in Of(Cq(s), y) <=> e.e = y
           /\ \A q : \A e \in [pkt : Packet \cup {nullptr}, port : Port] :
                 e \in Of(Egress(q), y) <=> e.pkt = y
<1>1. y # nullptr
  BY DEF Packet, nullptr
<1>2. EndOfOutput.pkt # y
  BY <1>1 DEF EndOfOutput
<1>3. ASSUME NEW e \in Outgoing
      PROVE  e \in [pkt : {y}, port : Port, from : {"cq", "egress"}, queue : Nat] <=> e.pkt = y
  BY DEF Outgoing
<1>4. EndOfOutput \notin [pkt : {y}, port : Port, from : {"cq", "egress"}, queue : Nat]
  BY <1>2
<1>5. Of(Hi, y) = {y} /\ Of(Lo, y) = {y} /\ Of(Rx, y) = {y}
  BY DEF Of, Hi, Lo, Rx
<1>6. /\ Of(Out, y) = [pkt : {y}, port : Port, from : {"cq", "egress"}, queue : Nat]
      /\ Of(Sent, y) = [pkt : {y}, port : Port, from : {"cq", "egress"}, queue : Nat]
  BY DEF Of, Out, Sent
<1>7. \A t : Of(Work(t), y) = TaskOf({y})
  BY DEF Of, Work
<1>8. \A s : Of(Cq(s), y) = [e : {y}, port_id : Port]
  BY DEF Of, Cq
<1>9. \A q : Of(Egress(q), y) = [pkt : {y}, port : Port]
  BY DEF Of, Egress
<1>10. \A e \in Tasked : e \in TaskOf({y}) <=> e.pkt = y
  BY DEF Tasked, TaskOf
<1>11. \A e \in CQ!QE : e \in [e : {y}, port_id : Port] <=> e.e = y
  BY DEF CQ!QE
<1>12. \A e \in [pkt : Packet \cup {nullptr}, port : Port] :
          e \in [pkt : {y}, port : Port] <=> e.pkt = y
  OBVIOUS
<1> QED
  BY <1>2, <1>3, <1>4, <1>5, <1>6, <1>7, <1>8, <1>9, <1>10, <1>11, <1>12
----------------------------------------------------------------------------
(* How packets move.                                                       *)

\* Packet x is gone, or comes to the end of line b.
Reaches(x, b) ==
    \/ \E why : b = Gone /\ Lose(x, why)
    \/ \E e \in Element(b) :
          Added(b, e) /\ \A y \in Packet : e \in Of(b, y) <=> y = x

\* The head of line a moves to the end of another line, or is gone.
LEMMA HeadMoves ==
    ASSUME TInv, InPlace, packet_id' = packet_id,
           NEW a \in Line, Taken(a), NEW x \in Packet,
           \A y \in Packet : Head(Content(a)) \in Of(a, y) <=> y = x,
           NEW b \in Line, a # b,
           Reaches(x, b),
           \A k \in Line \ {a, b} : Kept(k)
    PROVE  InPlace'
<1>1. packet_id \in 0 .. MaxPackets
  BY DEF TInv, ThreadsTyped
<1>2. Spots(a, x) # {} /\ (Lone(Spots(a, x)) => Spots(a, x)' = {})
  BY TakenLike
<1>3. \A y \in Packet : y # x => Like(a, y)
  BY TakenLike
<1>4. /\ \A y \in Packet : y # x => Like(b, y)
      /\ Spots(b, x) = {} => Lone(Spots(b, x)')
  <2>1. CASE \E why : b = Gone /\ Lose(x, why)
    BY <2>1, LoseLike
  <2>2. CASE \E e \in Element(b) :
                 Added(b, e) /\ \A y \in Packet : e \in Of(b, y) <=> y = x
    BY <2>2, AddedLike
  <2> QED
    BY <2>1, <2>2 DEF Reaches
<1>5. \A k \in Line \ {a, b}, y \in Packet : Like(k, y)
  BY KeptLike
<1> HIDE DEF Like, Lone, Spots
<1>6. \A k \in Line, y \in Packet : y # x \/ k \notin {a, b} => Like(k, y)
  BY <1>3, <1>4, <1>5
<1> QED
  BY <1>1, <1>2, <1>4, <1>6, MoveInPlace

\* A sentinel comes to line a, or is taken from it.
LEMMA SentinelMoves ==
    ASSUME TInv, InPlace, packet_id' = packet_id, NEW a \in Line,
           \/ Taken(a) /\ \A y \in Packet : Head(Content(a)) \notin Of(a, y)
           \/ \E e \in Element(a) : Added(a, e) /\ \A y \in Packet : e \notin Of(a, y),
           \A k \in Line \ {a} : Kept(k)
    PROVE  InPlace'
<1>1. packet_id \in 0 .. MaxPackets
  BY DEF TInv, ThreadsTyped
<1>2. \A y \in Packet : Like(a, y)
  BY TakenLike, AddedLike
<1>3. \A k \in Line \ {a}, y \in Packet : Like(k, y)
  BY KeptLike
<1> QED
  BY <1>1, <1>2, <1>3, StayInPlace

\* Nothing moves.
NothingMoves ==
    UNCHANGED <<packet_id, queue_hi, queue_lo, rx_packet, output_buffer, sent, gone, work,
                calendar_queues, egress_buffers>>

LEMMA NoneMoves == ASSUME TInv, InPlace, NothingMoves PROVE InPlace'
<1>1. packet_id \in 0 .. MaxPackets
  BY DEF TInv, ThreadsTyped
<1>2. \A k \in Line : Kept(k)
  BY KeptLines DEF NothingMoves
<1> QED
  BY <1>1, <1>2, KeptLike, StayInPlace DEF NothingMoves

\* Thread t is done with its first task, whose packet goes to line b.
LEMMA TaskMoves ==
    ASSUME TInv, InPlace, packet_id' = packet_id,
           NEW t \in Worker, NEW op, HasTask(t, op), work' = [work EXCEPT ![t] = Tail(@)],
           NEW x, x = Head(work[t]).pkt,
           NEW b \in Line, b[1] # "work",
           Reaches(x, b),
           \A k \in Line : k # b /\ k[1] # "work" => Kept(k)
    PROVE  InPlace'
<1>1. /\ work[t] \in Seq(Tasked) /\ work[t] # << >>
      /\ Head(work[t]) \in Tasked
      /\ work \in [Worker -> Seq(Tasked)]
  BY TaskType DEF TInv, ThreadsTyped
<1>2. x \in Packet
  BY <1>1 DEF Tasked, TaskOf
<1>3. /\ Work(t) \in Line /\ Work(t) # b /\ Work(t) # Gone
      /\ Content(Work(t)) = work[t] /\ Content(Work(t))' = work'[t]
  BY LineNames, Contents
<1>4. Taken(Work(t))
  BY <1>1, <1>3 DEF Taken
<1>5. \A y \in Packet : Head(Content(Work(t))) \in Of(Work(t), y) <=> y = x
  BY <1>1, <1>3, ElementOf
<1>6. \A k \in Line \ {Work(t), b} : Kept(k)
  BY <1>1, KeptWork
<1> QED
  BY <1>2, <1>3, <1>4, <1>5, <1>6, HeadMoves

\* The list of tasks has the packet once, and every copy once.
LEMMA ProcessSpots ==
    ASSUME TInv, NEW t \in Worker, NEW x \in Packet, x <= packet_id, NEW p \in Port, NEW q \in Nat,
           NEW verdicts, \A v \in verdicts : \E fates : IsVerdict(v, fates) /\ "copy" \notin fates,
           Process(t, x, p, q, verdicts)
    PROVE  /\ packet_id' \in packet_id .. MaxPackets
           /\ \A y \in Packet :
                 IF y = x \/ y \in packet_id + 1 .. packet_id'
                   THEN Lone(Spots(Work(t), y)') ELSE Spots(Work(t), y)' = {}
<1>1. PICK v \in verdicts :
        /\ packet_id + Replicas(v) <= MaxPackets
        /\ packet_id' = packet_id + Replicas(v)
        /\ work' = [work EXCEPT ![t] =
              [i \in 1 .. Len(v) |->
                  CASE v[i].op = "copy" -> [v[i] EXCEPT !.pkt = packet_id + i]
                    [] v[i].op = "emit" -> [v[i] EXCEPT !.pkt = x, !.port = p, !.queue = q]
                    [] OTHER -> [v[i] EXCEPT !.pkt = x]]]
  BY DEF Process
<1>2. /\ v \in Seq(TaskOf({nullptr})) /\ v # << >>
      /\ v[Len(v)].op # "copy"
      /\ \A i \in 1 .. Replicas(v) : v[i].op = "copy"
  BY DEF IsVerdict
<1>3. /\ Len(v) \in Nat /\ Len(v) > 0 /\ Replicas(v) = Len(v) - 1 /\ Replicas(v) \in Nat
      /\ \A i \in 1 .. Len(v) : v[i] \in TaskOf({nullptr})
  BY <1>2 DEF Replicas
<1>4. /\ packet_id \in Nat /\ packet_id' \in packet_id .. MaxPackets
      /\ packet_id' = packet_id + Replicas(v)
  <2>1. packet_id + Replicas(v) <= MaxPackets /\ packet_id' = packet_id + Replicas(v)
    BY <1>1
  <2> QED
    BY <1>3, <2>1, BoundAssumption DEF TInv, ThreadsTyped
<1> DEFINE task(i) == CASE v[i].op = "copy" -> [v[i] EXCEPT !.pkt = packet_id + i]
                        [] v[i].op = "emit" -> [v[i] EXCEPT !.pkt = x, !.port = p, !.queue = q]
                        [] OTHER -> [v[i] EXCEPT !.pkt = x]
           tasks == [i \in 1 .. Len(v) |-> task(i)]
<1>5. work \in [Worker -> Seq(Tasked)] /\ work' \in [Worker -> Seq(Tasked)]
  BY ProcessType DEF TInv, ThreadsTyped
<1>6. work'[t] = tasks
  BY <1>1, <1>5
<1>7. ASSUME NEW i \in 1 .. Len(v)
      PROVE  task(i).pkt = IF i = Len(v) THEN x ELSE packet_id + i
  <2>1. v[i] \in TaskOf({nullptr})
    BY <1>3
  <2>2. CASE i = Len(v)
    BY <1>2, <2>1, <2>2 DEF TaskOf
  <2>3. CASE i # Len(v)
    <3>1. v[i].op = "copy"
      BY <1>2, <1>3, <2>3
    <3> QED
      BY <2>1, <2>3, <3>1 DEF TaskOf
  <2> QED
    BY <2>2, <2>3
<1>8. \A i \in 1 .. Len(v) : tasks[i].pkt = IF i = Len(v) THEN x ELSE packet_id + i
  <2> HIDE DEF task
  <2> QED
    BY <1>7
<1>9. DOMAIN tasks = 1 .. Len(v)
  OBVIOUS
<1> HIDE DEF tasks, task
<1>10. tasks \in Seq(Tasked)
  BY <1>5, <1>6
<1>11. ASSUME NEW y \in Packet, NEW i \in 1 .. Len(v) PROVE tasks[i] \in Of(Work(t), y) <=> tasks[i].pkt = y
  <2>1. tasks[i] \in Tasked
    BY <1>9, <1>10
  <2> QED
    BY <2>1, ElementOf
<1>12. ASSUME NEW y \in Packet
       PROVE  Spots(Work(t), y)' = {i \in 1 .. Len(v) : tasks[i].pkt = y}
  <2>1. Spots(Work(t), y)' = Hits(work'[t], Of(Work(t), y))
    BY LineNames, SpotsAre, Contents
  <2> QED
    BY <1>6, <1>9, <1>11, <2>1 DEF Hits
<1>13. ASSUME NEW y \in Packet
       PROVE  IF y = x \/ y \in packet_id + 1 .. packet_id'
                THEN Lone(Spots(Work(t), y)') ELSE Spots(Work(t), y)' = {}
  <2>0. y \in Nat /\ x \in Nat
    BY BoundAssumption DEF Packet
  <2>1. CASE y = x
    <3>1. {i \in 1 .. Len(v) : tasks[i].pkt = y} = {Len(v)}
      BY <1>3, <1>4, <1>8, <2>0, <2>1
    <3> QED
      BY <1>12, <2>1, <3>1 DEF Lone
  <2>2. CASE y \in packet_id + 1 .. packet_id'
    <3>0. y # x /\ y - packet_id \in 1 .. Len(v) - 1
      BY <1>3, <1>4, <2>0, <2>2
    <3> DEFINE n == y - packet_id
    <3>2. n \in 1 .. Len(v) /\ n # Len(v) /\ packet_id + n = y
      BY <1>3, <1>4, <2>0, <3>0
    <3>3. tasks[n].pkt = y
      BY <1>8, <3>2
    <3>4. ASSUME NEW i \in 1 .. Len(v), tasks[i].pkt = y PROVE i = n
      BY <1>4, <1>8, <2>0, <3>0, <3>4
    <3>1. {i \in 1 .. Len(v) : tasks[i].pkt = y} = {n}
      BY <3>2, <3>3, <3>4
    <3> QED
      BY <1>12, <2>2, <3>1 DEF Lone
  <2>3. CASE y # x /\ y \notin packet_id + 1 .. packet_id'
    <3>0. ASSUME NEW i \in 1 .. Len(v), tasks[i].pkt = y PROVE FALSE
      <4>1. i = Len(v) \/ y = packet_id + i
        BY <1>8, <3>0
      <4>2. y = packet_id + i /\ i < Len(v)
        BY <1>3, <1>8, <2>3, <3>0, <4>1
      <4> QED
        BY <1>3, <1>4, <2>3, <4>2
    <3>1. {i \in 1 .. Len(v) : tasks[i].pkt = y} = {}
      BY <3>0
    <3> QED
      BY <1>12, <2>3, <3>1
  <2> QED
    BY <2>1, <2>2, <2>3
<1> QED
  BY <1>4, <1>13

\* A thread without tasks takes the head of line a, a packet, and processes it.
LEMMA HeadProcessed ==
    ASSUME TInv, PInv, NEW a \in Line, a[1] # "work", Taken(a), NEW x \in Packet,
           \A y \in Packet : Head(Content(a)) \in Of(a, y) <=> y = x,
           NEW t \in Worker, pc[t] \notin {"work", "count", "store"},
           NEW p \in Port, NEW q \in Nat,
           NEW verdicts, \A v \in verdicts : \E fates : IsVerdict(v, fates) /\ "copy" \notin fates,
           Process(t, x, p, q, verdicts),
           \A k \in Line : k # a /\ k[1] # "work" => Kept(k)
    PROVE  InPlace'
<1>1. Spots(a, x) # {} /\ (Lone(Spots(a, x)) => Spots(a, x)' = {})
  BY TakenLike
<1>2. \A y \in Packet : y # x => Like(a, y)
  BY TakenLike
<1>3. packet_id \in 0 .. MaxPackets /\ packet_id \in Nat /\ x \in Nat
  BY BoundAssumption DEF TInv, ThreadsTyped, Packet
<1>4. x <= packet_id
  BY <1>1, <1>3 DEF PInv, InPlace
<1>5. /\ packet_id' \in packet_id .. MaxPackets
      /\ \A y \in Packet :
            IF y = x \/ y \in packet_id + 1 .. packet_id'
              THEN Lone(Spots(Work(t), y)') ELSE Spots(Work(t), y)' = {}
  BY <1>4, ProcessSpots
<1>6. Work(t) \in Line /\ Work(t) # a /\ Work(t) # Gone
  BY LineNames
<1>7. \A y : Spots(Work(t), y) = {}
  <2>1. work[t] = << >>
    BY DEF PInv, Idle
  <2> QED
    BY <1>6, <2>1, SpotsAre, Contents DEF Hits
<1>8. work \in [Worker -> Seq(Tasked)] /\ \E e : work' = [work EXCEPT ![t] = e]
  BY DEF TInv, ThreadsTyped, Process
<1>9. \A k \in Line : k # a /\ k # Work(t) => Kept(k)
  BY <1>8, KeptWork
<1>10. \A k \in Line, y \in Packet : k # Work(t) /\ (y # x \/ k # a) => Like(k, y)
  BY <1>2, <1>9, KeptLike
<1> QED
  BY <1>1, <1>3, <1>5, <1>6, <1>7, <1>10, ProcessInPlace DEF PInv

\* Idle: what the helpers do.
LEMMA TaskDoneIdle ==
    ASSUME TInv, Idle, NEW t \in Worker, TaskDone(t) \/ CountDrop(t), UNCHANGED rx_packet
    PROVE  Idle'
<1>1. pc \in [Thread -> Label] /\ work \in [Worker -> Seq(Tasked)] /\ t \in Thread /\ t # "rx"
  BY ThreadSets DEF TInv, ThreadsTyped
<1>2. ASSUME NEW u \in Worker, pc'[u] \notin {"work", "count", "store"} PROVE work'[u] = << >>
  BY <1>1, <1>2, ThreadSets DEF TaskDone, CountDrop, Goto, Home, Idle
<1>3. pc'["rx"] = pc["rx"]
  <2>1. CASE TaskDone(t)
    BY <1>1, <2>1 DEF TaskDone, Goto
  <2>2. CASE CountDrop(t)
    BY <1>1, <2>2 DEF CountDrop, Goto
  <2> QED
    BY <2>1, <2>2
<1> QED
  BY <1>2, <1>3 DEF Idle

LEMMA ProcessIdle ==
    ASSUME TInv, Idle, NEW t \in Worker, NEW x, NEW p, NEW q, NEW verdicts,
           Process(t, x, p, q, verdicts), UNCHANGED rx_packet
    PROVE  Idle'
<1>1. pc \in [Thread -> Label] /\ work \in [Worker -> Seq(Tasked)] /\ t \in Thread /\ t # "rx"
  BY ThreadSets DEF TInv, ThreadsTyped
<1>2. pc' = [pc EXCEPT ![t] = "work"] /\ \E e : work' = [work EXCEPT ![t] = e]
  BY DEF Process
<1> QED
  BY <1>1, <1>2, ThreadSets DEF Idle

\* A thread other than the receiving one goes where its tasks are in order.
LEMMA GotoIdle ==
    ASSUME TInv, Idle, NEW t \in Thread \ {"rx"}, NEW l, Goto(t, l), UNCHANGED <<rx_packet, work>>,
           t \in Worker => work[t] = << >> \/ l \in {"work", "count", "store"}
    PROVE  Idle'
<1>1. pc \in [Thread -> Label]
  BY DEF TInv, ThreadsTyped
<1> QED
  BY <1>1, ThreadSets DEF Goto, Idle
----------------------------------------------------------------------------
(* Every action keeps packets in their places.                             *)

LEMMA RxSpots ==
    ASSUME NEW y \in Packet
    PROVE  /\ Spots(Rx, y) = IF rx_packet = y THEN {1} ELSE {}
           /\ Spots(Rx, y)' = IF rx_packet' = y THEN {1} ELSE {}
<1>1. Rx \in Line /\ Rx # Gone
  BY LineNames
<1>2. Spots(Rx, y) = Hits(Content(Rx), Of(Rx, y)) /\ Spots(Rx, y)' = Hits(Content(Rx)', Of(Rx, y))
  BY <1>1, SpotsAre
<1>3. Of(Rx, y) = {y} /\ Content(Rx) = <<rx_packet>> /\ Content(Rx)' = <<rx_packet'>>
  BY Contents, ElementOf
<1>4. \A z : Hits(<<z>>, {y}) = IF z = y THEN {1} ELSE {}
  BY DEF Hits
<1> QED
  BY <1>2, <1>3, <1>4

LEMMA InitPInv == Init => PInv
<1> SUFFICES ASSUME Init PROVE PInv
  OBVIOUS
<1>1. ASSUME NEW k \in Line, NEW x \in Packet PROVE Spots(k, x) = {}
  <2>0. x # nullptr
    BY DEF Packet, nullptr
  <2>1. CASE k = Gone
    BY <2>1, SpotsAre DEF Init
  <2>2. CASE k # Gone /\ k # Rx
    <3>1. Content(k) = << >>
      BY <2>2, Kinds, KeptLines DEF Content, Init, CQ!Init
    <3> QED
      BY <2>2, <3>1, SpotsAre DEF Hits
  <2>3. CASE k = Rx
    BY <2>0, <2>3, RxSpots DEF Init
  <2> QED
    BY <2>1, <2>2, <2>3
<1>2. InPlace
  BY <1>1 DEF Init, InPlace
<1>3. Idle
  BY DEF Init, Idle
<1> QED
  BY <1>2, <1>3 DEF PInv

LEMMA ReceivePInv == ASSUME TInv, PInv, Receive PROVE PInv'
<1>1. PICK x \in Packet : x = packet_id + 1 /\ packet_id' = x /\ rx_packet' = x
  BY BoundAssumption DEF Receive, TInv, ThreadsTyped, Packet
<1>2. rx_packet = nullptr /\ pc \in [Thread -> Label] /\ "rx" \in Thread
  BY ThreadSets DEF PInv, Idle, Receive, TInv, ThreadsTyped
<1>3. Rx \in Line /\ Rx # Gone
  BY LineNames
<1>4. ASSUME NEW y \in Packet
      PROVE  Spots(Rx, y) = {} /\ Spots(Rx, y)' = IF y = x THEN {1} ELSE {}
  <2>1. y # nullptr
    BY DEF Packet, nullptr
  <2> QED
    BY <1>1, <1>2, <2>1, RxSpots
<1>5. \A k \in Line : k # Rx => Kept(k)
  BY KeptLines DEF Receive, inputVars, cqVars
<1>6. \A k \in Line, y \in Packet : k # Rx \/ y # x => Like(k, y)
  BY <1>4, <1>5, KeptLike DEF Like, Lone
<1>7. Lone(Spots(Rx, x)')
  BY <1>4 DEF Lone
<1>8. packet_id \in 0 .. MaxPackets
  BY DEF TInv, ThreadsTyped
<1>9. InPlace'
  BY <1>1, <1>3, <1>6, <1>7, <1>8, ArriveInPlace DEF PInv
<1>10. Idle'
  BY <1>2, ThreadSets DEF Receive, Goto, PInv, Idle
<1> QED
  BY <1>9, <1>10 DEF PInv

LEMMA ReceivePushPInv == ASSUME TInv, PInv, ReceivePush PROVE PInv'
<1> DEFINE x == rx_packet
<1>1. /\ rx_packet \in Packet /\ packet_id' = packet_id /\ packet_id \in 0 .. MaxPackets
      /\ queue_lo' = Append(queue_lo, rx_packet) /\ rx_packet' = nullptr
      /\ pc \in [Thread -> Label] /\ "rx" \in Thread
  BY ThreadSets DEF ReceivePush, TInv, ThreadsTyped, ThreadsHold
<1>2. PICK z \in Packet : z = rx_packet
  BY <1>1
<1>3. Rx \in Line /\ Rx # Gone /\ Lo \in Line /\ Lo # Gone /\ Rx # Lo
  BY LineNames DEF Rx, Lo
<1>4. ASSUME NEW y \in Packet
      PROVE  Spots(Rx, y) = (IF y = z THEN {1} ELSE {}) /\ Spots(Rx, y)' = {}
  <2>1. y # nullptr
    BY DEF Packet, nullptr
  <2> QED
    BY <1>1, <1>2, <2>1, RxSpots
<1>5. Added(Lo, z) /\ z \in Element(Lo)
  BY <1>1, <1>2, <1>3, Contents DEF Added, Element, Lo
<1>6. /\ \A y \in Packet : y # z => Like(Lo, y)
      /\ Spots(Lo, z) = {} => Lone(Spots(Lo, z)')
  BY <1>3, <1>5, AddedLike, ElementOf
<1>7. \A k \in Line : k # Rx /\ k # Lo => Kept(k)
  BY KeptLines DEF ReceivePush, cqVars
<1>8. \A k \in Line, y \in Packet : y # z \/ k \notin {Rx, Lo} => Like(k, y)
  BY <1>4, <1>6, <1>7, KeptLike DEF Like, Lone
<1>9. InPlace'
  BY <1>1, <1>3, <1>4, <1>6, <1>8, MoveInPlace DEF PInv
<1>10. Idle'
  BY <1>1, ThreadSets DEF ReceivePush, Goto, PInv, Idle
<1> QED
  BY <1>9, <1>10 DEF PInv

LEMMA IngressPopPInv == ASSUME TInv, PInv, IngressPop PROVE PInv'
<1>0. "ingress" \in Worker /\ "ingress" \in Thread \ {"rx"}
  BY ThreadSets DEF Worker
<1>1. PICK a \in {Hi, Lo} :
        /\ Taken(a) /\ IngressTake(Head(Content(a)))
        /\ \A k \in Line : k # a /\ k[1] # "work" => Kept(k)
  <2>1. CASE /\ queue_hi # << >>
             /\ queue_hi' = Tail(queue_hi) /\ UNCHANGED queue_lo
             /\ IngressTake(Head(queue_hi))
    <3>1. Taken(Hi) /\ IngressTake(Head(Content(Hi)))
      BY <2>1, LineNames, Contents DEF Taken
    <3>2. \A k \in Line : k # Hi /\ k[1] # "work" => Kept(k)
      BY <2>1, KeptLines DEF IngressTake, cqVars
    <3> QED
      BY <3>1, <3>2
  <2>2. CASE /\ queue_hi = << >> /\ queue_lo # << >>
             /\ queue_lo' = Tail(queue_lo) /\ UNCHANGED queue_hi
             /\ IngressTake(Head(queue_lo))
    <3>1. Taken(Lo) /\ IngressTake(Head(Content(Lo)))
      BY <2>2, LineNames, Contents DEF Taken
    <3>2. \A k \in Line : k # Lo /\ k[1] # "work" => Kept(k)
      BY <2>2, KeptLines DEF IngressTake, cqVars
    <3> QED
      BY <3>1, <3>2
  <2> QED
    BY <2>1, <2>2 DEF IngressPop
<1>2. a \in Line /\ a[1] # "work" /\ a # Gone
  BY LineNames DEF Hi, Lo
<1> DEFINE head == Head(Content(a))
<1>3. head \in Packet \cup {nullptr}
  <2>1. Content(a) \in Seq(Packet \cup {nullptr}) /\ Content(a) # << >>
    BY <1>1, <1>2, LineTyped DEF Element, Hi, Lo, Taken
  <2> DEFINE S == Packet \cup {nullptr}
  <2>2. Content(a) \in Seq(S) => head \in S
    BY <2>1
  <2> QED
    BY <2>1, <2>2
<1>4. \A y \in Packet : Of(a, y) = {y}
  BY ElementOf
<1>5. pc["ingress"] = "pop" /\ UNCHANGED rx_packet
  BY <1>1 DEF IngressTake
<1>6. CASE head = nullptr
  <2>1. Goto("ingress", "done") /\ UNCHANGED <<packet_id, work>>
    BY <1>1, <1>6 DEF IngressTake
  <2>2. \A k \in Line \ {a} : Kept(k)
    BY <1>1, <2>1, KeptLines
  <2>3. \A y \in Packet : Head(Content(a)) \notin Of(a, y)
    BY <1>4, <1>6 DEF Packet, nullptr
  <2>4. InPlace'
    BY <1>1, <1>2, <2>1, <2>2, <2>3, SentinelMoves DEF PInv
  <2>5. Idle'
    BY <1>0, <1>5, <2>1, GotoIdle DEF PInv, Idle
  <2> QED
    BY <2>4, <2>5 DEF PInv
<1>7. CASE head # nullptr
  <2>1. PICK x \in Packet : x = head
    BY <1>3, <1>7
  <2>2. Process("ingress", x, 0, 0, IngressVerdicts)
    BY <1>1, <1>7, <2>1 DEF IngressTake
  <2>3. \A v \in IngressVerdicts : \E fates : IsVerdict(v, fates) /\ "copy" \notin fates
    <3> DEFINE F == {"host", "calendar", "resubmit", "drop", "discard"}
    <3>1. "copy" \notin F /\ \A v \in IngressVerdicts : IsVerdict(v, F)
      BY VerdictsAssumption
    <3> QED
      BY <3>1
  <2>4. \A y \in Packet : Head(Content(a)) \in Of(a, y) <=> y = x
    BY <1>4, <2>1
  <2>5. InPlace'
    BY <1>0, <1>1, <1>2, <1>5, <2>2, <2>3, <2>4, PortAssumption, HeadProcessed
  <2>6. Idle'
    BY <1>0, <1>5, <2>2, ProcessIdle DEF PInv
  <2> QED
    BY <2>5, <2>6 DEF PInv
<1> QED
  BY <1>6, <1>7

\* Thread t is done with its first task, whose packet is gone.
LEMMA TaskLost ==
    ASSUME TInv, PInv, NEW t \in Worker, NEW op, HasTask(t, op),
           NEW why, Lose(Head(work[t]).pkt, why), TaskDone(t) \/ CountDrop(t),
           UNCHANGED <<packet_id, rx_packet, inputVars, calendar_queues, egress_buffers,
                       output_buffer, sent>>
    PROVE  PInv'
<1>1. work' = [work EXCEPT ![t] = Tail(@)]
  BY DEF TaskDone, CountDrop
<1>2. Gone \in Line /\ Gone[1] # "work"
  BY LineNames DEF Gone
<1>3. \A k \in Line : k # Gone /\ k[1] # "work" => Kept(k)
  BY KeptLines DEF inputVars
<1>4. InPlace'
  <2>1. Reaches(Head(work[t]).pkt, Gone)
    BY DEF Reaches
  <2> QED
    BY <1>1, <1>2, <1>3, <2>1, TaskMoves DEF PInv
<1>5. Idle'
  BY TaskDoneIdle DEF PInv
<1> QED
  BY <1>4, <1>5 DEF PInv

\* Thread t is done with its first task, whose packet is the last of line b.
LEMMA TaskPassed ==
    ASSUME TInv, PInv, NEW t \in Worker, NEW op, HasTask(t, op), TaskDone(t),
           NEW b \in Line, b[1] # "work", NEW e \in Element(b), Added(b, e),
           \A y \in Packet : e \in Of(b, y) <=> y = Head(work[t]).pkt,
           UNCHANGED <<packet_id, rx_packet>>,
           \A k \in Line : k # b /\ k[1] # "work" => Kept(k)
    PROVE  PInv'
<1>1. work' = [work EXCEPT ![t] = Tail(@)]
  BY DEF TaskDone
<1>2. InPlace'
  <2>1. PICK x : x = Head(work[t]).pkt
    OBVIOUS
  <2>2. Reaches(x, b)
    BY <2>1 DEF Reaches
  <2>3. InPlace /\ packet_id' = packet_id
    BY DEF PInv
  <2> QED
    BY <1>1, <2>1, <2>2, <2>3, TaskMoves
<1>3. Idle'
  BY TaskDoneIdle DEF PInv
<1> QED
  BY <1>2, <1>3 DEF PInv

LEMMA BackToIngressPInv ==
    ASSUME TInv, PInv, NEW t \in Worker, NEW op, BackToIngress(t, op)
    PROVE  PInv'
<1> DEFINE x == Head(work[t]).pkt
<1>1. HasTask(t, op) /\ TaskDone(t)
  BY DEF BackToIngress
<1>2. x \in Packet
  BY <1>1, TaskType DEF Tasked, TaskOf
<1>3. CASE Lose(x, "no room at ingress") /\ UNCHANGED queue_hi
  BY <1>1, <1>3, TaskLost DEF BackToIngress, inputVars, cqVars
<1>4. CASE queue_hi' = Append(queue_hi, x) /\ UNCHANGED gone
  <2>1. PICK e \in Packet : e = x
    BY <1>2
  <2>2. Hi \in Line /\ Hi[1] # "work" /\ e \in Element(Hi) /\ Added(Hi, e)
    BY <1>4, <2>1, LineNames, Contents DEF Hi, Element, Added
  <2>3. \A y \in Packet : e \in Of(Hi, y) <=> y = x
    BY <2>1, ElementOf
  <2>4. \A k \in Line : k # Hi /\ k[1] # "work" => Kept(k)
    BY <1>4, KeptLines DEF BackToIngress, cqVars
  <2>5. UNCHANGED <<packet_id, rx_packet>>
    BY DEF BackToIngress
  <2> HIDE DEF x
  <2> QED
    BY <1>1, <2>2, <2>3, <2>4, <2>5, TaskPassed DEF x
<1> QED
  BY <1>3, <1>4 DEF BackToIngress

LEMMA DiscardPInv == ASSUME TInv, PInv, DiscardOriginal PROVE PInv'
<1>1. "ingress" \in Worker
  BY DEF Worker
<1> QED
  BY <1>1, TaskLost DEF DiscardOriginal, cqVars

LEMMA DropPInv == ASSUME TInv, PInv, NEW t \in Worker, DropPacket(t) PROVE PInv'
BY TaskLost DEF DropPacket, cqVars

LEMMA EnqueueNormalPInv == ASSUME TInv, PInv, NEW t \in Worker, EnqueueNormal(t) PROVE PInv'
<1> DEFINE task == Head(work[t])
           q == nb_queues_per_port - 1 - task.priority
<1>1. PICK op : HasTask(t, op)
  BY DEF EnqueueNormal
<1>2. task.pkt \in Packet /\ task.port \in Port /\ task.priority \in Nat
  BY <1>1, TaskType DEF Tasked, TaskOf
<1>3. CASE \E why : Lose(task.pkt, why) /\ (TaskDone(t) \/ CountDrop(t)) /\ UNCHANGED egress_buffers
  BY <1>1, <1>3, TaskLost DEF EnqueueNormal, cqVars
<1>4. CASE /\ task.priority < nb_queues_per_port
           /\ egress_buffers' = [egress_buffers EXCEPT
                 ![q] = Append(@, [pkt |-> task.pkt, port |-> task.port])]
           /\ TaskDone(t) /\ UNCHANGED gone
  <2>1. PICK r \in Queue : r = q
    BY <1>2, <1>4, CapacitiesAssumption DEF Queue
  <2>2. PICK e \in [pkt : Packet \cup {nullptr}, port : Port] :
           e = [pkt |-> task.pkt, port |-> task.port]
    BY <1>2
  <2>3. egress_buffers' = [egress_buffers EXCEPT ![r] = Append(@, e)]
    BY <1>4, <2>1, <2>2
  <2>4. Egress(r) \in Line /\ Egress(r)[1] # "work" /\ Egress(r) # Gone
    BY <2>1, LineNames DEF Egress
  <2>5. e \in Element(Egress(r)) /\ Added(Egress(r), e)
    <3>1. egress_buffers'[r] = Append(egress_buffers[r], e)
      BY <2>1, <2>3 DEF TInv, BuffersTyped
    <3>2. Element(Egress(r)) = [pkt : Packet \cup {nullptr}, port : Port]
      BY DEF Egress, Element
    <3>3. Added(Egress(r), e)
      BY <2>4, <3>1, Contents DEF Added
    <3> QED
      BY <3>2, <3>3
  <2>6. \A y \in Packet : e \in Of(Egress(r), y) <=> y = task.pkt
    BY <2>2, ElementOf
  <2>7. \A k \in Line : k # Egress(r) /\ k[1] # "work" => Kept(k)
    <3>1. ASSUME NEW k \in Line, k # Egress(r), k[1] # "work" PROVE Kept(k)
      <4>1. CASE k[1] = "egress"
        BY <2>1, <2>3, <3>1, <4>1, KeptEgress
      <4>2. CASE k[1] # "egress"
        BY <1>4, <3>1, <4>2, KeptLines DEF EnqueueNormal, inputVars, cqVars
      <4> QED
        BY <4>1, <4>2
    <3> QED
      BY <3>1
  <2>8. UNCHANGED <<packet_id, rx_packet>> /\ TaskDone(t)
    BY <1>4 DEF EnqueueNormal
  <2> QED
    BY <1>1, <2>4, <2>5, <2>6, <2>7, <2>8, TaskPassed
<1> QED
  BY <1>3, <1>4 DEF EnqueueNormal

LEMMA EnqueueCalendarPInv == ASSUME TInv, PInv, EnqueueCalendar PROVE PInv'
<1> DEFINE task == Head(work["ingress"])
<1>1. "ingress" \in Worker /\ HasTask("ingress", "calendar")
  BY DEF EnqueueCalendar, Worker
<1>2. CASE UNCHANGED <<cqVars, work, pc, gone>>
  <2>1. NothingMoves
    BY <1>2 DEF NothingMoves, EnqueueCalendar, inputVars, cqVars
  <2>2. Idle'
    BY <1>2 DEF EnqueueCalendar, PInv, Idle
  <2> QED
    BY <2>1, <2>2, NoneMoves DEF PInv
<1>3. CASE /\ \E why : Lose(task.pkt, why)
           /\ TaskDone("ingress") \/ CountDrop("ingress")
           /\ UNCHANGED calendar_queues
  BY <1>1, <1>3, TaskLost DEF EnqueueCalendar
<1>4. CASE /\ ~NoSuchSlice(task.queue)
           /\ calendar_queues' = [calendar_queues EXCEPT
                 ![task.queue] = Append(@, [e |-> task.pkt, port_id |-> task.port])]
           /\ TaskDone("ingress") /\ UNCHANGED gone
  <2>0. task.port \in Port /\ task.queue \in CQ!Slice /\ task.pkt \in Packet
    BY <1>1, <1>4, CalendarTask
  <2>1. PICK s \in CQ!Slice : s = task.queue
    BY <2>0
  <2>2. PICK e \in CQ!QE : e = [e |-> task.pkt, port_id |-> task.port]
    BY <2>0 DEF CQ!QE
  <2>3. calendar_queues' = [calendar_queues EXCEPT ![s] = Append(@, e)]
    BY <1>4, <2>1, <2>2
  <2>4. Cq(s) \in Line /\ Cq(s)[1] # "work" /\ Cq(s) # Gone
    BY LineNames DEF Cq
  <2>5. e \in Element(Cq(s)) /\ Added(Cq(s), e)
    <3>1. calendar_queues'[s] = Append(calendar_queues[s], e)
      BY <2>3 DEF TInv, DequesTyped
    <3>2. Element(Cq(s)) = CQ!QE
      BY DEF Cq, Element
    <3>3. Added(Cq(s), e)
      BY <2>4, <3>1, Contents DEF Added
    <3> QED
      BY <3>2, <3>3
  <2>6. \A y \in Packet : e \in Of(Cq(s), y) <=> y = task.pkt
    BY <2>2, ElementOf
  <2>7. ASSUME NEW k \in Line, k # Cq(s), k[1] # "work" PROVE Kept(k)
    <3>1. CASE k[1] = "cq"
      BY <2>3, <2>7, <3>1, KeptCalendar
    <3>2. CASE k[1] # "cq"
      BY <1>4, <2>7, <3>2, KeptLines DEF EnqueueCalendar, inputVars
    <3> QED
      BY <3>1, <3>2
  <2>8. UNCHANGED <<packet_id, rx_packet>> /\ TaskDone("ingress")
    BY <1>4 DEF EnqueueCalendar
  <2> QED
    BY <1>1, <2>4, <2>5, <2>6, <2>7, <2>8, TaskPassed
<1> QED
  BY <1>2, <1>3, <1>4 DEF EnqueueCalendar, cqVars, CQ!PushFull, CQ!PushFront

LEMMA EmitPInv == ASSUME TInv, PInv, NEW t \in {"cq", "egress"}, EmitPacket(t) PROVE PInv'
<1> DEFINE task == Head(work[t])
<1>1. t \in Worker /\ HasTask(t, "emit") /\ TaskDone(t)
  BY DEF EmitPacket, Worker
<1>2. task \in Tasked
  BY <1>1, TaskType
<1>3. PICK e \in Outgoing :
        e = [pkt |-> task.pkt, port |-> task.port, from |-> t, queue |-> task.queue]
  BY <1>2 DEF Tasked, TaskOf, Outgoing
<1>4. Out \in Line /\ Out[1] # "work" /\ Out # Gone
  BY LineNames DEF Out
<1>5. e \in Element(Out) /\ Added(Out, e)
  <2>1. Element(Out) = Outgoing \cup {EndOfOutput}
    BY DEF Element, Out
  <2>2. output_buffer' = Append(output_buffer, e)
    BY <1>3 DEF EmitPacket
  <2> QED
    BY <1>4, <2>1, <2>2, Contents DEF Added
<1>6. \A y \in Packet : e \in Of(Out, y) <=> y = task.pkt
  BY <1>3, ElementOf
<1>7. \A k \in Line : k # Out /\ k[1] # "work" => Kept(k)
  BY KeptLines DEF EmitPacket, inputVars, cqVars
<1>8. UNCHANGED <<packet_id, rx_packet>>
  BY DEF EmitPacket
<1> QED
  BY <1>1, <1>4, <1>5, <1>6, <1>7, <1>8, TaskPassed

LEMMA CalendarPopPInv == ASSUME TInv, PInv, CalendarPop PROVE PInv'
<1>1. PICK s \in CQ!Slice : s = active_q
  BY DEF TInv, ThreadsTyped
<1> DEFINE head == Head(calendar_queues[s])
<1>2. /\ calendar_queues[s] # << >> /\ calendar_queues[s] \in Seq(CQ!QE)
      /\ calendar_queues' = [calendar_queues EXCEPT ![s] = Tail(@)]
      /\ calendar_queues'[s] = Tail(calendar_queues[s])
  BY <1>1 DEF CalendarPop, TakeFromCalendar, CQ!PopBack, TInv, DequesTyped
<1>3. head \in CQ!QE
  BY <1>2
<1>4. PICK x \in Packet : x = head.e
  BY <1>3 DEF CQ!QE
<1>5. /\ "cq" \in Worker /\ s \in Nat /\ head.port_id \in Port
      /\ pc["cq"] \notin {"work", "count", "store"}
  BY <1>3, SlicesAssumption DEF Worker, CQ!Slice, CQ!QE, CalendarPop
<1>6. Process("cq", x, head.port_id, s, CqVerdicts)
  BY <1>1, <1>4 DEF CalendarPop
<1>7. \A v \in CqVerdicts : \E fates : IsVerdict(v, fates) /\ "copy" \notin fates
  <2> DEFINE F == {"emit", "recirculate", "drop"}
  <2>1. "copy" \notin F /\ \A v \in CqVerdicts : IsVerdict(v, F)
    BY VerdictsAssumption
  <2> QED
    BY <2>1
<1>8. Cq(s) \in Line /\ Cq(s)[1] # "work" /\ Cq(s) # Gone
  BY LineNames DEF Cq
<1>9. Taken(Cq(s)) /\ Content(Cq(s)) = calendar_queues[s]
  BY <1>2, <1>8, Contents DEF Taken
<1>10. \A y \in Packet : Head(Content(Cq(s))) \in Of(Cq(s), y) <=> y = x
  BY <1>3, <1>4, <1>9, ElementOf
<1>11. ASSUME NEW k \in Line, k # Cq(s), k[1] # "work" PROVE Kept(k)
  <2>1. CASE k[1] = "cq"
    BY <1>2, <1>11, <2>1, KeptCalendar
  <2>2. CASE k[1] # "cq"
    BY <1>11, <2>2, KeptLines DEF CalendarPop, inputVars
  <2> QED
    BY <2>1, <2>2
<1>12. InPlace'
  <2> HIDE DEF head
  <2> QED
    BY <1>5, <1>6, <1>7, <1>8, <1>9, <1>10, <1>11, HeadProcessed
<1>13. Idle'
  BY <1>5, <1>6, ProcessIdle DEF PInv, CalendarPop
<1> QED
  BY <1>12, <1>13 DEF PInv

LEMMA EgressPopPInv == ASSUME TInv, PInv, EgressPop PROVE PInv'
<1>1. PICK q \in Queue :
        /\ egress_buffers[q] # << >>
        /\ egress_buffers' = [egress_buffers EXCEPT ![q] = Tail(@)]
        /\ LET head == Head(egress_buffers[q])
           IN  IF head.pkt = nullptr
                 THEN Goto("egress", "done") /\ UNCHANGED <<packet_id, work>>
                 ELSE Process("egress", head.pkt, head.port, q, EgressVerdicts)
  BY DEF EgressPop
<1> DEFINE head == Head(egress_buffers[q])
           E == [pkt : Packet \cup {nullptr}, port : Port]
<1>2. head \in E
  <2>1. egress_buffers[q] \in Seq(E) /\ egress_buffers[q] # << >>
    BY <1>1 DEF TInv, BuffersTyped
  <2> HIDE DEF E
  <2> QED
    BY <2>1
<1>3. head.pkt \in Packet \cup {nullptr} /\ head.port \in Port
  <2> HIDE DEF head
  <2> QED
    BY <1>2
<1>4. /\ "egress" \in Worker /\ "egress" \in Thread \ {"rx"} /\ q \in Nat
      /\ pc["egress"] \notin {"work", "count", "store"} /\ UNCHANGED rx_packet
  BY ThreadSets, CapacitiesAssumption DEF Worker, Queue, EgressPop
<1>5. Egress(q) \in Line /\ Egress(q)[1] # "work" /\ Egress(q) # Gone
  BY LineNames DEF Egress
<1>6. Taken(Egress(q)) /\ Content(Egress(q)) = egress_buffers[q]
  <2>1. egress_buffers'[q] = Tail(egress_buffers[q])
    BY <1>1 DEF TInv, BuffersTyped
  <2> QED
    BY <1>1, <1>5, <2>1, Contents DEF Taken
<1>7. \A y \in Packet : Head(Content(Egress(q))) \in Of(Egress(q), y) <=> y = head.pkt
  BY <1>2, <1>6, ElementOf
<1>8. ASSUME NEW k \in Line, k # Egress(q), k[1] # "work" PROVE Kept(k)
  <2>1. CASE k[1] = "egress"
    BY <1>1, <1>8, <2>1, KeptEgress
  <2>2. CASE k[1] # "egress"
    BY <1>8, <2>2, KeptLines DEF EgressPop, inputVars, cqVars
  <2> QED
    BY <2>1, <2>2
<1>9. CASE head.pkt = nullptr
  <2>1. Goto("egress", "done") /\ UNCHANGED <<packet_id, work>>
    BY <1>1, <1>9
  <2>2. \A k \in Line \ {Egress(q)} : Kept(k)
    BY <1>8, <2>1, KeptLines
  <2>3. \A y \in Packet : Head(Content(Egress(q))) \notin Of(Egress(q), y)
    BY <1>7, <1>9 DEF Packet, nullptr
  <2>4. InPlace'
    BY <1>5, <1>6, <2>1, <2>2, <2>3, SentinelMoves DEF PInv
  <2>5. Idle'
    BY <1>4, <2>1, GotoIdle DEF PInv, Idle
  <2> QED
    BY <2>4, <2>5 DEF PInv
<1>10. CASE head.pkt # nullptr
  <2>1. PICK x \in Packet : x = head.pkt
    BY <1>3, <1>10
  <2>2. Process("egress", x, head.port, q, EgressVerdicts)
    BY <1>1, <1>10, <2>1
  <2>3. \A v \in EgressVerdicts : \E fates : IsVerdict(v, fates) /\ "copy" \notin fates
    <3> DEFINE F == {"emit", "recirculate", "drop"}
    <3>1. "copy" \notin F /\ \A v \in EgressVerdicts : IsVerdict(v, F)
      BY VerdictsAssumption
    <3> QED
      BY <3>1
  <2>4. \A y \in Packet : Head(Content(Egress(q))) \in Of(Egress(q), y) <=> y = x
    BY <1>7, <2>1
  <2>5. InPlace'
    <3> HIDE DEF head
    <3> QED
      BY <1>3, <1>4, <1>5, <1>6, <1>8, <2>2, <2>3, <2>4, HeadProcessed
  <2>6. Idle'
    BY <1>4, <2>2, ProcessIdle DEF PInv
  <2> QED
    BY <2>5, <2>6 DEF PInv
<1> QED
  BY <1>9, <1>10

LEMMA TransmitPInv == ASSUME TInv, PInv, Transmit PROVE PInv'
<1> DEFINE head == Head(output_buffer)
<1>1. output_buffer # << >> /\ output_buffer' = Tail(output_buffer)
  BY DEF Transmit
<1>2. head \in Outgoing \cup {EndOfOutput}
  BY <1>1 DEF TInv, BuffersTyped
<1>3. Out \in Line /\ Out # Gone /\ Sent \in Line /\ Sent # Gone /\ Out # Sent
  BY LineNames DEF Out, Sent
<1>4. Taken(Out) /\ Content(Out) = output_buffer
  BY <1>1, <1>3, Contents DEF Taken
<1>5. \A k \in Line : k # Out /\ k # Sent => Kept(k)
  BY KeptLines DEF Transmit, inputVars, cqVars
<1>6. UNCHANGED <<packet_id, rx_packet, work>>
  BY DEF Transmit
<1>7. CASE head = EndOfOutput
  <2>1. Goto("transmit", "done") /\ UNCHANGED sent
    BY <1>7 DEF Transmit
  <2>2. \A k \in Line \ {Out} : Kept(k)
    BY <1>5, <2>1, KeptLines
  <2>3. \A y \in Packet : Head(Content(Out)) \notin Of(Out, y)
    <3>1. EndOfOutput.pkt = nullptr
      BY DEF EndOfOutput
    <3>2. \A y \in Packet : head \in Of(Out, y) <=> head.pkt = y
      BY <1>2, ElementOf
    <3> HIDE DEF head
    <3> QED
      BY <1>4, <1>7, <3>1, <3>2 DEF Packet, nullptr, head
  <2>4. InPlace'
    BY <1>3, <1>4, <1>6, <2>2, <2>3, SentinelMoves DEF PInv
  <2>5. Idle'
    <3>1. "transmit" \in Thread \ {"rx"} /\ "transmit" \notin Worker
      BY ThreadSets
    <3> QED
      BY <1>6, <2>1, <3>1, GotoIdle DEF PInv
  <2> QED
    BY <2>4, <2>5 DEF PInv
<1>8. CASE head # EndOfOutput
  <2>1. sent' = Append(sent, head) /\ UNCHANGED pc
    BY <1>8 DEF Transmit
  <2>2. PICK e \in Outgoing : e = head
    BY <1>2, <1>8
  <2>3. PICK x \in Packet : x = e.pkt
    BY DEF Outgoing
  <2>4. \A y \in Packet : Head(Content(Out)) \in Of(Out, y) <=> y = x
    BY <1>4, <2>2, <2>3, ElementOf
  <2>5. Reaches(x, Sent)
    <3>1. Element(Sent) = Outgoing \cup {EndOfOutput}
      BY DEF Element, Sent
    <3>2. Added(Sent, e)
      BY <1>3, <2>1, <2>2, Contents DEF Added
    <3>3. \A y \in Packet : e \in Of(Sent, y) <=> y = x
      BY <2>3, ElementOf
    <3> QED
      BY <3>1, <3>2, <3>3 DEF Reaches
  <2>6. \A k \in Line \ {Out, Sent} : Kept(k)
    BY <1>5
  <2>7. InPlace'
    BY <1>3, <1>4, <1>6, <2>4, <2>5, <2>6, HeadMoves DEF PInv
  <2>8. Idle'
    BY <1>6, <2>1 DEF PInv, Idle
  <2> QED
    BY <2>7, <2>8 DEF PInv
<1> QED
  BY <1>7, <1>8

LEMMA DestructorPInv == ASSUME TInv, PInv, Destructor PROVE PInv'
<1>1. "main" \in Thread \ {"rx"} /\ "main" \notin Worker
  BY ThreadSets
<1>2. UNCHANGED <<packet_id, rx_packet, work>> /\ \E l : Goto("main", l)
  BY DEF Destructor, Destroy, StopIngress, StopEgress, StopTransmit, Join
<1>3. Idle'
  BY <1>1, <1>2, GotoIdle DEF PInv
<1>4. nullptr \notin Packet
  BY DEF Packet, nullptr
<1>5. CASE Destroy \/ Join
  <2>1. NothingMoves
    BY <1>5 DEF Destroy, Join, NothingMoves, inputVars, cqVars
  <2> QED
    BY <1>3, <2>1, NoneMoves DEF PInv
<1>6. CASE StopIngress
  <2>1. Hi \in Line /\ Hi # Gone /\ nullptr \in Element(Hi)
    BY LineNames DEF Hi, Element
  <2>2. Added(Hi, nullptr)
    BY <1>6, <2>1, Contents DEF StopIngress, Added
  <2>3. \A y \in Packet : nullptr \notin Of(Hi, y)
    BY <1>4, ElementOf
  <2>4. \A k \in Line \ {Hi} : Kept(k)
    BY <1>6, KeptLines DEF StopIngress, cqVars
  <2>5. InPlace'
    BY <1>2, <2>1, <2>2, <2>3, <2>4, SentinelMoves DEF PInv
  <2> QED
    BY <1>3, <2>5 DEF PInv
<1>7. CASE StopEgress
  <2>0. PICK e \in [pkt : Packet \cup {nullptr}, port : Port] : e = [pkt |-> nullptr, port |-> 0]
    BY PortAssumption
  <2>1. 0 \in Queue /\ egress_buffers' = [egress_buffers EXCEPT ![0] = Append(@, e)]
    <3>1. 0 \in Queue
      BY CapacitiesAssumption DEF Queue
    <3>2. egress_buffers' = [egress_buffers EXCEPT ![0] = Append(@, [pkt |-> nullptr, port |-> 0])]
      BY <1>7 DEF StopEgress
    <3> QED
      BY <2>0, <3>1, <3>2
  <2>2. Egress(0) \in Line /\ Egress(0) # Gone
    BY <2>1, LineNames
  <2>3. e \in Element(Egress(0))
    BY DEF Egress, Element
  <2>4. Added(Egress(0), e)
    <3>1. egress_buffers'[0] = Append(egress_buffers[0], e)
      BY <2>1 DEF TInv, BuffersTyped
    <3> QED
      BY <2>2, <3>1, Contents DEF Added
  <2>5. \A y \in Packet : e \notin Of(Egress(0), y)
    BY <1>4, <2>0, ElementOf
  <2>6. ASSUME NEW k \in Line \ {Egress(0)} PROVE Kept(k)
    <3>1. CASE k[1] = "egress"
      BY <2>1, <2>6, <3>1, KeptEgress
    <3>2. CASE k[1] # "egress"
      BY <1>7, <2>6, <3>2, KeptLines DEF StopEgress, inputVars, cqVars
    <3> QED
      BY <3>1, <3>2
  <2>7. InPlace'
    BY <1>2, <2>2, <2>3, <2>4, <2>5, <2>6, SentinelMoves DEF PInv
  <2> QED
    BY <1>3, <2>7 DEF PInv
<1>8. CASE StopTransmit
  <2>1. Out \in Line /\ Out # Gone /\ EndOfOutput \in Element(Out)
    BY LineNames DEF Out, Element
  <2>2. Added(Out, EndOfOutput)
    BY <1>8, <2>1, Contents DEF StopTransmit, Added
  <2>3. \A y \in Packet : EndOfOutput \notin Of(Out, y)
    <3>1. EndOfOutput.pkt = nullptr
      BY DEF EndOfOutput
    <3>2. \A y \in Packet : EndOfOutput \in Of(Out, y) <=> EndOfOutput.pkt = y
      BY ElementOf
    <3> QED
      BY <1>4, <3>1, <3>2
  <2>4. \A k \in Line \ {Out} : Kept(k)
    BY <1>8, KeptLines DEF StopTransmit, inputVars, cqVars
  <2>5. InPlace'
    BY <1>2, <2>1, <2>2, <2>3, <2>4, SentinelMoves DEF PInv
  <2> QED
    BY <1>3, <2>5 DEF PInv
<1> QED
  BY <1>5, <1>6, <1>7, <1>8 DEF Destructor

\* The actions that touch no line.
LEMMA ReceiveCountPInv == ASSUME TInv, PInv, ReceiveCount PROVE PInv'
<1>1. NothingMoves
  BY DEF ReceiveCount, NothingMoves, inputVars, cqVars
<1>2. pc \in [Thread -> Label]
  BY DEF TInv, ThreadsTyped
<1>3. Idle'
  BY <1>2, ThreadSets DEF ReceiveCount, Goto, PInv, Idle
<1> QED
  BY <1>1, <1>3, NoneMoves DEF PInv

LEMMA CountStepPInv == ASSUME TInv, PInv, NEW t \in Worker, CountStep(t) PROVE PInv'
<1>1. NothingMoves
  BY DEF CountStep, LoadDropped, StoreDropped, NothingMoves, inputVars, cqVars
<1>2. t \in Thread \ {"rx"} /\ UNCHANGED <<rx_packet, work>>
  BY ThreadSets DEF CountStep, LoadDropped, StoreDropped
<1>3. CASE LoadDropped(t)
  <2>1. Goto(t, "store")
    BY <1>3 DEF LoadDropped
  <2>2. Idle'
    BY <1>2, <2>1, GotoIdle DEF PInv
  <2> QED
    BY <1>1, <2>2, NoneMoves DEF PInv
<1>4. CASE StoreDropped(t)
  <2>1. \E l : Goto(t, l) /\ (work[t] = << >> \/ l = "work")
    BY <1>4 DEF StoreDropped
  <2>2. Idle'
    BY <1>2, <2>1, GotoIdle DEF PInv
  <2> QED
    BY <1>1, <2>2, NoneMoves DEF PInv
<1> QED
  BY <1>3, <1>4 DEF CountStep

LEMMA CalendarLookPInv == ASSUME TInv, PInv, ReadActiveSlice \/ CalendarEmpty PROVE PInv'
<1>1. NothingMoves
  BY DEF ReadActiveSlice, CalendarEmpty, CQ!PopEmpty, CQ!vars, NothingMoves, inputVars, cqVars
<1>2. /\ "cq" \in Thread \ {"rx"} /\ UNCHANGED <<rx_packet, work>>
      /\ work["cq"] = << >> /\ \E l : Goto("cq", l)
  BY ThreadSets DEF ReadActiveSlice, CalendarEmpty, PInv, Idle, Worker
<1>3. Idle'
  BY <1>2, GotoIdle DEF PInv
<1> QED
  BY <1>1, <1>3, NoneMoves DEF PInv

LEMMA NextPInv == TInv /\ PInv /\ [Next]_vars => PInv'
<1> SUFFICES ASSUME TInv, PInv, [Next]_vars PROVE PInv'
  OBVIOUS
<1>0. {"ingress", "cq", "egress"} \subseteq Worker
  BY DEF Worker
<1>1. CASE Tick \/ UNCHANGED vars
  <2>1. NothingMoves /\ UNCHANGED pc
    BY <1>1 DEF Tick, vars, NothingMoves, inputVars, cqVars
  <2>2. Idle'
    BY <2>1 DEF NothingMoves, PInv, Idle
  <2> QED
    BY <2>1, <2>2, NoneMoves DEF PInv
<1>2. CASE ReceiveThread
  BY <1>2, ReceivePInv, ReceivePushPInv, ReceiveCountPInv DEF ReceiveThread
<1>3. CASE IngressThread
  BY <1>0, <1>3, IngressPopPInv, BackToIngressPInv, DiscardPInv, EnqueueCalendarPInv,
     EnqueueNormalPInv, DropPInv, CountStepPInv
  DEF IngressThread, ResubmitPacket
<1>4. CASE CqThread
  BY <1>0, <1>4, CalendarLookPInv, CalendarPopPInv, EmitPInv, BackToIngressPInv, DropPInv,
     CountStepPInv
  DEF CqThread, RecirculatePacket
<1>5. CASE EgressThread
  BY <1>0, <1>5, EgressPopPInv, EnqueueNormalPInv, EmitPInv, BackToIngressPInv, DropPInv,
     CountStepPInv
  DEF EgressThread, RecirculatePacket
<1>6. CASE Transmit
  BY <1>6, TransmitPInv
<1>7. CASE Destructor
  BY <1>7, DestructorPInv
<1> QED
  BY <1>1, <1>2, <1>3, <1>4, <1>5, <1>6, <1>7 DEF Next

LEMMA SpecPInv == Spec => []PInv
BY InitPInv, NextPInv, SpecTInv, PTL DEF Spec
----------------------------------------------------------------------------
(* The invariant says what EveryPacketInOnePlace says.                     *)

\* A place as Whereabouts names it.
Place(k, i) ==
    IF k[1] \in {"work", "cq", "egress"} THEN <<k[1], k[2], i>> ELSE <<k[1], i>>

LEMMA PlacesAre ==
    ASSUME TInv, NEW x \in Packet, NEW z
    PROVE  z \in Whereabouts(x) <=> \E k \in Line : \E i \in Spots(k, x) : z = Place(k, i)
<1>1. ASSUME NEW k \in Line, k # Gone PROVE Spots(k, x) = Hits(Content(k), Of(k, x))
  BY <1>1, SpotsAre
<1>2. Spots(Hi, x) = {i \in DOMAIN queue_hi : queue_hi[i] = x}
  BY <1>1, LineNames, Contents, ElementOf DEF Hits
<1>3. Spots(Lo, x) = {i \in DOMAIN queue_lo : queue_lo[i] = x}
  BY <1>1, LineNames, Contents, ElementOf DEF Hits
<1>4. Spots(Rx, x) = {i \in {1} : rx_packet = x}
  BY RxSpots
<1>5. Spots(Out, x) = {i \in DOMAIN output_buffer : output_buffer[i].pkt = x}
  <2>1. \A i \in DOMAIN output_buffer : output_buffer[i] \in Outgoing \cup {EndOfOutput}
    BY DEF TInv, BuffersTyped
  <2>2. \A i \in DOMAIN output_buffer :
           output_buffer[i] \in Of(Out, x) <=> output_buffer[i].pkt = x
    BY <2>1, ElementOf
  <2> QED
    BY <1>1, <2>2, LineNames, Contents DEF Hits
<1>6. Spots(Sent, x) = {i \in DOMAIN sent : sent[i].pkt = x}
  <2>1. \A i \in DOMAIN sent : sent[i] \in Outgoing
    BY DEF TInv, BuffersTyped
  <2>2. \A i \in DOMAIN sent : sent[i] \in Of(Sent, x) <=> sent[i].pkt = x
    BY <2>1, ElementOf
  <2> QED
    BY <1>1, <2>2, LineNames, Contents DEF Hits
<1>7. Spots(Gone, x) = {g.why : g \in {g \in gone : g.pkt = x}}
  BY LineNames, SpotsAre
<1>8. ASSUME NEW t \in Worker
      PROVE  Spots(Work(t), x) = {i \in DOMAIN work[t] : work[t][i].pkt = x}
  <2>1. \A i \in DOMAIN work[t] : work[t][i] \in Tasked
    BY DEF TInv, ThreadsTyped
  <2>2. \A i \in DOMAIN work[t] : work[t][i] \in Of(Work(t), x) <=> work[t][i].pkt = x
    BY <2>1, ElementOf
  <2> QED
    BY <1>1, <2>2, LineNames, Contents DEF Hits
<1>9. ASSUME NEW s \in CQ!Slice
      PROVE  Spots(Cq(s), x)
                = {i \in DOMAIN calendar_queues[s] : calendar_queues[s][i].e = x}
  <2>1. \A i \in DOMAIN calendar_queues[s] : calendar_queues[s][i] \in CQ!QE
    BY DEF TInv, DequesTyped
  <2>2. \A i \in DOMAIN calendar_queues[s] :
           calendar_queues[s][i] \in Of(Cq(s), x) <=> calendar_queues[s][i].e = x
    BY <2>1, ElementOf
  <2> QED
    BY <1>1, <2>2, LineNames, Contents DEF Hits
<1>10. ASSUME NEW q \in Queue
       PROVE  Spots(Egress(q), x)
                 = {i \in DOMAIN egress_buffers[q] : egress_buffers[q][i].pkt = x}
  <2> DEFINE E == [pkt : Packet \cup {nullptr}, port : Port]
  <2>1. \A i \in DOMAIN egress_buffers[q] : egress_buffers[q][i] \in E
    <3>1. egress_buffers[q] \in Seq(E)
      BY DEF TInv, BuffersTyped
    <3> HIDE DEF E
    <3> QED
      BY <3>1
  <2>2. \A i \in DOMAIN egress_buffers[q] :
           egress_buffers[q][i] \in Of(Egress(q), x) <=> egress_buffers[q][i].pkt = x
    BY <2>1, ElementOf
  <2> QED
    BY <1>1, <2>2, LineNames, Contents DEF Hits
<1> HIDE DEF Spots
<1>11. ASSUME NEW k \in Line
       PROVE  \/ k \in {Hi, Lo, Rx, Out, Sent, Gone}
              \/ \E t \in Worker : k = Work(t)
              \/ \E s \in CQ!Slice : k = Cq(s)
              \/ \E q \in Queue : k = Egress(q)
  BY DEF Line, Hi, Lo, Rx, Out, Sent, Gone, Work, Cq, Egress
<1>12. /\ {Hi, Lo, Rx, Out, Sent, Gone} \subseteq Line
       /\ \A t \in Worker : Work(t) \in Line
       /\ \A s \in CQ!Slice : Cq(s) \in Line
       /\ \A q \in Queue : Egress(q) \in Line
  BY LineNames
<1>13. /\ \A i : /\ Place(Hi, i) = <<"hi", i>> /\ Place(Lo, i) = <<"lo", i>>
                 /\ Place(Rx, i) = <<"rx", i>> /\ Place(Out, i) = <<"out", i>>
                 /\ Place(Sent, i) = <<"sent", i>> /\ Place(Gone, i) = <<"gone", i>>
       /\ \A t, i : Place(Work(t), i) = <<"work", t, i>>
       /\ \A s, i : Place(Cq(s), i) = <<"cq", s, i>>
       /\ \A q, i : Place(Egress(q), i) = <<"egress", q, i>>
  BY DEF Place, Hi, Lo, Rx, Out, Sent, Gone, Work, Cq, Egress
<1>14. z \in Whereabouts(x) <=>
          \/ \E k \in {Hi, Lo, Rx, Out, Sent, Gone} : \E i \in Spots(k, x) : z = Place(k, i)
          \/ \E t \in Worker : \E i \in Spots(Work(t), x) : z = Place(Work(t), i)
          \/ \E s \in CQ!Slice : \E i \in Spots(Cq(s), x) : z = Place(Cq(s), i)
          \/ \E q \in Queue : \E i \in Spots(Egress(q), x) : z = Place(Egress(q), i)
  <2> DEFINE
        H == {<<"hi", i>> : i \in {i \in DOMAIN queue_hi : queue_hi[i] = x}}
        L == {<<"lo", i>> : i \in {i \in DOMAIN queue_lo : queue_lo[i] = x}}
        R == {<<"rx", i>> : i \in {i \in {1} : rx_packet = x}}
        O == {<<"out", i>> : i \in {i \in DOMAIN output_buffer : output_buffer[i].pkt = x}}
        S == {<<"sent", i>> : i \in {i \in DOMAIN sent : sent[i].pkt = x}}
        G == {<<"gone", g.why>> : g \in {g \in gone : g.pkt = x}}
        W(t) == {<<"work", t, i>> : i \in {i \in DOMAIN work[t] : work[t][i].pkt = x}}
        C(s) == {<<"cq", s, i>> :
                    i \in {i \in DOMAIN calendar_queues[s] : calendar_queues[s][i].e = x}}
        E(q) == {<<"egress", q, i>> :
                    i \in {i \in DOMAIN egress_buffers[q] : egress_buffers[q][i].pkt = x}}
  <2>1. z \in Whereabouts(x) <=>
           \/ z \in H \/ z \in L \/ z \in R \/ z \in O \/ z \in S \/ z \in G
           \/ \E t \in Worker : z \in W(t)
           \/ \E s \in CQ!Slice : z \in C(s)
           \/ \E q \in Queue : z \in E(q)
    <3> DEFINE Ws == UNION {W(t) : t \in Worker}
               Cs == UNION {C(s) : s \in CQ!Slice}
               Es == UNION {E(q) : q \in Queue}
    <3>1. Whereabouts(x) = H \cup L \cup R \cup O \cup S \cup G \cup Ws \cup Cs \cup Es
      BY DEF Whereabouts
    <3> HIDE DEF H, L, R, O, S, G, W, C, E
    <3>2. z \in Ws <=> \E t \in Worker : z \in W(t)
      OBVIOUS
    <3>3. z \in Cs <=> \E s \in CQ!Slice : z \in C(s)
      OBVIOUS
    <3>4. z \in Es <=> \E q \in Queue : z \in E(q)
      OBVIOUS
    <3> HIDE DEF Ws, Cs, Es
    <3> QED
      BY <3>1, <3>2, <3>3, <3>4
  <2>2. z \in H <=> \E i \in Spots(Hi, x) : z = Place(Hi, i)
    BY <1>2, <1>13
  <2>3. z \in L <=> \E i \in Spots(Lo, x) : z = Place(Lo, i)
    BY <1>3, <1>13
  <2>4. z \in R <=> \E i \in Spots(Rx, x) : z = Place(Rx, i)
    BY <1>4, <1>13
  <2>5. z \in O <=> \E i \in Spots(Out, x) : z = Place(Out, i)
    BY <1>5, <1>13
  <2>6. z \in S <=> \E i \in Spots(Sent, x) : z = Place(Sent, i)
    BY <1>6, <1>13
  <2>7. z \in G <=> \E i \in Spots(Gone, x) : z = Place(Gone, i)
    BY <1>7, <1>13
  <2>8. \A t \in Worker : z \in W(t) <=> \E i \in Spots(Work(t), x) : z = Place(Work(t), i)
    BY <1>8, <1>13
  <2>9. \A s \in CQ!Slice : z \in C(s) <=> \E i \in Spots(Cq(s), x) : z = Place(Cq(s), i)
    BY <1>9, <1>13
  <2>10. \A q \in Queue : z \in E(q) <=> \E i \in Spots(Egress(q), x) : z = Place(Egress(q), i)
    BY <1>10, <1>13
  <2> HIDE DEF H, L, R, O, S, G, W, C, E
  <2> QED
    BY <2>1, <2>2, <2>3, <2>4, <2>5, <2>6, <2>7, <2>8, <2>9, <2>10
<1>15. ASSUME NEW k \in Line, NEW i \in Spots(k, x), z = Place(k, i) PROVE z \in Whereabouts(x)
  BY <1>11, <1>14, <1>15
<1>16. ASSUME z \in Whereabouts(x) PROVE \E k \in Line : \E i \in Spots(k, x) : z = Place(k, i)
  BY <1>12, <1>14, <1>16
<1> QED
  BY <1>15, <1>16

\* No packet is lost without trace and none is handed over twice: every packet
\* the switch received or replicated is in one place, whatever the threads
\* do, whichever buffer is full, and while the switch is destroyed
\* (unique_ptr<Packet> moved from buffer to buffer, tor_switch.cpp:553-978).
THEOREM PacketsKeptOnce == Spec => []EveryPacketInOnePlace
<1>1. ASSUME TInv, PInv PROVE EveryPacketInOnePlace
  <2> SUFFICES ASSUME NEW x \in 1 .. packet_id PROVE Cardinality(Whereabouts(x)) = 1
    BY DEF EveryPacketInOnePlace
  <2>0. x \in Packet
    BY <1>1, BoundAssumption DEF TInv, ThreadsTyped, Packet
  <2>1. PICK k \in Line : OnlyIn(k, x)
    BY <1>1 DEF PInv, InPlace
  <2>2. PICK i \in Spots(k, x) : Spots(k, x) = {i}
    BY <2>1 DEF OnlyIn, Lone
  <2>3. \A j \in Line : j # k => Spots(j, x) = {}
    BY <2>1 DEF OnlyIn
  <2> HIDE DEF Spots
  <2>4. \A z : z \in Whereabouts(x) <=> z = Place(k, i)
    <3>1. \A z : z \in Whereabouts(x) <=> \E j \in Line : \E n \in Spots(j, x) : z = Place(j, n)
      BY <1>1, <2>0, PlacesAre
    <3> QED
      BY <2>2, <2>3, <3>1
  <2>5. Whereabouts(x) = {Place(k, i)}
    BY <2>4
  <2> QED
    BY <2>5, FS_Singleton
<1> QED
  BY <1>1, SpecTInv, SpecPInv, PTL
----------------------------------------------------------------------------
(* The drop counter.  Every drop that is to be counted is a new record in  *)
(* gone, made when its thread goes to "count": so the drops not yet added  *)
(* are those of the threads there.                                         *)

LEMMA FiniteWorkers ==
    /\ IsFiniteSet(Counting) /\ Cardinality(Counting) \in Nat
    /\ IsFiniteSet(Counting)' /\ Cardinality(Counting)' \in Nat
<1>1. IsFiniteSet(Worker)
  <2>1. IsFiniteSet({"ingress"})
    BY FS_Singleton
  <2>2. IsFiniteSet({"ingress"} \cup {"cq"})
    BY <2>1, FS_AddElement
  <2>3. IsFiniteSet(({"ingress"} \cup {"cq"}) \cup {"egress"})
    BY <2>2, FS_AddElement
  <2>4. Worker = ({"ingress"} \cup {"cq"}) \cup {"egress"}
    BY DEF Worker
  <2> QED
    BY <2>3, <2>4
<1>2. IsFiniteSet(Counting) /\ IsFiniteSet(Counting)'
  BY <1>1, FS_Subset DEF Counting
<1> QED
  BY <1>2, FS_CardinalityType

LEMMA FiniteCounted ==
    ASSUME IsFiniteSet(gone)
    PROVE  IsFiniteSet(Counted) /\ Cardinality(Counted) \in Nat
BY FS_Subset, FS_CardinalityType DEF Counted

\* A packet in a list of tasks is not gone.
LEMMA NotGone ==
    ASSUME TInv, PInv, NEW t \in Worker, NEW op, HasTask(t, op)
    PROVE  \A g \in gone : g.pkt # Head(work[t]).pkt
<1>1. work[t] \in Seq(Tasked) /\ work[t] # << >> /\ Head(work[t]) \in Tasked
  BY TaskType
<1>2. PICK x \in Packet : x = Head(work[t]).pkt
  BY <1>1 DEF Tasked, TaskOf
<1>3. Work(t) \in Line /\ Work(t) # Gone /\ Gone \in Line /\ Content(Work(t)) = work[t]
  BY LineNames, Contents
<1>4. Head(work[t]) \in Of(Work(t), x)
  BY <1>1, <1>2, ElementOf
<1>5. Spots(Work(t), x) # {}
  BY <1>1, <1>3, <1>4, SpotsAre, TailHits
<1>6. packet_id \in 0 .. MaxPackets /\ packet_id \in Nat /\ x \in Nat
  BY BoundAssumption DEF TInv, ThreadsTyped, Packet
<1>7. \E k \in Line : OnlyIn(k, x)
  BY <1>3, <1>5, <1>6, BoundAssumption DEF PInv, InPlace, Packet
<1>8. Spots(Gone, x) = {}
  BY <1>3, <1>5, <1>7 DEF OnlyIn
<1>9. Spots(Gone, x) = {g.why : g \in {g \in gone : g.pkt = x}}
  BY <1>3, SpotsAre
<1>10. {g \in gone : g.pkt = x} = {}
  BY <1>8, <1>9
<1> QED
  BY <1>2, <1>10

\* A step that concerns no drop that counts.
LEMMA QuietCInv ==
    ASSUME CInv, Counting' = Counting, Storing' = Storing, UNCHANGED countVars,
           IsFiniteSet(gone'), Counted' = Counted
    PROVE  CInv'
BY DEF CInv, countVars

\* The step of a thread that does not count, before and after it.
LEMMA GotoQuiet ==
    ASSUME TInv, NEW t \in Thread, NEW l, Goto(t, l),
           t \in Worker => pc[t] \notin {"count", "store"} /\ l \notin {"count", "store"}
    PROVE  Counting' = Counting /\ Storing' = Storing
<1>1. \A u \in Thread : pc'[u] = IF u = t THEN l ELSE pc[u]
  BY DEF Goto, TInv, ThreadsTyped
<1>2. \A u \in Worker : /\ pc'[u] \in {"count", "store"} <=> pc[u] \in {"count", "store"}
                        /\ pc'[u] = "store" <=> pc[u] = "store"
  BY <1>1, ThreadSets
<1> QED
  BY <1>2 DEF Counting, Storing

LEMMA QuietGone ==
    ASSUME CInv, NEW x, NEW why,
           UNCHANGED gone \/ (Lose(x, why) /\ why \notin CountedReasons)
    PROVE  IsFiniteSet(gone') /\ Counted' = Counted
<1>1. IsFiniteSet(gone)
  BY DEF CInv
<1>2. CASE UNCHANGED gone
  BY <1>1, <1>2 DEF Counted
<1>3. CASE Lose(x, why) /\ why \notin CountedReasons
  <2> DEFINE r == [pkt |-> x, why |-> why]
  <2>1. gone' = gone \cup {r} /\ r.why \notin CountedReasons
    BY <1>3 DEF Lose
  <2> HIDE DEF r
  <2> QED
    BY <1>1, <2>1, FS_AddElement DEF Counted
<1> QED
  BY <1>2, <1>3

\* A thread ends a task without a drop that counts.
LEMMA TaskDoneCInv ==
    ASSUME TInv, CInv, NEW t \in Worker, NEW op, HasTask(t, op), TaskDone(t),
           UNCHANGED countVars, NEW x, NEW why,
           UNCHANGED gone \/ (Lose(x, why) /\ why \notin CountedReasons)
    PROVE  CInv'
<1>1. \E l : Goto(t, l) /\ l \notin {"count", "store"}
  BY DEF TaskDone, Home
<1>2. t \in Thread /\ pc[t] \notin {"count", "store"}
  BY ThreadSets DEF HasTask
<1> QED
  BY <1>1, <1>2, GotoQuiet, QuietGone, QuietCInv

\* A thread drops its packet and will count that.
LEMMA CountDropCInv ==
    ASSUME TInv, PInv, CInv, NEW t \in Worker, NEW op, HasTask(t, op), CountDrop(t),
           UNCHANGED countVars, NEW why \in CountedReasons, Lose(Head(work[t]).pkt, why)
    PROVE  CInv'
<1>1. PICK r : r = [pkt |-> Head(work[t]).pkt, why |-> why]
  OBVIOUS
<1>2. gone' = gone \cup {r} /\ r.why = why /\ r.pkt = Head(work[t]).pkt
  BY <1>1 DEF Lose
<1>3. r \notin gone
  BY <1>2, NotGone
<1>4. IsFiniteSet(gone) /\ IsFiniteSet(gone')
  BY <1>2, FS_AddElement DEF CInv
<1>5. Counted' = Counted \cup {r} /\ r \notin Counted
  BY <1>2, <1>3 DEF Counted
<1>6. /\ Cardinality(Counted) \in Nat
      /\ Cardinality(Counted') = Cardinality(Counted) + 1
  BY <1>4, <1>5, FiniteCounted, FS_AddElement
<1>7. \A u \in Worker : pc'[u] = IF u = t THEN "count" ELSE pc[u]
  BY ThreadSets DEF CountDrop, Goto, TInv, ThreadsTyped
<1>8. pc[t] = "work"
  BY DEF HasTask
<1>9. Counting' = Counting \cup {t} /\ t \notin Counting /\ Storing' = Storing
  BY <1>7, <1>8 DEF Counting, Storing
<1>10. Cardinality(Counting) \in Nat /\ Cardinality(Counting') = Cardinality(Counting) + 1
  BY <1>9, FiniteWorkers, FS_AddElement
<1>11. reg \in [Worker -> Nat] /\ nb_pkts_dropped \in Nat /\ \A u \in Storing : u \in Worker
  BY DEF TInv, CountersTyped, Storing
<1> QED
  BY <1>4, <1>6, <1>9, <1>10, <1>11 DEF CInv, countVars

LEMMA LoadDroppedCInv == ASSUME TInv, CInv, NEW t \in Worker, LoadDropped(t) PROVE CInv'
<1>1. \A u \in Worker : pc'[u] = IF u = t THEN "store" ELSE pc[u]
  BY ThreadSets DEF LoadDropped, Goto, TInv, ThreadsTyped
<1>2. pc[t] = "count"
  BY DEF LoadDropped
<1>3. Counting' = Counting /\ Storing' = Storing \cup {t} /\ t \notin Storing
  BY <1>1, <1>2 DEF Counting, Storing
<1>4. /\ reg \in [Worker -> Nat] /\ nb_pkts_dropped \in Nat /\ \A u \in Storing : u \in Worker
      /\ raced \in BOOLEAN
  BY DEF TInv, CountersTyped, Storing
<1>5. \A u \in Worker : reg'[u] = IF u = t THEN nb_pkts_dropped ELSE reg[u]
  BY <1>4 DEF LoadDropped
<1>6. UNCHANGED <<gone, nb_pkts_dropped>> /\ Counted' = Counted
  BY DEF LoadDropped, Counted
<1>7. ~raced' => ~raced /\ Storing = {}
  BY <1>3, <1>4 DEF LoadDropped, Storing
<1> QED
  BY <1>3, <1>4, <1>5, <1>6, <1>7 DEF CInv

LEMMA StoreDroppedCInv == ASSUME TInv, CInv, NEW t \in Worker, StoreDropped(t) PROVE CInv'
<1>1. \A u \in Worker : u # t => pc'[u] = pc[u]
  BY ThreadSets DEF StoreDropped, Goto, TInv, ThreadsTyped
<1>2. pc[t] = "store" /\ pc'[t] \notin {"count", "store"}
  BY ThreadSets DEF StoreDropped, Goto, Home, TInv, ThreadsTyped
<1>3. Counting' = Counting \ {t} /\ t \in Counting /\ Storing' = Storing \ {t} /\ t \in Storing
  BY <1>1, <1>2 DEF Counting, Storing
<1>4. Cardinality(Counting) \in Nat /\ Cardinality(Counting') = Cardinality(Counting) - 1
  BY <1>3, FiniteWorkers, FS_RemoveElement
<1>5. /\ reg \in [Worker -> Nat] /\ nb_pkts_dropped \in Nat /\ \A u \in Storing : u \in Worker
  BY DEF TInv, CountersTyped, Storing
<1>6. /\ UNCHANGED <<gone, reg, raced>> /\ nb_pkts_dropped' = reg[t] + 1
      /\ Counted' = Counted
  BY DEF StoreDropped, Counted
<1>7. Cardinality(Counted) \in Nat
  BY FiniteCounted DEF CInv
<1> DEFINE n == Cardinality(Counting)
           m == Cardinality(Counted)
<1>8. /\ nb_pkts_dropped + n <= m
      /\ \A u \in Storing : reg[u] + n <= m
      /\ ~raced => /\ nb_pkts_dropped + n = m
                   /\ reg[t] = nb_pkts_dropped
                   /\ \A u \in Storing : u = t
  BY <1>3 DEF CInv
<1>9. n \in Nat /\ m \in Nat /\ reg[t] \in Nat /\ \A u \in Storing : reg[u] \in Nat
  BY <1>4, <1>5, <1>7
<1>10. Cardinality(Counting') = n - 1 /\ Cardinality(Counted') = m
  BY <1>4, <1>6
<1> HIDE DEF n, m
<1>11. nb_pkts_dropped' + Cardinality(Counting') <= Cardinality(Counted')
  BY <1>3, <1>6, <1>8, <1>9, <1>10
<1>12. \A u \in Storing' : reg'[u] + Cardinality(Counting') <= Cardinality(Counted')
  BY <1>3, <1>6, <1>8, <1>9, <1>10
<1>13. ~raced' => /\ nb_pkts_dropped' + Cardinality(Counting') = Cardinality(Counted')
                  /\ Storing' = {}
  BY <1>3, <1>5, <1>6, <1>8, <1>9, <1>10
<1>14. IsFiniteSet(gone')
  BY <1>6 DEF CInv
<1> QED
  BY <1>11, <1>12, <1>13, <1>14 DEF CInv

LEMMA InitCInv == Init => CInv
<1> SUFFICES ASSUME Init PROVE CInv
  OBVIOUS
<1>1. gone = {} /\ Counted = {} /\ nb_pkts_dropped = 0
  BY DEF Init, Counted
<1>2. Counting = {} /\ Storing = {}
  BY ThreadSets DEF Init, Counting, Storing
<1> QED
  BY <1>1, <1>2, FS_EmptySet DEF CInv

\* The steps of the threads that never count, and of those that count when
\* they take a packet or look for one.
LEMMA OthersCInv ==
    ASSUME TInv, CInv,
           \/ Tick \/ UNCHANGED vars \/ ReceiveThread \/ IngressPop \/ ReadActiveSlice
           \/ CalendarEmpty \/ CalendarPop \/ EgressPop \/ Transmit \/ Destructor
    PROVE  CInv'
<1>1. /\ "rx" \in Thread \ Worker /\ "transmit" \in Thread \ Worker
      /\ "main" \in Thread \ Worker
      /\ "ingress" \in Thread /\ "cq" \in Thread /\ "egress" \in Thread
  BY ThreadSets DEF Worker
<1>2. UNCHANGED gone /\ UNCHANGED countVars
  <2>1. CASE Tick \/ UNCHANGED vars
    BY <2>1 DEF Tick, vars, countVars
  <2>2. CASE ReceiveThread
    BY <2>2 DEF ReceiveThread, Receive, ReceivePush, ReceiveCount
  <2>3. CASE IngressPop
    BY <2>3 DEF IngressPop, IngressTake
  <2>4. CASE ReadActiveSlice \/ CalendarEmpty \/ CalendarPop
    BY <2>4 DEF ReadActiveSlice, CalendarEmpty, CalendarPop
  <2>5. CASE EgressPop \/ Transmit
    BY <2>5 DEF EgressPop, Transmit
  <2>6. CASE Destructor
    BY <2>6 DEF Destructor, Destroy, StopIngress, StopEgress, StopTransmit, Join
  <2> QED
    BY <2>1, <2>2, <2>3, <2>4, <2>5, <2>6
<1>3. IsFiniteSet(gone') /\ Counted' = Counted
  BY <1>2, QuietGone
<1>4. \/ UNCHANGED pc
      \/ \E t \in Thread : \E l :
            /\ Goto(t, l)
            /\ t \in Worker => pc[t] \notin {"count", "store"} /\ l \notin {"count", "store"}
  <2>1. CASE Tick \/ UNCHANGED vars
    BY <2>1 DEF Tick, vars
  <2>2. CASE ReceiveThread
    BY <1>1, <2>2 DEF ReceiveThread, Receive, ReceivePush, ReceiveCount
  <2>3. CASE IngressPop
    <3>1. /\ pc["ingress"] = "pop"
          /\ Goto("ingress", "done") \/ Goto("ingress", "work")
      BY <2>3 DEF IngressPop, IngressTake, Process, Goto
    <3> QED
      BY <1>1, <3>1
  <2>4. CASE ReadActiveSlice \/ CalendarEmpty \/ CalendarPop
    <3>1. /\ pc["cq"] \in {"pop", "read"}
          /\ \E l \in {"pop", "read", "work"} : Goto("cq", l)
      BY <2>4 DEF ReadActiveSlice, CalendarEmpty, CalendarPop, Process, Goto
    <3> QED
      BY <1>1, <3>1
  <2>5. CASE EgressPop
    <3>1. /\ pc["egress"] = "pop"
          /\ \E l \in {"done", "work"} : Goto("egress", l)
      BY <2>5 DEF EgressPop, Process, Goto
    <3> QED
      BY <1>1, <3>1
  <2>6. CASE Transmit
    BY <1>1, <2>6 DEF Transmit
  <2>7. CASE Destructor
    <3>1. \E l : Goto("main", l)
      BY <2>7 DEF Destructor, Destroy, StopIngress, StopEgress, StopTransmit, Join
    <3> QED
      BY <1>1, <3>1
  <2> QED
    BY <2>1, <2>2, <2>3, <2>4, <2>5, <2>6, <2>7
<1>5. Counting' = Counting /\ Storing' = Storing
  BY <1>4, GotoQuiet DEF Counting, Storing
<1> QED
  BY <1>2, <1>3, <1>5, QuietCInv

LEMMA BackToIngressCInv ==
    ASSUME TInv, CInv, NEW t \in Worker, NEW op, BackToIngress(t, op) PROVE CInv'
<1>1. "no room at ingress" \notin CountedReasons
  BY DEF CountedReasons
<1>2. UNCHANGED gone \/ Lose(Head(work[t]).pkt, "no room at ingress")
  BY DEF BackToIngress
<1>3. HasTask(t, op) /\ TaskDone(t) /\ UNCHANGED countVars
  BY DEF BackToIngress
<1> QED
  BY <1>1, <1>2, <1>3, TaskDoneCInv

LEMMA DiscardCInv == ASSUME TInv, CInv, DiscardOriginal PROVE CInv'
<1>1. "replicated" \notin CountedReasons /\ "ingress" \in Worker
  BY DEF CountedReasons, Worker
<1> QED
  BY <1>1, TaskDoneCInv DEF DiscardOriginal

LEMMA DropCInv == ASSUME TInv, PInv, CInv, NEW t \in Worker, DropPacket(t) PROVE CInv'
<1>1. "dropped" \in CountedReasons
  BY DEF CountedReasons
<1> QED
  BY <1>1, CountDropCInv DEF DropPacket

LEMMA EnqueueNormalCInv ==
    ASSUME TInv, PInv, CInv, NEW t \in Worker, EnqueueNormal(t) PROVE CInv'
<1>1. PICK op : HasTask(t, op)
  BY DEF EnqueueNormal
<1>2. "bad priority" \in CountedReasons /\ "normal queue full" \notin CountedReasons
  BY DEF CountedReasons
<1>3. UNCHANGED countVars
  BY DEF EnqueueNormal
<1>4. CASE Lose(Head(work[t]).pkt, "bad priority") /\ CountDrop(t)
  BY <1>1, <1>2, <1>3, <1>4, CountDropCInv
<1>5. CASE Lose(Head(work[t]).pkt, "normal queue full") /\ TaskDone(t)
  BY <1>1, <1>2, <1>3, <1>5, TaskDoneCInv
<1>6. CASE TaskDone(t) /\ UNCHANGED gone
  BY <1>1, <1>3, <1>6, TaskDoneCInv
<1> QED
  BY <1>4, <1>5, <1>6 DEF EnqueueNormal

LEMMA EnqueueCalendarCInv == ASSUME TInv, PInv, CInv, EnqueueCalendar PROVE CInv'
<1> DEFINE task == Head(work["ingress"])
<1>1. HasTask("ingress", "calendar") /\ "ingress" \in Worker /\ UNCHANGED countVars
  BY DEF EnqueueCalendar, Worker
<1>2. "bad priority" \in CountedReasons /\ "calendar queue full" \in CountedReasons
  BY DEF CountedReasons
<1>3. CASE UNCHANGED <<pc, gone>>
  BY <1>1, <1>3, QuietGone, QuietCInv DEF Counting, Storing
<1>4. CASE /\ CountDrop("ingress")
           /\ Lose(task.pkt, "bad priority") \/ Lose(task.pkt, "calendar queue full")
  BY <1>1, <1>2, <1>4, CountDropCInv
<1>5. CASE TaskDone("ingress") /\ UNCHANGED gone
  BY <1>1, <1>5, TaskDoneCInv
<1> QED
  BY <1>3, <1>4, <1>5 DEF EnqueueCalendar

LEMMA EmitCInv == ASSUME TInv, CInv, NEW t \in {"cq", "egress"}, EmitPacket(t) PROVE CInv'
<1>1. t \in Worker
  BY DEF Worker
<1> QED
  BY <1>1, TaskDoneCInv DEF EmitPacket

LEMMA NextCInv == TInv /\ PInv /\ CInv /\ [Next]_vars => CInv'
<1> SUFFICES ASSUME TInv, PInv, CInv, [Next]_vars PROVE CInv'
  OBVIOUS
<1>0. {"ingress", "cq", "egress"} \subseteq Worker
  BY DEF Worker
<1>1. CASE Tick \/ UNCHANGED vars
  BY <1>1, OthersCInv
<1>2. CASE ReceiveThread \/ Transmit \/ Destructor
  BY <1>2, OthersCInv
<1>3. CASE IngressThread
  BY <1>0, <1>3, OthersCInv, BackToIngressCInv, DiscardCInv, EnqueueCalendarCInv,
     EnqueueNormalCInv, DropCInv, LoadDroppedCInv, StoreDroppedCInv
  DEF IngressThread, ResubmitPacket, CountStep
<1>4. CASE CqThread
  BY <1>0, <1>4, OthersCInv, EmitCInv, BackToIngressCInv, DropCInv, LoadDroppedCInv,
     StoreDroppedCInv
  DEF CqThread, RecirculatePacket, CountStep
<1>5. CASE EgressThread
  BY <1>0, <1>5, OthersCInv, EnqueueNormalCInv, EmitCInv, BackToIngressCInv, DropCInv,
     LoadDroppedCInv, StoreDroppedCInv
  DEF EgressThread, RecirculatePacket, CountStep
<1> QED
  BY <1>1, <1>2, <1>3, <1>4, <1>5 DEF Next

LEMMA SpecCInv == Spec => []CInv
BY InitCInv, NextCInv, SpecTInv, SpecPInv, PTL DEF Spec

\* nb_pkts_dropped never exceeds the drops it is meant to count, although
\* three threads increment it without a lock, and it is exact whenever no
\* increment is under way and no two ever overlapped (tor_switch.cpp:463,
\* 470, 490, 712, 814, 943).
THEOREM DropsCounted == Spec => []DropCountExactUnlessRaced
<1>1. ASSUME TInv, CInv PROVE DropCountExactUnlessRaced
  <2>1. Cardinality(Counting) \in Nat /\ Cardinality(Counted) \in Nat
    BY <1>1, FiniteWorkers, FiniteCounted DEF CInv
  <2>2. nb_pkts_dropped \in Nat
    BY <1>1 DEF TInv, CountersTyped
  <2>3. Settled => Cardinality(Counting) = 0
    <3>1. Settled => Counting = {}
      BY DEF Settled, Counting
    <3> QED
      BY <3>1, FS_EmptySet
  <2> QED
    BY <1>1, <2>1, <2>2, <2>3 DEF CInv, DropCountExactUnlessRaced
<1> QED
  BY <1>1, SpecTInv, SpecCInv, PTL
----------------------------------------------------------------------------
(* The loss rate.  Without replicas the packets are those received, so the *)
(* drops counted are of packets received, except the one at the door.      *)

NoReplicas ==
    \A v \in IngressVerdicts \cup CqVerdicts \cup EgressVerdicts : Replicas(v) = 0

Arrivals ==
    /\ pc["rx"] \in {"idle", "push", "count"}
    /\ packet_id = nb_pkts_rcvd + (IF pc["rx"] = "idle" THEN 0 ELSE 1)

GoneTyped == \A g \in gone : g.pkt \in Packet /\ g = [pkt |-> g.pkt, why |-> g.why]

RInv == Arrivals /\ GoneTyped

\* A step of a worker that makes no packet.
LEMMA WorkerRInv ==
    ASSUME TInv, RInv, UNCHANGED <<packet_id, nb_pkts_rcvd>>,
           UNCHANGED pc \/ \E t \in Thread \ {"rx"} : \E l : Goto(t, l),
           NEW x, NEW why, UNCHANGED gone \/ (x \in Packet /\ Lose(x, why))
    PROVE  RInv'
<1>1. pc'["rx"] = pc["rx"]
  BY ThreadSets DEF Goto, TInv, ThreadsTyped
<1>2. GoneTyped'
  <2>1. CASE UNCHANGED gone
    BY <2>1 DEF RInv, GoneTyped
  <2>2. CASE x \in Packet /\ Lose(x, why)
    <3>1. PICK r : r = [pkt |-> x, why |-> why]
      OBVIOUS
    <3>2. r.pkt \in Packet /\ r = [pkt |-> r.pkt, why |-> r.why] /\ gone' = gone \cup {r}
      BY <2>2, <3>1 DEF Lose
    <3> QED
      BY <3>2 DEF RInv, GoneTyped
  <2> QED
    BY <2>1, <2>2
<1> QED
  BY <1>1, <1>2 DEF RInv, Arrivals

LEMMA TaskRInv ==
    ASSUME TInv, RInv, UNCHANGED <<packet_id, nb_pkts_rcvd>>,
           NEW t \in Worker, NEW op, HasTask(t, op), TaskDone(t) \/ CountDrop(t),
           NEW why, UNCHANGED gone \/ Lose(Head(work[t]).pkt, why)
    PROVE  RInv'
<1>1. PICK x \in Packet : x = Head(work[t]).pkt
  BY TaskType DEF Tasked, TaskOf
<1>2. t \in Thread \ {"rx"} /\ \E l : Goto(t, l)
  BY ThreadSets DEF TaskDone, CountDrop
<1> QED
  BY <1>1, <1>2, WorkerRInv

LEMMA ProcessRInv ==
    ASSUME TInv, RInv, NEW t \in Worker, NEW x, NEW p, NEW q,
           NEW verdicts, \A v \in verdicts : Replicas(v) = 0,
           Process(t, x, p, q, verdicts), UNCHANGED <<nb_pkts_rcvd, gone>>
    PROVE  RInv'
<1>1. packet_id' = packet_id /\ Goto(t, "work")
  <2>1. PICK v \in verdicts : packet_id' = packet_id + Replicas(v)
    BY DEF Process
  <2>2. packet_id \in Nat
    BY BoundAssumption DEF TInv, ThreadsTyped
  <2>3. Goto(t, "work")
    BY DEF Process, Goto
  <2> QED
    BY <2>1, <2>2, <2>3
<1>2. t \in Thread \ {"rx"}
  BY ThreadSets
<1> QED
  BY <1>1, <1>2, WorkerRInv

LEMMA InitRInv == Init => RInv
BY ThreadSets DEF Init, RInv, Arrivals, GoneTyped

LEMMA ReceiveRInv == ASSUME TInv, RInv, ReceiveThread PROVE RInv'
<1>1. /\ pc \in [Thread -> Label] /\ "rx" \in Thread
      /\ packet_id \in Nat /\ nb_pkts_rcvd \in Nat
  BY ThreadSets, BoundAssumption DEF TInv, ThreadsTyped, CountersTyped
<1>2. UNCHANGED gone
  BY DEF ReceiveThread, Receive, ReceivePush, ReceiveCount
<1>3. Arrivals'
  <2>1. CASE Receive
    BY <1>1, <2>1 DEF Receive, Goto, RInv, Arrivals
  <2>2. CASE ReceivePush
    BY <1>1, <2>2 DEF ReceivePush, Goto, RInv, Arrivals
  <2>3. CASE ReceiveCount
    BY <1>1, <2>3 DEF ReceiveCount, Goto, RInv, Arrivals
  <2> QED
    BY <2>1, <2>2, <2>3 DEF ReceiveThread
<1> QED
  BY <1>2, <1>3 DEF RInv, GoneTyped

LEMMA IngressRInv == ASSUME NoReplicas, TInv, RInv, IngressThread PROVE RInv'
<1>0. "ingress" \in Worker /\ "ingress" \in Thread \ {"rx"}
  BY ThreadSets DEF Worker
<1>1. CASE IngressPop
  <2>1. PICK x : IngressTake(x)
    BY <1>1 DEF IngressPop
  <2>2. CASE Process("ingress", x, 0, 0, IngressVerdicts)
    BY <1>0, <2>1, <2>2, ProcessRInv DEF IngressTake, NoReplicas
  <2>3. CASE Goto("ingress", "done") /\ UNCHANGED packet_id
    BY <1>0, <2>1, <2>3, WorkerRInv DEF IngressTake
  <2> QED
    BY <2>1, <2>2, <2>3 DEF IngressTake
<1>2. CASE ResubmitPacket
  BY <1>0, <1>2, TaskRInv DEF ResubmitPacket, BackToIngress
<1>3. CASE DiscardOriginal
  BY <1>0, <1>3, TaskRInv DEF DiscardOriginal
<1>4. CASE EnqueueCalendar
  <2>1. UNCHANGED <<packet_id, nb_pkts_rcvd>> /\ HasTask("ingress", "calendar")
    BY <1>4 DEF EnqueueCalendar
  <2>2. CASE UNCHANGED <<pc, gone>>
    BY <2>1, <2>2, WorkerRInv
  <2>3. CASE /\ TaskDone("ingress") \/ CountDrop("ingress")
             /\ UNCHANGED gone \/ \E why : Lose(Head(work["ingress"]).pkt, why)
    BY <1>0, <2>1, <2>3, TaskRInv
  <2> QED
    BY <1>4, <2>2, <2>3 DEF EnqueueCalendar
<1>5. CASE EnqueueNormal("ingress")
  <2>1. UNCHANGED <<packet_id, nb_pkts_rcvd>> /\ \E op : HasTask("ingress", op)
    BY <1>5 DEF EnqueueNormal
  <2>2. /\ TaskDone("ingress") \/ CountDrop("ingress")
        /\ UNCHANGED gone \/ \E why : Lose(Head(work["ingress"]).pkt, why)
    BY <1>5 DEF EnqueueNormal
  <2> QED
    BY <1>0, <2>1, <2>2, TaskRInv
<1>6. CASE DropPacket("ingress")
  BY <1>0, <1>6, TaskRInv DEF DropPacket
<1>7. CASE CountStep("ingress")
  BY <1>0, <1>7, WorkerRInv DEF CountStep, LoadDropped, StoreDropped
<1> QED
  BY <1>1, <1>2, <1>3, <1>4, <1>5, <1>6, <1>7 DEF IngressThread

LEMMA CqRInv == ASSUME NoReplicas, TInv, RInv, CqThread PROVE RInv'
<1>0. "cq" \in Worker /\ "cq" \in Thread \ {"rx"}
  BY ThreadSets DEF Worker
<1>1. CASE ReadActiveSlice \/ CalendarEmpty \/ CountStep("cq")
  <2>1. UNCHANGED <<packet_id, nb_pkts_rcvd, gone>> /\ \E l : Goto("cq", l)
    BY <1>1 DEF ReadActiveSlice, CalendarEmpty, CountStep, LoadDropped, StoreDropped
  <2> QED
    BY <1>0, <2>1, WorkerRInv
<1>2. CASE CalendarPop
  <2>1. UNCHANGED <<nb_pkts_rcvd, gone>> /\ \E x, p, q : Process("cq", x, p, q, CqVerdicts)
    BY <1>2 DEF CalendarPop
  <2>2. \A v \in CqVerdicts : Replicas(v) = 0
    BY DEF NoReplicas
  <2> QED
    BY <1>0, <2>1, <2>2, ProcessRInv
<1>3. CASE EmitPacket("cq")
  BY <1>0, <1>3, TaskRInv DEF EmitPacket
<1>4. CASE RecirculatePacket("cq")
  BY <1>0, <1>4, TaskRInv DEF RecirculatePacket, BackToIngress
<1>5. CASE DropPacket("cq")
  BY <1>0, <1>5, TaskRInv DEF DropPacket
<1> QED
  BY <1>1, <1>2, <1>3, <1>4, <1>5 DEF CqThread

LEMMA EgressRInv == ASSUME NoReplicas, TInv, RInv, EgressThread PROVE RInv'
<1>0. "egress" \in Worker /\ "egress" \in Thread \ {"rx"}
  BY ThreadSets DEF Worker
<1>1. CASE EgressPop
  <2>1. /\ UNCHANGED <<nb_pkts_rcvd, gone>>
        /\ \/ Goto("egress", "done") /\ UNCHANGED packet_id
           \/ \E x, p, q : Process("egress", x, p, q, EgressVerdicts)
    BY <1>1 DEF EgressPop
  <2>2. \A v \in EgressVerdicts : Replicas(v) = 0
    BY DEF NoReplicas
  <2> QED
    BY <1>0, <2>1, <2>2, ProcessRInv, WorkerRInv
<1>2. CASE EnqueueNormal("egress")
  <2>1. UNCHANGED <<packet_id, nb_pkts_rcvd>> /\ \E op : HasTask("egress", op)
    BY <1>2 DEF EnqueueNormal
  <2>2. /\ TaskDone("egress") \/ CountDrop("egress")
        /\ UNCHANGED gone \/ \E why : Lose(Head(work["egress"]).pkt, why)
    BY <1>2 DEF EnqueueNormal
  <2> QED
    BY <1>0, <2>1, <2>2, TaskRInv
<1>3. CASE EmitPacket("egress")
  BY <1>0, <1>3, TaskRInv DEF EmitPacket
<1>4. CASE RecirculatePacket("egress")
  BY <1>0, <1>4, TaskRInv DEF RecirculatePacket, BackToIngress
<1>5. CASE DropPacket("egress")
  BY <1>0, <1>5, TaskRInv DEF DropPacket
<1>6. CASE CountStep("egress")
  BY <1>0, <1>6, WorkerRInv DEF CountStep, LoadDropped, StoreDropped
<1> QED
  BY <1>1, <1>2, <1>3, <1>4, <1>5, <1>6 DEF EgressThread

LEMMA NextRInv == ASSUME NoReplicas PROVE TInv /\ RInv /\ [Next]_vars => RInv'
<1> SUFFICES ASSUME TInv, RInv, [Next]_vars PROVE RInv'
  OBVIOUS
<1>1. CASE Tick \/ Transmit \/ Destructor \/ UNCHANGED vars
  <2>1. UNCHANGED <<packet_id, nb_pkts_rcvd, gone>>
    BY <1>1 DEF Tick, Transmit, Destructor, Destroy, StopIngress, StopEgress, StopTransmit,
       Join, vars
  <2>2. UNCHANGED pc \/ \E t \in Thread \ {"rx"} : \E l : Goto(t, l)
    <3>1. {"transmit", "main"} \subseteq Thread \ {"rx"}
      BY ThreadSets
    <3>2. UNCHANGED pc \/ \E t \in {"transmit", "main"} : \E l : Goto(t, l)
      BY <1>1 DEF Tick, Transmit, Destructor, Destroy, StopIngress, StopEgress, StopTransmit,
         Join, vars
    <3> QED
      BY <3>1, <3>2
  <2> QED
    BY <2>1, <2>2, WorkerRInv
<1> QED
  BY <1>1, ReceiveRInv, IngressRInv, CqRInv, EgressRInv DEF Next

\* Without replicas get_packet_loss_rate never exceeds 1 by more than the
\* packet that is being received (tor_switch.cpp:277-279, 405-415).
THEOREM LossRateBounded == ASSUME NoReplicas PROVE Spec => []LossRateBound
<1>1. ASSUME TInv, PInv, CInv, RInv PROVE LossRateBound
  <2> DEFINE door == IF pc["rx"] = "push" THEN 1 ELSE 0
             T == IF pc["rx"] = "push" THEN (1 .. packet_id) \ {rx_packet} ELSE 1 .. packet_id
             f == [g \in Counted |-> g.pkt]
  <2>1. packet_id \in Nat /\ nb_pkts_rcvd \in Nat /\ nb_pkts_dropped \in Nat
    BY <1>1, BoundAssumption DEF TInv, ThreadsTyped, CountersTyped
  <2>2. Gone \in Line /\ Rx \in Line /\ Gone # Rx
    BY LineNames DEF Gone, Rx
  <2>3. ASSUME NEW g \in gone PROVE g.pkt \in 1 .. packet_id /\ g.why \in Spots(Gone, g.pkt)
    <3>1. g.pkt \in Packet
      BY <1>1 DEF RInv, GoneTyped
    <3>2. g.why \in Spots(Gone, g.pkt)
      BY <2>2, SpotsAre
    <3> QED
      BY <1>1, <2>1, <2>2, <3>1, <3>2, BoundAssumption DEF PInv, InPlace, Packet
  <2>4. ASSUME NEW g \in gone, pc["rx"] = "push" PROVE g.pkt # rx_packet
    <3>1. rx_packet \in Packet
      BY <1>1, <2>4 DEF TInv, ThreadsHold
    <3>2. Spots(Rx, rx_packet) # {}
      BY <3>1, RxSpots
    <3>3. g.pkt \in 1 .. packet_id /\ Spots(Gone, g.pkt) # {}
      BY <2>3
    <3>4. PICK k \in Line : OnlyIn(k, g.pkt)
      BY <1>1, <3>3 DEF PInv, InPlace
    <3> QED
      BY <2>2, <3>2, <3>3, <3>4 DEF OnlyIn
  <2>5. ASSUME NEW g \in gone, NEW h \in gone, g.pkt = h.pkt PROVE g = h
    <3>1. g.pkt \in 1 .. packet_id /\ {g.why, h.why} \subseteq Spots(Gone, g.pkt)
      BY <2>3, <2>5
    <3>2. PICK k \in Line : OnlyIn(k, g.pkt)
      BY <1>1, <3>1 DEF PInv, InPlace
    <3>3. g.why = h.why
      BY <2>2, <3>1, <3>2 DEF OnlyIn, Lone
    <3> QED
      BY <1>1, <2>5, <3>3 DEF RInv, GoneTyped
  <2>6. f \in Injection(Counted, T)
    <3>1. Counted \subseteq gone
      BY DEF Counted
    <3>2. ASSUME NEW g \in Counted PROVE g.pkt \in T
      BY <2>3, <2>4, <3>1
    <3>3. f \in [Counted -> T]
      BY <3>2
    <3>4. \A g, h \in Counted : f[g] = f[h] => g = h
      BY <2>5, <3>1
    <3> QED
      BY <3>3, <3>4 DEF Injection, IsInjective
  <2>7. IsFiniteSet(T) /\ Cardinality(T) = packet_id - door
    <3>1. IsFiniteSet(1 .. packet_id) /\ Cardinality(1 .. packet_id) = packet_id
      BY <2>1, FS_Interval
    <3>2. pc["rx"] = "push" => rx_packet \in 1 .. packet_id
      <4>1. SUFFICES ASSUME pc["rx"] = "push" PROVE rx_packet \in 1 .. packet_id
        OBVIOUS
      <4>2. rx_packet \in Packet
        BY <1>1, <4>1 DEF TInv, ThreadsHold
      <4>3. Spots(Rx, rx_packet) # {}
        BY <4>2, RxSpots
      <4> QED
        BY <1>1, <2>1, <2>2, <4>2, <4>3, BoundAssumption DEF PInv, InPlace, Packet
    <3>3. CASE pc["rx"] = "push"
      <4>1. T = (1 .. packet_id) \ {rx_packet} /\ door = 1
        BY <3>3
      <4> HIDE DEF T, door
      <4> QED
        BY <3>1, <3>2, <3>3, <4>1, FS_RemoveElement
    <3>4. CASE pc["rx"] # "push"
      BY <2>1, <3>1, <3>4
    <3> QED
      BY <3>3, <3>4
  <2>8. Cardinality(Counted) <= packet_id - door
    <3> HIDE DEF T, f, door
    <3> QED
      BY <2>6, <2>7, FS_Injection
  <2>9. nb_pkts_dropped <= Cardinality(Counted)
    <3>1. Cardinality(Counting) \in Nat /\ Cardinality(Counted) \in Nat
      BY <1>1, FiniteWorkers, FiniteCounted DEF CInv
    <3> QED
      BY <1>1, <2>1, <3>1 DEF CInv
  <2>10. Cardinality(Counted) \in Nat
    BY <1>1, FiniteCounted DEF CInv
  <2> QED
    BY <1>1, <2>1, <2>8, <2>9, <2>10 DEF RInv, Arrivals, LossRateBound
<1>2. Spec => []RInv
  BY InitRInv, NextRInv, SpecTInv, PTL DEF Spec
<1> QED
  BY <1>1, <1>2, SpecTInv, SpecPInv, SpecCInv, PTL
----------------------------------------------------------------------------
(* Order.  With a program that makes no copy and sends no packet back,     *)
(* packets pass the lines one after the other, and stay in order.          *)

\* Where and how a packet leaves: SameQueueSameOrder is about two of a class.
Class == [port : Port, from : {"cq", "egress"}, queue : Nat]

\* The lines on the way of a packet, last first.
Rank(k) ==
    CASE k[1] = "sent" -> 0
      [] k[1] = "out" -> 1
      [] k[1] = "work" -> (IF k[2] = "ingress" THEN 4 ELSE 2)
      [] k[1] \in {"cq", "egress"} -> 3
      [] k[1] = "lo" -> 5
      [] OTHER -> 6

\* The packet of an element of line k.
Num(k, e) ==
    CASE k[1] \in {"hi", "lo", "rx"} -> e
      [] k[1] = "cq" -> e.e
      [] OTHER -> e.pkt

\* Element e of line k leaves as class c, or still may.
May(k, c, e) ==
    CASE k[1] \in {"lo", "rx"} -> e # nullptr
      [] k[1] = "hi" -> FALSE
      [] k[1] = "work" ->
            \/ k[2] = "ingress"
            \/ k[2] = c.from /\ e.op = "emit" /\ e.port = c.port /\ e.queue = c.queue
      [] k[1] = "cq" -> c.from = "cq" /\ k[2] = c.queue /\ e.port_id = c.port
      [] k[1] = "egress" ->
            c.from = "egress" /\ k[2] = c.queue /\ e.port = c.port /\ e.pkt # nullptr
      [] OTHER ->
            e.from = c.from /\ e.port = c.port /\ e.queue = c.queue /\ e.pkt # nullptr

\* The packets of class c in line k, which holds s.
Nums(s, k, c) == {Num(k, s[i]) : i \in {i \in DOMAIN s : May(k, c, s[i])}}
Less(A, B) == \A a \in A, b \in B : a < b
Sorted(s, k, c) ==
    \A i, n \in DOMAIN s :
        i < n /\ May(k, c, s[i]) /\ May(k, c, s[n]) => Num(k, s[i]) < Num(k, s[n])

\* The packets of a class are in order, in every line and from line to line.
Ordered ==
    \A c \in Class :
        /\ \A k \in Line \ {Gone} : Sorted(Content(k), k, c)
        /\ \A j, k \in Line \ {Gone} :
              Rank(j) < Rank(k) => Less(Nums(Content(j), j, c), Nums(Content(k), k, c))

\* What a thread may do with a packet that goes on its way or is dropped.
Onward(t) ==
    IF t = "ingress" THEN {"host", "calendar", "drop", "discard"} ELSE {"emit", "drop"}

\* No thread has a task that would send a packet back, or make another one,
\* and so nothing but the sentinel is in queue_hi.
Forward ==
    /\ \A i \in DOMAIN queue_hi : queue_hi[i] = nullptr
    /\ \A t \in Worker : \A i \in DOMAIN work[t] : work[t][i].op \in Onward(t)

OInv == Ordered /\ Forward

ForwardOnly ==
    /\ NoReplicas
    /\ \A v \in IngressVerdicts : v[Len(v)].op # "resubmit"
    /\ \A v \in CqVerdicts \cup EgressVerdicts : v[Len(v)].op # "recirculate"

LEMMA TailOrder ==
    ASSUME NEW S, NEW s \in Seq(S), s # << >>, NEW k, NEW c, Sorted(s, k, c)
    PROVE  /\ Sorted(Tail(s), k, c)
           /\ Nums(Tail(s), k, c) \subseteq Nums(s, k, c)
           /\ May(k, c, Head(s)) =>
                 /\ Num(k, Head(s)) \in Nums(s, k, c)
                 /\ \A b \in Nums(Tail(s), k, c) : Num(k, Head(s)) < b
<1>1. /\ Head(s) = s[1] /\ Len(s) \in Nat /\ Len(s) > 0 /\ 1 \in DOMAIN s
      /\ DOMAIN s = 1 .. Len(s) /\ DOMAIN Tail(s) = 1 .. Len(s) - 1
      /\ \A i \in DOMAIN Tail(s) : Tail(s)[i] = s[i + 1]
  OBVIOUS
<1>2. \A i \in DOMAIN Tail(s) : i + 1 \in DOMAIN s /\ 1 < i + 1 /\ i \in Nat
  BY <1>1
<1>3. Sorted(Tail(s), k, c)
  BY <1>1, <1>2 DEF Sorted
<1>4. \A b \in Nums(Tail(s), k, c) :
         \E i \in DOMAIN s : 1 < i /\ May(k, c, s[i]) /\ b = Num(k, s[i])
  BY <1>1, <1>2 DEF Nums
<1>5. Nums(Tail(s), k, c) \subseteq Nums(s, k, c)
  BY <1>4 DEF Nums
<1>6. May(k, c, Head(s)) => Num(k, Head(s)) \in Nums(s, k, c)
  BY <1>1 DEF Nums
<1>7. ASSUME May(k, c, Head(s)), NEW b \in Nums(Tail(s), k, c) PROVE Num(k, Head(s)) < b
  BY <1>1, <1>4, <1>7 DEF Sorted
<1> QED
  BY <1>3, <1>5, <1>6, <1>7

LEMMA AppendOrder ==
    ASSUME NEW S, NEW s \in Seq(S), NEW e \in S, NEW k, NEW c, Sorted(s, k, c),
           May(k, c, e) => \A a \in Nums(s, k, c) : a < Num(k, e)
    PROVE  /\ Sorted(Append(s, e), k, c)
           /\ \A b \in Nums(Append(s, e), k, c) :
                 b \in Nums(s, k, c) \/ (May(k, c, e) /\ b = Num(k, e))
<1>1. /\ DOMAIN s = 1 .. Len(s) /\ Len(s) \in Nat
      /\ DOMAIN Append(s, e) = 1 .. Len(s) + 1
      /\ \A i \in 1 .. Len(s) : Append(s, e)[i] = s[i]
      /\ Append(s, e)[Len(s) + 1] = e
  OBVIOUS
<1>2. \A i \in DOMAIN s : May(k, c, s[i]) => Num(k, s[i]) \in Nums(s, k, c)
  BY DEF Nums
<1>3. ASSUME NEW i \in DOMAIN Append(s, e), NEW n \in DOMAIN Append(s, e), i < n,
             May(k, c, Append(s, e)[i]), May(k, c, Append(s, e)[n])
      PROVE  Num(k, Append(s, e)[i]) < Num(k, Append(s, e)[n])
  <2>1. i \in DOMAIN s /\ Append(s, e)[i] = s[i]
    BY <1>1, <1>3
  <2>2. CASE n \in DOMAIN s
    BY <1>1, <1>3, <2>1, <2>2 DEF Sorted
  <2>3. CASE n = Len(s) + 1
    BY <1>1, <1>2, <1>3, <2>1, <2>3
  <2> QED
    BY <1>1, <2>2, <2>3
<1>4. ASSUME NEW b \in Nums(Append(s, e), k, c)
      PROVE  b \in Nums(s, k, c) \/ (May(k, c, e) /\ b = Num(k, e))
  BY <1>1, <1>2, <1>4 DEF Nums
<1> QED
  BY <1>3, <1>4 DEF Sorted

\* A class has one line of each rank.
LEMMA OneLine ==
    ASSUME NEW c \in Class, NEW j \in Line \ {Gone}, NEW k \in Line \ {Gone}, j # k,
           Rank(j) = Rank(k), NEW s, NEW u, Nums(s, j, c) # {}
    PROVE  Nums(u, k, c) = {}
<1>1. /\ j[1] \in {"hi", "lo", "rx", "out", "sent", "work", "cq", "egress"}
      /\ k[1] \in {"hi", "lo", "rx", "out", "sent", "work", "cq", "egress"}
  BY Kinds
<1>2. PICK e : May(j, c, e)
  BY DEF Nums
<1>3. SUFFICES ASSUME NEW d, May(k, c, d) PROVE FALSE
  BY DEF Nums
<1>4. /\ j[1] = "work" => j = Work(j[2]) /\ j[2] \in Worker
      /\ j[1] = "cq" => j = Cq(j[2])
      /\ j[1] = "egress" => j = Egress(j[2])
      /\ j[1] \notin {"work", "cq", "egress"} => j = <<j[1], 0>>
      /\ k[1] = "work" => k = Work(k[2]) /\ k[2] \in Worker
      /\ k[1] = "cq" => k = Cq(k[2])
      /\ k[1] = "egress" => k = Egress(k[2])
      /\ k[1] \notin {"work", "cq", "egress"} => k = <<k[1], 0>>
  BY DEF Line, Gone, Work, Cq, Egress
<1>5. j[1] # "hi" /\ k[1] # "hi"
  BY <1>2, <1>3 DEF May
<1>6. CASE j[1] = "work"
  <2>1. k[1] = "work"
    BY <1>1, <1>6, <1>5 DEF Rank
  <2>2. j[2] = "ingress" <=> k[2] = "ingress"
    <3>1. Rank(j) = IF j[2] = "ingress" THEN 4 ELSE 2
      BY <1>6 DEF Rank
    <3>2. Rank(k) = IF k[2] = "ingress" THEN 4 ELSE 2
      BY <2>1 DEF Rank
    <3>3. 2 # 4
      OBVIOUS
    <3> HIDE DEF Rank
    <3> QED
      BY <3>1, <3>2, <3>3
  <2>3. j[2] # "ingress" => j[2] = c.from /\ k[2] = c.from
    BY <1>2, <1>3, <1>6, <2>1, <2>2 DEF May
  <2> QED
    BY <1>4, <1>6, <2>1, <2>2, <2>3
<1>7. CASE j[1] \in {"cq", "egress"}
  <2>1. k[1] \in {"cq", "egress"}
    BY <1>1, <1>7 DEF Rank
  <2>2. j[1] = c.from /\ k[1] = c.from /\ j[2] = c.queue /\ k[2] = c.queue
    BY <1>2, <1>3, <1>7, <2>1 DEF May
  <2> QED
    BY <1>4, <1>7, <2>1, <2>2
<1>8. CASE j[1] \in {"lo", "rx", "out", "sent"}
  <2>1. k[1] = j[1]
    BY <1>1, <1>5, <1>8 DEF Rank
  <2> QED
    BY <1>4, <1>8, <2>1
<1> QED
  BY <1>1, <1>5, <1>6, <1>7, <1>8

\* What line a has after a step that at most takes from it.
Shorter(a) ==
    \A c \in Class :
        /\ Sorted(Content(a)', a, c)
        /\ Nums(Content(a)', a, c) \subseteq Nums(Content(a), a, c)

\* Element e, new in line b, comes from the front of line a.
From(a, b, e) ==
    /\ Rank(a) = Rank(b) + 1
    /\ \A c \in Class :
          May(b, c, e) => /\ Num(b, e) \in Nums(Content(a), a, c)
                          /\ \A n \in Nums(Content(a)', a, c) : Num(b, e) < n

LEMMA RankType == ASSUME NEW k \in Line PROVE Rank(k) \in 0 .. 6
BY DEF Rank

\* Nothing new in any line.
LEMMA OrderStays ==
    ASSUME Ordered, \A k \in Line \ {Gone} : Shorter(k)
    PROVE  Ordered'
<1>1. ASSUME NEW c \in Class, NEW k \in Line \ {Gone} PROVE Sorted(Content(k)', k, c)
  BY DEF Shorter
<1>2. ASSUME NEW c \in Class, NEW j \in Line \ {Gone}, NEW k \in Line \ {Gone}, Rank(j) < Rank(k)
      PROVE  Less(Nums(Content(j)', j, c), Nums(Content(k)', k, c))
  <2>1. Less(Nums(Content(j), j, c), Nums(Content(k), k, c))
    BY <1>2 DEF Ordered
  <2>2. /\ Nums(Content(j)', j, c) \subseteq Nums(Content(j), j, c)
        /\ Nums(Content(k)', k, c) \subseteq Nums(Content(k), k, c)
    BY DEF Shorter
  <2> QED
    BY <2>1, <2>2 DEF Less
<1> QED
  BY <1>1, <1>2 DEF Ordered

\* Element e goes from line a to line b.
LEMMA OrderMoves ==
    ASSUME TInv, Ordered, NEW a \in Line \ {Gone}, NEW b \in Line \ {Gone}, a # b,
           NEW e \in Element(b), Added(b, e), From(a, b, e),
           \A k \in Line \ {Gone, b} : Shorter(k)
    PROVE  Ordered'
<1>1. Content(b) \in Seq(Element(b)) /\ Content(b)' = Append(Content(b), e)
  BY LineTyped DEF Added
<1>2. \A k \in Line : Rank(k) \in 0 .. 6
  BY RankType
<1>3. ASSUME NEW c \in Class
      PROVE  /\ Sorted(Content(b)', b, c)
             /\ \A n \in Nums(Content(b)', b, c) :
                   n \in Nums(Content(b), b, c) \/ (May(b, c, e) /\ n = Num(b, e))
  <2>1. Sorted(Content(b), b, c)
    BY DEF Ordered
  <2>2. Less(Nums(Content(b), b, c), Nums(Content(a), a, c)) \/ ~ May(b, c, e)
    BY <1>2 DEF Ordered, From
  <2>3. May(b, c, e) => \A n \in Nums(Content(b), b, c) : n < Num(b, e)
    BY <2>2 DEF Less, From
  <2> QED
    BY <1>1, <2>1, <2>3, AppendOrder
<1>4. ASSUME NEW c \in Class, NEW k \in Line \ {Gone} PROVE Sorted(Content(k)', k, c)
  BY <1>3 DEF Shorter
<1>5. ASSUME NEW c \in Class, NEW j \in Line \ {Gone}, NEW k \in Line \ {Gone}, Rank(j) < Rank(k)
      PROVE  Less(Nums(Content(j)', j, c), Nums(Content(k)', k, c))
  <2>1. Less(Nums(Content(j), j, c), Nums(Content(k), k, c)) /\ j # k
    BY <1>2, <1>5 DEF Ordered
  <2> SUFFICES ASSUME NEW m \in Nums(Content(j)', j, c), NEW n \in Nums(Content(k)', k, c)
               PROVE  m < n
    BY DEF Less
  <2>2. CASE j # b /\ k # b
    BY <2>1, <2>2 DEF Shorter, Less
  <2>3. CASE j = b
    <3>1. k # b /\ n \in Nums(Content(k), k, c)
      BY <2>1, <2>3 DEF Shorter
    <3>2. CASE m \in Nums(Content(b), b, c)
      BY <2>1, <2>3, <3>1, <3>2 DEF Less
    <3>3. CASE May(b, c, e) /\ m = Num(b, e)
      <4>1. m \in Nums(Content(a), a, c) /\ \A i \in Nums(Content(a)', a, c) : m < i
        BY <3>3 DEF From
      <4>2. CASE k = a
        BY <4>1, <4>2
      <4>3. CASE k # a /\ Rank(k) = Rank(a)
        BY <3>1, <4>1, <4>3, OneLine
      <4>4. CASE Rank(a) < Rank(k)
        <5>1. Less(Nums(Content(a), a, c), Nums(Content(k), k, c))
          BY <4>4 DEF Ordered
        <5> QED
          BY <3>1, <4>1, <5>1 DEF Less
      <4>5. Rank(a) = Rank(k) \/ Rank(a) < Rank(k)
        <5>1. Rank(a) = Rank(b) + 1 /\ Rank(b) < Rank(k)
          BY <1>5, <2>3 DEF From
        <5>2. Rank(a) \in Int /\ Rank(b) \in Int /\ Rank(k) \in Int
          BY <1>2
        <5> HIDE DEF Rank
        <5> QED
          BY <5>1, <5>2
      <4> QED
        BY <4>2, <4>3, <4>4, <4>5
    <3> QED
      BY <1>3, <2>3, <3>2, <3>3
  <2>4. CASE k = b
    <3>1. j # b /\ m \in Nums(Content(j), j, c)
      BY <2>1, <2>4 DEF Shorter
    <3>2. CASE n \in Nums(Content(b), b, c)
      BY <2>1, <2>4, <3>1, <3>2 DEF Less
    <3>3. CASE May(b, c, e) /\ n = Num(b, e)
      <4>1. n \in Nums(Content(a), a, c)
        BY <3>3 DEF From
      <4>2. Rank(j) < Rank(a)
        <5>1. Rank(a) = Rank(b) + 1 /\ Rank(j) < Rank(b)
          BY <1>5, <2>4 DEF From
        <5>2. Rank(a) \in Int /\ Rank(b) \in Int /\ Rank(j) \in Int
          BY <1>2
        <5> HIDE DEF Rank
        <5> QED
          BY <5>1, <5>2
      <4>3. Less(Nums(Content(j), j, c), Nums(Content(a), a, c))
        BY <4>2 DEF Ordered
      <4> QED
        BY <3>1, <4>1, <4>3 DEF Less
    <3> QED
      BY <1>3, <2>4, <3>2, <3>3
  <2> QED
    BY <2>2, <2>3, <2>4
<1> QED
  BY <1>4, <1>5 DEF Ordered

LEMMA KeptShorter == ASSUME Ordered, NEW k \in Line \ {Gone}, Kept(k) PROVE Shorter(k)
BY DEF Ordered, Kept, Shorter

LEMMA TakenShorter ==
    ASSUME TInv, Ordered, NEW a \in Line \ {Gone}, Taken(a)
    PROVE  /\ Shorter(a)
           /\ \A c \in Class :
                 May(a, c, Head(Content(a))) =>
                    /\ Num(a, Head(Content(a))) \in Nums(Content(a), a, c)
                    /\ \A n \in Nums(Content(a)', a, c) : Num(a, Head(Content(a))) < n
<1>1. Content(a) \in Seq(Element(a)) /\ Content(a) # << >> /\ Content(a)' = Tail(Content(a))
  BY LineTyped DEF Taken
<1>2. \A c \in Class : Sorted(Content(a), a, c)
  BY DEF Ordered
<1> QED
  BY <1>1, <1>2, TailOrder DEF Shorter

\* The head of line a goes to the end of line b, as an element of the same
\* classes.
LEMMA HeadInOrder ==
    ASSUME TInv, Ordered, NEW a \in Line \ {Gone}, Taken(a), NEW b \in Line \ {Gone}, a # b,
           Rank(a) = Rank(b) + 1, NEW e \in Element(b), Added(b, e),
           \A c \in Class : May(b, c, e) => /\ May(a, c, Head(Content(a)))
                                            /\ Num(b, e) = Num(a, Head(Content(a))),
           \A k \in Line \ {Gone, a, b} : Kept(k)
    PROVE  Ordered'
<1>1. From(a, b, e)
  BY TakenShorter DEF From
<1>2. \A k \in Line \ {Gone, b} : Shorter(k)
  BY TakenShorter, KeptShorter
<1> QED
  BY <1>1, <1>2, OrderMoves

\* A head goes, or nothing does.
LEMMA HeadGoes ==
    ASSUME TInv, Ordered, \A k \in Line \ {Gone} : Kept(k) \/ Taken(k)
    PROVE  Ordered'
BY TakenShorter, KeptShorter, OrderStays

\* Something that is no packet comes to the end of line b.
LEMMA SentinelInOrder ==
    ASSUME TInv, Ordered, NEW b \in Line \ {Gone}, NEW e \in Element(b), Added(b, e),
           \A c \in Class : ~ May(b, c, e), \A k \in Line \ {Gone, b} : Kept(k)
    PROVE  Ordered'
<1>1. Content(b) \in Seq(Element(b)) /\ Content(b)' = Append(Content(b), e)
  BY LineTyped DEF Added
<1>2. Shorter(b)
  <2>1. \A c \in Class : Sorted(Content(b), b, c)
    BY DEF Ordered
  <2> QED
    BY <1>1, <2>1, AppendOrder DEF Shorter
<1> QED
  BY <1>2, KeptShorter, OrderStays
----------------------------------------------------------------------------
(* Every action keeps the order.                                           *)

LEMMA ForwardStays ==
    ASSUME TInv, Forward,
           \/ UNCHANGED queue_hi
           \/ queue_hi # << >> /\ queue_hi' = Tail(queue_hi)
           \/ queue_hi' = Append(queue_hi, nullptr),
           \/ UNCHANGED work
           \/ \E t \in Worker : work[t] # << >> /\ work' = [work EXCEPT ![t] = Tail(@)]
           \/ \E t \in Worker : \E e :
                 work' = [work EXCEPT ![t] = <<e>>] /\ e.op \in Onward(t)
    PROVE  Forward'
<1>1. work \in [Worker -> Seq(Tasked)] /\ queue_hi \in Seq(Packet \cup {nullptr})
  BY DEF TInv, ThreadsTyped, BuffersTyped
<1>2. \A i \in DOMAIN queue_hi' : queue_hi'[i] = nullptr
  <2>1. CASE UNCHANGED queue_hi
    BY <2>1 DEF Forward
  <2>2. CASE queue_hi # << >> /\ queue_hi' = Tail(queue_hi)
    <3>1. \A i \in DOMAIN queue_hi' : i + 1 \in DOMAIN queue_hi /\ queue_hi'[i] = queue_hi[i + 1]
      BY <1>1, <2>2
    <3> QED
      BY <3>1 DEF Forward
  <2>3. CASE queue_hi' = Append(queue_hi, nullptr)
    <3>1. \A i \in DOMAIN queue_hi' :
             \/ i \in DOMAIN queue_hi /\ queue_hi'[i] = queue_hi[i]
             \/ queue_hi'[i] = nullptr
      BY <1>1, <2>3
    <3> QED
      BY <3>1 DEF Forward
  <2> QED
    BY <2>1, <2>2, <2>3
<1>3. ASSUME NEW u \in Worker, NEW i \in DOMAIN work'[u]
      PROVE  work'[u][i].op \in Onward(u)
  <2>1. CASE UNCHANGED work
    BY <1>3, <2>1 DEF Forward
  <2>2. CASE \E t \in Worker : work[t] # << >> /\ work' = [work EXCEPT ![t] = Tail(@)]
    <3>1. \/ work'[u] = work[u]
          \/ work[u] # << >> /\ work'[u] = Tail(work[u])
      BY <1>1, <2>2
    <3>2. CASE work'[u] = work[u]
      BY <1>3, <3>2 DEF Forward
    <3>3. CASE work[u] # << >> /\ work'[u] = Tail(work[u])
      <4>1. work[u] \in Seq(Tasked)
        BY <1>1
      <4>2. i + 1 \in DOMAIN work[u] /\ work'[u][i] = work[u][i + 1]
        BY <1>3, <3>3, <4>1
      <4> QED
        BY <4>2 DEF Forward
    <3> QED
      BY <3>1, <3>2, <3>3
  <2>3. CASE \E t \in Worker : \E e : work' = [work EXCEPT ![t] = <<e>>] /\ e.op \in Onward(t)
    <3>0. PICK t \in Worker : \E e : work' = [work EXCEPT ![t] = <<e>>] /\ e.op \in Onward(t)
      BY <2>3
    <3>1. PICK e : work' = [work EXCEPT ![t] = <<e>>] /\ e.op \in Onward(t)
      BY <3>0
    <3>2. CASE u = t
      <4>1. work'[u] = <<e>>
        BY <1>1, <3>1, <3>2
      <4>2. i = 1 /\ <<e>>[1] = e
        BY <1>3, <4>1
      <4> QED
        BY <3>1, <3>2, <4>1, <4>2
    <3>3. CASE u # t
      <4>1. work'[u] = work[u]
        BY <1>1, <3>1, <3>3
      <4> QED
        BY <1>3, <4>1 DEF Forward
    <3> QED
      BY <3>2, <3>3
  <2> QED
    BY <2>1, <2>2, <2>3
<1>4. \A t \in Worker : Onward(t)' = Onward(t)
  BY DEF Onward
<1> QED
  BY <1>2, <1>3, <1>4 DEF Forward

\* A thread that processes packet x has one task for it.
LEMMA OneTask ==
    ASSUME TInv, NEW t \in Worker, NEW x \in Packet, NEW p \in Port, NEW q \in Nat, NEW fates,
           "copy" \notin fates, NEW verdicts,
           \A v \in verdicts : IsVerdict(v, fates) /\ Replicas(v) = 0 /\ v[Len(v)].op \in Onward(t),
           Process(t, x, p, q, verdicts)
    PROVE  /\ packet_id' = packet_id
           /\ \E e \in Tasked :
                 /\ e.pkt = x /\ e.op \in Onward(t)
                 /\ e.op = "emit" => e.port = p /\ e.queue = q
                 /\ work' = [work EXCEPT ![t] = <<e>>]
<1>1. PICK v \in verdicts :
        /\ packet_id' = packet_id + Replicas(v)
        /\ work' = [work EXCEPT ![t] =
              [i \in 1 .. Len(v) |->
                  CASE v[i].op = "copy" -> [v[i] EXCEPT !.pkt = packet_id + i]
                    [] v[i].op = "emit" -> [v[i] EXCEPT !.pkt = x, !.port = p, !.queue = q]
                    [] OTHER -> [v[i] EXCEPT !.pkt = x]]]
  BY DEF Process
<1>2. v \in Seq(TaskOf({nullptr})) /\ Replicas(v) = 0 /\ v[Len(v)].op \in Onward(t)
  BY DEF IsVerdict
<1>3. Len(v) = 1 /\ v[1] \in TaskOf({nullptr}) /\ v[1].op \in Onward(t)
  BY <1>2 DEF Replicas
<1>4. v[1].op # "copy"
  BY <1>3 DEF Onward
<1>5. PICK e : e = IF v[1].op = "emit" THEN [v[1] EXCEPT !.pkt = x, !.port = p, !.queue = q]
                                       ELSE [v[1] EXCEPT !.pkt = x]
  OBVIOUS
<1>6. /\ e \in Tasked /\ e.pkt = x /\ e.op = v[1].op
      /\ e.op = "emit" => e.port = p /\ e.queue = q
  BY <1>3, <1>5 DEF Tasked, TaskOf
<1>7. work' = [work EXCEPT ![t] = <<e>>]
  <2> DEFINE task(i) == CASE v[i].op = "copy" -> [v[i] EXCEPT !.pkt = packet_id + i]
                          [] v[i].op = "emit" -> [v[i] EXCEPT !.pkt = x, !.port = p, !.queue = q]
                          [] OTHER -> [v[i] EXCEPT !.pkt = x]
  <2>1. task(1) = e
    BY <1>4, <1>5
  <2>2. work' = [work EXCEPT ![t] = [i \in 1 .. Len(v) |-> task(i)]]
    BY <1>1
  <2> HIDE DEF task
  <2>3. [i \in 1 .. Len(v) |-> task(i)] = <<e>>
    BY <1>3, <2>1
  <2> DEFINE tasks == [i \in 1 .. Len(v) |-> task(i)]
  <2>4. work' = [work EXCEPT ![t] = tasks] /\ tasks = <<e>>
    BY <2>2, <2>3
  <2> HIDE DEF tasks
  <2> QED
    BY <2>4
<1>8. packet_id' = packet_id
  <2>1. packet_id \in Nat
    BY BoundAssumption DEF TInv, ThreadsTyped
  <2>2. packet_id' = packet_id + Replicas(v)
    BY <1>1
  <2>3. Replicas(v) = 0
    BY <1>2
  <2> QED
    BY <2>1, <2>2, <2>3
<1> QED
  BY <1>3, <1>6, <1>7, <1>8

\* The first task of thread t is done, and nothing comes to a line.
LEMMA TaskGoes ==
    ASSUME TInv, OInv, NEW t \in Worker, NEW op, HasTask(t, op),
           work' = [work EXCEPT ![t] = Tail(@)], UNCHANGED queue_hi,
           \A k \in Line \ {Gone} : k[1] # "work" => Kept(k)
    PROVE  OInv'
<1>1. work \in [Worker -> Seq(Tasked)] /\ work[t] # << >>
  BY TaskType DEF TInv, ThreadsTyped
<1>2. Taken(Work(t))
  BY <1>1, LineNames, Contents DEF Taken
<1>3. \A k \in Line \ {Gone} : Kept(k) \/ Taken(k)
  BY <1>1, <1>2, KeptWork
<1>4. Ordered'
  BY <1>3, HeadGoes DEF OInv
<1>5. Forward'
  BY <1>1, ForwardStays DEF OInv
<1> QED
  BY <1>4, <1>5 DEF OInv

\* The packet of the first task of thread t goes to the end of line b.
LEMMA TaskInOrder ==
    ASSUME TInv, OInv, NEW t \in Worker, NEW op, HasTask(t, op),
           work' = [work EXCEPT ![t] = Tail(@)], UNCHANGED queue_hi,
           NEW b \in Line \ {Gone}, b[1] # "work", Rank(Work(t)) = Rank(b) + 1,
           NEW e \in Element(b), Added(b, e), Num(b, e) = Head(work[t]).pkt,
           \A c \in Class : May(b, c, e) => May(Work(t), c, Head(work[t])),
           \A k \in Line \ {Gone} : k # b /\ k[1] # "work" => Kept(k)
    PROVE  OInv'
<1>1. work \in [Worker -> Seq(Tasked)] /\ work[t] # << >>
  BY TaskType DEF TInv, ThreadsTyped
<1>2. /\ Work(t) \in Line \ {Gone} /\ Work(t) # b /\ Content(Work(t)) = work[t]
      /\ Taken(Work(t))
  BY <1>1, LineNames, Contents DEF Taken
<1>3. Num(Work(t), Head(work[t])) = Head(work[t]).pkt
  BY DEF Num, Work
<1>4. \A k \in Line \ {Gone, Work(t), b} : Kept(k)
  BY <1>1, KeptWork
<1>5. \A c \in Class : May(b, c, e) => /\ May(Work(t), c, Head(Content(Work(t))))
                                       /\ Num(b, e) = Num(Work(t), Head(Content(Work(t))))
  BY <1>2, <1>3
<1>6. Ordered'
  <2> HIDE DEF Work, Rank, Num, May
  <2> QED
    BY <1>2, <1>4, <1>5, HeadInOrder DEF OInv
<1>7. Forward'
  BY <1>1, ForwardStays DEF OInv
<1> QED
  BY <1>6, <1>7 DEF OInv

\* Thread t, which has no task, takes packet x from line a and has one for it.
LEMMA TakenInOrder ==
    ASSUME TInv, OInv, NEW t \in Worker, work[t] = << >>,
           NEW a \in Line \ {Gone}, a[1] # "work", Taken(a), Rank(a) = Rank(Work(t)) + 1,
           \/ UNCHANGED queue_hi
           \/ queue_hi # << >> /\ queue_hi' = Tail(queue_hi),
           NEW e \in Tasked, work' = [work EXCEPT ![t] = <<e>>], e.op \in Onward(t),
           Num(a, Head(Content(a))) = e.pkt,
           \A c \in Class : May(Work(t), c, e) => May(a, c, Head(Content(a))),
           \A k \in Line \ {Gone} : k # a /\ k[1] # "work" => Kept(k)
    PROVE  OInv'
<1>1. work \in [Worker -> Seq(Tasked)]
  BY DEF TInv, ThreadsTyped
<1>2. Work(t) \in Line \ {Gone} /\ Work(t) # a /\ e \in Element(Work(t))
  BY LineNames DEF Element
<1>3. Added(Work(t), e)
  <2>1. work'[t] = Append(work[t], e)
    BY <1>1
  <2> QED
    BY <1>2, <2>1, Contents DEF Added
<1>4. Num(Work(t), e) = e.pkt
  BY DEF Num, Work
<1>5. \A k \in Line \ {Gone, a, Work(t)} : Kept(k)
  BY <1>1, KeptWork
<1>6. \A c \in Class : May(Work(t), c, e) => /\ May(a, c, Head(Content(a)))
                                             /\ Num(Work(t), e) = Num(a, Head(Content(a)))
  BY <1>4
<1>7. Ordered'
  <2> HIDE DEF Work, Rank, Num, May
  <2> QED
    BY <1>2, <1>3, <1>5, <1>6, HeadInOrder DEF OInv
<1>8. Forward'
  BY ForwardStays DEF OInv
<1> QED
  BY <1>7, <1>8 DEF OInv

\* Nothing comes, and at most the head of a line goes.
LEMMA LineGoes ==
    ASSUME TInv, OInv, UNCHANGED work, \A k \in Line \ {Gone} : Kept(k) \/ Taken(k)
    PROVE  OInv'
<1>1. Ordered'
  BY HeadGoes DEF OInv
<1>2. UNCHANGED queue_hi \/ (queue_hi # << >> /\ queue_hi' = Tail(queue_hi))
  BY LineNames, Contents DEF Kept, Taken
<1>3. Forward'
  BY <1>2, ForwardStays DEF OInv
<1> QED
  BY <1>1, <1>3 DEF OInv

\* A packet that may leave has been received.
LEMMA OldNums ==
    ASSUME TInv, PInv, NEW k \in Line \ {Gone}, NEW c, NEW n \in Nums(Content(k), k, c)
    PROVE  n \in Packet /\ n <= packet_id
<1>1. PICK i \in DOMAIN Content(k) : May(k, c, Content(k)[i]) /\ n = Num(k, Content(k)[i])
  BY DEF Nums
<1>2. PICK e : e = Content(k)[i]
  OBVIOUS
<1>3. e \in Element(k)
  BY <1>1, <1>2, LineTyped
<1>4. k[1] \in {"hi", "lo", "rx", "out", "sent", "work", "cq", "egress"}
  BY Kinds
<1>5. n \in Packet /\ e \in Of(k, n)
  <2>1. CASE k[1] \in {"hi", "lo", "rx"}
    BY <1>1, <1>2, <1>3, <2>1 DEF May, Num, Element, Of
  <2>2. CASE k[1] \in {"out", "sent"}
    <3>1. e.pkt # nullptr /\ e \in Outgoing \cup {EndOfOutput} /\ n = e.pkt
      BY <1>1, <1>2, <1>3, <2>2 DEF May, Num, Element
    <3>2. e \in Outgoing
      BY <3>1 DEF EndOfOutput
    <3>3. e \in [pkt : {n}, port : Port, from : {"cq", "egress"}, queue : Nat] /\ n \in Packet
      BY <3>1, <3>2 DEF Outgoing
    <3> QED
      BY <2>2, <3>3 DEF Of
  <2>3. CASE k[1] = "work"
    <3>1. e \in Tasked /\ n = e.pkt
      BY <1>1, <1>2, <1>3, <2>3 DEF Num, Element
    <3>2. e \in TaskOf({n}) /\ n \in Packet
      BY <3>1 DEF Tasked, TaskOf
    <3> QED
      BY <2>3, <3>2 DEF Of
  <2>4. CASE k[1] = "cq"
    <3>1. e \in CQ!QE /\ n = e.e
      BY <1>1, <1>2, <1>3, <2>4 DEF Num, Element
    <3>2. e \in [e : {n}, port_id : Port] /\ n \in Packet
      BY <3>1 DEF CQ!QE
    <3> QED
      BY <2>4, <3>2 DEF Of
  <2>5. CASE k[1] = "egress"
    <3>1. e \in [pkt : Packet \cup {nullptr}, port : Port] /\ n = e.pkt /\ n # nullptr
      BY <1>1, <1>2, <1>3, <2>5 DEF May, Num, Element
    <3>2. e \in [pkt : {n}, port : Port] /\ n \in Packet
      BY <3>1
    <3> QED
      BY <2>5, <3>2 DEF Of
  <2> QED
    BY <1>4, <2>1, <2>2, <2>3, <2>4, <2>5
<1>6. Spots(k, n) # {}
  <2>1. i \in Hits(Content(k), Of(k, n))
    BY <1>1, <1>2, <1>5 DEF Hits
  <2> QED
    BY <2>1, SpotsAre
<1>7. n \in Nat /\ packet_id \in Nat
  BY <1>5, BoundAssumption DEF Packet, TInv, ThreadsTyped
<1> QED
  BY <1>5, <1>6, <1>7 DEF PInv, InPlace

LEMMA ReceiveOInv == ASSUME TInv, PInv, OInv, Receive PROVE OInv'
<1>1. rx_packet' = packet_id + 1 /\ packet_id \in Nat
  BY BoundAssumption DEF Receive, TInv, ThreadsTyped
<1>2. \A k \in Line \ {Gone, Rx} : Kept(k)
  BY KeptLines DEF Receive, inputVars, cqVars
<1>3. Rx \in Line \ {Gone} /\ Content(Rx)' = <<packet_id + 1>> /\ Rank(Rx) = 6
  BY <1>1, LineNames, Contents DEF Rank, Rx
<1>4. ASSUME NEW c, NEW n \in Nums(Content(Rx)', Rx, c) PROVE n = packet_id + 1
  <2>1. \A i \in DOMAIN <<packet_id + 1>> : <<packet_id + 1>>[i] = packet_id + 1
    OBVIOUS
  <2>2. \A e : Num(Rx, e) = e
    BY DEF Num, Rx
  <2> QED
    BY <1>3, <1>4, <2>1, <2>2 DEF Nums
<1>5. ASSUME NEW c \in Class, NEW k \in Line \ {Gone} PROVE Sorted(Content(k)', k, c)
  <2>1. CASE k = Rx
    <3>1. \A i, n \in DOMAIN <<packet_id + 1>> : ~ i < n
      OBVIOUS
    <3> QED
      BY <1>3, <2>1, <3>1 DEF Sorted
  <2>2. CASE k # Rx
    BY <1>2, <2>2 DEF Kept, OInv, Ordered
  <2> QED
    BY <2>1, <2>2
<1>6. ASSUME NEW c \in Class, NEW j \in Line \ {Gone}, NEW k \in Line \ {Gone}, Rank(j) < Rank(k)
      PROVE  Less(Nums(Content(j)', j, c), Nums(Content(k)', k, c))
  <2>0. Rank(j) \in 0 .. 6 /\ Rank(k) \in 0 .. 6
    BY RankType
  <2>1. j # Rx
    <3> HIDE DEF Rank, Rx
    <3> QED
      BY <1>3, <1>6, <2>0
  <2>2. Content(j)' = Content(j)
    BY <1>2, <2>1 DEF Kept
  <2>3. CASE k = Rx
    <3>1. \A m \in Nums(Content(j), j, c) : m \in Nat /\ m <= packet_id
      BY OldNums DEF Packet
    <3> HIDE DEF Rx
    <3> QED
      BY <1>1, <1>4, <2>2, <2>3, <3>1 DEF Less
  <2>4. CASE k # Rx
    BY <1>2, <1>6, <2>2, <2>4 DEF Kept, OInv, Ordered
  <2> QED
    BY <2>3, <2>4
<1>7. Forward'
  BY ForwardStays DEF OInv, Receive, inputVars
<1> QED
  BY <1>5, <1>6, <1>7 DEF OInv, Ordered

LEMMA ReceivePushOInv == ASSUME TInv, OInv, ReceivePush PROVE OInv'
<1>1. PICK z \in Packet : z = rx_packet
  BY DEF ReceivePush, TInv, ThreadsHold
<1>2. Rx \in Line \ {Gone} /\ Lo \in Line \ {Gone} /\ Rx # Lo
  BY LineNames DEF Rx, Lo
<1>3. Content(Rx) = <<z>> /\ Content(Rx)' = <<nullptr>>
  BY <1>1, Contents DEF ReceivePush
<1>4. z \in Element(Lo) /\ Added(Lo, z)
  BY <1>1, <1>2, Contents DEF ReceivePush, Added, Element, Lo
<1>5. ASSUME NEW c
      PROVE  Nums(Content(Rx)', Rx, c) = {} /\ z \in Nums(Content(Rx), Rx, c)
  <2>1. \A e : Num(Rx, e) = e /\ (May(Rx, c, e) <=> e # nullptr)
    BY DEF Num, May, Rx
  <2>2. z # nullptr
    BY DEF Packet, nullptr
  <2>3. \A i \in DOMAIN <<nullptr>> : <<nullptr>>[i] = nullptr
    OBVIOUS
  <2>4. 1 \in DOMAIN <<z>> /\ <<z>>[1] = z
    OBVIOUS
  <2> QED
    BY <1>3, <2>1, <2>2, <2>3, <2>4 DEF Nums
<1>6. From(Rx, Lo, z)
  <2>1. Rank(Rx) = Rank(Lo) + 1 /\ Num(Lo, z) = z
    BY DEF Rank, Rx, Lo, Num
  <2> QED
    BY <1>5, <2>1 DEF From
<1>7. Shorter(Rx)
  <2>1. \A c : Sorted(Content(Rx)', Rx, c)
    <3>1. \A i, n \in DOMAIN <<nullptr>> : ~ i < n
      OBVIOUS
    <3> QED
      BY <1>3, <3>1 DEF Sorted
  <2> QED
    BY <1>5, <2>1 DEF Shorter
<1>8. \A k \in Line \ {Gone, Lo} : Shorter(k)
  <2>1. \A k \in Line \ {Gone, Rx, Lo} : Kept(k)
    BY KeptLines DEF ReceivePush, cqVars
  <2> QED
    BY <1>7, <2>1, KeptShorter DEF OInv
<1>9. Ordered'
  <2> HIDE DEF Rx, Lo
  <2> QED
    BY <1>2, <1>4, <1>6, <1>8, OrderMoves DEF OInv
<1>10. Forward'
  BY ForwardStays DEF OInv, ReceivePush
<1> QED
  BY <1>9, <1>10 DEF OInv

\* The task of a thread is one of a packet that goes on its way.
LEMMA OnwardTask ==
    ASSUME TInv, OInv, NEW t \in Worker, NEW op, HasTask(t, op)
    PROVE  op \in Onward(t)
<1>1. work[t] \in Seq(Tasked) /\ work[t] # << >> /\ Head(work[t]).op = op
  BY TaskType DEF HasTask
<1>2. 1 \in DOMAIN work[t] /\ Head(work[t]) = work[t][1]
  BY <1>1
<1> QED
  BY <1>1, <1>2 DEF OInv, Forward

LEMMA NoneBack ==
    ASSUME TInv, OInv, NEW t \in Worker, NEW op \in {"resubmit", "recirculate"}
    PROVE  ~ BackToIngress(t, op)
BY OnwardTask DEF BackToIngress, Onward

LEMMA TaskLostOInv ==
    ASSUME TInv, OInv, NEW t \in Worker, NEW op, HasTask(t, op), TaskDone(t) \/ CountDrop(t),
           UNCHANGED <<rx_packet, inputVars, calendar_queues, egress_buffers, output_buffer, sent>>
    PROVE  OInv'
<1>1. work' = [work EXCEPT ![t] = Tail(@)]
  BY DEF TaskDone, CountDrop
<1>2. \A k \in Line \ {Gone} : k[1] # "work" => Kept(k)
  BY KeptLines DEF inputVars
<1> QED
  BY <1>1, <1>2, TaskGoes DEF inputVars

LEMMA IngressPopOInv == ASSUME ForwardOnly, TInv, PInv, OInv, IngressPop PROVE OInv'
<1>0. "ingress" \in Worker
  BY DEF Worker
<1>1. CASE queue_hi # << >> /\ queue_hi' = Tail(queue_hi) /\ UNCHANGED queue_lo
           /\ IngressTake(Head(queue_hi))
  <2>1. Head(queue_hi) = nullptr
    <3>1. queue_hi \in Seq(Packet \cup {nullptr})
      BY DEF TInv, BuffersTyped
    <3>2. 1 \in DOMAIN queue_hi /\ Head(queue_hi) = queue_hi[1]
      BY <1>1, <3>1
    <3> QED
      BY <3>2 DEF OInv, Forward
  <2>2. UNCHANGED work
    BY <1>1, <2>1 DEF IngressTake
  <2>3. Taken(Hi)
    BY <1>1, LineNames, Contents DEF Taken
  <2>4. \A k \in Line \ {Gone} : Kept(k) \/ Taken(k)
    BY <1>1, <2>2, <2>3, KeptLines DEF IngressTake, cqVars
  <2> QED
    BY <2>2, <2>4, LineGoes
<1>2. CASE queue_lo # << >> /\ queue_lo' = Tail(queue_lo) /\ UNCHANGED queue_hi
           /\ IngressTake(Head(queue_lo))
  <2>1. PICK x \in Packet : x = Head(queue_lo)
    <3>1. queue_lo \in Seq(Packet)
      BY DEF TInv, BuffersTyped
    <3> QED
      BY <1>2, <3>1
  <2>2. x # nullptr
    BY DEF Packet, nullptr
  <2>3. Process("ingress", x, 0, 0, IngressVerdicts) /\ pc["ingress"] = "pop"
    BY <1>2, <2>1, <2>2 DEF IngressTake
  <2> DEFINE F == {"host", "calendar", "resubmit", "drop", "discard"}
  <2>4. \A v \in IngressVerdicts :
           IsVerdict(v, F) /\ Replicas(v) = 0 /\ v[Len(v)].op \in Onward("ingress")
    <3>1. \A v \in IngressVerdicts : IsVerdict(v, F)
      BY VerdictsAssumption
    <3>2. \A v \in IngressVerdicts : Replicas(v) = 0 /\ v[Len(v)].op # "resubmit"
      BY DEF ForwardOnly, NoReplicas
    <3> QED
      BY <3>1, <3>2 DEF Onward, IsVerdict
  <2>5. PICK e \in Tasked : e.pkt = x /\ e.op \in Onward("ingress")
                            /\ work' = [work EXCEPT !["ingress"] = <<e>>]
    <3>1. "copy" \notin F
      OBVIOUS
    <3> HIDE DEF F
    <3> QED
      BY <1>0, <2>3, <2>4, <3>1, OneTask, PortAssumption
  <2>6. Lo \in Line \ {Gone} /\ Lo[1] # "work" /\ Taken(Lo) /\ Head(Content(Lo)) = x
    BY <1>2, <2>1, LineNames, Contents DEF Taken, Lo
  <2>7. Rank(Lo) = Rank(Work("ingress")) + 1 /\ Num(Lo, x) = x
        /\ \A c \in Class : May(Lo, c, x)
    BY <2>2 DEF Rank, Num, May, Lo, Work
  <2>8. \A k \in Line \ {Gone} : k # Lo /\ k[1] # "work" => Kept(k)
    BY <1>2, KeptLines DEF IngressTake, cqVars
  <2>9. work["ingress"] = << >>
    BY <1>0, <2>3 DEF PInv, Idle
  <2> HIDE DEF Lo
  <2> QED
    BY <1>0, <1>2, <2>5, <2>6, <2>7, <2>8, <2>9, TakenInOrder
<1> QED
  BY <1>1, <1>2 DEF IngressPop

LEMMA EnqueueNormalOInv == ASSUME TInv, OInv, NEW t \in Worker, EnqueueNormal(t) PROVE OInv'
<1> DEFINE task == Head(work[t])
           q == nb_queues_per_port - 1 - task.priority
<1>1. PICK op : HasTask(t, op) /\ op \in {"copy", "host"}
  BY DEF EnqueueNormal
<1>2. t = "ingress"
  BY <1>1, OnwardTask DEF Onward
<1>3. task.pkt \in Packet /\ task.port \in Port /\ task.priority \in Nat
  BY <1>1, TaskType DEF Tasked, TaskOf
<1>4. CASE (TaskDone(t) \/ CountDrop(t)) /\ UNCHANGED egress_buffers
  BY <1>1, <1>4, TaskLostOInv DEF EnqueueNormal, cqVars
<1>5. CASE /\ task.priority < nb_queues_per_port
           /\ egress_buffers' = [egress_buffers EXCEPT
                 ![q] = Append(@, [pkt |-> task.pkt, port |-> task.port])]
           /\ TaskDone(t)
  <2>1. PICK r \in Queue : r = q
    BY <1>3, <1>5, CapacitiesAssumption DEF Queue
  <2>2. PICK e \in [pkt : Packet \cup {nullptr}, port : Port] :
           e = [pkt |-> task.pkt, port |-> task.port]
    BY <1>3
  <2>3. egress_buffers' = [egress_buffers EXCEPT ![r] = Append(@, e)]
    BY <1>5, <2>1, <2>2
  <2>4. Egress(r) \in Line \ {Gone} /\ Egress(r)[1] # "work"
    BY <2>1, LineNames DEF Egress
  <2>5. e \in Element(Egress(r)) /\ Added(Egress(r), e)
    <3>1. egress_buffers'[r] = Append(egress_buffers[r], e)
      BY <2>1, <2>3 DEF TInv, BuffersTyped
    <3>2. Element(Egress(r)) = [pkt : Packet \cup {nullptr}, port : Port]
      BY DEF Egress, Element
    <3>3. Added(Egress(r), e)
      BY <2>4, <3>1, Contents DEF Added
    <3> QED
      BY <3>2, <3>3
  <2>6. Rank(Work(t)) = Rank(Egress(r)) + 1 /\ Num(Egress(r), e) = task.pkt
    BY <1>2, <2>2 DEF Rank, Num, Work, Egress
  <2>7. \A c \in Class : May(Work(t), c, task)
    BY <1>2 DEF May, Work
  <2>8. ASSUME NEW k \in Line \ {Gone}, k # Egress(r), k[1] # "work" PROVE Kept(k)
    <3>1. CASE k[1] = "egress"
      BY <2>1, <2>3, <2>8, <3>1, KeptEgress
    <3>2. CASE k[1] # "egress"
      BY <2>8, <3>2, KeptLines DEF EnqueueNormal, inputVars, cqVars
    <3> QED
      BY <3>1, <3>2
  <2>9. work' = [work EXCEPT ![t] = Tail(@)] /\ UNCHANGED queue_hi
    BY <1>5 DEF EnqueueNormal, TaskDone, inputVars
  <2> QED
    BY <1>1, <2>4, <2>5, <2>6, <2>7, <2>8, <2>9, TaskInOrder
<1> QED
  BY <1>4, <1>5 DEF EnqueueNormal

LEMMA EnqueueCalendarOInv == ASSUME TInv, OInv, EnqueueCalendar PROVE OInv'
<1> DEFINE task == Head(work["ingress"])
<1>1. "ingress" \in Worker /\ HasTask("ingress", "calendar")
  BY DEF EnqueueCalendar, Worker
<1>2. CASE UNCHANGED <<cqVars, work>>
  <2>1. \A k \in Line \ {Gone} : Kept(k)
    BY <1>2, KeptLines DEF EnqueueCalendar, inputVars, cqVars
  <2> QED
    BY <1>2, <2>1, LineGoes
<1>3. CASE (TaskDone("ingress") \/ CountDrop("ingress")) /\ UNCHANGED calendar_queues
  BY <1>1, <1>3, TaskLostOInv DEF EnqueueCalendar
<1>4. CASE /\ ~NoSuchSlice(task.queue)
           /\ calendar_queues' = [calendar_queues EXCEPT
                 ![task.queue] = Append(@, [e |-> task.pkt, port_id |-> task.port])]
           /\ TaskDone("ingress")
  <2>0. task.port \in Port /\ task.queue \in CQ!Slice /\ task.pkt \in Packet
    BY <1>1, <1>4, CalendarTask
  <2>1. PICK s \in CQ!Slice : s = task.queue
    BY <2>0
  <2>2. PICK e \in CQ!QE : e = [e |-> task.pkt, port_id |-> task.port]
    BY <2>0 DEF CQ!QE
  <2>3. calendar_queues' = [calendar_queues EXCEPT ![s] = Append(@, e)]
    BY <1>4, <2>1, <2>2
  <2>4. Cq(s) \in Line \ {Gone} /\ Cq(s)[1] # "work"
    BY LineNames DEF Cq
  <2>5. e \in Element(Cq(s)) /\ Added(Cq(s), e)
    <3>1. calendar_queues'[s] = Append(calendar_queues[s], e)
      BY <2>3 DEF TInv, DequesTyped
    <3>2. Element(Cq(s)) = CQ!QE
      BY DEF Cq, Element
    <3>3. Added(Cq(s), e)
      BY <2>4, <3>1, Contents DEF Added
    <3> QED
      BY <3>2, <3>3
  <2>6. Rank(Work("ingress")) = Rank(Cq(s)) + 1 /\ Num(Cq(s), e) = task.pkt
    BY <2>2 DEF Rank, Num, Work, Cq
  <2>7. \A c \in Class : May(Work("ingress"), c, task)
    BY DEF May, Work
  <2>8. ASSUME NEW k \in Line \ {Gone}, k # Cq(s), k[1] # "work" PROVE Kept(k)
    <3>1. CASE k[1] = "cq"
      BY <2>3, <2>8, <3>1, KeptCalendar
    <3>2. CASE k[1] # "cq"
      BY <2>8, <3>2, KeptLines DEF EnqueueCalendar, inputVars
    <3> QED
      BY <3>1, <3>2
  <2>9. work' = [work EXCEPT !["ingress"] = Tail(@)] /\ UNCHANGED queue_hi
    BY <1>4 DEF EnqueueCalendar, TaskDone, inputVars
  <2> QED
    BY <1>1, <2>4, <2>5, <2>6, <2>7, <2>8, <2>9, TaskInOrder
<1> QED
  BY <1>2, <1>3, <1>4 DEF EnqueueCalendar, cqVars, CQ!PushFull, CQ!PushFront

LEMMA EmitOInv == ASSUME TInv, OInv, NEW t \in {"cq", "egress"}, EmitPacket(t) PROVE OInv'
<1> DEFINE task == Head(work[t])
<1>1. t \in Worker /\ t # "ingress" /\ HasTask(t, "emit") /\ TaskDone(t)
  BY DEF EmitPacket, Worker
<1>2. task \in Tasked /\ task.op = "emit"
  BY <1>1, TaskType DEF HasTask
<1>3. PICK e \in Outgoing :
        e = [pkt |-> task.pkt, port |-> task.port, from |-> t, queue |-> task.queue]
  BY <1>2 DEF Tasked, TaskOf, Outgoing
<1>4. Out \in Line \ {Gone} /\ Out[1] # "work"
  BY LineNames DEF Out
<1>5. e \in Element(Out) /\ Added(Out, e)
  <2>1. Element(Out) = Outgoing \cup {EndOfOutput}
    BY DEF Element, Out
  <2>2. output_buffer' = Append(output_buffer, e)
    BY <1>3 DEF EmitPacket
  <2> QED
    BY <1>4, <2>1, <2>2, Contents DEF Added
<1>6. Rank(Work(t)) = Rank(Out) + 1 /\ Num(Out, e) = task.pkt
  BY <1>1, <1>3 DEF Rank, Num, Work, Out
<1>7. ASSUME NEW c \in Class, May(Out, c, e) PROVE May(Work(t), c, task)
  <2>1. e.from = c.from /\ e.port = c.port /\ e.queue = c.queue
    BY <1>7 DEF May, Out
  <2>2. t = c.from /\ task.port = c.port /\ task.queue = c.queue
    BY <1>3, <2>1
  <2> QED
    BY <1>2, <2>2 DEF May, Work
<1>8. \A k \in Line \ {Gone} : k # Out /\ k[1] # "work" => Kept(k)
  BY KeptLines DEF EmitPacket, inputVars, cqVars
<1>9. work' = [work EXCEPT ![t] = Tail(@)] /\ UNCHANGED queue_hi
  BY <1>1 DEF EmitPacket, TaskDone, inputVars
<1> QED
  BY <1>1, <1>4, <1>5, <1>6, <1>7, <1>8, <1>9, TaskInOrder

LEMMA CalendarPopOInv == ASSUME ForwardOnly, TInv, PInv, OInv, CalendarPop PROVE OInv'
<1>1. PICK s \in CQ!Slice : s = active_q
  BY DEF TInv, ThreadsTyped
<1>2. /\ calendar_queues[s] # << >> /\ calendar_queues[s] \in Seq(CQ!QE)
      /\ calendar_queues' = [calendar_queues EXCEPT ![s] = Tail(@)]
      /\ calendar_queues'[s] = Tail(calendar_queues[s])
  BY <1>1 DEF CalendarPop, TakeFromCalendar, CQ!PopBack, TInv, DequesTyped
<1>3. PICK head \in CQ!QE : head = Head(calendar_queues[s])
  BY <1>2
<1>4. PICK x \in Packet : x = head.e
  BY DEF CQ!QE
<1>5. "cq" \in Worker /\ s \in Nat /\ head.port_id \in Port /\ work["cq"] = << >>
  BY <1>3, SlicesAssumption DEF Worker, CQ!Slice, CQ!QE, CalendarPop, PInv, Idle
<1>6. Process("cq", x, head.port_id, s, CqVerdicts)
  BY <1>1, <1>3, <1>4 DEF CalendarPop
<1> DEFINE F == {"emit", "recirculate", "drop"}
<1>7. \A v \in CqVerdicts : IsVerdict(v, F) /\ Replicas(v) = 0 /\ v[Len(v)].op \in Onward("cq")
  <2>1. \A v \in CqVerdicts : IsVerdict(v, F)
    BY VerdictsAssumption
  <2>2. \A v \in CqVerdicts : Replicas(v) = 0 /\ v[Len(v)].op # "recirculate"
    BY DEF ForwardOnly, NoReplicas
  <2> QED
    BY <2>1, <2>2 DEF Onward, IsVerdict
<1>8. PICK e \in Tasked : /\ e.pkt = x /\ e.op \in Onward("cq")
                          /\ e.op = "emit" => e.port = head.port_id /\ e.queue = s
                          /\ work' = [work EXCEPT !["cq"] = <<e>>]
  <2>1. "copy" \notin F
    OBVIOUS
  <2> HIDE DEF F
  <2> QED
    BY <1>5, <1>6, <1>7, <2>1, OneTask
<1>9. Cq(s) \in Line \ {Gone} /\ Cq(s)[1] # "work"
  BY LineNames DEF Cq
<1>10. Taken(Cq(s)) /\ Head(Content(Cq(s))) = head
  BY <1>2, <1>3, <1>9, Contents DEF Taken
<1>11. Rank(Cq(s)) = Rank(Work("cq")) + 1 /\ Num(Cq(s), head) = e.pkt
  BY <1>4, <1>8 DEF Rank, Num, Work, Cq
<1>12. ASSUME NEW c \in Class, May(Work("cq"), c, e) PROVE May(Cq(s), c, head)
  <2>1. "cq" = c.from /\ e.op = "emit" /\ e.port = c.port /\ e.queue = c.queue
    BY <1>12 DEF May, Work
  <2> QED
    BY <1>8, <2>1 DEF May, Cq
<1>13. ASSUME NEW k \in Line \ {Gone}, k # Cq(s), k[1] # "work" PROVE Kept(k)
  <2>1. CASE k[1] = "cq"
    BY <1>2, <1>13, <2>1, KeptCalendar
  <2>2. CASE k[1] # "cq"
    BY <1>13, <2>2, KeptLines DEF CalendarPop, inputVars
  <2> QED
    BY <2>1, <2>2
<1>14. UNCHANGED queue_hi
  BY DEF CalendarPop, inputVars
<1> QED
  BY <1>5, <1>8, <1>9, <1>10, <1>11, <1>12, <1>13, <1>14, TakenInOrder

LEMMA EgressPopOInv == ASSUME ForwardOnly, TInv, PInv, OInv, EgressPop PROVE OInv'
<1>1. PICK q \in Queue :
        /\ egress_buffers[q] # << >>
        /\ egress_buffers' = [egress_buffers EXCEPT ![q] = Tail(@)]
        /\ LET head == Head(egress_buffers[q])
           IN  IF head.pkt = nullptr
                 THEN Goto("egress", "done") /\ UNCHANGED <<packet_id, work>>
                 ELSE Process("egress", head.pkt, head.port, q, EgressVerdicts)
  BY DEF EgressPop
<1> DEFINE E == [pkt : Packet \cup {nullptr}, port : Port]
<1>2. PICK head \in E : head = Head(egress_buffers[q])
  <2>1. egress_buffers[q] \in Seq(E) /\ egress_buffers[q] # << >>
    BY <1>1 DEF TInv, BuffersTyped
  <2> HIDE DEF E
  <2> QED
    BY <2>1
<1>4. "egress" \in Worker /\ q \in Nat /\ work["egress"] = << >> /\ UNCHANGED queue_hi
  BY CapacitiesAssumption DEF Worker, Queue, EgressPop, PInv, Idle, inputVars
<1>5. Egress(q) \in Line \ {Gone} /\ Egress(q)[1] # "work"
  BY LineNames DEF Egress
<1>6. Taken(Egress(q)) /\ Head(Content(Egress(q))) = head
  <2>1. egress_buffers'[q] = Tail(egress_buffers[q])
    BY <1>1 DEF TInv, BuffersTyped
  <2> QED
    BY <1>1, <1>2, <1>5, <2>1, Contents DEF Taken
<1>8. ASSUME NEW k \in Line \ {Gone}, k # Egress(q), k[1] # "work" PROVE Kept(k)
  <2>1. CASE k[1] = "egress"
    BY <1>1, <1>8, <2>1, KeptEgress
  <2>2. CASE k[1] # "egress"
    BY <1>8, <2>2, KeptLines DEF EgressPop, inputVars, cqVars
  <2> QED
    BY <2>1, <2>2
<1>9. CASE head.pkt = nullptr
  <2>1. UNCHANGED work
    BY <1>1, <1>2, <1>9
  <2>2. \A k \in Line \ {Gone} : Kept(k) \/ Taken(k)
    BY <1>6, <1>8, <2>1, KeptLines
  <2> QED
    BY <2>1, <2>2, LineGoes
<1>10. CASE head.pkt # nullptr
  <2>1. PICK x \in Packet : x = head.pkt
    BY <1>10
  <2>2. Process("egress", x, head.port, q, EgressVerdicts) /\ head.port \in Port
    BY <1>1, <1>2, <1>10, <2>1
  <2> DEFINE F == {"emit", "recirculate", "drop"}
  <2>3. \A v \in EgressVerdicts :
           IsVerdict(v, F) /\ Replicas(v) = 0 /\ v[Len(v)].op \in Onward("egress")
    <3>1. \A v \in EgressVerdicts : IsVerdict(v, F)
      BY VerdictsAssumption
    <3>2. \A v \in EgressVerdicts : Replicas(v) = 0 /\ v[Len(v)].op # "recirculate"
      BY DEF ForwardOnly, NoReplicas
    <3> QED
      BY <3>1, <3>2 DEF Onward, IsVerdict
  <2>4. PICK e \in Tasked : /\ e.pkt = x /\ e.op \in Onward("egress")
                            /\ e.op = "emit" => e.port = head.port /\ e.queue = q
                            /\ work' = [work EXCEPT !["egress"] = <<e>>]
    <3>1. "copy" \notin F
      OBVIOUS
    <3> HIDE DEF F
    <3> QED
      BY <1>4, <2>2, <2>3, <3>1, OneTask
  <2>5. Rank(Egress(q)) = Rank(Work("egress")) + 1 /\ Num(Egress(q), head) = e.pkt
    BY <2>1, <2>4 DEF Rank, Num, Work, Egress
  <2>6. ASSUME NEW c \in Class, May(Work("egress"), c, e) PROVE May(Egress(q), c, head)
    <3>1. "egress" = c.from /\ e.op = "emit" /\ e.port = c.port /\ e.queue = c.queue
      BY <2>6 DEF May, Work
    <3> QED
      BY <1>10, <2>4, <3>1 DEF May, Egress
  <2> QED
    BY <1>4, <1>5, <1>6, <1>8, <2>4, <2>5, <2>6, TakenInOrder
<1> QED
  BY <1>9, <1>10

LEMMA TransmitOInv == ASSUME TInv, OInv, Transmit PROVE OInv'
<1>1. output_buffer # << >> /\ output_buffer' = Tail(output_buffer)
  BY DEF Transmit
<1>2. PICK head \in Outgoing \cup {EndOfOutput} : head = Head(output_buffer)
  BY <1>1 DEF TInv, BuffersTyped
<1>3. Out \in Line \ {Gone} /\ Sent \in Line \ {Gone} /\ Out # Sent
  BY LineNames DEF Out, Sent
<1>4. Taken(Out) /\ Head(Content(Out)) = head
  BY <1>1, <1>2, <1>3, Contents DEF Taken
<1>5. \A k \in Line \ {Gone} : k # Out /\ k # Sent => Kept(k)
  BY KeptLines DEF Transmit, inputVars, cqVars
<1>6. UNCHANGED <<queue_hi, work>>
  BY DEF Transmit, inputVars
<1>7. CASE UNCHANGED sent
  <2>1. \A k \in Line \ {Gone} : Kept(k) \/ Taken(k)
    BY <1>4, <1>5, <1>7, KeptLines
  <2> QED
    BY <1>6, <2>1, LineGoes
<1>8. CASE sent' = Append(sent, head)
  <2>1. head \in Element(Sent) /\ Added(Sent, head)
    BY <1>3, <1>8, Contents DEF Element, Sent, Added
  <2>2. /\ Rank(Out) = Rank(Sent) + 1 /\ Num(Sent, head) = Num(Out, head)
        /\ \A c : May(Sent, c, head) => May(Out, c, head)
    BY DEF Rank, Num, May, Out, Sent
  <2>3. Ordered'
    <3> HIDE DEF Out, Sent
    <3> QED
      BY <1>3, <1>4, <1>5, <2>1, <2>2, HeadInOrder DEF OInv
  <2>4. Forward'
    BY <1>6, ForwardStays DEF OInv
  <2> QED
    BY <2>3, <2>4 DEF OInv
<1> QED
  BY <1>2, <1>7, <1>8 DEF Transmit

LEMMA DestructorOInv == ASSUME TInv, OInv, Destructor PROVE OInv'
<1>0. UNCHANGED work
  BY DEF Destructor, Destroy, StopIngress, StopEgress, StopTransmit, Join
<1>1. CASE Destroy \/ Join
  <2>1. \A k \in Line \ {Gone} : Kept(k)
    BY <1>1, KeptLines DEF Destroy, Join, inputVars, cqVars
  <2> QED
    BY <1>0, <2>1, LineGoes
<1>2. CASE StopIngress
  <2>1. Hi \in Line \ {Gone} /\ nullptr \in Element(Hi) /\ \A c : ~ May(Hi, c, nullptr)
    BY LineNames DEF Hi, Element, May
  <2>2. Added(Hi, nullptr)
    BY <1>2, <2>1, Contents DEF StopIngress, Added
  <2>3. \A k \in Line \ {Gone, Hi} : Kept(k)
    BY <1>2, KeptLines DEF StopIngress, cqVars
  <2>4. Ordered'
    BY <2>1, <2>2, <2>3, SentinelInOrder DEF OInv
  <2>5. Forward'
    BY <1>0, <1>2, ForwardStays DEF OInv, StopIngress
  <2> QED
    BY <2>4, <2>5 DEF OInv
<1>3. CASE StopEgress
  <2>0. PICK e \in [pkt : Packet \cup {nullptr}, port : Port] : e = [pkt |-> nullptr, port |-> 0]
    BY PortAssumption
  <2>1. 0 \in Queue /\ egress_buffers' = [egress_buffers EXCEPT ![0] = Append(@, e)]
    <3>1. 0 \in Queue
      BY CapacitiesAssumption DEF Queue
    <3>2. egress_buffers' = [egress_buffers EXCEPT ![0] = Append(@, [pkt |-> nullptr, port |-> 0])]
      BY <1>3 DEF StopEgress
    <3> QED
      BY <2>0, <3>1, <3>2
  <2>2. Egress(0) \in Line \ {Gone}
    BY <2>1, LineNames
  <2>3. e \in Element(Egress(0)) /\ \A c : ~ May(Egress(0), c, e)
    BY <2>0 DEF Egress, Element, May
  <2>4. Added(Egress(0), e)
    <3>1. egress_buffers'[0] = Append(egress_buffers[0], e)
      BY <2>1 DEF TInv, BuffersTyped
    <3> QED
      BY <2>2, <3>1, Contents DEF Added
  <2>5. ASSUME NEW k \in Line \ {Gone, Egress(0)} PROVE Kept(k)
    <3>1. CASE k[1] = "egress"
      BY <2>1, <2>5, <3>1, KeptEgress
    <3>2. CASE k[1] # "egress"
      BY <1>3, <2>5, <3>2, KeptLines DEF StopEgress, inputVars, cqVars
    <3> QED
      BY <3>1, <3>2
  <2>6. Ordered'
    BY <2>2, <2>3, <2>4, <2>5, SentinelInOrder DEF OInv
  <2>7. Forward'
    BY <1>0, <1>3, ForwardStays DEF OInv, StopEgress, inputVars
  <2> QED
    BY <2>6, <2>7 DEF OInv
<1>4. CASE StopTransmit
  <2>1. Out \in Line \ {Gone} /\ EndOfOutput \in Element(Out)
    BY LineNames DEF Out, Element
  <2>2. \A c : ~ May(Out, c, EndOfOutput)
    BY DEF May, Out, EndOfOutput
  <2>3. Added(Out, EndOfOutput)
    BY <1>4, <2>1, Contents DEF StopTransmit, Added
  <2>4. \A k \in Line \ {Gone, Out} : Kept(k)
    BY <1>4, KeptLines DEF StopTransmit, inputVars, cqVars
  <2>5. Ordered'
    BY <2>1, <2>2, <2>3, <2>4, SentinelInOrder DEF OInv
  <2>6. Forward'
    BY <1>0, <1>4, ForwardStays DEF OInv, StopTransmit, inputVars
  <2> QED
    BY <2>5, <2>6 DEF OInv
<1> QED
  BY <1>1, <1>2, <1>3, <1>4 DEF Destructor

LEMMA InitOInv == Init => OInv
<1> SUFFICES ASSUME Init PROVE OInv
  OBVIOUS
<1>1. ASSUME NEW k \in Line \ {Gone}, NEW c, NEW i \in DOMAIN Content(k)
      PROVE  ~ May(k, c, Content(k)[i])
  <2>1. k = Rx
    <3>1. k # Rx => Content(k) = << >>
      BY Kinds, KeptLines DEF Content, Init, CQ!Init
    <3>2. DOMAIN << >> = {}
      OBVIOUS
    <3> QED
      BY <1>1, <3>1, <3>2
  <2>2. Content(k) = <<nullptr>>
    BY <2>1, Contents DEF Init
  <2>3. Content(k)[i] = nullptr
    BY <1>1, <2>2
  <2> QED
    BY <2>1, <2>3 DEF May, Rx
<1>2. ASSUME NEW c, NEW k \in Line \ {Gone}
      PROVE  Sorted(Content(k), k, c) /\ Nums(Content(k), k, c) = {}
  BY <1>1 DEF Sorted, Nums
<1>3. Ordered
  BY <1>2 DEF Ordered, Less
<1>4. Forward
  BY DEF Init, Forward
<1> QED
  BY <1>3, <1>4 DEF OInv

\* A step that moves no packet.
LEMMA QuietOInv == ASSUME TInv, OInv, NothingMoves PROVE OInv'
<1>1. \A k \in Line \ {Gone} : Kept(k)
  BY KeptLines DEF NothingMoves
<1> QED
  BY <1>1, LineGoes DEF NothingMoves

LEMMA NextOInv == ASSUME ForwardOnly PROVE TInv /\ PInv /\ OInv /\ [Next]_vars => OInv'
<1> SUFFICES ASSUME TInv, PInv, OInv, [Next]_vars PROVE OInv'
  OBVIOUS
<1>0. {"ingress", "cq", "egress"} \subseteq Worker
  BY DEF Worker
<1>1. CASE Tick \/ UNCHANGED vars
  BY <1>1, QuietOInv DEF Tick, vars, NothingMoves, inputVars, cqVars
<1>2. ASSUME NEW t \in Worker, CountStep(t) PROVE OInv'
  BY <1>2, QuietOInv DEF CountStep, LoadDropped, StoreDropped, NothingMoves, inputVars, cqVars
<1>3. ASSUME NEW t \in Worker, DropPacket(t) PROVE OInv'
  BY <1>3, TaskLostOInv DEF DropPacket, inputVars, cqVars
<1>4. CASE ReceiveThread
  <2>1. CASE ReceiveCount
    BY <2>1, QuietOInv DEF ReceiveCount, NothingMoves, inputVars, cqVars
  <2> QED
    BY <1>4, <2>1, ReceiveOInv, ReceivePushOInv DEF ReceiveThread
<1>5. CASE IngressThread
  <2>1. CASE DiscardOriginal
    BY <1>0, <2>1, TaskLostOInv DEF DiscardOriginal, inputVars, cqVars
  <2>2. ~ ResubmitPacket
    BY <1>0, NoneBack DEF ResubmitPacket
  <2> QED
    BY <1>0, <1>2, <1>3, <1>5, <2>1, <2>2, IngressPopOInv, EnqueueCalendarOInv, EnqueueNormalOInv
    DEF IngressThread
<1>6. CASE CqThread
  <2>1. CASE ReadActiveSlice \/ CalendarEmpty
    <3>1. NothingMoves
      BY <2>1 DEF ReadActiveSlice, CalendarEmpty, CQ!PopEmpty, CQ!vars, NothingMoves, inputVars, cqVars
    <3> QED
      BY <3>1, QuietOInv
  <2>2. ~ RecirculatePacket("cq")
    BY <1>0, NoneBack DEF RecirculatePacket
  <2> QED
    BY <1>0, <1>2, <1>3, <1>6, <2>1, <2>2, CalendarPopOInv, EmitOInv DEF CqThread
<1>7. CASE EgressThread
  <2>1. ~ RecirculatePacket("egress")
    BY <1>0, NoneBack DEF RecirculatePacket
  <2> QED
    BY <1>0, <1>2, <1>3, <1>7, <2>1, EgressPopOInv, EnqueueNormalOInv, EmitOInv DEF EgressThread
<1>8. CASE Transmit
  BY <1>8, TransmitOInv
<1>9. CASE Destructor
  BY <1>9, DestructorOInv
<1> QED
  BY <1>1, <1>4, <1>5, <1>6, <1>7, <1>8, <1>9 DEF Next

\* Packets received in this order for a port that go through the same queue of
\* the same egress thread leave in that order, with any number of ports,
\* slices, priorities and packets, under back pressure, with drops and with the
\* shutdown at any moment (tor_switch.cpp:400-426, 553-978: one thread takes
\* from each buffer, from the end that the pushes are not at).  It is assumed
\* of the P4 program what holds of p4/tor/tor.p4: no copies, no resubmit, no
\* recirculate; each of them puts a packet behind one received later.
THEOREM QueueOrderKept == ASSUME ForwardOnly PROVE Spec => []SameQueueSameOrder
<1>1. TInv /\ OInv => SameQueueSameOrder
  <2> SUFFICES ASSUME TInv, OInv, NEW i \in DOMAIN sent, NEW j \in DOMAIN sent, i < j,
                      sent[i].port = sent[j].port, sent[i].from = sent[j].from,
                      sent[i].queue = sent[j].queue
               PROVE  sent[i].pkt < sent[j].pkt
    BY DEF SameQueueSameOrder
  <2>1. PICK d \in Outgoing, e \in Outgoing : d = sent[i] /\ e = sent[j]
    BY DEF TInv, BuffersTyped
  <2>2. PICK c \in Class : c = [port |-> d.port, from |-> d.from, queue |-> d.queue]
    BY DEF Outgoing, Class
  <2>3. Sent \in Line \ {Gone} /\ Content(Sent) = sent
    BY LineNames, Contents
  <2>4. Sorted(sent, Sent, c)
    BY <2>3 DEF OInv, Ordered
  <2>5. d.pkt # nullptr /\ e.pkt # nullptr
    BY DEF Outgoing, Packet, nullptr
  <2>6. May(Sent, c, d) /\ May(Sent, c, e) /\ Num(Sent, d) = d.pkt /\ Num(Sent, e) = e.pkt
    BY <2>1, <2>2, <2>5 DEF May, Num, Sent
  <2> QED
    BY <2>1, <2>4, <2>6 DEF Sorted
<1>2. Spec => []OInv
  BY InitOInv, NextOInv, SpecTInv, SpecPInv, PTL DEF Spec
<1> QED
  BY <1>1, <1>2, SpecTInv, PTL
============================================================================
