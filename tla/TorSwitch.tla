----------------------------- MODULE TorSwitch -----------------------------
(***************************************************************************)
(* The ToR switch (targets/tor_switch/tor_switch.cpp): the thread that     *)
(* receives, the ingress thread, the calendar-queue egress thread, the     *)
(* normal egress thread, the transmit thread, and the thread that destroys *)
(* the switch, around the buffers they share:                              *)
(*                                                                         *)
(*   rx -> queue_lo --> ingress -+-> calendar queues -> cq -----+          *)
(*         queue_hi -->          +-> egress_buffers  -> egress -+-> output *)
(*            ^------------------+ resubmit, recirculate <------+  -> tx   *)
(*                                                                         *)
(* A step is what a thread does between two points where another thread    *)
(* can see the difference: one queue operation (each under its own mutex), *)
(* one read of the clock, one load or store of a plain counter.  What the  *)
(* P4 program decides about a packet is a verdict: the list of tasks the   *)
(* thread then carries out.  Packets are serial numbers; nullptr is the    *)
(* sentinel that stops a thread.                                           *)
(***************************************************************************)
EXTENDS TimeSlice, Sequences, FiniteSets

CONSTANTS
    Port,                \* port numbers; 0 is among them
    nb_queues_per_port,
    LoCapacity, HiCapacity, CalendarCapacity, EgressCapacity, OutputCapacity,
    IngressVerdicts, CqVerdicts, EgressVerdicts,  \* sets of lists of tasks
    MaxPackets,          \* bound: packets and replicas ever created
    MayDestroy           \* whether the destructor may run

ASSUME PortAssumption == 0 \in Port
ASSUME CapacitiesAssumption ==
    /\ {LoCapacity, HiCapacity, EgressCapacity, OutputCapacity} \subseteq Nat \ {0}
    /\ CalendarCapacity \in Nat
    /\ nb_queues_per_port \in Nat \ {0}
ASSUME BoundAssumption == MaxPackets \in Nat

nullptr == 0
Worker == {"ingress", "cq", "egress"}
Thread == Worker \cup {"rx", "transmit", "main"}
Queue == 0 .. nb_queues_per_port - 1

VARIABLES
    now,              \* the clock, kept modulo ClockModulus
    packet_id,        \* serial number of the newest packet
    rx_packet,        \* the packet receive_ is pushing
    queue_hi, queue_lo,
    calendar_queues, port_q_info, overal_qdepth,
    egress_buffers,   \* [Queue -> Seq([pkt, port])]
    output_buffer,
    pc, work, active_q,
    reg,              \* a thread's copy of nb_pkts_dropped between load and store
    nb_pkts_rcvd, nb_pkts_dropped,
    exited,           \* the process called exit(-1)
    sent,             \* history: packets given to the transmit function, in order
    gone,             \* history: packets that left otherwise, and why
    raced             \* history: two increments of nb_pkts_dropped overlapped

cqVars == <<calendar_queues, port_q_info, overal_qdepth>>
inputVars == <<queue_hi, queue_lo>>
countVars == <<reg, nb_pkts_dropped, raced>>
vars == <<now, packet_id, rx_packet, queue_hi, queue_lo, calendar_queues,
          port_q_info, overal_qdepth, egress_buffers, output_buffer, pc, work,
          active_q, reg, nb_pkts_rcvd, nb_pkts_dropped, exited, sent, gone, raced>>

Packet == 1 .. MaxPackets
CQ == INSTANCE CalendarQueue
        WITH Item <- Packet, capacity <- CalendarCapacity, Word <- 2

----------------------------------------------------------------------------
(* Tasks.  A verdict is the list of tasks a pipeline leaves to its thread: *)
(* replicas first (clones, multicast copies), then the fate of the packet. *)

Task(op, p, q, pri) == [op |-> op, pkt |-> nullptr, port |-> p, queue |-> q, priority |-> pri]

Copy(p, pri) == Task("copy", p, 0, pri)         \* replica to a normal queue
ToHost(p, pri) == Task("host", p, 0, pri)       \* intermediateForward = 1
ToCalendar(p, s, pri) == Task("calendar", p, s, pri)
Resubmit == Task("resubmit", 0, 0, 0)
Recirculate == Task("recirculate", 0, 0, 0)
DropIt == Task("drop", 0, 0, 0)                 \* egress_spec = drop_port
Discard == Task("discard", 0, 0, 0)             \* original of a multicast
Emit == Task("emit", 0, 0, 0)                   \* to the output buffer

Replicas(v) == Len(v) - 1

TaskOf(packets) ==
    [op : {"copy", "host", "calendar", "resubmit", "recirculate", "drop", "discard",
           "emit"},
     pkt : packets, port : Port, queue : Nat, priority : Nat]

IsVerdict(v, fates) ==
    /\ v \in Seq(TaskOf({nullptr}))
    /\ v # << >>
    /\ \A i \in 1 .. Replicas(v) : v[i].op = "copy"
    /\ v[Len(v)].op \in fates

ASSUME VerdictsAssumption ==
    /\ \A v \in IngressVerdicts :
          IsVerdict(v, {"host", "calendar", "resubmit", "drop", "discard"})
    /\ \A v \in CqVerdicts :
          IsVerdict(v, {"emit", "recirculate", "drop"}) /\ Replicas(v) = 0
    /\ \A v \in EgressVerdicts : IsVerdict(v, {"emit", "recirculate", "drop"})

\* Thread t took packet x, which came from queue q of port p, and ran a
\* pipeline on it: it has the tasks of one of the verdicts before it.
Process(t, x, p, q, verdicts) ==
    \E v \in verdicts :
        /\ packet_id + Replicas(v) <= MaxPackets
        /\ packet_id' = packet_id + Replicas(v)
        /\ work' = [work EXCEPT ![t] =
              [i \in 1 .. Len(v) |->
                  CASE v[i].op = "copy" -> [v[i] EXCEPT !.pkt = packet_id + i]
                    [] v[i].op = "emit" -> [v[i] EXCEPT !.pkt = x, !.port = p, !.queue = q]
                    [] OTHER -> [v[i] EXCEPT !.pkt = x]]]
        /\ pc' = [pc EXCEPT ![t] = "work"]

Goto(t, label) == pc' = [pc EXCEPT ![t] = label]
Home(t) == IF t = "cq" THEN "read" ELSE "pop"

HasTask(t, op) == pc[t] = "work" /\ Head(work[t]).op = op

\* The task is done: go on with the next one, or with the next packet.
TaskDone(t) ==
    /\ work' = [work EXCEPT ![t] = Tail(@)]
    /\ Goto(t, IF Tail(work[t]) = << >> THEN Home(t) ELSE "work")

\* Faulty: the drop is not counted.
CountDropForgotten(t) == TaskDone(t)

\* The task ends with nb_pkts_dropped++.
CountDrop(t) ==
    /\ work' = [work EXCEPT ![t] = Tail(@)]
    /\ Goto(t, "count")

Lose(x, why) == gone' = gone \cup {[pkt |-> x, why |-> why]}

----------------------------------------------------------------------------
Init ==
    /\ now \in 0 .. ClockModulus - 1
    /\ packet_id = 0
    /\ rx_packet = nullptr
    /\ queue_hi = << >> /\ queue_lo = << >>
    /\ CQ!Init
    /\ egress_buffers = [q \in Queue |-> << >>]
    /\ output_buffer = << >>
    /\ pc = [t \in Thread |-> CASE t = "rx" -> "idle"
                                [] t = "main" -> "running"
                                [] t = "cq" -> "read"
                                [] OTHER -> "pop"]
    /\ work = [t \in Worker |-> << >>]
    /\ active_q = 0
    /\ reg = [t \in Worker |-> 0]
    /\ nb_pkts_rcvd = 0 /\ nb_pkts_dropped = 0
    /\ exited = FALSE
    /\ sent = << >> /\ gone = {} /\ raced = FALSE

Tick ==
    /\ now' = (now + 1) % ClockModulus
    /\ UNCHANGED <<packet_id, rx_packet, inputVars, cqVars, egress_buffers,
                   output_buffer, pc, work, active_q, countVars,
                   nb_pkts_rcvd, exited, sent, gone>>

----------------------------------------------------------------------------
(* receive_: a packet from the wire waits for room in the low-priority     *)
(* input queue (back pressure); it is counted after it is queued.          *)

Receive ==
    /\ pc["rx"] = "idle" /\ packet_id < MaxPackets
    /\ packet_id' = packet_id + 1
    /\ rx_packet' = packet_id + 1
    /\ Goto("rx", "push")
    /\ UNCHANGED <<now, inputVars, cqVars, egress_buffers, output_buffer, work,
                   active_q, countVars, nb_pkts_rcvd, exited, sent, gone>>

ReceivePush ==
    /\ pc["rx"] = "push" /\ Len(queue_lo) < LoCapacity
    /\ queue_lo' = Append(queue_lo, rx_packet)
    /\ rx_packet' = nullptr
    /\ Goto("rx", "count")
    /\ UNCHANGED <<now, packet_id, queue_hi, cqVars, egress_buffers, output_buffer,
                   work, active_q, countVars, nb_pkts_rcvd, exited, sent, gone>>

\* Faulty: received packets are not counted.
ReceiveCountForgotten ==
    /\ pc["rx"] = "count"
    /\ Goto("rx", "idle")
    /\ UNCHANGED <<now, packet_id, rx_packet, inputVars, cqVars, egress_buffers,
                   output_buffer, work, active_q, countVars, nb_pkts_rcvd, exited,
                   sent, gone>>

ReceiveCount ==
    /\ pc["rx"] = "count"
    /\ nb_pkts_rcvd' = nb_pkts_rcvd + 1
    /\ Goto("rx", "idle")
    /\ UNCHANGED <<now, packet_id, rx_packet, inputVars, cqVars, egress_buffers,
                   output_buffer, work, active_q, countVars, exited, sent, gone>>

----------------------------------------------------------------------------
(* ingress_thread: InputBuffer::pop_back prefers the high-priority queue.  *)

IngressTake(x) ==
    /\ pc["ingress"] = "pop"
    /\ IF x = nullptr
         THEN Goto("ingress", "done") /\ UNCHANGED <<packet_id, work>>
         ELSE Process("ingress", x, 0, 0, IngressVerdicts)
    /\ UNCHANGED <<now, rx_packet, cqVars, egress_buffers, output_buffer, active_q,
                   countVars, nb_pkts_rcvd, exited, sent, gone>>

\* Faulty: a packet of the high-priority queue is processed but stays there.
IngressPopKeepsPacket ==
    \/ /\ queue_hi # << >>
       /\ UNCHANGED <<queue_hi, queue_lo>>
       /\ IngressTake(Head(queue_hi))
    \/ /\ queue_hi = << >> /\ queue_lo # << >>
       /\ queue_lo' = Tail(queue_lo) /\ UNCHANGED queue_hi
       /\ IngressTake(Head(queue_lo))

IngressPop ==
    \/ /\ queue_hi # << >>
       /\ queue_hi' = Tail(queue_hi) /\ UNCHANGED queue_lo
       /\ IngressTake(Head(queue_hi))
    \/ /\ queue_hi = << >> /\ queue_lo # << >>
       /\ queue_lo' = Tail(queue_lo) /\ UNCHANGED queue_hi
       /\ IngressTake(Head(queue_lo))

\* Faulty: the push waits for room, as a normal packet does.
BackToIngressWaits(t, op) ==
    /\ HasTask(t, op) /\ Len(queue_hi) < HiCapacity
    /\ queue_hi' = Append(queue_hi, Head(work[t]).pkt)
    /\ TaskDone(t)
    /\ UNCHANGED <<now, packet_id, rx_packet, queue_lo, cqVars, egress_buffers, gone,
                   output_buffer, active_q, countVars, nb_pkts_rcvd, exited, sent>>

\* The high-priority queue never makes its producers wait: a resubmitted or
\* recirculated packet that finds it full is gone, and not counted.
BackToIngress(t, op) ==
    /\ HasTask(t, op)
    /\ LET x == Head(work[t]).pkt
       IN  IF Len(queue_hi) < HiCapacity
             THEN queue_hi' = Append(queue_hi, x) /\ UNCHANGED gone
             ELSE Lose(x, "no room at ingress") /\ UNCHANGED queue_hi
    /\ TaskDone(t)
    /\ UNCHANGED <<now, packet_id, rx_packet, queue_lo, cqVars, egress_buffers,
                   output_buffer, active_q, countVars, nb_pkts_rcvd, exited, sent>>

ResubmitPacket == BackToIngress("ingress", "resubmit")

DiscardOriginal ==
    /\ HasTask("ingress", "discard")
    /\ Lose(Head(work["ingress"]).pkt, "replicated")
    /\ TaskDone("ingress")
    /\ UNCHANGED <<now, packet_id, rx_packet, inputVars, cqVars, egress_buffers,
                   output_buffer, active_q, countVars, nb_pkts_rcvd, exited, sent>>

DropPacket(t) ==
    /\ HasTask(t, "drop")
    /\ Lose(Head(work[t]).pkt, "dropped")
    /\ CountDrop(t)
    /\ UNCHANGED <<now, packet_id, rx_packet, inputVars, cqVars, egress_buffers,
                   output_buffer, active_q, countVars, nb_pkts_rcvd, exited, sent>>

\* The elements of a normal queue that count against the capacity of a port.
EgressSize(p, q) ==
    Cardinality({i \in 1 .. Len(egress_buffers[q]) : egress_buffers[q][i].port = p})

\* enqueue(): a replica or a packet for a host.  When the queue is full
\* egress_buffers.push_front returns 0, which is compared with -1.
EnqueueNormal(t) ==
    /\ HasTask(t, "copy") \/ HasTask(t, "host")
    /\ LET task == Head(work[t])
           q == nb_queues_per_port - 1 - task.priority
       IN  \/ /\ task.priority >= nb_queues_per_port
              /\ Lose(task.pkt, "bad priority") /\ CountDrop(t)
              /\ UNCHANGED egress_buffers
           \/ /\ task.priority < nb_queues_per_port
              /\ EgressSize(task.port, q) >= EgressCapacity
              /\ Lose(task.pkt, "normal queue full") /\ TaskDone(t)
              /\ UNCHANGED egress_buffers
           \/ /\ task.priority < nb_queues_per_port
              /\ EgressSize(task.port, q) < EgressCapacity
              /\ egress_buffers' = [egress_buffers EXCEPT
                    ![q] = Append(@, [pkt |-> task.pkt, port |-> task.port])]
              /\ TaskDone(t) /\ UNCHANGED gone
    /\ UNCHANGED <<now, packet_id, rx_packet, inputVars, cqVars, output_buffer,
                   active_q, countVars, nb_pkts_rcvd, exited, sent>>

\* Faulty: off by one.
NoSuchSliceOffByOne(s) == s > nb_calendar_queues

NoSuchSlice(s) == s >= nb_calendar_queues

\* enqueue_cq(): a packet for a later time slice.  A slice the switch does
\* not have ends the process.
EnqueueCalendar ==
    /\ HasTask("ingress", "calendar")
    /\ LET task == Head(work["ingress"])
       IN  \/ /\ NoSuchSlice(task.queue)
              /\ exited' = TRUE
              /\ UNCHANGED <<cqVars, work, pc, gone>>
           \/ /\ ~NoSuchSlice(task.queue) /\ UNCHANGED exited
              /\ \/ /\ task.priority >= nb_queues_per_port
                    /\ Lose(task.pkt, "bad priority") /\ CountDrop("ingress")
                    /\ UNCHANGED cqVars
                 \/ /\ task.priority < nb_queues_per_port
                    /\ CQ!PushFull(task.port, task.queue)
                    /\ Lose(task.pkt, "calendar queue full") /\ CountDrop("ingress")
                 \/ /\ task.priority < nb_queues_per_port
                    /\ CQ!PushFront(task.port, task.queue, task.pkt)
                    /\ TaskDone("ingress") /\ UNCHANGED gone
    /\ UNCHANGED <<now, packet_id, rx_packet, inputVars, egress_buffers,
                   output_buffer, active_q, countVars, nb_pkts_rcvd, sent>>

\* nb_pkts_dropped++ on a plain size_t: a load and a store.
LoadDropped(t) ==
    /\ pc[t] = "count"
    /\ reg' = [reg EXCEPT ![t] = nb_pkts_dropped]
    /\ raced' = (raced \/ \E u \in Worker \ {t} : pc[u] = "store")
    /\ Goto(t, "store")
    /\ UNCHANGED <<now, packet_id, rx_packet, inputVars, cqVars, egress_buffers,
                   output_buffer, work, active_q, nb_pkts_rcvd, nb_pkts_dropped,
                   exited, sent, gone>>

StoreDropped(t) ==
    /\ pc[t] = "store"
    /\ nb_pkts_dropped' = reg[t] + 1
    /\ Goto(t, IF work[t] = << >> THEN Home(t) ELSE "work")
    /\ UNCHANGED <<now, packet_id, rx_packet, inputVars, cqVars, egress_buffers,
                   output_buffer, work, active_q, reg, nb_pkts_rcvd, exited,
                   sent, gone, raced>>

----------------------------------------------------------------------------
(* egress_cq_thread: read the clock, then pop the deque of that slice; the *)
(* clock is read again only when the deque was empty.                      *)

ReadActiveSlice ==
    /\ pc["cq"] = "read"
    /\ active_q' = ts2time_slice(now)
    /\ Goto("cq", "pop")
    /\ UNCHANGED <<now, packet_id, rx_packet, inputVars, cqVars, egress_buffers,
                   output_buffer, work, countVars, nb_pkts_rcvd, exited, sent, gone>>

\* Faulty: the clock is not read again.
CalendarEmptyKeepsSlice ==
    /\ pc["cq"] = "pop"
    /\ CQ!PopEmpty(active_q)
    /\ Goto("cq", "pop")
    /\ UNCHANGED <<now, packet_id, rx_packet, inputVars, egress_buffers,
                   output_buffer, work, active_q, countVars, nb_pkts_rcvd, exited,
                   sent, gone>>

CalendarEmpty ==
    /\ pc["cq"] = "pop"
    /\ CQ!PopEmpty(active_q)
    /\ Goto("cq", "read")
    /\ UNCHANGED <<now, packet_id, rx_packet, inputVars, egress_buffers,
                   output_buffer, work, active_q, countVars, nb_pkts_rcvd, exited,
                   sent, gone>>

\* Faulty: the element is taken behind the back of the counters.
TakeFromCalendarUncounted(s) ==
    /\ calendar_queues[s] # << >>
    /\ calendar_queues' = [calendar_queues EXCEPT ![s] = Tail(@)]
    /\ UNCHANGED <<port_q_info, overal_qdepth>>

TakeFromCalendar(s) == CQ!PopBack(s)

\* Faulty: the newest element of the deque is taken.
CalendarPopNewest ==
    /\ pc["cq"] = "pop" /\ calendar_queues[active_q] # << >>
    /\ LET n == Len(calendar_queues[active_q])
           qe == calendar_queues[active_q][n]
       IN  /\ calendar_queues' = [calendar_queues EXCEPT ![active_q] = SubSeq(@, 1, n - 1)]
           /\ port_q_info' = [port_q_info EXCEPT ![<<qe.port_id, active_q>>] = @ - 1]
           /\ Process("cq", qe.e, qe.port_id, active_q, CqVerdicts)
    /\ UNCHANGED <<now, rx_packet, inputVars, overal_qdepth, egress_buffers,
                   output_buffer, active_q, countVars, nb_pkts_rcvd, exited, sent, gone>>

CalendarPop ==
    /\ pc["cq"] = "pop"
    /\ TakeFromCalendar(active_q)
    /\ LET qe == Head(calendar_queues[active_q])
       IN  Process("cq", qe.e, qe.port_id, active_q, CqVerdicts)
    /\ UNCHANGED <<now, rx_packet, inputVars, egress_buffers, output_buffer,
                   active_q, countVars, nb_pkts_rcvd, exited, sent, gone>>

----------------------------------------------------------------------------
(* egress_thread: the lowest-numbered queue that holds something is served *)
(* first; the sentinel ends the thread.                                    *)

EgressPop ==
    /\ pc["egress"] = "pop"
    /\ \E q \in Queue :
        /\ egress_buffers[q] # << >>
        /\ \A r \in Queue : r < q => egress_buffers[r] = << >>
        /\ egress_buffers' = [egress_buffers EXCEPT ![q] = Tail(@)]
        /\ LET head == Head(egress_buffers[q])
           IN  IF head.pkt = nullptr
                 THEN Goto("egress", "done") /\ UNCHANGED <<packet_id, work>>
                 ELSE Process("egress", head.pkt, head.port, q, EgressVerdicts)
    /\ UNCHANGED <<now, rx_packet, inputVars, cqVars, output_buffer, active_q,
                   countVars, nb_pkts_rcvd, exited, sent, gone>>

RecirculatePacket(t) == BackToIngress(t, "recirculate")

\* Both egress threads wait for room in the output buffer.
EmitPacket(t) ==
    /\ HasTask(t, "emit") /\ Len(output_buffer) < OutputCapacity
    /\ LET task == Head(work[t])
       IN  output_buffer' = Append(output_buffer,
              [pkt |-> task.pkt, port |-> task.port, from |-> t, queue |-> task.queue])
    /\ TaskDone(t)
    /\ UNCHANGED <<now, packet_id, rx_packet, inputVars, cqVars, egress_buffers,
                   active_q, countVars, nb_pkts_rcvd, exited, sent, gone>>

EndOfOutput == [pkt |-> nullptr, port |-> 0, from |-> "main", queue |-> 0]

Transmit ==
    /\ pc["transmit"] = "pop" /\ output_buffer # << >>
    /\ output_buffer' = Tail(output_buffer)
    /\ IF Head(output_buffer) = EndOfOutput
         THEN Goto("transmit", "done") /\ UNCHANGED sent
         ELSE sent' = Append(sent, Head(output_buffer)) /\ UNCHANGED pc
    /\ UNCHANGED <<now, packet_id, rx_packet, inputVars, cqVars, egress_buffers,
                   work, active_q, countVars, nb_pkts_rcvd, exited, gone>>

----------------------------------------------------------------------------
(* The destructor: a sentinel to the ingress thread, one to the egress     *)
(* thread (retried until there is room), one to the transmit thread, then  *)
(* join every thread.  The calendar queues get none.                       *)

Destroy ==
    /\ MayDestroy /\ pc["main"] = "running"
    /\ Goto("main", "stop ingress")
    /\ UNCHANGED <<now, packet_id, rx_packet, inputVars, cqVars, egress_buffers,
                   output_buffer, work, active_q, countVars, nb_pkts_rcvd, exited,
                   sent, gone>>

StopIngress ==
    /\ pc["main"] = "stop ingress" /\ Len(queue_hi) < HiCapacity
    /\ queue_hi' = Append(queue_hi, nullptr)
    /\ Goto("main", "stop egress")
    /\ UNCHANGED <<now, packet_id, rx_packet, queue_lo, cqVars, egress_buffers,
                   output_buffer, work, active_q, countVars, nb_pkts_rcvd, exited,
                   sent, gone>>

\* Faulty: the sentinel is given up when there is no room for it.
StopEgressOnce ==
    /\ pc["main"] = "stop egress"
    /\ egress_buffers' = IF EgressSize(0, 0) < EgressCapacity
                           THEN [egress_buffers EXCEPT
                                   ![0] = Append(@, [pkt |-> nullptr, port |-> 0])]
                           ELSE egress_buffers
    /\ Goto("main", "stop transmit")
    /\ UNCHANGED <<now, packet_id, rx_packet, inputVars, cqVars, output_buffer, work,
                   active_q, countVars, nb_pkts_rcvd, exited, sent, gone>>

StopEgress ==
    /\ pc["main"] = "stop egress" /\ EgressSize(0, 0) < EgressCapacity
    /\ egress_buffers' = [egress_buffers EXCEPT
                             ![0] = Append(@, [pkt |-> nullptr, port |-> 0])]
    /\ Goto("main", "stop transmit")
    /\ UNCHANGED <<now, packet_id, rx_packet, inputVars, cqVars, output_buffer, work,
                   active_q, countVars, nb_pkts_rcvd, exited, sent, gone>>

StopTransmit ==
    /\ pc["main"] = "stop transmit" /\ Len(output_buffer) < OutputCapacity
    /\ output_buffer' = Append(output_buffer, EndOfOutput)
    /\ Goto("main", "join")
    /\ UNCHANGED <<now, packet_id, rx_packet, inputVars, cqVars, egress_buffers, work,
                   active_q, countVars, nb_pkts_rcvd, exited, sent, gone>>

Join ==
    /\ pc["main"] = "join"
    /\ \A t \in Worker \cup {"transmit"} : pc[t] = "done"
    /\ Goto("main", "done")
    /\ UNCHANGED <<now, packet_id, rx_packet, inputVars, cqVars, egress_buffers,
                   output_buffer, work, active_q, countVars, nb_pkts_rcvd, exited,
                   sent, gone>>

----------------------------------------------------------------------------
ReceiveThread == Receive \/ ReceivePush \/ ReceiveCount
CountStep(t) == LoadDropped(t) \/ StoreDropped(t)
IngressThread ==
    \/ IngressPop \/ ResubmitPacket \/ DiscardOriginal \/ EnqueueCalendar
    \/ EnqueueNormal("ingress") \/ DropPacket("ingress") \/ CountStep("ingress")
CqThread ==
    \/ ReadActiveSlice \/ CalendarEmpty \/ CalendarPop \/ EmitPacket("cq")
    \/ RecirculatePacket("cq") \/ DropPacket("cq") \/ CountStep("cq")
EgressThread ==
    \/ EgressPop \/ EnqueueNormal("egress") \/ EmitPacket("egress")
    \/ RecirculatePacket("egress") \/ DropPacket("egress") \/ CountStep("egress")
Destructor == Destroy \/ StopIngress \/ StopEgress \/ StopTransmit \/ Join

Next ==
    \/ Tick
    \/ ~exited /\ (\/ ReceiveThread \/ IngressThread \/ CqThread \/ EgressThread
                   \/ Transmit \/ Destructor)

Spec == Init /\ [][Next]_vars

\* The operating system runs every thread that can run, and time passes.
\* A slice lasts 2^15 microseconds and the calendar thread takes a few per
\* step: each of its steps happens in every slice, if it can happen there
\* again and again.  Nothing makes packets arrive or the destructor start.
Fairness ==
    /\ WF_vars(Tick)
    /\ WF_vars(~exited /\ (ReceivePush \/ ReceiveCount))
    /\ WF_vars(~exited /\ IngressThread)
    /\ WF_vars(~exited /\ CqThread)
    /\ \A s \in CQ!Slice :
          /\ SF_vars(~exited /\ ts2time_slice(now) = s /\ ReadActiveSlice)
          /\ SF_vars(~exited /\ ts2time_slice(now) = s /\ CalendarEmpty)
          /\ SF_vars(~exited /\ ts2time_slice(now) = s /\ CqThread)
    /\ WF_vars(~exited /\ EgressThread)
    /\ WF_vars(~exited /\ Transmit)
    /\ WF_vars(~exited /\ (StopIngress \/ StopEgress \/ StopTransmit \/ Join))

FairSpec == Spec /\ Fairness
----------------------------------------------------------------------------
Tasked == TaskOf(Packet)
Outgoing == [pkt : Packet, port : Port, from : {"cq", "egress"}, queue : Nat]

Label == {"idle", "push", "count", "store", "pop", "read", "work", "running",
          "stop ingress", "stop egress", "stop transmit", "join", "done"}

ThreadsTyped ==
    /\ now \in 0 .. ClockModulus - 1
    /\ packet_id \in 0 .. MaxPackets
    /\ rx_packet \in Packet \cup {nullptr}
    /\ pc \in [Thread -> Label]
    /\ work \in [Worker -> Seq(Tasked)]
    /\ active_q \in CQ!Slice

BuffersTyped ==
    /\ queue_hi \in Seq(Packet \cup {nullptr})
    /\ queue_lo \in Seq(Packet)
    /\ egress_buffers \in [Queue -> Seq([pkt : Packet \cup {nullptr}, port : Port])]
    /\ output_buffer \in Seq(Outgoing \cup {EndOfOutput})
    /\ sent \in Seq(Outgoing)

CountersTyped ==
    /\ reg \in [Worker -> Nat]
    /\ nb_pkts_rcvd \in Nat /\ nb_pkts_dropped \in Nat
    /\ exited \in BOOLEAN /\ raced \in BOOLEAN

TypeOK == ThreadsTyped /\ BuffersTyped /\ CountersTyped /\ CQ!TypeOK

\* Every place where packet x is.
Whereabouts(x) ==
    {<<"hi", i>> : i \in {i \in DOMAIN queue_hi : queue_hi[i] = x}}
    \cup {<<"lo", i>> : i \in {i \in DOMAIN queue_lo : queue_lo[i] = x}}
    \cup {<<"rx", i>> : i \in {i \in {1} : rx_packet = x}}
    \cup {<<"out", i>> : i \in {i \in DOMAIN output_buffer : output_buffer[i].pkt = x}}
    \cup {<<"sent", i>> : i \in {i \in DOMAIN sent : sent[i].pkt = x}}
    \cup {<<"gone", g.why>> : g \in {g \in gone : g.pkt = x}}
    \cup (UNION {{<<"work", t, i>> :
                     i \in {i \in DOMAIN work[t] : work[t][i].pkt = x}} : t \in Worker})
    \cup (UNION {{<<"cq", s, i>> :
                     i \in {i \in DOMAIN calendar_queues[s] : calendar_queues[s][i].e = x}}
                  : s \in CQ!Slice})
    \cup (UNION {{<<"egress", q, i>> :
                     i \in {i \in DOMAIN egress_buffers[q] : egress_buffers[q][i].pkt = x}}
                  : q \in Queue})

\* No packet is ever lost without trace or handed over twice, whatever the
\* threads, the full buffers, the copies and the shutdown do
\* (unique_ptr<Packet> moved from buffer to buffer, tor_switch.cpp:553-978).
EveryPacketInOnePlace ==
    \A x \in 1 .. packet_id : Cardinality(Whereabouts(x)) = 1

CountedReasons == {"dropped", "bad priority", "calendar queue full"}
Counted == {g \in gone : g.why \in CountedReasons}
Settled == \A t \in Worker : pc[t] \notin {"count", "store"}

\* The drops of calendar queues, of bad priorities and of marks: their count
\* nb_pkts_dropped never exceeds them, and is exact when no two increments
\* ever overlapped (tor_switch.cpp:463, 470, 490, 712, 814, 943: plain
\* increments in three threads).
DropCountExactUnlessRaced ==
    /\ nb_pkts_dropped <= Cardinality(Counted)
    /\ ~raced /\ Settled => nb_pkts_dropped = Cardinality(Counted)

\* "push_front returns -1 if queue is full", and nb_pkts_dropped++ where it
\* does (tor_switch.cpp:496-497): the drops of full normal queues are counted
\* too.  The queue returns 0, as the loop of the destructor (310) expects.
TailDropsCounted ==
    ~raced /\ Settled =>
        nb_pkts_dropped =
            Cardinality({g \in gone : g.why \in CountedReasons \cup {"normal queue full"}})

\* The switch uses the calendar queues only through their operations, so it
\* inherits what CalendarQueueProofs proves of them.
UsesCalendarQueues == CQ!Spec

\* Packets received in this order for the same port that go through the same
\* queue (of a time slice, or of a priority) leave in that order: ingress,
\* queue, egress thread, output buffer and transmit thread keep it.
SameQueueSameOrder ==
    \A i, j \in DOMAIN sent :
        i < j /\ sent[i].port = sent[j].port /\ sent[i].from = sent[j].from
              /\ sent[i].queue = sent[j].queue
            => sent[i].pkt < sent[j].pkt

\* get_packet_loss_rate reads two counters that two threads write.  A packet
\* is counted as received after it is queued, so it may be dropped, and
\* counted as that, before: the rate may exceed 1, but the drops never exceed
\* the packets received by more than the one being received
\* (tor_switch.cpp:277-279, 405-415; without replicas).
LossRateBound ==
    nb_pkts_dropped <= nb_pkts_rcvd + (IF pc["rx"] = "count" THEN 1 ELSE 0)

\* Every packet received leaves the switch in the end: it is transmitted or
\* dropped, whichever slice it has to wait for, back pressure included,
\* unless the switch is destroyed meanwhile.
EveryPacketLeaves ==
    \A x \in Packet :
        x <= packet_id ~> \/ \E i \in DOMAIN sent : sent[i].pkt = x
                          \/ \E g \in gone : g.pkt = x
                          \/ pc["main"] # "running"

\* "Resubmit packets are dropped if the queue is full in order to make sure
\* the ingress thread cannot deadlock" (tor_switch.cpp:121-123): whatever it
\* is doing, the ingress thread comes back for the next packet.
IngressNeverStuck ==
    pc["ingress"] # "pop" ~> pc["ingress"] \in {"pop", "done"} \/ exited

\* A packet in the calendar queues is taken out in the end, even though its
\* deque is looked at only when the clock is seen in its slice.
CalendarDrains ==
    \A s \in CQ!Slice, x \in Packet :
        (\E i \in DOMAIN calendar_queues[s] : calendar_queues[s][i].e = x)
            ~> \/ exited
               \/ ~ \E i \in DOMAIN calendar_queues[s] : calendar_queues[s][i].e = x

\* The normal egress thread waits at the output buffer and the transmit
\* thread, which got its sentinel, will never make room.
OutputAbandoned ==
    /\ pc["transmit"] = "done" /\ Len(output_buffer) = OutputCapacity
    /\ HasTask("egress", "emit")

\* The sentinels reach the threads they are meant for: once the destructor
\* has started, the ingress, normal egress and transmit threads end.  The
\* exception is the one the order of the sentinels leaves: the one of the
\* output may overtake more packets than the output buffer holds
\* (tor_switch.cpp:302-317).
SentinelsStopThreads ==
    pc["main"] = "stop ingress" ~>
        \/ \A t \in {"ingress", "egress", "transmit"} : pc[t] = "done"
        \/ OutputAbandoned
=============================================================================
