--------------------------- MODULE OpticalSwitch ---------------------------
(***************************************************************************)
(* The optical switch target (targets/optical_switch/optical_switch.cpp):  *)
(* one ingress thread, several egress threads that share the ports out     *)
(* among them, the threads that receive and transmit, the control plane    *)
(* (mirroring sessions, queue depths) and the destructor.  Unlike the ToR, *)
(* it has no calendar and counts nothing, but it clones to sessions that   *)
(* may change while packets are under way.                                 *)
(*                                                                         *)
(* A step is what a thread does with one shared object: a queue operation, *)
(* a look-up of a session, a change of one.  work[t] is what thread t has  *)
(* still to do with its packet and the copies it made; the first task list *)
(* is the verdict of the P4 program.                                       *)
(***************************************************************************)
EXTENDS Naturals, SequencesExt

CONSTANTS
    Port,                  \* port numbers
    nb_egress_threads, nb_queues_per_port,
    LoCapacity, HiCapacity, OutputCapacity,
    Depths,                \* capacities the control plane may set; EgressDepth at first
    EgressDepth,
    MAX_MIRROR_SESSION_ID,
    MirrorId,              \* session ids the control plane tries
    Config,                \* the configurations it gives them
    Presets,               \* how a session may be set before the first packet
    Group,                 \* multicast group id -> the ports it replicates to
    IngressVerdicts, EgressVerdicts,
    MaxPackets,            \* bound: packets and copies ever created
    MaxUpdates,            \* bound: changes the control plane makes
    MayDestroy

\* No entry in sessions_map.
Unset == [mgid_valid |-> FALSE, egress_port_valid |-> FALSE]

ASSUME WorkersAssumption ==
    /\ nb_egress_threads \in Nat \ {0} /\ nb_queues_per_port \in Nat \ {0}
    /\ Port \subseteq Nat /\ 0 .. nb_egress_threads - 1 \subseteq Port
ASSUME RoomAssumption ==
    {LoCapacity, HiCapacity, OutputCapacity, EgressDepth} \cup Depths \subseteq Nat \ {0}
ASSUME SessionsAssumption ==
    /\ MAX_MIRROR_SESSION_ID \in Nat /\ MirrorId \subseteq Nat
    /\ Config \subseteq [mgid_valid : BOOLEAN, mgid : DOMAIN Group,
                         egress_port_valid : BOOLEAN, egress_port : Port]
    /\ Presets \subseteq Config \cup {Unset}
    /\ Group \in [DOMAIN Group -> Seq(Port)]

nullptr == 0
Queue == 0 .. nb_queues_per_port - 1

\* Threads are numbers: the egress threads by their worker_id, then the others.
Worker == 0 .. nb_egress_threads - 1
ingress == nb_egress_threads
transmit == nb_egress_threads + 1
rx == nb_egress_threads + 2
main == nb_egress_threads + 3
Handler == Worker \cup {ingress}
Thread == 0 .. main

SessionId == 0 .. MAX_MIRROR_SESSION_ID

VARIABLES
    packet_id,        \* serial number of the newest packet or copy
    rx_packet,        \* the packet receive_ is pushing
    queue_hi, queue_lo,
    egress_buffers,   \* [Worker -> [Queue -> Seq([pkt, port])]]
    depth,            \* [Port \X Queue -> Nat]
    output_buffer,
    pc, work,
    stop_i,           \* the destructor's loop variable
    sessions_map,     \* [SessionId -> Config or Unset]
    updates,          \* changes the control plane has made
    told,             \* history: the sessions as the control plane was answered
    seen,             \* history: answers in force since t took its packet
    used,             \* history: the configurations t cloned its packet by
    overtaken,        \* history: packets that came back to ingress, and copies
    sent, gone        \* history: packets transmitted, packets lost or dropped

inputVars == <<rx_packet, queue_hi, queue_lo>>
egressVars == <<egress_buffers, depth>>
outVars == <<output_buffer, sent>>
controlVars == <<sessions_map, updates, told>>
handlingVars == <<packet_id, work, seen, used, gone, overtaken>>
vars == <<inputVars, egressVars, outVars, controlVars, handlingVars, pc, stop_i>>
----------------------------------------------------------------------------
(* Tasks.  A verdict is what a pipeline leaves to its thread: perhaps a    *)
(* clone, then the fate of the packet.                                     *)

Task(op, p, id, pri) ==
    [op |-> op, pkt |-> nullptr, port |-> p, id |-> id, priority |-> pri]

Clone(id, pri) == Task("clone", 0, id, pri)
Multicast(g, pri) == Task("multicast", 0, g, pri)
Enqueue(p, pri) == Task("enqueue", p, 0, pri)
Resubmit == Task("resubmit", 0, 0, 0)
Recirculate == Task("recirculate", 0, 0, 0)
DropIt == Task("drop", 0, 0, 0)
Emit == Task("emit", 0, 0, 0)

Operation == {"clone", "multicast", "enqueue", "resubmit", "recirculate", "drop", "emit"}
AnyTask == [op : Operation, pkt : Nat, port : Port, id : Nat, priority : Nat]

IsVerdict(v, fates) ==
    /\ v \in Seq(AnyTask) /\ Len(v) \in {1, 2}
    /\ \A i \in DOMAIN v : v[i].op = "multicast" => v[i].id \in DOMAIN Group
    /\ Len(v) = 2 => v[1].op = "clone"
    /\ v[Len(v)].op \in fates

ASSUME VerdictsAssumption ==
    /\ \A v \in IngressVerdicts :
          IsVerdict(v, {"enqueue", "multicast", "resubmit", "drop"})
    /\ \A v \in EgressVerdicts : IsVerdict(v, {"emit", "recirculate", "drop"})

Ports(c) == IF c.mgid_valid THEN Group[c.mgid] ELSE << >>

\* The copies a task may still make; the bound on packets keeps room for them.
Copies(task) ==
    CASE task.op = "clone" -> Max({0} \cup {1 + Len(Ports(c)) : c \in Config})
      [] task.op = "multicast" -> Len(Group[task.id])
      [] OTHER -> 0
CopiesOf(tasks) == FoldLeft(LAMBDA n, task : n + Copies(task), 0, tasks)
RoomFor(n) ==
    packet_id + MapThenSumSet(LAMBDA t : CopiesOf(work[t]), Handler) + n <= MaxPackets

\* The part of a requested id that names a session.
Masked(id) == id % (MAX_MIRROR_SESSION_ID + 1)

Goto(t, label) == pc' = [pc EXCEPT ![t] = label]

\* The tasks of verdict v on packet x, which waited in queue q for port p.
Handed(v, x, p, q) ==
    [i \in DOMAIN v |->
        IF v[i].op = "emit" THEN [v[i] EXCEPT !.pkt = x, !.port = p, !.priority = q]
                            ELSE [v[i] EXCEPT !.pkt = x]]

\* Thread t took such a packet and ran a pipeline on it.
Process(t, x, p, q, verdicts) ==
    \E v \in verdicts :
        /\ RoomFor(CopiesOf(v))
        /\ work' = [work EXCEPT ![t] = Handed(v, x, p, q)]
        /\ seen' = [seen EXCEPT ![t] =
              IF v[1].op = "clone" THEN {told[Masked(v[1].id)]} ELSE {}]
        /\ Goto(t, "work")

HasTask(t, op) == pc[t] = "work" /\ Head(work[t]).op = op

\* The first task is replaced by others; without any the thread is done with
\* its packet.
GoOn(t, more) ==
    LET rest == more \o Tail(work[t])
    IN  /\ work' = [work EXCEPT ![t] = rest]
        /\ IF rest = << >>
             THEN /\ Goto(t, "pop")
                  /\ seen' = [seen EXCEPT ![t] = {}]
                  /\ used' = [used EXCEPT ![t] = {}]
             ELSE UNCHANGED <<pc, seen, used>>
----------------------------------------------------------------------------
Init ==
    /\ packet_id = 0 /\ rx_packet = nullptr
    /\ queue_hi = << >> /\ queue_lo = << >>
    /\ egress_buffers = [w \in Worker |-> [q \in Queue |-> << >>]]
    /\ depth = [k \in Port \X Queue |-> EgressDepth]
    /\ output_buffer = << >>
    /\ pc = [t \in Thread |-> CASE t = rx -> "idle"
                                [] t = main -> "running"
                                [] OTHER -> "pop"]
    /\ work = [t \in Handler |-> << >>]
    /\ stop_i = 0
    /\ sessions_map \in [SessionId -> Presets] /\ updates = 0
    /\ told = sessions_map
    /\ seen = [t \in Handler |-> {}] /\ used = [t \in Handler |-> {}]
    /\ overtaken = {} /\ sent = << >> /\ gone = {}

(* The control plane.                                                      *)

\* Faulty: an id in use keeps its configuration.
StoreSessionOnce(s, c) ==
    sessions_map' = IF sessions_map[s] = Unset THEN [sessions_map EXCEPT ![s] = c]
                                               ELSE sessions_map

StoreSession(s, c) == sessions_map' = [sessions_map EXCEPT ![s] = c]

\* What the caller is told is in force for session s from now on.
Answer(s, c) ==
    /\ told' = [told EXCEPT ![s] = c]
    /\ seen' = [t \in Handler |->
          IF pc[t] = "work" /\ Head(work[t]).op = "clone" /\ Masked(Head(work[t]).id) = s
            THEN seen[t] \cup {c} ELSE seen[t]]

\* mirroring_add_session: refused when the id is out of range.
AddSession(s, c) ==
    /\ IF s \in SessionId THEN StoreSession(s, c) /\ Answer(s, c)
                          ELSE UNCHANGED <<sessions_map, told, seen>>
    /\ UNCHANGED <<inputVars, egressVars, outVars, packet_id, work, used, gone,
                   overtaken, pc, stop_i>>

\* mirroring_delete_session.
DeleteSession(s) ==
    /\ IF s \in SessionId
         THEN /\ sessions_map' = [sessions_map EXCEPT ![s] = Unset]
              /\ Answer(s, Unset)
         ELSE UNCHANGED <<sessions_map, told, seen>>
    /\ UNCHANGED <<inputVars, egressVars, outVars, packet_id, work, used, gone,
                   overtaken, pc, stop_i>>

\* set_egress_priority_queue_depth, set_egress_queue_depth,
\* set_all_egress_queue_depths: what is queued stays.
SetDepth(ports, queues, d) ==
    /\ depth' = [k \in Port \X Queue |->
                    IF k[1] \in ports /\ k[2] \in queues THEN d ELSE depth[k]]
    /\ UNCHANGED <<inputVars, egress_buffers, outVars, sessions_map, told,
                   handlingVars, pc, stop_i>>

Control ==
    /\ pc[main] = "running" /\ updates < MaxUpdates
    /\ updates' = updates + 1
    /\ \/ \E s \in MirrorId : DeleteSession(s) \/ \E c \in Config : AddSession(s, c)
       \/ \E d \in Depths :
            \/ SetDepth(Port, Queue, d)
            \/ \E p \in Port : SetDepth({p}, Queue, d) \/ \E q \in Queue : SetDepth({p}, {q}, d)
----------------------------------------------------------------------------
(* receive_: packets from the wire wait for room in the input buffer.      *)

Receive ==
    /\ pc[rx] = "idle" /\ RoomFor(1)
    /\ packet_id' = packet_id + 1 /\ rx_packet' = packet_id + 1
    /\ Goto(rx, "push")
    /\ UNCHANGED <<queue_hi, queue_lo, egressVars, outVars, controlVars,
                   work, seen, used, gone, overtaken, stop_i>>

\* Faulty: the pointer is pushed after the packet was moved out of it.
ReceivePushMoved ==
    /\ pc[rx] = "push" /\ Len(queue_lo) < LoCapacity
    /\ queue_lo' = Append(queue_lo, nullptr) /\ rx_packet' = nullptr
    /\ Goto(rx, "idle")
    /\ UNCHANGED <<queue_hi, egressVars, outVars, controlVars,
                   handlingVars, stop_i>>

ReceivePush ==
    /\ pc[rx] = "push" /\ Len(queue_lo) < LoCapacity
    /\ queue_lo' = Append(queue_lo, rx_packet) /\ rx_packet' = nullptr
    /\ Goto(rx, "idle")
    /\ UNCHANGED <<queue_hi, egressVars, outVars, controlVars,
                   handlingVars, stop_i>>

\* ingress_thread: the high-priority queue first; the sentinel ends it.
IngressTake(x) ==
    /\ IF x = nullptr THEN Goto(ingress, "done") /\ UNCHANGED <<work, seen>>
                      ELSE Process(ingress, x, 0, 0, IngressVerdicts)
    /\ UNCHANGED <<rx_packet, egressVars, outVars, controlVars,
                   packet_id, used, gone,
                   overtaken, stop_i>>

IngressPop ==
    /\ pc[ingress] = "pop"
    /\ \/ /\ queue_hi # << >>
          /\ queue_hi' = Tail(queue_hi) /\ UNCHANGED queue_lo
          /\ IngressTake(Head(queue_hi))
       \/ /\ queue_hi = << >> /\ queue_lo # << >>
          /\ queue_lo' = Tail(queue_lo) /\ UNCHANGED queue_hi
          /\ IngressTake(Head(queue_lo))

\* Faulty: the thread waits for room in the queue that it alone empties.
PushBackWaits(t, x) ==
    /\ Len(queue_hi) < HiCapacity
    /\ queue_hi' = Append(queue_hi, x) /\ UNCHANGED gone

\* A resubmitted or recirculated packet that finds no room is gone.
PushBack(t, x) ==
    IF Len(queue_hi) < HiCapacity
      THEN queue_hi' = Append(queue_hi, x) /\ UNCHANGED gone
      ELSE gone' = gone \cup {x} /\ UNCHANGED queue_hi

BackToIngress(t, op) ==
    /\ HasTask(t, op)
    /\ PushBack(t, Head(work[t]).pkt)
    /\ overtaken' = overtaken \cup {Head(work[t]).pkt}
    /\ GoOn(t, << >>)
    /\ UNCHANGED <<rx_packet, queue_lo, egressVars, outVars, controlVars, packet_id,
                   stop_i>>

DropPacket(t) ==
    /\ HasTask(t, "drop")
    /\ gone' = gone \cup {Head(work[t]).pkt}
    /\ GoOn(t, << >>)
    /\ UNCHANGED <<inputVars, egressVars, outVars, controlVars, packet_id, overtaken,
                   stop_i>>

\* multicast(): one new packet per port; numbered from the newest packet on.
Replicate(ports, from, pri) ==
    [i \in DOMAIN ports |-> [Enqueue(ports[i], pri) EXCEPT !.pkt = from + i]]

\* Faulty: the original of a multicast is neither freed nor sent.
DiscardOriginalForgotten(x) == UNCHANGED gone

DiscardOriginal(x) == gone' = gone \cup {x}

MulticastPacket ==
    /\ HasTask(ingress, "multicast")
    /\ LET task == Head(work[ingress])
           ports == Group[task.id]
       IN  /\ packet_id' = packet_id + Len(ports)
           /\ overtaken' = overtaken \cup (packet_id + 1 .. packet_id')
           /\ DiscardOriginal(task.pkt)
           /\ GoOn(ingress, Replicate(ports, packet_id, task.priority))
    /\ UNCHANGED <<inputVars, egressVars, outVars, controlVars, stop_i>>

\* Cloning looks the session up.  The copy is replicated to the group of the
\* session, then queued for its port, if it has them.
ClonePacket(t) ==
    /\ HasTask(t, "clone")
    /\ LET task == Head(work[t])
           c == sessions_map[Masked(task.id)]
           copy == packet_id + 1
       IN  /\ used' = [used EXCEPT ![t] = {c}]
           /\ IF c = Unset
                THEN /\ work' = [work EXCEPT ![t] = Tail(@)]
                     /\ UNCHANGED <<packet_id, gone, overtaken>>
                ELSE /\ packet_id' = copy + Len(Ports(c))
                     /\ overtaken' = overtaken \cup (copy .. packet_id')
                     /\ work' = [work EXCEPT ![t] =
                           Replicate(Ports(c), copy, task.priority)
                           \o (IF c.egress_port_valid
                                 THEN <<[Enqueue(c.egress_port, task.priority)
                                            EXCEPT !.pkt = copy]>>
                                 ELSE << >>)
                           \o Tail(@)]
                     /\ gone' = IF c.egress_port_valid THEN gone ELSE gone \cup {copy}
    /\ UNCHANGED <<inputVars, egressVars, outVars, controlVars, seen, pc, stop_i>>

\* Faulty: packets are spread over the workers whatever their port.
WorkerOfAny(p) == packet_id % nb_egress_threads

\* EgressThreadMapper.
WorkerOf(p) == p % nb_egress_threads

EgressSize(p, q) ==
    LET buffer == egress_buffers[WorkerOf(p)][q]
    IN  Cardinality({i \in DOMAIN buffer : buffer[i].port = p})

\* QueueingLogicPriRL::push_front, when there is room.
PushEgress(p, q, x) ==
    /\ EgressSize(p, q) < depth[p, q]
    /\ egress_buffers' = [egress_buffers EXCEPT
          ![WorkerOf(p)][q] = Append(@, [pkt |-> x, port |-> p])]
    /\ UNCHANGED depth

\* enqueue(): a bad priority or a full queue loses the packet, uncounted.
EnqueuePacket(t) ==
    /\ HasTask(t, "enqueue")
    /\ LET task == Head(work[t])
           q == nb_queues_per_port - 1 - task.priority
       IN  \/ /\ task.priority < nb_queues_per_port
                    => EgressSize(task.port, q) >= depth[task.port, q]
              /\ gone' = gone \cup {task.pkt} /\ UNCHANGED egressVars
           \/ /\ task.priority < nb_queues_per_port
              /\ PushEgress(task.port, q, task.pkt) /\ UNCHANGED gone
    /\ GoOn(t, << >>)
    /\ UNCHANGED <<inputVars, outVars, controlVars, packet_id, overtaken, stop_i>>

\* egress_thread: the lowest-numbered queue that holds something comes first.
EgressPop(w) ==
    /\ pc[w] = "pop"
    /\ \E q \in Queue :
        /\ egress_buffers[w][q] # << >>
        /\ \A r \in Queue : r < q => egress_buffers[w][r] = << >>
        /\ egress_buffers' = [egress_buffers EXCEPT ![w][q] = Tail(@)]
        /\ LET head == Head(egress_buffers[w][q])
           IN  IF head.pkt = nullptr
                 THEN Goto(w, "done") /\ UNCHANGED <<work, seen>>
                 ELSE Process(w, head.pkt, head.port, q, EgressVerdicts)
    /\ UNCHANGED <<inputVars, depth, outVars, controlVars, packet_id, used, gone,
                   overtaken, stop_i>>

EmitPacket(w) ==
    /\ HasTask(w, "emit") /\ Len(output_buffer) < OutputCapacity
    /\ output_buffer' = Append(output_buffer,
          [pkt |-> Head(work[w]).pkt, port |-> Head(work[w]).port,
           queue |-> Head(work[w]).priority])
    /\ GoOn(w, << >>)
    /\ UNCHANGED <<inputVars, egressVars, sent, controlVars, packet_id, gone,
                   overtaken, stop_i>>

EndOfOutput == [pkt |-> nullptr, port |-> 0, queue |-> 0]

Transmit ==
    /\ pc[transmit] = "pop" /\ output_buffer # << >>
    /\ output_buffer' = Tail(output_buffer)
    /\ IF Head(output_buffer).pkt = nullptr
         THEN Goto(transmit, "done") /\ UNCHANGED sent
         ELSE sent' = Append(sent, Head(output_buffer)) /\ UNCHANGED pc
    /\ UNCHANGED <<inputVars, egressVars, controlVars, handlingVars, stop_i>>
----------------------------------------------------------------------------
(* The destructor: a sentinel to ingress, one to every egress thread       *)
(* (through the port of the same number, retried until there is room), one *)
(* to the transmit thread; then join them all.                             *)

Destroy ==
    /\ MayDestroy /\ pc[main] = "running"
    /\ Goto(main, "stop ingress")
    /\ UNCHANGED <<inputVars, egressVars, outVars, controlVars, handlingVars, stop_i>>

StopIngress ==
    /\ pc[main] = "stop ingress" /\ Len(queue_hi) < HiCapacity
    /\ queue_hi' = Append(queue_hi, nullptr)
    /\ Goto(main, "stop egress")
    /\ UNCHANGED <<rx_packet, queue_lo, egressVars, outVars, controlVars,
                   handlingVars, stop_i>>

\* Faulty: the last thread is left out.
StopEgressAllButOne ==
    /\ pc[main] = "stop egress" /\ stop_i < nb_egress_threads
    /\ IF stop_i < nb_egress_threads - 1 THEN PushEgress(stop_i, 0, nullptr)
                                         ELSE UNCHANGED egressVars
    /\ stop_i' = stop_i + 1
    /\ UNCHANGED <<inputVars, outVars, controlVars, handlingVars, pc>>

StopEgress ==
    /\ pc[main] = "stop egress" /\ stop_i < nb_egress_threads
    /\ PushEgress(stop_i, 0, nullptr)
    /\ stop_i' = stop_i + 1
    /\ UNCHANGED <<inputVars, outVars, controlVars, handlingVars, pc>>

StopTransmit ==
    /\ pc[main] = "stop egress" /\ stop_i = nb_egress_threads
    /\ Len(output_buffer) < OutputCapacity
    /\ output_buffer' = Append(output_buffer, EndOfOutput)
    /\ Goto(main, "join")
    /\ UNCHANGED <<inputVars, egressVars, sent, controlVars, handlingVars, stop_i>>

Join ==
    /\ pc[main] = "join"
    /\ \A t \in Handler \cup {transmit} : pc[t] = "done"
    /\ Goto(main, "done")
    /\ UNCHANGED <<inputVars, egressVars, outVars, controlVars, handlingVars, stop_i>>
----------------------------------------------------------------------------
Copying(t) == ClonePacket(t) \/ EnqueuePacket(t)
IngressThread ==
    \/ IngressPop \/ Copying(ingress) \/ BackToIngress(ingress, "resubmit")
    \/ MulticastPacket \/ DropPacket(ingress)
EgressThread(w) ==
    \/ EgressPop(w) \/ Copying(w) \/ DropPacket(w) \/ BackToIngress(w, "recirculate")
    \/ EmitPacket(w)
Stop == StopIngress \/ StopEgress \/ StopTransmit \/ Join

Next ==
    \/ Control \/ Receive \/ ReceivePush \/ IngressThread \/ Transmit
    \/ \E w \in Worker : EgressThread(w)
    \/ Destroy \/ Stop

Spec == Init /\ [][Next]_vars

\* The operating system runs every thread that can run; packets, control
\* calls and the destructor come or do not come.
Fairness ==
    /\ WF_vars(ReceivePush) /\ WF_vars(IngressThread) /\ WF_vars(Transmit)
    /\ \A w \in Worker : WF_vars(EgressThread(w))
    /\ WF_vars(Stop)

FairSpec == Spec /\ Fairness
----------------------------------------------------------------------------
Packet == 1 .. packet_id

TypeOK ==
    /\ packet_id \in Nat /\ rx_packet \in Packet \cup {nullptr}
    /\ queue_hi \in Seq(Packet \cup {nullptr}) /\ queue_lo \in Seq(Packet)
    /\ egress_buffers \in
          [Worker -> [Queue -> Seq([pkt : Packet \cup {nullptr}, port : Port])]]
    /\ depth \in [Port \X Queue -> Nat \ {0}]
    /\ output_buffer \in
          Seq([pkt : Packet, port : Port, queue : Queue] \cup {EndOfOutput})
    /\ sessions_map \in [SessionId -> Config \cup {Unset}]
    /\ \A t \in Handler : (pc[t] = "work") <=> (work[t] # << >>)

\* The places where a packet can be.  The second component tells those of one
\* kind apart.
Line ==
    ({"rx", "hi", "lo", "out", "sent", "gone"} \X {0})
    \cup ({"work"} \X Handler) \cup ({"egress"} \X (Worker \X Queue))

\* What is there, except in "gone", in order.
Content(k) ==
    CASE k[1] = "rx" -> <<rx_packet>>
      [] k[1] = "hi" -> queue_hi
      [] k[1] = "lo" -> queue_lo
      [] k[1] = "work" -> work[k[2]]
      [] k[1] = "egress" -> egress_buffers[k[2][1]][k[2][2]]
      [] k[1] = "out" -> output_buffer
      [] OTHER -> sent

\* Whether e stands for packet x there.  A clone does not, since the fate of
\* its packet comes after it.
StandsFor(k, e, x) ==
    IF k[1] \in {"rx", "hi", "lo"} THEN e = x
                                  ELSE e.pkt = x /\ (k[1] = "work" => e.op # "clone")

\* Where in line k packet x is.
Spots(k, x) ==
    IF k[1] = "gone" THEN gone \cap {x}
                     ELSE {i \in DOMAIN Content(k) : StandsFor(k, Content(k)[i], x)}

Whereabouts(x) == UNION {{k} \X Spots(k, x) : k \in Line}

\* No packet is lost without trace or handed over twice, however the egress
\* threads, the copies, the full queues, the changes of depth and the
\* shutdown interleave (unique_ptr moved from place to place,
\* optical_switch.cpp:486-787).
EveryPacketInOnePlace == \A x \in Packet : Cardinality(Whereabouts(x)) = 1

\* Packets for the same port and queue leave in the order they were received,
\* although several threads serve the ports: a port belongs to one thread
\* (EgressThreadMapper, optical_switch.h:163-172).  Copies and packets that
\* went round are exempt.
SamePortSameOrder ==
    \A i, j \in DOMAIN sent :
        i < j /\ sent[i].port = sent[j].port /\ sent[i].queue = sent[j].queue
              /\ {sent[i].pkt, sent[j].pkt} \cap overtaken = {}
            => sent[i].pkt < sent[j].pkt

\* The data path follows the control plane: a packet is cloned by a
\* configuration that was in force, by the answers the control plane had got,
\* at some moment since its thread took it, and never by an older one
\* (mirroring_get_session, optical_switch.cpp:568-569, 720-721).
ClonesFollowAnswers == \A t \in Handler : used[t] \subseteq seen[t]

\* "Resubmit packets are dropped if the queue is full in order to make sure
\* the ingress thread cannot deadlock" (optical_switch.cpp:121-123).
IngressNeverStuck == pc[ingress] = "work" ~> pc[ingress] # "work"

\* An egress thread waits at the output buffer and the transmit thread,
\* which got its sentinel, will never make room.
OutputAbandoned ==
    /\ pc[transmit] = "done" /\ Len(output_buffer) = OutputCapacity
    /\ \E w \in Worker : HasTask(w, "emit")

\* Once the ingress thread has its sentinel the destructor returns: every
\* egress thread gets a sentinel of its own, every thread ends
\* (optical_switch.cpp:296-313).  The exception is the one the order of the
\* sentinels leaves: the one of the output may overtake more packets than the
\* output buffer holds.
DestructorReturns ==
    pc[main] = "stop egress" ~> pc[main] = "done" \/ OutputAbandoned
============================================================================
