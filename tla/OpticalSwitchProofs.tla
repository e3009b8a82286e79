------------------------ MODULE OpticalSwitchProofs ------------------------
(***************************************************************************)
(* Proofs about the optical switch, for every number of egress threads,    *)
(* ports, queues and sessions, every P4 program and every control plane.   *)
(*                                                                         *)
(* Sessions (SInv): clones are made by configurations in force.            *)
(*                                                                         *)
(* Order (OInv): on its way a packet passes seven stages.  Fresh packets,  *)
(* those that are no copies and did not go round, only ever move from one  *)
(* stage to the one before it in the list, and the packet that moves is    *)
(* the oldest of its stage.                                                *)
(*                                                                         *)
(* Places (PInv): a step moves at most one packet from one line to         *)
(* another, or makes new ones in the hands of a thread, and leaves the     *)
(* others where they are.                                                  *)
(***************************************************************************)
EXTENDS OpticalSwitch, FiniteSetTheorems, TLAPS

Answers == Config \cup {Unset}

\* What an egress buffer holds.
Queued == [pkt : Nat, port : Port]

\* What packets are and where they are allowed to be.
QueuesTyped ==
    /\ packet_id \in Nat /\ rx_packet \in Nat /\ stop_i \in Nat
    /\ queue_hi \in Seq(Nat) /\ queue_lo \in Seq(Nat)
    /\ egress_buffers \in [Worker -> [Queue -> Seq(Queued)]]

Label == {"pop", "work", "done", "idle", "push", "running", "stop ingress",
          "stop egress", "join"}

\* Work that a thread may have: only the first task can be a clone, and the
\* fate of the packet comes after it.
IsWork(tasks) ==
    /\ tasks \in Seq(AnyTask)
    /\ \A i \in DOMAIN tasks :
          /\ tasks[i].op = "multicast" => tasks[i].id \in DOMAIN Group
          /\ tasks[i].op = "clone" => i = 1 /\ Len(tasks) > 1

WorkTyped ==
    /\ pc \in [Thread -> Label]
    /\ work \in [Handler -> Seq(AnyTask)]
    /\ \A t \in Handler :
          /\ IsWork(work[t])
          /\ pc[t] = "work" => work[t] # << >>

\* The sessions are those of the answers; a thread that is about to clone has
\* seen the answer that is in force.
SessionsFollow ==
    /\ sessions_map \in [SessionId -> Answers] /\ told = sessions_map
    /\ seen \in [Handler -> SUBSET Answers] /\ used \in [Handler -> SUBSET Answers]
    /\ \A t \in Handler :
          /\ used[t] \subseteq seen[t]
          /\ pc[t] # "work" => used[t] = {}
          /\ HasTask(t, "clone") => told[Masked(Head(work[t]).id)] \in seen[t]

SInv == QueuesTyped /\ WorkTyped /\ SessionsFollow
----------------------------------------------------------------------------
LEMMA Threads ==
    /\ Handler \subseteq Thread /\ Worker \subseteq Handler /\ ingress \in Handler
    /\ ingress \notin Worker
    /\ rx \in Thread /\ rx \notin Handler
    /\ main \in Thread /\ main \notin Handler
    /\ transmit \in Thread /\ transmit \notin Handler
BY WorkersAssumption
   DEF Handler, Thread, Worker, ingress, rx, main, transmit

LEMMA MaskedInRange == ASSUME NEW id \in Nat PROVE Masked(id) \in SessionId
BY SessionsAssumption DEF Masked, SessionId

\* The work that processing a packet leaves to its thread.
LEMMA VerdictIsWork ==
    ASSUME NEW v, NEW fates, "clone" \notin fates, IsVerdict(v, fates),
           NEW x \in Nat, NEW p \in Port, NEW q \in Nat
    PROVE  LET tasks == Handed(v, x, p, q)
           IN  /\ IsWork(tasks) /\ tasks # << >>
               /\ Head(tasks).op = v[1].op /\ Head(tasks).id = v[1].id
               /\ v[1].id \in Nat
<1> DEFINE tasks == Handed(v, x, p, q)
<1>0. v \in Seq(AnyTask) /\ Len(v) \in {1, 2}
  BY DEF IsVerdict
<1>1. 1 \in DOMAIN v /\ DOMAIN v = 1 .. Len(v)
  BY <1>0
<1>2. \A i \in DOMAIN v : v[i] \in AnyTask
  BY <1>0
<1>dom. DOMAIN tasks = DOMAIN v
  BY DEF Handed
<1>3. \A i \in DOMAIN v :
          tasks[i] \in AnyTask /\ tasks[i].op = v[i].op /\ tasks[i].id = v[i].id
  <2> SUFFICES ASSUME NEW i \in DOMAIN v
               PROVE  tasks[i] \in AnyTask /\ tasks[i].op = v[i].op /\ tasks[i].id = v[i].id
    OBVIOUS
  <2>1. v[i] \in AnyTask
    BY <1>2
  <2>2. tasks[i] = IF v[i].op = "emit"
                     THEN [v[i] EXCEPT !.pkt = x, !.port = p, !.priority = q]
                     ELSE [v[i] EXCEPT !.pkt = x]
    BY DEF Handed
  <2> HIDE DEF tasks
  <2> QED
    BY <2>1, <2>2 DEF AnyTask
<1>fn. tasks = [i \in 1 .. Len(v) |-> tasks[i]]
  BY <1>1 DEF Handed
<1> HIDE DEF tasks
<1>4. tasks \in Seq(AnyTask) /\ Len(tasks) = Len(v)
  BY <1>0, <1>1, <1>3, <1>fn
<1>5. v[Len(v)].op # "clone"
  BY DEF IsVerdict
<1>6. \A i \in DOMAIN v : v[i].op = "clone" => i = 1 /\ Len(v) > 1
  BY <1>0, <1>1, <1>5
<1>7. \A i \in DOMAIN v : v[i].op = "multicast" => v[i].id \in DOMAIN Group
  BY DEF IsVerdict
<1>8. IsWork(tasks)
  BY <1>3, <1>4, <1>dom, <1>6, <1>7 DEF IsWork
<1>9. tasks # << >> /\ Head(tasks) = tasks[1]
  BY <1>0, <1>4
<1>10. v[1].id \in Nat
  BY <1>1, <1>2 DEF AnyTask
<1>11. Head(tasks).op = v[1].op /\ Head(tasks).id = v[1].id
  BY <1>1, <1>3, <1>9
<1> QED
  BY <1>8, <1>9, <1>10, <1>11 DEF tasks

\* What follows the first task, and copies put in front of it, holds no clone.
LEMMA RestIsWork ==
    ASSUME NEW tasks, IsWork(tasks), tasks # << >>,
           NEW more \in Seq(AnyTask),
           \A i \in DOMAIN more : more[i].op \notin {"clone", "multicast"}
    PROVE  LET rest == more \o Tail(tasks)
           IN  /\ IsWork(rest)
               /\ \A i \in DOMAIN rest : rest[i].op # "clone"
<1> DEFINE rest == more \o Tail(tasks)
<1>1. tasks \in Seq(AnyTask) /\ Tail(tasks) \in Seq(AnyTask)
  BY DEF IsWork
<1>2. \A i \in DOMAIN Tail(tasks) : i + 1 \in DOMAIN tasks /\ Tail(tasks)[i] = tasks[i + 1]
                                    /\ i \in Nat /\ i + 1 # 1
  BY <1>1
<1>3. \A i \in DOMAIN Tail(tasks) :
          /\ Tail(tasks)[i].op # "clone"
          /\ Tail(tasks)[i].op = "multicast" => Tail(tasks)[i].id \in DOMAIN Group
  BY <1>2 DEF IsWork
<1>4. rest \in Seq(AnyTask)
  BY <1>1
<1>5. \A i \in DOMAIN rest :
          \/ i \in DOMAIN more /\ rest[i] = more[i]
          \/ i - Len(more) \in DOMAIN Tail(tasks) /\ rest[i] = Tail(tasks)[i - Len(more)]
  BY <1>1
<1>6. \A i \in DOMAIN rest :
          /\ rest[i].op # "clone"
          /\ rest[i].op = "multicast" => rest[i].id \in DOMAIN Group
  BY <1>3, <1>5
<1> QED
  BY <1>4, <1>6 DEF IsWork

\* A thread that is done with its first task has none left to clone, and
\* forgets what it saw when it is done with its packet.
LEMMA GoOnKeeps ==
    ASSUME WorkTyped, SessionsFollow,
           NEW t \in Handler, pc[t] = "work",
           NEW more \in Seq(AnyTask),
           \A i \in DOMAIN more : more[i].op \notin {"clone", "multicast"},
           GoOn(t, more), UNCHANGED <<sessions_map, told>>
    PROVE  WorkTyped' /\ SessionsFollow'
<1> DEFINE rest == more \o Tail(work[t])
<1>1. IsWork(work[t]) /\ work[t] # << >>
  BY DEF WorkTyped
<1>2. IsWork(rest) /\ \A i \in DOMAIN rest : rest[i].op # "clone"
  BY <1>1, RestIsWork
<1>3. rest \in Seq(AnyTask)
  BY <1>2 DEF IsWork
<1>4. rest # << >> => Head(rest).op # "clone"
  BY <1>2, <1>3
<1>5. work' = [work EXCEPT ![t] = rest]
  BY DEF GoOn
<1>6. pc \in [Thread -> Label] /\ t \in Thread
  BY Threads DEF WorkTyped
<1> HIDE DEF rest
<1>7. \/ /\ rest = << >> /\ pc' = [pc EXCEPT ![t] = "pop"]
         /\ seen' = [seen EXCEPT ![t] = {}] /\ used' = [used EXCEPT ![t] = {}]
      \/ rest # << >> /\ UNCHANGED <<pc, seen, used>>
  BY DEF GoOn, Goto, rest
<1>8. WorkTyped'
  <2>1. work' \in [Handler -> Seq(AnyTask)] /\ pc' \in [Thread -> Label]
    <3>1. work' \in [Handler -> Seq(AnyTask)]
      BY <1>3, <1>5 DEF WorkTyped
    <3>2. pc' = pc \/ pc' = [pc EXCEPT ![t] = "pop"]
      BY <1>7
    <3>3. pc' \in [Thread -> Label]
      BY <1>6, <3>2 DEF Label
    <3> QED BY <3>1, <3>3
  <2>2. ASSUME NEW u \in Handler
        PROVE  IsWork(work'[u]) /\ (pc'[u] = "work" => work'[u] # << >>)
    <3>1. CASE u = t
      <4>1. work'[u] = rest
        BY <1>5, <3>1 DEF WorkTyped
      <4>2. rest = << >> => pc'[u] # "work"
        BY <1>6, <1>7, <3>1
      <4> QED
        BY <1>2, <4>1, <4>2
    <3>2. CASE u # t
      <4>1. work'[u] = work[u] /\ pc'[u] = pc[u]
        BY <3>2, <1>5, <1>6, <1>7, Threads DEF WorkTyped
      <4> QED
        BY <4>1 DEF WorkTyped
    <3> QED BY <3>1, <3>2
  <2> QED
    BY <2>1, <2>2 DEF WorkTyped, IsWork
<1>9. (SessionsFollow)'
  <2>1. seen' \in [Handler -> SUBSET Answers] /\ used' \in [Handler -> SUBSET Answers]
    BY <1>7 DEF SessionsFollow
  <2>2. ASSUME NEW u \in Handler
        PROVE  /\ used'[u] \subseteq seen'[u]
               /\ pc'[u] # "work" => used'[u] = {}
               /\ HasTask(u, "clone")' => told'[Masked(Head(work'[u]).id)] \in seen'[u]
    <3>1. CASE u = t
      <4>1. work'[u] = rest
        BY <1>5, <3>1 DEF WorkTyped
      <4>2. ~ HasTask(u, "clone")'
        <5>1. CASE rest = << >>
          BY <5>1, <1>6, <1>7, <3>1 DEF HasTask
        <5>2. CASE rest # << >>
          BY <5>2, <1>4, <4>1 DEF HasTask
        <5> QED BY <5>1, <5>2
      <4>3. used'[u] \subseteq seen'[u] /\ (pc'[u] # "work" => used'[u] = {})
        BY <1>6, <1>7, <3>1 DEF SessionsFollow
      <4> QED BY <4>2, <4>3
    <3>2. CASE u # t
      <4>1. work'[u] = work[u] /\ pc'[u] = pc[u] /\ seen'[u] = seen[u] /\ used'[u] = used[u]
        BY <3>2, <1>5, <1>6, <1>7, Threads DEF WorkTyped, SessionsFollow
      <4> QED
        BY <4>1 DEF SessionsFollow, HasTask, Masked
    <3> QED BY <3>1, <3>2
  <2> QED
    BY <2>1, <2>2 DEF SessionsFollow
<1> QED BY <1>8, <1>9

\* A thread that takes a packet has seen the answer in force, if it is going
\* to clone, and has cloned nothing yet.
LEMMA ProcessKeeps ==
    ASSUME WorkTyped, SessionsFollow,
           NEW t \in Handler, pc[t] = "pop",
           NEW x \in Nat, NEW p \in Port, NEW q \in Nat,
           NEW verdicts, NEW fates, "clone" \notin fates,
           \A v \in verdicts : IsVerdict(v, fates),
           Process(t, x, p, q, verdicts), UNCHANGED <<sessions_map, told, used>>
    PROVE  WorkTyped' /\ SessionsFollow'
<1>1. PICK v \in verdicts :
          /\ work' = [work EXCEPT ![t] = Handed(v, x, p, q)]
          /\ seen' = [seen EXCEPT ![t] =
                IF v[1].op = "clone" THEN {told[Masked(v[1].id)]} ELSE {}]
          /\ pc' = [pc EXCEPT ![t] = "work"]
  BY DEF Process, Goto
<1> DEFINE tasks == Handed(v, x, p, q)
<1>2. /\ IsWork(tasks) /\ tasks # << >>
      /\ Head(tasks).op = v[1].op /\ Head(tasks).id = v[1].id /\ v[1].id \in Nat
  BY VerdictIsWork
<1>3. tasks \in Seq(AnyTask)
  BY <1>2 DEF IsWork
<1> HIDE DEF tasks
<1>4. work' = [work EXCEPT ![t] = tasks]
  BY <1>1 DEF tasks
<1>5. pc \in [Thread -> Label] /\ t \in Thread
  BY Threads DEF WorkTyped
<1>6. told[Masked(v[1].id)] \in Answers
  BY <1>2, MaskedInRange DEF SessionsFollow
<1>7. /\ work' \in [Handler -> Seq(AnyTask)] /\ pc' \in [Thread -> Label]
      /\ seen' \in [Handler -> SUBSET Answers]
  <2>1. work' \in [Handler -> Seq(AnyTask)]
    BY <1>3, <1>4 DEF WorkTyped
  <2>2. pc' \in [Thread -> Label]
    BY <1>1, <1>5 DEF Label
  <2>3. seen' \in [Handler -> SUBSET Answers]
    BY <1>1, <1>6 DEF SessionsFollow
  <2> QED BY <2>1, <2>2, <2>3
<1>8. used[t] = {}
  BY DEF SessionsFollow
<1>9. ASSUME NEW u \in Handler
      PROVE  /\ IsWork(work'[u]) /\ (pc'[u] = "work" => work'[u] # << >>)
             /\ used'[u] \subseteq seen'[u]
             /\ pc'[u] # "work" => used'[u] = {}
             /\ HasTask(u, "clone")' => told'[Masked(Head(work'[u]).id)] \in seen'[u]
  <2>1. CASE u = t
    <3>1. work'[u] = tasks /\ used'[u] = {}
      BY <1>4, <1>8, <2>1 DEF WorkTyped
    <3>2. v[1].op = "clone" => seen'[u] = {told[Masked(v[1].id)]}
      BY <1>1, <2>1 DEF SessionsFollow
    <3>3. HasTask(u, "clone")' => told'[Masked(Head(work'[u]).id)] \in seen'[u]
      BY <1>2, <3>1, <3>2 DEF HasTask
    <3> QED
      BY <1>2, <3>1, <3>3
  <2>2. CASE u # t
    <3>1. work'[u] = work[u] /\ pc'[u] = pc[u] /\ seen'[u] = seen[u] /\ used'[u] = used[u]
      BY <2>2, <1>1, <1>4, <1>5, Threads DEF WorkTyped, SessionsFollow
    <3> QED
      BY <3>1 DEF WorkTyped, SessionsFollow, HasTask, Masked
  <2> QED BY <2>1, <2>2
<1> QED
  BY <1>7, <1>9 DEF WorkTyped, SessionsFollow, IsWork

\* What the other threads do concerns no thread that has a packet at hand.
LEMMA OthersKeep ==
    ASSUME WorkTyped, SessionsFollow, pc' \in [Thread -> Label],
           \A t \in Handler : pc'[t] = pc[t] \/ (pc[t] = "pop" /\ pc'[t] = "done"),
           UNCHANGED <<work, sessions_map, told, seen, used>>
    PROVE  WorkTyped' /\ SessionsFollow'
<1>1. \A t \in Handler : (pc'[t] = "work") <=> (pc[t] = "work")
  OBVIOUS
<1>2. WorkTyped'
  BY <1>1 DEF WorkTyped, IsWork
<1>3. ASSUME NEW t \in Handler, HasTask(t, "clone")'
      PROVE  told'[Masked(Head(work'[t]).id)] \in seen'[t]
  BY <1>1, <1>3 DEF SessionsFollow, HasTask, Masked
<1>4. SessionsFollow'
  BY <1>1, <1>3 DEF SessionsFollow
<1> QED BY <1>2, <1>4
----------------------------------------------------------------------------
(* The helpers of the actions.                                             *)

LEMMA FirstTask ==
    ASSUME WorkTyped, NEW t \in Handler, pc[t] = "work"
    PROVE  /\ work[t] \in Seq(AnyTask) /\ work[t] # << >> /\ IsWork(work[t])
           /\ Head(work[t]) = work[t][1] /\ Head(work[t]) \in AnyTask
<1>1. work[t] \in Seq(AnyTask) /\ work[t] # << >> /\ IsWork(work[t])
  BY DEF WorkTyped
<1> QED
  BY <1>1

LEMMA LongerTail ==
    ASSUME NEW S, NEW s \in Seq(S), NEW r \in Seq(S), Len(s) > 1, Len(r) = Len(s) - 1
    PROVE  r # << >>
<1>1. Len(r) # 0
  OBVIOUS
<1> QED
  BY <1>1

LEMMA NoMoreWork ==
    ASSUME WorkTyped, SessionsFollow, NEW t \in Handler, pc[t] = "work",
           GoOn(t, << >>), UNCHANGED <<sessions_map, told>>
    PROVE  WorkTyped' /\ SessionsFollow'
<1>1. << >> \in Seq(AnyTask) /\ DOMAIN << >> = {}
  OBVIOUS
<1>2. \A i \in DOMAIN << >> : << >>[i].op \notin {"clone", "multicast"}
  BY <1>1
<1> QED
  BY <1>1, <1>2, GoOnKeeps

LEMMA ReplicateIsWork ==
    ASSUME NEW ports \in Seq(Port), NEW from \in Nat, NEW pri \in Nat
    PROVE  /\ Replicate(ports, from, pri) \in Seq(AnyTask)
           /\ \A i \in DOMAIN Replicate(ports, from, pri) :
                 /\ Replicate(ports, from, pri)[i].op = "enqueue"
                 /\ Replicate(ports, from, pri)[i].pkt \in from + 1 .. from + Len(ports)
<1> DEFINE copies == Replicate(ports, from, pri)
<1>1. DOMAIN ports = 1 .. Len(ports) /\ Len(ports) \in Nat
  OBVIOUS
<1>2. ASSUME NEW i \in 1 .. Len(ports)
      PROVE  copies[i] \in AnyTask /\ copies[i].op = "enqueue" /\ copies[i].pkt = from + i
  BY <1>1 DEF Replicate, Enqueue, Task, nullptr, AnyTask, Operation
<1>3. copies = [i \in 1 .. Len(ports) |-> copies[i]]
  BY <1>1 DEF Replicate
<1> HIDE DEF copies
<1>4. copies \in Seq(AnyTask) /\ DOMAIN copies = 1 .. Len(ports)
  BY <1>1, <1>2, <1>3
<1>5. \A i \in 1 .. Len(ports) : from + i \in from + 1 .. from + Len(ports)
  BY <1>1
<1> QED
  BY <1>2, <1>4, <1>5 DEF copies

LEMMA PushEgressKeeps ==
    ASSUME QueuesTyped, NEW p \in Port, NEW q, NEW x \in Nat, PushEgress(p, q, x)
    PROVE  egress_buffers' \in [Worker -> [Queue -> Seq(Queued)]]
<1> DEFINE item == [pkt |-> x, port |-> p]
           w == WorkerOf(p)
<1>1. item \in Queued
  BY DEF Queued
<1> HIDE DEF item, w
<1>2. egress_buffers' = [egress_buffers EXCEPT ![w][q] = Append(@, item)]
  BY Zenon DEF PushEgress, item, w
<1>3. ASSUME NEW v \in Worker, NEW r \in Queue
      PROVE  /\ egress_buffers[v][r] \in Seq(Queued)
             /\ Append(egress_buffers[v][r], item) \in Seq(Queued)
  <2>1. egress_buffers[v][r] \in Seq(Queued)
    BY DEF QueuesTyped
  <2> QED
    BY <1>1, <2>1
<1>4. CASE w \in Worker
  <2>1. [egress_buffers[w] EXCEPT ![q] = Append(@, item)]
            \in [Queue -> Seq(Queued)]
    BY <1>3, <1>4 DEF QueuesTyped
  <2> QED
    BY <1>2, <2>1 DEF QueuesTyped
<1>5. CASE w \notin Worker
  BY <1>2, <1>5 DEF QueuesTyped
<1> QED BY <1>4, <1>5

LEMMA GotoTyped ==
    ASSUME WorkTyped, NEW t \in Thread, NEW l \in Label, Goto(t, l)
    PROVE  pc' \in [Thread -> Label] /\ pc'[t] = l /\ \A u \in Thread : u # t => pc'[u] = pc[u]
<1>1. pc \in [Thread -> Label] /\ pc' = [pc EXCEPT ![t] = l]
  BY DEF WorkTyped, Goto
<1> QED
  BY <1>1

LEMMA PortZero == 0 \in Port
BY WorkersAssumption

\* The control plane answers, and every thread that is about to clone from
\* that session sees it.
LEMMA AnswerKeeps ==
    ASSUME SInv, NEW s \in SessionId, NEW c \in Answers, Answer(s, c),
           sessions_map' = [sessions_map EXCEPT ![s] = c],
           UNCHANGED <<work, used, pc>>
    PROVE  WorkTyped' /\ SessionsFollow'
<1>1. WorkTyped'
  BY DEF SInv, WorkTyped, IsWork
<1>2. /\ sessions_map' \in [SessionId -> Answers] /\ told' = sessions_map'
      /\ used' \in [Handler -> SUBSET Answers]
  BY DEF SInv, SessionsFollow, Answer
<1>3. \A t \in Handler :
          seen'[t] = IF pc[t] = "work" /\ Head(work[t]).op = "clone"
                           /\ Masked(Head(work[t]).id) = s
                       THEN seen[t] \cup {c} ELSE seen[t]
  BY DEF Answer
<1>4. seen' \in [Handler -> SUBSET Answers]
  <2>1. \A t \in Handler : seen[t] \cup {c} \in SUBSET Answers /\ seen[t] \in SUBSET Answers
    BY DEF SInv, SessionsFollow
  <2> QED
    BY <2>1 DEF Answer
<1>5. ASSUME NEW t \in Handler
      PROVE  /\ used'[t] \subseteq seen'[t]
             /\ pc'[t] # "work" => used'[t] = {}
             /\ HasTask(t, "clone")' => told'[Masked(Head(work'[t]).id)] \in seen'[t]
  <2>1. used'[t] \subseteq seen'[t] /\ (pc'[t] # "work" => used'[t] = {})
    BY <1>3 DEF SInv, SessionsFollow
  <2>2. ASSUME HasTask(t, "clone")'
        PROVE  told'[Masked(Head(work'[t]).id)] \in seen'[t]
    <3>1. HasTask(t, "clone") /\ Masked(Head(work'[t]).id) = Masked(Head(work[t]).id)
      BY <2>2 DEF HasTask
    <3>2. Masked(Head(work[t]).id) \in SessionId
      <4>1. Head(work[t]).id \in Nat
        BY <3>1, FirstTask DEF SInv, HasTask, AnyTask
      <4> QED BY <4>1, MaskedInRange
    <3>3. told' = [told EXCEPT ![s] = c] /\ told \in [SessionId -> Answers]
      BY DEF Answer, SInv, SessionsFollow
    <3>4. CASE Masked(Head(work[t]).id) = s
      BY <1>3, <3>1, <3>3, <3>4 DEF HasTask
    <3>5. CASE Masked(Head(work[t]).id) # s
      <4>1. told'[Masked(Head(work[t]).id)] = told[Masked(Head(work[t]).id)]
        BY <3>2, <3>3, <3>5
      <4>2. told[Masked(Head(work[t]).id)] \in seen[t]
        BY <3>1 DEF SInv, SessionsFollow
      <4> QED
        BY <1>3, <3>1, <4>1, <4>2
    <3> QED BY <3>4, <3>5
  <2> QED BY <2>1, <2>2
<1>6. SessionsFollow'
  BY <1>2, <1>4, <1>5 DEF SessionsFollow
<1> QED BY <1>1, <1>6
----------------------------------------------------------------------------
(* The actions, one by one.                                                *)

LEMMA InitKeeps == Init => SInv
<1> SUFFICES ASSUME Init PROVE SInv
  OBVIOUS
<1>1. QueuesTyped
  BY DEF Init, QueuesTyped, nullptr
<1>2. pc \in [Thread -> Label] /\ \A t \in Handler : pc[t] = "pop"
  BY Threads DEF Init, Label
<1>3. work \in [Handler -> Seq(AnyTask)] /\ \A t \in Handler : work[t] = << >>
  BY DEF Init
<1>4. WorkTyped
  BY <1>2, <1>3 DEF WorkTyped, IsWork
<1>5. sessions_map \in [SessionId -> Answers] /\ told = sessions_map
  BY SessionsAssumption DEF Init, Answers
<1>6. SessionsFollow
  BY <1>2, <1>5 DEF Init, SessionsFollow, HasTask
<1> QED
  BY <1>1, <1>4, <1>6 DEF SInv

LEMMA ControlKeeps == ASSUME SInv, Control PROVE SInv'
<1>1. QueuesTyped'
  BY DEF SInv, QueuesTyped, Control, AddSession, DeleteSession, SetDepth, inputVars,
         egressVars, handlingVars
<1>2. pc' = pc /\ pc' \in [Thread -> Label] /\ work' = work /\ used' = used
  BY DEF SInv, WorkTyped, Control, AddSession, DeleteSession, SetDepth, handlingVars
<1>3. CASE UNCHANGED <<sessions_map, told, seen>>
  <2>1. WorkTyped /\ SessionsFollow
    BY DEF SInv
  <2>2. UNCHANGED <<work, sessions_map, told, seen, used>>
    BY <1>2, <1>3
  <2>3. \A t \in Handler : pc'[t] = pc[t]
    BY <1>2
  <2>4. WorkTyped' /\ SessionsFollow'
    BY <1>2, <2>1, <2>2, <2>3, OthersKeep
  <2> QED
    BY <1>1, <2>4 DEF SInv
<1>4. CASE \E s \in SessionId, c \in Answers :
              Answer(s, c) /\ sessions_map' = [sessions_map EXCEPT ![s] = c]
  BY <1>1, <1>2, <1>4, AnswerKeeps DEF SInv
<1>5. \/ UNCHANGED <<sessions_map, told, seen>>
      \/ \E s \in SessionId, c \in Answers :
            Answer(s, c) /\ sessions_map' = [sessions_map EXCEPT ![s] = c]
  <2>1. ASSUME NEW s, DeleteSession(s) PROVE <1>5!:
    BY <2>1 DEF DeleteSession, Answers
  <2>2. ASSUME NEW s, NEW c \in Config, AddSession(s, c) PROVE <1>5!:
    BY <2>2 DEF AddSession, StoreSession, Answers
  <2>3. ASSUME NEW ports, NEW queues, NEW d, SetDepth(ports, queues, d) PROVE <1>5!:
    BY <2>3 DEF SetDepth, handlingVars
  <2> QED
    BY <2>1, <2>2, <2>3 DEF Control
<1> QED BY <1>3, <1>4, <1>5

LEMMA ReceiveKeeps == ASSUME SInv, Receive \/ ReceivePush PROVE SInv'
<1>1. WorkTyped /\ SessionsFollow
  BY DEF SInv
<1>2. CASE Receive
  <2>1. QueuesTyped'
    BY <1>2 DEF SInv, QueuesTyped, Receive, egressVars
  <2>2. Goto(rx, "push") /\ UNCHANGED <<work, sessions_map, told, seen, used>>
    BY <1>2 DEF Receive, controlVars
  <2>3. pc' \in [Thread -> Label] /\ \A t \in Handler : pc'[t] = pc[t]
    <3>1. /\ pc' \in [Thread -> Label]
          /\ \A t \in Thread : t # rx => pc'[t] = pc[t]
      BY <1>1, <2>2, Threads, GotoTyped DEF Label
    <3>2. \A t \in Handler : t \in Thread /\ t # rx
      BY Threads
    <3> QED BY <3>1, <3>2
  <2> QED
    BY <1>1, <2>1, <2>2, <2>3, OthersKeep DEF SInv
<1>3. CASE ReceivePush
  <2>1. QueuesTyped'
    BY <1>3 DEF SInv, QueuesTyped, ReceivePush, egressVars, handlingVars, nullptr
  <2>2. Goto(rx, "idle") /\ UNCHANGED <<work, sessions_map, told, seen, used>>
    BY <1>3 DEF ReceivePush, controlVars, handlingVars
  <2>3. pc' \in [Thread -> Label] /\ \A t \in Handler : pc'[t] = pc[t]
    <3>1. /\ pc' \in [Thread -> Label]
          /\ \A t \in Thread : t # rx => pc'[t] = pc[t]
      BY <1>1, <2>2, Threads, GotoTyped DEF Label
    <3>2. \A t \in Handler : t \in Thread /\ t # rx
      BY Threads
    <3> QED BY <3>1, <3>2
  <2> QED
    BY <1>1, <2>1, <2>2, <2>3, OthersKeep DEF SInv
<1> QED BY <1>2, <1>3

LEMMA IngressPopKeeps == ASSUME SInv, IngressPop PROVE SInv'
<1>1. PICK x \in Nat :
          /\ IngressTake(x)
          /\ queue_hi' \in Seq(Nat) /\ queue_lo' \in Seq(Nat)
  <2>1. CASE queue_hi # << >> /\ queue_hi' = Tail(queue_hi) /\ UNCHANGED queue_lo
             /\ IngressTake(Head(queue_hi))
    <3>1. Head(queue_hi) \in Nat /\ Tail(queue_hi) \in Seq(Nat)
      BY <2>1 DEF SInv, QueuesTyped
    <3> QED
      BY <2>1, <3>1 DEF SInv, QueuesTyped
  <2>2. CASE queue_lo # << >> /\ queue_lo' = Tail(queue_lo) /\ UNCHANGED queue_hi
             /\ IngressTake(Head(queue_lo))
    <3>1. Head(queue_lo) \in Nat /\ Tail(queue_lo) \in Seq(Nat)
      BY <2>2 DEF SInv, QueuesTyped
    <3> QED
      BY <2>2, <3>1 DEF SInv, QueuesTyped
  <2> QED
    BY <2>1, <2>2 DEF IngressPop
<1>2. QueuesTyped'
  BY <1>1 DEF SInv, QueuesTyped, IngressTake, egressVars
<1>3. ingress \in Handler /\ pc[ingress] = "pop"
  BY Threads DEF IngressPop
<1>4. UNCHANGED <<sessions_map, told, used>>
  BY <1>1 DEF IngressTake, controlVars
<1>5. CASE x = nullptr
  <2>1. Goto(ingress, "done") /\ UNCHANGED <<work, seen>>
    BY <1>1, <1>5 DEF IngressTake
  <2>2. /\ pc' \in [Thread -> Label]
        /\ \A t \in Handler : pc'[t] = pc[t] \/ (pc[t] = "pop" /\ pc'[t] = "done")
    <3>1. /\ pc' \in [Thread -> Label] /\ pc'[ingress] = "done"
          /\ \A t \in Thread : t # ingress => pc'[t] = pc[t]
      BY <2>1, <1>3, Threads, GotoTyped DEF SInv, Label
    <3>2. \A t \in Handler : t \in Thread
      BY Threads
    <3> QED BY <3>1, <3>2, <1>3
  <2> QED
    BY <1>2, <1>4, <2>1, <2>2, OthersKeep DEF SInv
<1>6. CASE x # nullptr
  <2>1. Process(ingress, x, 0, 0, IngressVerdicts)
    BY <1>1, <1>6 DEF IngressTake
  <2> DEFINE fates == {"enqueue", "multicast", "resubmit", "drop"}
  <2>2. "clone" \notin fates
    OBVIOUS
  <2>3. \A v \in IngressVerdicts : IsVerdict(v, fates)
    BY VerdictsAssumption
  <2> HIDE DEF fates
  <2>4. WorkTyped' /\ SessionsFollow'
    BY <1>3, <1>4, <2>1, <2>2, <2>3, PortZero, ProcessKeeps DEF SInv
  <2> QED
    BY <1>2, <2>4 DEF SInv
<1> QED BY <1>5, <1>6

LEMMA EgressPopKeeps == ASSUME SInv, NEW w \in Worker, EgressPop(w) PROVE SInv'
<1>1. PICK q \in Queue :
          /\ egress_buffers[w][q] # << >>
          /\ egress_buffers' = [egress_buffers EXCEPT ![w][q] = Tail(@)]
          /\ IF Head(egress_buffers[w][q]).pkt = nullptr
               THEN Goto(w, "done") /\ UNCHANGED <<work, seen>>
               ELSE Process(w, Head(egress_buffers[w][q]).pkt,
                            Head(egress_buffers[w][q]).port, q, EgressVerdicts)
  BY DEF EgressPop
<1>2. egress_buffers[w][q] \in Seq(Queued)
  BY DEF SInv, QueuesTyped
<1>3. Head(egress_buffers[w][q]) \in Queued /\ Tail(egress_buffers[w][q]) \in Seq(Queued)
  BY <1>1, <1>2
<1>4. PICK x \in Nat, p \in Port : Head(egress_buffers[w][q]) = [pkt |-> x, port |-> p]
  BY <1>3 DEF Queued
<1>5. egress_buffers' \in [Worker -> [Queue -> Seq(Queued)]]
  <2>1. [egress_buffers[w] EXCEPT ![q] = Tail(@)] \in [Queue -> Seq(Queued)]
    BY <1>3 DEF SInv, QueuesTyped
  <2> QED
    BY <1>1, <2>1 DEF SInv, QueuesTyped
<1>6. QueuesTyped'
  BY <1>5 DEF SInv, QueuesTyped, EgressPop, inputVars
<1>7. w \in Handler /\ w \in Thread /\ pc[w] = "pop"
  BY Threads DEF EgressPop
<1>8. UNCHANGED <<sessions_map, told, used>>
  BY DEF EgressPop, controlVars
<1>9. CASE x = nullptr
  <2>1. Goto(w, "done") /\ UNCHANGED <<work, seen>>
    BY <1>1, <1>4, <1>9
  <2>2. /\ pc' \in [Thread -> Label]
        /\ \A t \in Handler : pc'[t] = pc[t] \/ (pc[t] = "pop" /\ pc'[t] = "done")
    <3>1. /\ pc' \in [Thread -> Label] /\ pc'[w] = "done"
          /\ \A t \in Thread : t # w => pc'[t] = pc[t]
      BY <2>1, <1>7, Threads, GotoTyped DEF SInv, Label
    <3>2. \A t \in Handler : t \in Thread
      BY Threads
    <3> QED BY <3>1, <3>2, <1>7
  <2> QED
    BY <1>6, <1>8, <2>1, <2>2, OthersKeep DEF SInv
<1>10. CASE x # nullptr
  <2>1. Process(w, x, p, q, EgressVerdicts)
    BY <1>1, <1>4, <1>10
  <2> DEFINE fates == {"emit", "recirculate", "drop"}
  <2>2. "clone" \notin fates
    OBVIOUS
  <2>3. \A v \in EgressVerdicts : IsVerdict(v, fates)
    BY VerdictsAssumption
  <2>4. q \in Nat
    BY WorkersAssumption DEF Queue
  <2> HIDE DEF fates
  <2>5. WorkTyped' /\ SessionsFollow'
    BY <1>7, <1>8, <2>1, <2>2, <2>3, <2>4, ProcessKeeps DEF SInv
  <2> QED
    BY <1>6, <2>5 DEF SInv
<1> QED BY <1>9, <1>10

LEMMA DropKeeps == ASSUME SInv, NEW t \in Handler, DropPacket(t) PROVE SInv'
<1>1. QueuesTyped'
  BY DEF SInv, QueuesTyped, DropPacket, inputVars, egressVars
<1>2. pc[t] = "work" /\ GoOn(t, << >>) /\ UNCHANGED <<sessions_map, told>>
  BY DEF DropPacket, HasTask, controlVars
<1>3. WorkTyped' /\ SessionsFollow'
  BY <1>2, NoMoreWork DEF SInv
<1> QED
  BY <1>1, <1>3 DEF SInv

LEMMA BackToIngressKeeps ==
    ASSUME SInv, NEW t \in Handler, NEW op, BackToIngress(t, op)
    PROVE  SInv'
<1>1. pc[t] = "work" /\ GoOn(t, << >>) /\ UNCHANGED <<sessions_map, told>>
  BY DEF BackToIngress, HasTask, controlVars
<1>2. Head(work[t]).pkt \in Nat
  BY <1>1, FirstTask DEF SInv, AnyTask
<1>3. queue_hi' \in Seq(Nat)
  <2>1. queue_hi' = queue_hi \/ queue_hi' = Append(queue_hi, Head(work[t]).pkt)
    BY Zenon DEF BackToIngress, PushBack
  <2>2. queue_hi \in Seq(Nat)
    BY DEF SInv, QueuesTyped
  <2> QED
    BY <1>2, <2>1, <2>2
<1>4. QueuesTyped'
  BY <1>3 DEF SInv, QueuesTyped, BackToIngress, egressVars
<1>5. WorkTyped' /\ SessionsFollow'
  BY <1>1, NoMoreWork DEF SInv
<1> QED
  BY <1>4, <1>5 DEF SInv

LEMMA EnqueueKeeps == ASSUME SInv, NEW t \in Handler, EnqueuePacket(t) PROVE SInv'
<1> DEFINE task == Head(work[t])
           q == nb_queues_per_port - 1 - task.priority
<1>1. pc[t] = "work" /\ GoOn(t, << >>) /\ UNCHANGED <<sessions_map, told>>
  BY DEF EnqueuePacket, HasTask, controlVars
<1>2. task.pkt \in Nat /\ task.port \in Port
  BY <1>1, FirstTask DEF SInv, AnyTask
<1>3. UNCHANGED egressVars \/ PushEgress(task.port, q, task.pkt)
  BY Zenon DEF EnqueuePacket
<1> HIDE DEF task, q
<1>4. egress_buffers' \in [Worker -> [Queue -> Seq(Queued)]]
  <2>1. CASE UNCHANGED egressVars
    BY <2>1 DEF SInv, QueuesTyped, egressVars
  <2>2. CASE PushEgress(task.port, q, task.pkt)
    BY <1>2, <2>2, PushEgressKeeps DEF SInv
  <2> QED BY <1>3, <2>1, <2>2
<1>5. UNCHANGED <<packet_id, rx_packet, queue_hi, queue_lo, stop_i>>
  BY Zenon DEF EnqueuePacket, inputVars
<1>6. QueuesTyped'
  BY <1>4, <1>5 DEF SInv, QueuesTyped
<1>7. WorkTyped' /\ SessionsFollow'
  BY <1>1, NoMoreWork DEF SInv
<1> QED
  BY <1>6, <1>7 DEF SInv

LEMMA EmitKeeps == ASSUME SInv, NEW w \in Worker, EmitPacket(w) PROVE SInv'
<1>1. QueuesTyped'
  BY DEF SInv, QueuesTyped, EmitPacket, inputVars, egressVars
<1>2. pc[w] = "work" /\ GoOn(w, << >>) /\ UNCHANGED <<sessions_map, told>>
  BY DEF EmitPacket, HasTask, controlVars
<1>3. WorkTyped' /\ SessionsFollow'
  BY <1>2, NoMoreWork, Threads DEF SInv
<1> QED
  BY <1>1, <1>3 DEF SInv

LEMMA MulticastKeeps == ASSUME SInv, MulticastPacket PROVE SInv'
<1> DEFINE task == Head(work[ingress])
           ports == Group[task.id]
           more == Replicate(ports, packet_id, task.priority)
<1>1. /\ ingress \in Handler /\ pc[ingress] = "work" /\ task.op = "multicast"
      /\ UNCHANGED <<sessions_map, told>>
  BY Threads DEF MulticastPacket, HasTask, controlVars
<1>2. /\ task \in AnyTask /\ work[ingress] \in Seq(AnyTask) /\ work[ingress] # << >>
      /\ task = work[ingress][1] /\ IsWork(work[ingress])
  BY <1>1, FirstTask DEF SInv
<1>3. task.id \in DOMAIN Group
  <2>1. 1 \in DOMAIN work[ingress]
    BY <1>2
  <2> QED
    BY <1>1, <1>2, <2>1 DEF IsWork
<1>4. ports \in Seq(Port) /\ task.priority \in Nat /\ packet_id \in Nat
  BY <1>2, <1>3, SessionsAssumption DEF SInv, QueuesTyped, AnyTask
<1>5. GoOn(ingress, more) /\ packet_id' = packet_id + Len(ports)
  BY Zenon DEF MulticastPacket
<1> HIDE DEF task, ports
<1>6. more \in Seq(AnyTask) /\ \A i \in DOMAIN more : more[i].op = "enqueue"
  BY <1>4, ReplicateIsWork
<1> HIDE DEF more
<1>7. \A i \in DOMAIN more : more[i].op \notin {"clone", "multicast"}
  BY <1>6
<1>8. WorkTyped' /\ SessionsFollow'
  BY <1>1, <1>5, <1>6, <1>7, GoOnKeeps DEF SInv
<1>9. QueuesTyped'
  <2>1. packet_id' \in Nat
    BY <1>4, <1>5
  <2> QED
    BY <2>1 DEF SInv, QueuesTyped, MulticastPacket, inputVars, egressVars
<1> QED
  BY <1>8, <1>9 DEF SInv

\* Cloning puts tasks for the copies in front of the work left; the session
\* that is looked up is the one answered last.
LEMMA CloneMakes ==
    ASSUME SInv, NEW t \in Handler, ClonePacket(t)
    PROVE  /\ pc[t] = "work" /\ HasTask(t, "clone") /\ Len(work[t]) > 1
           /\ UNCHANGED <<sessions_map, told, seen, pc>>
           /\ \E c \in Answers : c \in seen[t] /\ used' = [used EXCEPT ![t] = {c}]
           /\ packet_id' \in Nat /\ packet_id <= packet_id' /\ overtaken \subseteq overtaken'
           /\ \E more \in Seq(AnyTask) :
                 /\ work' = [work EXCEPT ![t] = more \o Tail(work[t])]
                 /\ \A i \in DOMAIN more :
                       more[i].op = "enqueue" /\ more[i].pkt \in overtaken'
<1> DEFINE task == Head(work[t])
           c == sessions_map[Masked(task.id)]
           copy == packet_id + 1
           first == Replicate(Ports(c), copy, task.priority)
           one == [Enqueue(c.egress_port, task.priority) EXCEPT !.pkt = copy]
           forPort == IF c.egress_port_valid THEN <<one>> ELSE << >>
<1>1. /\ pc[t] = "work" /\ HasTask(t, "clone")
      /\ UNCHANGED <<sessions_map, told, seen, pc>>
  BY DEF ClonePacket, HasTask, controlVars
<1>2. used' = [used EXCEPT ![t] = {c}]
  BY Zenon DEF ClonePacket
<1>3. \/ c = Unset /\ work' = [work EXCEPT ![t] = Tail(@)]
         /\ packet_id' = packet_id /\ overtaken' = overtaken
      \/ /\ c # Unset /\ packet_id' = copy + Len(Ports(c))
         /\ overtaken' = overtaken \cup (copy .. packet_id')
         /\ work' = [work EXCEPT ![t] = first \o forPort \o Tail(@)]
  BY Zenon DEF ClonePacket
<1>4. /\ task \in AnyTask /\ work[t] \in Seq(AnyTask) /\ work[t] # << >>
      /\ task = work[t][1] /\ IsWork(work[t]) /\ task.op = "clone"
  BY <1>1, FirstTask DEF SInv, HasTask
<1>5. task.id \in Nat /\ task.priority \in Nat /\ packet_id \in Nat
  BY <1>4 DEF AnyTask, SInv, QueuesTyped
<1>6. c \in Answers /\ c \in seen[t]
  <2>1. Masked(task.id) \in SessionId
    BY <1>5, MaskedInRange
  <2> QED
    BY <1>1, <2>1 DEF SInv, SessionsFollow
<1>7. Len(work[t]) > 1
  <2>1. 1 \in DOMAIN work[t]
    BY <1>4
  <2> QED
    BY <1>4, <2>1 DEF IsWork
<1> HIDE DEF task, c
<1>8. CASE c = Unset
  <2>1. work' = [work EXCEPT ![t] = << >> \o Tail(work[t])]
    BY <1>3, <1>4, <1>8
  <2>2. << >> \in Seq(AnyTask) /\ DOMAIN << >> = {}
    OBVIOUS
  <2>3. \A i \in DOMAIN << >> : << >>[i].op = "enqueue" /\ << >>[i].pkt \in overtaken'
    BY <2>2
  <2>4. packet_id' \in Nat /\ packet_id <= packet_id' /\ overtaken \subseteq overtaken'
    BY <1>3, <1>5, <1>8
  <2>5. \E more \in Seq(AnyTask) :
            /\ work' = [work EXCEPT ![t] = more \o Tail(work[t])]
            /\ \A i \in DOMAIN more : more[i].op = "enqueue" /\ more[i].pkt \in overtaken'
    BY <2>1, <2>2, <2>3
  <2> QED
    BY <1>1, <1>2, <1>6, <1>7, <2>4, <2>5
<1>9. CASE c # Unset
  <2>1. c.mgid \in DOMAIN Group /\ c.egress_port \in Port
    BY <1>6, <1>9, SessionsAssumption DEF Answers
  <2>2. Ports(c) \in Seq(Port)
    BY <2>1, SessionsAssumption DEF Ports
  <2>3. packet_id' = copy + Len(Ports(c)) /\ overtaken' = overtaken \cup (copy .. packet_id')
    BY <1>3, <1>9
  <2>4. /\ packet_id' \in Nat /\ copy \in Nat /\ packet_id <= packet_id'
        /\ copy \in copy .. packet_id'
        /\ copy + 1 .. copy + Len(Ports(c)) \subseteq copy .. packet_id'
    <3>1. Len(Ports(c)) \in Nat
      BY <2>2
    <3> QED
      BY <1>5, <2>3, <3>1
  <2>5. one \in AnyTask /\ one.op = "enqueue" /\ one.pkt = copy
    BY <1>5, <2>1, <2>4 DEF Enqueue, Task, AnyTask, Operation, nullptr
  <2> HIDE DEF one, copy
  <2>6. forPort \in Seq(AnyTask)
        /\ \A i \in DOMAIN forPort : forPort[i].op = "enqueue" /\ forPort[i].pkt \in overtaken'
    <3>1. forPort = <<one>> \/ forPort = << >>
      OBVIOUS
    <3>2. one.pkt \in overtaken'
      BY <2>3, <2>4, <2>5
    <3> QED
      BY <2>5, <3>1, <3>2
  <2> HIDE DEF forPort
  <2>7. first \in Seq(AnyTask)
        /\ \A i \in DOMAIN first : first[i].op = "enqueue" /\ first[i].pkt \in overtaken'
    <3>1. first \in Seq(AnyTask)
          /\ \A i \in DOMAIN first :
                first[i].op = "enqueue" /\ first[i].pkt \in copy + 1 .. copy + Len(Ports(c))
      BY <1>5, <2>2, <2>4, ReplicateIsWork
    <3> QED
      BY <2>3, <2>4, <3>1
  <2> HIDE DEF first
  <2>8. first \o forPort \in Seq(AnyTask)
        /\ \A i \in DOMAIN (first \o forPort) :
              /\ (first \o forPort)[i].op = "enqueue"
              /\ (first \o forPort)[i].pkt \in overtaken'
    BY <2>6, <2>7
  <2>9. work' = [work EXCEPT ![t] = (first \o forPort) \o Tail(work[t])]
    BY <1>3, <1>9
  <2>10. overtaken \subseteq overtaken'
    BY <2>3
  <2> QED
    BY <1>1, <1>2, <1>6, <1>7, <2>4, <2>8, <2>9, <2>10
<1> QED BY <1>8, <1>9

\* A thread that clones has seen the answer it clones by.
LEMMA ClonePacketKeeps == ASSUME SInv, NEW t \in Handler, ClonePacket(t) PROVE SInv'
<1>1. /\ pc[t] = "work" /\ HasTask(t, "clone") /\ Len(work[t]) > 1
      /\ UNCHANGED <<sessions_map, told, seen, pc>> /\ packet_id' \in Nat
  BY CloneMakes
<1>2. PICK c \in Answers : c \in seen[t] /\ used' = [used EXCEPT ![t] = {c}]
  BY CloneMakes
<1>3. PICK more \in Seq(AnyTask) :
          /\ work' = [work EXCEPT ![t] = more \o Tail(work[t])]
          /\ \A i \in DOMAIN more : more[i].op = "enqueue" /\ more[i].pkt \in overtaken'
  BY CloneMakes
<1> DEFINE rest == more \o Tail(work[t])
<1>4. work[t] \in Seq(AnyTask) /\ work[t] # << >> /\ IsWork(work[t])
  BY <1>1, FirstTask DEF SInv
<1>5. rest # << >>
  <2>1. Tail(work[t]) \in Seq(AnyTask) /\ Len(Tail(work[t])) = Len(work[t]) - 1
    BY <1>4
  <2>2. Tail(work[t]) # << >>
    BY <1>1, <1>4, <2>1, LongerTail
  <2> HIDE DEF rest
  <2>3. rest = more \o Tail(work[t])
    BY DEF rest
  <2> QED
    BY <2>1, <2>2, <2>3
<1>6. IsWork(rest) /\ \A i \in DOMAIN rest : rest[i].op # "clone"
  <2>1. \A i \in DOMAIN more : more[i].op \notin {"clone", "multicast"}
    BY <1>3
  <2> QED
    BY <1>4, <2>1, RestIsWork
<1> HIDE DEF rest
<1>7. rest \in Seq(AnyTask) /\ Head(rest).op # "clone"
  BY <1>5, <1>6 DEF IsWork
<1>8. work' = [work EXCEPT ![t] = rest]
  BY <1>3 DEF rest
<1>9. WorkTyped'
  BY <1>1, <1>5, <1>6, <1>7, <1>8 DEF SInv, WorkTyped, IsWork
<1>10. used' \in [Handler -> SUBSET Answers]
  BY <1>2 DEF SInv, SessionsFollow
<1>11. ASSUME NEW u \in Handler
       PROVE  /\ used'[u] \subseteq seen'[u]
              /\ pc'[u] # "work" => used'[u] = {}
              /\ HasTask(u, "clone")' => told'[Masked(Head(work'[u]).id)] \in seen'[u]
  <2>1. CASE u = t
    <3>1. used'[u] = {c} /\ work'[u] = rest
      BY <1>2, <1>8, <2>1 DEF SInv, SessionsFollow, WorkTyped
    <3> QED
      BY <1>1, <1>2, <1>7, <2>1, <3>1 DEF HasTask
  <2>2. CASE u # t
    <3>1. used'[u] = used[u] /\ work'[u] = work[u]
      BY <1>2, <1>8, <2>2 DEF SInv, SessionsFollow, WorkTyped
    <3> QED
      BY <1>1, <3>1 DEF SInv, SessionsFollow, HasTask, Masked
  <2> QED BY <2>1, <2>2
<1>12. SessionsFollow'
  BY <1>1, <1>10, <1>11 DEF SInv, SessionsFollow
<1>13. QueuesTyped'
  <2>1. UNCHANGED <<rx_packet, queue_hi, queue_lo, egress_buffers, stop_i>>
    BY DEF ClonePacket, inputVars, egressVars
  <2> QED
    BY <1>1, <2>1 DEF SInv, QueuesTyped
<1> QED
  BY <1>9, <1>12, <1>13 DEF SInv

LEMMA TransmitKeeps == ASSUME SInv, Transmit PROVE SInv'
<1>1. WorkTyped /\ SessionsFollow
  BY DEF SInv
<1>2. QueuesTyped'
  BY DEF SInv, QueuesTyped, Transmit, inputVars, egressVars, handlingVars
<1>3. pc' = pc \/ Goto(transmit, "done")
  BY DEF Transmit
<1>4. pc' \in [Thread -> Label] /\ \A t \in Thread : t # transmit => pc'[t] = pc[t]
  <2>1. CASE pc' = pc
    BY <1>1, <2>1 DEF WorkTyped
  <2>2. CASE Goto(transmit, "done")
    BY <1>1, <2>2, Threads, GotoTyped DEF Label
  <2> QED BY <1>3, <2>1, <2>2
<1>5. \A t \in Handler : pc'[t] = pc[t]
  BY <1>4, Threads
<1>6. UNCHANGED <<work, sessions_map, told, seen, used>>
  BY DEF Transmit, handlingVars, controlVars
<1>7. WorkTyped' /\ SessionsFollow'
  BY <1>1, <1>4, <1>5, <1>6, OthersKeep
<1> QED
  BY <1>2, <1>7 DEF SInv

LEMMA DestructorKeeps == ASSUME SInv, Destroy \/ Stop PROVE SInv'
<1>1. WorkTyped /\ SessionsFollow
  BY DEF SInv
<1>2. UNCHANGED <<work, sessions_map, told, seen, used, packet_id>>
  BY Zenon DEF Destroy, Stop, StopIngress, StopEgress, StopTransmit, Join, handlingVars, controlVars
<1>3. pc' = pc \/ \E l \in Label : Goto(main, l)
  BY Zenon DEF Destroy, Stop, StopIngress, StopEgress, StopTransmit, Join, Label
<1>4. pc' \in [Thread -> Label] /\ \A t \in Thread : t # main => pc'[t] = pc[t]
  <2>1. CASE pc' = pc
    BY <1>1, <2>1 DEF WorkTyped
  <2>2. CASE \E l \in Label : Goto(main, l)
    BY <1>1, <2>2, Threads, GotoTyped
  <2> QED BY <1>3, <2>1, <2>2
<1>5. \A t \in Handler : pc'[t] = pc[t]
  BY <1>4, Threads
<1>6. WorkTyped' /\ SessionsFollow'
  BY <1>1, <1>2, <1>4, <1>5, OthersKeep
<1>7. QueuesTyped'
  <2>1. CASE StopIngress
    <3>1. /\ queue_hi' = Append(queue_hi, 0)
          /\ UNCHANGED <<rx_packet, queue_lo, egress_buffers, stop_i>>
      BY <2>1 DEF StopIngress, egressVars, nullptr
    <3> QED
      BY <1>2, <3>1 DEF SInv, QueuesTyped
  <2>2. CASE StopEgress
    <3>1. /\ PushEgress(stop_i, 0, 0) /\ UNCHANGED <<rx_packet, queue_lo, queue_hi>>
          /\ stop_i < nb_egress_threads /\ stop_i' = stop_i + 1
      BY Zenon, <2>2 DEF StopEgress, inputVars, nullptr
    <3>2. QueuesTyped
      BY DEF SInv
    <3>3. stop_i \in Nat /\ stop_i' \in Nat /\ stop_i \in Port
      BY <3>1, <3>2, WorkersAssumption DEF QueuesTyped
    <3>4. egress_buffers' \in [Worker -> [Queue -> Seq(Queued)]]
      BY <3>1, <3>2, <3>3, PushEgressKeeps
    <3> QED
      BY <1>2, <3>1, <3>3, <3>4, <3>2 DEF QueuesTyped
  <2>3. CASE Destroy \/ StopTransmit \/ Join
    BY <2>3 DEF SInv, QueuesTyped, Destroy, StopTransmit, Join, inputVars, egressVars, handlingVars
  <2> QED
    BY <2>1, <2>2, <2>3 DEF Stop
<1> QED
  BY <1>6, <1>7 DEF SInv

LEMMA StutterKeeps == ASSUME SInv, UNCHANGED vars PROVE SInv'
<1>1. WorkTyped /\ SessionsFollow
  BY DEF SInv
<1>2. UNCHANGED <<pc, work, sessions_map, told, seen, used>>
  BY DEF vars, handlingVars, controlVars
<1>3. WorkTyped' /\ SessionsFollow'
  BY <1>1, <1>2, OthersKeep DEF WorkTyped
<1>4. QueuesTyped'
  BY DEF SInv, QueuesTyped, vars, inputVars, egressVars, handlingVars
<1> QED
  BY <1>3, <1>4 DEF SInv

LEMMA NextKeeps == ASSUME SInv, [Next]_vars PROVE SInv'
<1>1. CASE Control BY <1>1, ControlKeeps
<1>2. CASE Receive \/ ReceivePush BY <1>2, ReceiveKeeps
<1>3. ASSUME NEW t \in Handler, Copying(t) \/ DropPacket(t) PROVE SInv'
  BY <1>3, ClonePacketKeeps, EnqueueKeeps, DropKeeps DEF Copying
<1>4. ASSUME NEW t \in Handler, NEW op, BackToIngress(t, op) PROVE SInv'
  BY <1>4, BackToIngressKeeps
<1>5. CASE IngressThread
  BY <1>3, <1>4, <1>5, IngressPopKeeps, MulticastKeeps, Threads DEF IngressThread
<1>6. ASSUME NEW w \in Worker, EgressThread(w) PROVE SInv'
  <2>1. w \in Handler
    BY Threads
  <2> QED
    BY <1>3, <1>4, <1>6, <2>1, EgressPopKeeps, EmitKeeps DEF EgressThread
<1>7. CASE Transmit BY <1>7, TransmitKeeps
<1>8. CASE Destroy \/ Stop BY <1>8, DestructorKeeps
<1>9. CASE UNCHANGED vars BY <1>9, StutterKeeps
<1> QED
  BY <1>1, <1>2, <1>5, <1>6, <1>7, <1>8, <1>9 DEF Next

LEMMA SInvHolds == Spec => []SInv
BY InitKeeps, NextKeeps, PTL DEF Spec
----------------------------------------------------------------------------
\* For every number of threads, every P4 program and every sequence of
\* control calls: a packet is cloned by a configuration that was in force
\* since its thread took it (mirroring_get_session, optical_switch.cpp:568-569,
\* 720-721; the sessions are changed under the same mutex, 77-106).
THEOREM ClonesFollow == Spec => []ClonesFollowAnswers
<1>1. SInv => ClonesFollowAnswers
  BY DEF SInv, SessionsFollow, ClonesFollowAnswers
<1> QED
  BY <1>1, SInvHolds, PTL
----------------------------------------------------------------------------
Fresh == Nat \ ({nullptr} \cup overtaken)

\* What waits for the wire, by port and queue.
Leaving == [pkt : Nat, port : Port, queue : Queue]

\* The stages: the packets of port p and queue q there; before the packets
\* have ports, all of them.
Sent(p, q) ==
    {x \in Nat : \E i \in DOMAIN sent :
        sent[i].pkt = x /\ sent[i].port = p /\ sent[i].queue = q}
Out(p, q) ==
    {x \in Nat : \E i \in DOMAIN output_buffer :
        output_buffer[i].pkt = x /\ output_buffer[i].port = p /\ output_buffer[i].queue = q}
Emitted(p, q) ==
    {x \in Nat : \E i \in DOMAIN work[WorkerOf(p)] :
        LET task == work[WorkerOf(p)][i]
        IN  task.op = "emit" /\ task.pkt = x /\ task.port = p /\ task.priority = q}
Buffered(p, q) ==
    {x \in Nat : \E i \in DOMAIN egress_buffers[WorkerOf(p)][q] :
        LET item == egress_buffers[WorkerOf(p)][q][i]
        IN  item.pkt = x /\ item.port = p}
Enqueued ==
    {x \in Nat : \E i \in DOMAIN work[ingress] :
        work[ingress][i].op = "enqueue" /\ work[ingress][i].pkt = x}
Waiting == {x \in Nat : \E i \in DOMAIN queue_lo : queue_lo[i] = x}
Received == {rx_packet}

Stages(p, q) ==
    <<Sent(p, q), Out(p, q), Emitted(p, q), Buffered(p, q), Enqueued, Waiting, Received>>

\* Of two fresh packets in different stages the one further on is older.
InOrder(Z, F) ==
    \A a, b \in 1 .. 7 : a < b =>
        \A x \in Z[a], y \in Z[b] : x \in F /\ y \in F => x < y

\* Of two in the same queue, the one in front is older.
SortedLine(s, F) ==
    \A i, j \in DOMAIN s :
        i < j /\ s[i].port = s[j].port /\ s[i].queue = s[j].queue
              /\ s[i].pkt \in F /\ s[j].pkt \in F
           => s[i].pkt < s[j].pkt
SortedBuffer(s, F) ==
    \A i, j \in DOMAIN s :
        i < j /\ s[i].port = s[j].port /\ s[i].pkt \in F /\ s[j].pkt \in F
           => s[i].pkt < s[j].pkt
SortedInput(s, F) ==
    \A i, j \in DOMAIN s : i < j /\ s[i] \in F /\ s[j] \in F => s[i] < s[j]

SortedQueues ==
    /\ SortedLine(sent, Fresh) /\ SortedLine(output_buffer, Fresh)
    /\ \A w \in Worker, q \in Queue : SortedBuffer(egress_buffers[w][q], Fresh)
    /\ SortedInput(queue_lo, Fresh)

\* An egress thread emits for its own ports, as the last thing it does with a
\* packet; what is enqueued before the last task, or by an egress thread, is a
\* copy.
GoodWork(t, tasks, copies) ==
    \A i \in DOMAIN tasks :
        /\ tasks[i].op = "emit" =>
              /\ t \in Worker /\ i = Len(tasks)
              /\ WorkerOf(tasks[i].port) = t /\ tasks[i].priority \in Queue
        /\ tasks[i].op = "enqueue" =>
              tasks[i].pkt \in copies \/ (t = ingress /\ i = Len(tasks))

Placed ==
    /\ output_buffer \in Seq(Leaving) /\ sent \in Seq(Leaving)
    /\ \A i \in DOMAIN sent : sent[i].pkt # nullptr
    /\ \A t \in Handler : GoodWork(t, work[t], overtaken)
    /\ \A w \in Worker, q \in Queue : \A i \in DOMAIN egress_buffers[w][q] :
          WorkerOf(egress_buffers[w][q][i].port) = w
    /\ \A i \in DOMAIN queue_hi : queue_hi[i] \notin Fresh

Ordered(p, q) ==
    /\ InOrder(Stages(p, q), Fresh)
    /\ \A a \in 1 .. 7 : \A x \in Stages(p, q)[a] : x \in Fresh => x <= packet_id
OrderedStages == \A p \in Port, q \in Queue : Ordered(p, q)

OInv == Placed /\ SortedQueues /\ OrderedStages
----------------------------------------------------------------------------
(* What a step may do to the stages.                                       *)

\* No fresh packet comes to any stage.
LEMMA ShrinkOrder ==
    ASSUME NEW Z, NEW F, InOrder(Z, F), NEW Y, NEW G, G \subseteq F,
           \A a \in 1 .. 7 : \A x \in Y[a] : x \in G => x \in Z[a]
    PROVE  InOrder(Y, G)
BY DEF InOrder

\* Packet x moves from stage k + 1, where the others are younger, to stage k.
LEMMA MoveOrder ==
    ASSUME NEW Z, NEW F, F \subseteq Nat, InOrder(Z, F), NEW Y, NEW G, G \subseteq F,
           NEW k \in 1 .. 6, NEW x, x \in Z[k + 1],
           \A a \in 1 .. 7 : \A y \in Y[a] :
               y \in G => y \in Z[a] \/ (a = k /\ y = x),
           \A y \in Y[k + 1] : y \in G /\ x \in G => x < y
    PROVE  InOrder(Y, G)
<1> SUFFICES ASSUME NEW a \in 1 .. 7, NEW b \in 1 .. 7, a < b,
                    NEW y \in Y[a], NEW z \in Y[b], y \in G, z \in G
             PROVE  y < z
  BY DEF InOrder
<1>1. CASE y \in Z[a] /\ z \in Z[b]
  BY <1>1 DEF InOrder
<1>2. CASE y \in Z[a] /\ b = k /\ z = x
  <2>1. k + 1 \in 1 .. 7 /\ a < k + 1
    BY <1>2
  <2> QED
    BY <1>2, <2>1 DEF InOrder
<1>3. CASE a = k /\ y = x /\ z \in Z[b] /\ b # k + 1
  <2>1. k + 1 \in 1 .. 7 /\ k + 1 < b
    BY <1>3
  <2> QED
    BY <1>3, <2>1 DEF InOrder
<1>4. CASE a = k /\ y = x /\ b = k + 1
  BY <1>4
<1> QED
  BY <1>1, <1>2, <1>3, <1>4

\* A new packet, younger than all, is received.
LEMMA ArriveOrder ==
    ASSUME NEW Z, NEW F, F \subseteq Nat, InOrder(Z, F), NEW Y, NEW x \in Nat,
           \A a \in 1 .. 6 : \A y \in Y[a] : y \in F => y \in Z[a] /\ y < x,
           \A y \in Y[7] : y = x
    PROVE  InOrder(Y, F)
<1> SUFFICES ASSUME NEW a \in 1 .. 7, NEW b \in 1 .. 7, a < b,
                    NEW y \in Y[a], NEW z \in Y[b], y \in F, z \in F
             PROVE  y < z
  BY DEF InOrder
<1>1. a \in 1 .. 6
  OBVIOUS
<1>2. CASE b = 7
  BY <1>1, <1>2
<1>3. CASE b # 7
  <2>1. b \in 1 .. 6
    BY <1>3
  <2> QED
    BY <1>1, <2>1 DEF InOrder
<1> QED BY <1>2, <1>3

\* The seven stages one by one.
LEMMA StageOf ==
    ASSUME NEW p, NEW q
    PROVE  /\ Stages(p, q)[1] = Sent(p, q) /\ Stages(p, q)[2] = Out(p, q)
           /\ Stages(p, q)[3] = Emitted(p, q) /\ Stages(p, q)[4] = Buffered(p, q)
           /\ Stages(p, q)[5] = Enqueued /\ Stages(p, q)[6] = Waiting
           /\ Stages(p, q)[7] = Received
           /\ Stages(p, q)'[1] = Sent(p, q)' /\ Stages(p, q)'[2] = Out(p, q)'
           /\ Stages(p, q)'[3] = Emitted(p, q)' /\ Stages(p, q)'[4] = Buffered(p, q)'
           /\ Stages(p, q)'[5] = Enqueued' /\ Stages(p, q)'[6] = Waiting'
           /\ Stages(p, q)'[7] = Received'
BY DEF Stages

LEMMA Seven == \A a \in 1 .. 7 : a = 1 \/ a = 2 \/ a = 3 \/ a = 4 \/ a = 5 \/ a = 6 \/ a = 7
OBVIOUS

LEMMA TailAt ==
    ASSUME NEW S, NEW s \in Seq(S), s # << >>
    PROVE  /\ Tail(s) \in Seq(S) /\ Head(s) = s[1] /\ Head(s) \in S /\ 1 \in DOMAIN s
           /\ \A i \in DOMAIN Tail(s) :
                 i \in Nat /\ i + 1 \in DOMAIN s /\ 1 < i + 1 /\ Tail(s)[i] = s[i + 1]
OBVIOUS

LEMMA AppendAt ==
    ASSUME NEW S, NEW s \in Seq(S), NEW e \in S
    PROVE  /\ Append(s, e) \in Seq(S)
           /\ \A i \in DOMAIN Append(s, e) :
                 \/ i \in DOMAIN s /\ Append(s, e)[i] = s[i]
                 \/ i = Len(s) + 1 /\ Append(s, e)[i] = e
           /\ \A i \in DOMAIN s : i \in Nat /\ i < Len(s) + 1
OBVIOUS

\* No fresh packet comes to a stage, except x to stage k (or to none).
Flow(p, q, k, x) ==
    /\ \A y \in Sent(p, q)' : y \in Fresh' => y \in Sent(p, q) \/ (k = 1 /\ y = x)
    /\ \A y \in Out(p, q)' : y \in Fresh' => y \in Out(p, q) \/ (k = 2 /\ y = x)
    /\ \A y \in Emitted(p, q)' : y \in Fresh' => y \in Emitted(p, q) \/ (k = 3 /\ y = x)
    /\ \A y \in Buffered(p, q)' : y \in Fresh' => y \in Buffered(p, q) \/ (k = 4 /\ y = x)
    /\ \A y \in Enqueued' : y \in Fresh' => y \in Enqueued \/ (k = 5 /\ y = x)
    /\ \A y \in Waiting' : y \in Fresh' => y \in Waiting \/ (k = 6 /\ y = x)
    /\ \A y \in Received' : y \in Fresh' => y \in Received

\* Packets grow older and are copied, or sent round.
Aging == /\ packet_id \in Nat /\ packet_id' \in Nat /\ packet_id <= packet_id'
         /\ overtaken \subseteq overtaken'

LEMMA FreshShrinks == ASSUME Aging PROVE Fresh' \subseteq Fresh /\ Fresh \subseteq Nat
BY DEF Aging, Fresh

LEMMA FlowStages ==
    ASSUME NEW p, NEW q, NEW k, NEW x, Flow(p, q, k, x)
    PROVE  \A a \in 1 .. 7 : \A y \in Stages(p, q)'[a] :
               y \in Fresh' => y \in Stages(p, q)[a] \/ (a = k /\ y = x)
<1> SUFFICES ASSUME NEW a \in 1 .. 7
             PROVE  \A y \in Stages(p, q)'[a] :
                        y \in Fresh' => y \in Stages(p, q)[a] \/ (a = k /\ y = x)
  OBVIOUS
<1>1. CASE a = 1 BY <1>1, StageOf DEF Flow
<1>2. CASE a = 2 BY <1>2, StageOf DEF Flow
<1>3. CASE a = 3 BY <1>3, StageOf DEF Flow
<1>4. CASE a = 4 BY <1>4, StageOf DEF Flow
<1>5. CASE a = 5 BY <1>5, StageOf DEF Flow
<1>6. CASE a = 6 BY <1>6, StageOf DEF Flow
<1>7. CASE a = 7 BY <1>7, StageOf DEF Flow
<1> QED
  BY <1>1, <1>2, <1>3, <1>4, <1>5, <1>6, <1>7

LEMMA ShrinkStages ==
    ASSUME NEW p, NEW q, Ordered(p, q), Aging, Flow(p, q, 0, nullptr)
    PROVE  Ordered(p, q)'
<1> DEFINE Z == Stages(p, q)
<1>1. \A a \in 1 .. 7 : \A y \in Z'[a] : y \in Fresh' => y \in Z[a]
  BY FlowStages
<1>2. InOrder(Z, Fresh) /\ Fresh' \subseteq Fresh /\ Fresh \subseteq Nat
  BY FreshShrinks DEF Ordered
<1>3. InOrder(Z', Fresh')
  BY <1>1, <1>2, ShrinkOrder
<1>4. \A a \in 1 .. 7 : \A y \in Z'[a] : y \in Fresh' => y <= packet_id'
  <2>1. \A a \in 1 .. 7 : \A y \in Z'[a] : y \in Fresh' => y <= packet_id /\ y \in Nat
    BY <1>1, <1>2 DEF Ordered
  <2> QED
    BY <2>1 DEF Aging
<1> QED
  BY <1>3, <1>4 DEF Ordered, InOrder

LEMMA MoveStages ==
    ASSUME NEW p, NEW q, Ordered(p, q), Aging, NEW k \in 1 .. 6, NEW x,
           Flow(p, q, k, x), x \in Stages(p, q)[k + 1],
           \A y \in Stages(p, q)'[k + 1] : y \in Fresh' /\ x \in Fresh' => x < y
    PROVE  Ordered(p, q)'
<1> DEFINE Z == Stages(p, q)
<1>1. \A a \in 1 .. 7 : \A y \in Z'[a] : y \in Fresh' => y \in Z[a] \/ (a = k /\ y = x)
  BY FlowStages
<1>2. InOrder(Z, Fresh) /\ Fresh' \subseteq Fresh /\ Fresh \subseteq Nat
  BY FreshShrinks DEF Ordered
<1>3. InOrder(Z', Fresh')
  <2> HIDE DEF Z
  <2> QED
    BY <1>1, <1>2, MoveOrder DEF Z
<1>4. \A a \in 1 .. 7 : \A y \in Z'[a] : y \in Fresh' => y <= packet_id'
  <2>1. k + 1 \in 1 .. 7
    OBVIOUS
  <2>2. \A a \in 1 .. 7 : \A y \in Z'[a] : y \in Fresh' => y <= packet_id /\ y \in Nat
    BY <1>1, <1>2, <2>1 DEF Ordered
  <2> QED
    BY <2>2 DEF Aging
<1> QED
  BY <1>3, <1>4 DEF Ordered, InOrder

LEMMA Same ==
    ASSUME NEW p, NEW q
    PROVE  /\ sent' = sent => Sent(p, q)' = Sent(p, q)
           /\ output_buffer' = output_buffer => Out(p, q)' = Out(p, q)
           /\ work' = work => Emitted(p, q)' = Emitted(p, q) /\ Enqueued' = Enqueued
           /\ egress_buffers' = egress_buffers => Buffered(p, q)' = Buffered(p, q)
           /\ queue_lo' = queue_lo => Waiting' = Waiting
           /\ rx_packet' = rx_packet => Received' = Received
BY DEF Sent, Out, Emitted, Enqueued, Buffered, Waiting, Received, WorkerOf

\* Taking from a queue and adding to one.
LEMMA LineTail ==
    ASSUME NEW s \in Seq(Leaving), s # << >>, NEW F, SortedLine(s, F), NEW G, G \subseteq F
    PROVE  SortedLine(Tail(s), G)
BY TailAt DEF SortedLine

LEMMA LineAppend ==
    ASSUME NEW s \in Seq(Leaving), NEW e \in Leaving, NEW F, SortedLine(s, F),
           NEW G, G \subseteq F,
           \A i \in DOMAIN s : s[i].port = e.port /\ s[i].queue = e.queue
                                  /\ s[i].pkt \in G /\ e.pkt \in G => s[i].pkt < e.pkt
    PROVE  SortedLine(Append(s, e), G)
BY AppendAt DEF SortedLine

LEMMA BufferTail ==
    ASSUME NEW s \in Seq(Queued), s # << >>, NEW F, SortedBuffer(s, F), NEW G, G \subseteq F
    PROVE  SortedBuffer(Tail(s), G)
<1> SUFFICES ASSUME NEW i \in DOMAIN Tail(s), NEW j \in DOMAIN Tail(s), i < j,
                    Tail(s)[i].port = Tail(s)[j].port,
                    Tail(s)[i].pkt \in G, Tail(s)[j].pkt \in G
             PROVE  Tail(s)[i].pkt < Tail(s)[j].pkt
  BY DEF SortedBuffer
<1>1. /\ i \in Nat /\ i + 1 \in DOMAIN s /\ Tail(s)[i] = s[i + 1]
      /\ j \in Nat /\ j + 1 \in DOMAIN s /\ Tail(s)[j] = s[j + 1]
  BY TailAt
<1>2. i + 1 < j + 1
  BY <1>1
<1> QED
  BY <1>1, <1>2 DEF SortedBuffer

LEMMA BufferAppend ==
    ASSUME NEW s \in Seq(Queued), NEW e \in Queued, NEW F, SortedBuffer(s, F),
           NEW G, G \subseteq F,
           \A i \in DOMAIN s : s[i].port = e.port
                                  /\ s[i].pkt \in G /\ e.pkt \in G => s[i].pkt < e.pkt
    PROVE  SortedBuffer(Append(s, e), G)
BY AppendAt DEF SortedBuffer

LEMMA InputTail ==
    ASSUME NEW s \in Seq(Nat), s # << >>, NEW F, SortedInput(s, F), NEW G, G \subseteq F
    PROVE  SortedInput(Tail(s), G)
BY TailAt DEF SortedInput

LEMMA InputAppend ==
    ASSUME NEW s \in Seq(Nat), NEW e \in Nat, NEW F, SortedInput(s, F),
           NEW G, G \subseteq F, \A i \in DOMAIN s : s[i] \in G /\ e \in G => s[i] < e
    PROVE  SortedInput(Append(s, e), G)
BY AppendAt DEF SortedInput

LEMMA SortedSame ==
    ASSUME SortedQueues, Aging
    PROVE  /\ sent' = sent => SortedLine(sent', Fresh')
           /\ output_buffer' = output_buffer => SortedLine(output_buffer', Fresh')
           /\ egress_buffers' = egress_buffers =>
                 \A w \in Worker, q \in Queue : SortedBuffer(egress_buffers'[w][q], Fresh')
           /\ queue_lo' = queue_lo => SortedInput(queue_lo', Fresh')
<1>1. Fresh' \subseteq Fresh
  BY FreshShrinks
<1>2. sent' = sent => SortedLine(sent', Fresh')
  BY <1>1 DEF SortedQueues, SortedLine
<1>3. output_buffer' = output_buffer => SortedLine(output_buffer', Fresh')
  BY <1>1 DEF SortedQueues, SortedLine
<1>4. egress_buffers' = egress_buffers =>
        \A w \in Worker, q \in Queue : SortedBuffer(egress_buffers'[w][q], Fresh')
  BY <1>1 DEF SortedQueues, SortedBuffer
<1>5. queue_lo' = queue_lo => SortedInput(queue_lo', Fresh')
  BY <1>1 DEF SortedQueues, SortedInput
<1> QED
  BY <1>2, <1>3, <1>4, <1>5

\* What stays in place stays well placed.
LEMMA PlacedSame ==
    ASSUME Placed, Aging
    PROVE  /\ sent' = sent => sent' \in Seq(Leaving)
                              /\ \A i \in DOMAIN sent' : sent'[i].pkt # nullptr
           /\ output_buffer' = output_buffer => output_buffer' \in Seq(Leaving)
           /\ work' = work => \A t \in Handler : GoodWork(t, work'[t], overtaken')
           /\ egress_buffers' = egress_buffers =>
                 \A w \in Worker, q \in Queue : \A i \in DOMAIN egress_buffers'[w][q] :
                     WorkerOf(egress_buffers'[w][q][i].port) = w
           /\ queue_hi' = queue_hi => \A i \in DOMAIN queue_hi' : queue_hi'[i] \notin Fresh'
<1>1. work' = work => \A t \in Handler : GoodWork(t, work'[t], overtaken')
  BY DEF Placed, Aging, GoodWork
<1>2. queue_hi' = queue_hi => \A i \in DOMAIN queue_hi' : queue_hi'[i] \notin Fresh'
  BY FreshShrinks DEF Placed
<1> QED
  BY <1>1, <1>2 DEF Placed

OnlyCopies(tasks, copies) ==
    \A i \in DOMAIN tasks : tasks[i].op = "enqueue" /\ tasks[i].pkt \in copies
CopiesOrOf(rest, tasks, copies) ==
    \A i \in DOMAIN rest :
        \/ rest[i].op = "enqueue" /\ rest[i].pkt \in copies
        \/ \E j \in DOMAIN tasks : rest[i] = tasks[j]

\* The first task of thread t is done, and leaves copies to be enqueued: no
\* fresh packet comes to a stage.
LEMMA RestGood ==
    ASSUME NEW t, NEW tasks \in Seq(AnyTask), tasks # << >>, NEW old, GoodWork(t, tasks, old),
           NEW copies, old \subseteq copies, NEW more \in Seq(AnyTask), OnlyCopies(more, copies)
    PROVE  /\ GoodWork(t, more \o Tail(tasks), copies)
           /\ CopiesOrOf(more \o Tail(tasks), tasks, copies)
<1> DEFINE rest == more \o Tail(tasks)
<1>1. /\ Len(rest) = Len(more) + Len(tasks) - 1
      /\ Len(more) \in Nat /\ Len(tasks) \in Nat /\ Len(tasks) # 0
      /\ DOMAIN rest = 1 .. Len(rest) /\ DOMAIN more = 1 .. Len(more)
      /\ DOMAIN tasks = 1 .. Len(tasks)
  <2>1. Tail(tasks) \in Seq(AnyTask) /\ Len(Tail(tasks)) = Len(tasks) - 1
        /\ Len(tasks) \in Nat /\ Len(tasks) # 0
    OBVIOUS
  <2>2. Len(rest) = Len(more) + Len(Tail(tasks)) /\ rest \in Seq(AnyTask)
    BY <2>1
  <2> QED
    BY <2>1, <2>2
<1>2. ASSUME NEW i \in DOMAIN rest
      PROVE  \/ i \in DOMAIN more /\ rest[i] = more[i]
             \/ LET j == i - Len(more) + 1
                IN  /\ j \in DOMAIN tasks /\ rest[i] = tasks[j]
                    /\ j = Len(tasks) => i = Len(rest)
  <2>1. CASE i \in 1 .. Len(more)
    BY <1>1, <2>1
  <2>2. CASE i \notin 1 .. Len(more)
    <3>1. i \in Nat /\ i > Len(more) /\ i <= Len(rest)
      BY <1>1, <2>2
    <3>2. i - Len(more) \in 1 .. Len(Tail(tasks))
      BY <1>1, <3>1
    <3>3. rest[i] = Tail(tasks)[i - Len(more)]
      BY <1>1, <3>1, <3>2
    <3>4. Tail(tasks)[i - Len(more)] = tasks[i - Len(more) + 1]
      BY <3>2
    <3> QED
      BY <1>1, <3>1, <3>3, <3>4
  <2> QED
    BY <2>1, <2>2
<1> HIDE DEF rest
<1>3. ASSUME NEW i \in DOMAIN rest
      PROVE  /\ rest[i].op = "emit" =>
                   /\ t \in Worker /\ i = Len(rest)
                   /\ WorkerOf(rest[i].port) = t /\ rest[i].priority \in Queue
             /\ rest[i].op = "enqueue" =>
                   rest[i].pkt \in copies \/ (t = ingress /\ i = Len(rest))
  BY <1>2 DEF GoodWork, OnlyCopies
<1>4. CopiesOrOf(rest, tasks, copies)
  BY <1>2 DEF OnlyCopies, CopiesOrOf
<1> QED
  BY <1>3, <1>4 DEF GoodWork, rest

\* Thread t has another list of tasks: other threads and their stages are as
\* they were.
LEMMA WorkFlow ==
    ASSUME SInv, Placed, Aging, NEW t \in Handler, NEW rest,
           work' = [work EXCEPT ![t] = rest],
           GoodWork(t, rest, overtaken'), CopiesOrOf(rest, work[t], overtaken')
    PROVE  /\ \A u \in Handler : GoodWork(u, work'[u], overtaken')
           /\ \A p \in Port, q \in Queue : \A y \in Emitted(p, q)' : y \in Emitted(p, q)
           /\ \A y \in Enqueued' : y \in Fresh' => y \in Enqueued
<1>1. \A u \in Handler : work'[u] = IF u = t THEN rest ELSE work[u]
  BY DEF SInv, WorkTyped
<1>2. \A u \in Handler : GoodWork(u, work'[u], overtaken')
  <2>1. \A u \in Handler : GoodWork(u, work[u], overtaken')
    BY DEF Placed, GoodWork, Aging
  <2> QED
    BY <1>1, <2>1
<1>3. ASSUME NEW p \in Port, NEW q \in Queue, NEW y \in Emitted(p, q)'
      PROVE  y \in Emitted(p, q)
  <2>1. WorkerOf(p) \in Handler
    BY WorkersAssumption, Threads DEF WorkerOf, Worker
  <2>2. PICK i \in DOMAIN work'[WorkerOf(p)] :
            LET task == work'[WorkerOf(p)][i]
            IN  task.op = "emit" /\ task.pkt = y /\ task.port = p /\ task.priority = q
    BY DEF Emitted, WorkerOf
  <2>3. \E j \in DOMAIN work[WorkerOf(p)] : work[WorkerOf(p)][j] = work'[WorkerOf(p)][i]
    BY <1>1, <2>1, <2>2 DEF CopiesOrOf
  <2>4. y \in Nat
    BY DEF Emitted
  <2> QED
    BY <2>2, <2>3, <2>4 DEF Emitted
<1>4. ASSUME NEW y \in Enqueued', y \in Fresh'
      PROVE  y \in Enqueued
  <2>1. ingress \in Handler
    BY Threads
  <2>2. PICK i \in DOMAIN work'[ingress] :
            work'[ingress][i].op = "enqueue" /\ work'[ingress][i].pkt = y
    BY DEF Enqueued, ingress
  <2>3. y \notin overtaken' /\ y \in Nat
    BY <1>4 DEF Fresh
  <2>4. \E j \in DOMAIN work[ingress] : work[ingress][j] = work'[ingress][i]
    BY <1>1, <2>1, <2>2, <2>3 DEF CopiesOrOf
  <2> QED
    BY <2>2, <2>3, <2>4 DEF Enqueued
<1> QED
  BY <1>2, <1>3, <1>4
----------------------------------------------------------------------------
(* The actions.                                                            *)

LEMMA QuietOrder ==
    ASSUME OInv, Aging,
           UNCHANGED <<sent, output_buffer, work, egress_buffers, queue_lo, rx_packet, queue_hi>>
    PROVE  OInv'
<1>1. Placed'
  BY PlacedSame DEF OInv, Placed
<1>2. SortedQueues'
  BY SortedSame DEF OInv, SortedQueues
<1>3. ASSUME NEW p \in Port, NEW q \in Queue PROVE Ordered(p, q)'
  <2>1. Flow(p, q, 0, nullptr)
    BY Same, FreshShrinks DEF Flow
  <2> QED
    BY <2>1, ShrinkStages DEF OInv, OrderedStages
<1> QED
  BY <1>1, <1>2, <1>3 DEF OInv, OrderedStages

\* Thread t is done with a task and leaves nothing but copies to be enqueued.
LEMMA WorkOrder ==
    ASSUME SInv, OInv, Aging, NEW t \in Handler, pc[t] = "work",
           NEW more \in Seq(AnyTask), OnlyCopies(more, overtaken'),
           work' = [work EXCEPT ![t] = more \o Tail(work[t])],
           UNCHANGED <<sent, output_buffer, egress_buffers, queue_lo, rx_packet>>,
           \A i \in DOMAIN queue_hi' : queue_hi'[i] \notin Fresh'
    PROVE  OInv'
<1> DEFINE rest == more \o Tail(work[t])
<1>1. work[t] \in Seq(AnyTask) /\ work[t] # << >> /\ GoodWork(t, work[t], overtaken)
  BY FirstTask DEF SInv, OInv, Placed
<1>2. GoodWork(t, rest, overtaken') /\ CopiesOrOf(rest, work[t], overtaken')
  BY <1>1, RestGood DEF Aging
<1> HIDE DEF rest
<1>3. work' = [work EXCEPT ![t] = rest]
  BY DEF rest
<1>4. /\ \A u \in Handler : GoodWork(u, work'[u], overtaken')
      /\ \A p \in Port, q \in Queue : \A y \in Emitted(p, q)' : y \in Emitted(p, q)
      /\ \A y \in Enqueued' : y \in Fresh' => y \in Enqueued
  BY <1>2, <1>3, WorkFlow DEF OInv
<1>5. Placed'
  BY <1>4, PlacedSame DEF OInv, Placed
<1>6. SortedQueues'
  BY SortedSame DEF OInv, SortedQueues
<1>7. ASSUME NEW p \in Port, NEW q \in Queue PROVE Ordered(p, q)'
  <2>1. Flow(p, q, 0, nullptr)
    BY <1>4, Same, FreshShrinks DEF Flow
  <2> QED
    BY <2>1, ShrinkStages DEF OInv, OrderedStages
<1> QED
  BY <1>5, <1>6, <1>7 DEF OInv, OrderedStages

\* The same, when the task leaves nothing.
LEMMA DoneOrder ==
    ASSUME SInv, OInv, Aging, NEW t \in Handler, pc[t] = "work", GoOn(t, << >>),
           UNCHANGED <<sent, output_buffer, egress_buffers, queue_lo, rx_packet>>,
           \A i \in DOMAIN queue_hi' : queue_hi'[i] \notin Fresh'
    PROVE  OInv'
<1>1. << >> \in Seq(AnyTask) /\ DOMAIN << >> = {}
  OBVIOUS
<1>2. OnlyCopies(<< >>, overtaken')
  BY <1>1 DEF OnlyCopies
<1>3. work' = [work EXCEPT ![t] = << >> \o Tail(work[t])]
  BY DEF GoOn
<1> QED
  BY <1>1, <1>2, <1>3, WorkOrder

LEMMA DropOrder == ASSUME SInv, OInv, NEW t \in Handler, DropPacket(t) PROVE OInv'
<1>1. Aging
  BY DEF DropPacket, Aging, SInv, QueuesTyped
<1>2. /\ pc[t] = "work" /\ GoOn(t, << >>)
      /\ UNCHANGED <<sent, output_buffer, egress_buffers, queue_lo, rx_packet, queue_hi>>
  BY DEF DropPacket, HasTask, inputVars, egressVars, outVars
<1>3. \A i \in DOMAIN queue_hi' : queue_hi'[i] \notin Fresh'
  BY <1>1, <1>2, PlacedSame DEF OInv
<1> QED
  BY <1>1, <1>2, <1>3, DoneOrder

LEMMA BackToIngressOrder ==
    ASSUME SInv, OInv, NEW t \in Handler, NEW op, BackToIngress(t, op)
    PROVE  OInv'
<1>1. /\ pc[t] = "work" /\ GoOn(t, << >>) /\ packet_id' = packet_id
      /\ overtaken' = overtaken \cup {Head(work[t]).pkt}
      /\ UNCHANGED <<sent, output_buffer, egress_buffers, queue_lo, rx_packet>>
      /\ queue_hi' = queue_hi \/ queue_hi' = Append(queue_hi, Head(work[t]).pkt)
  BY Zenon DEF BackToIngress, PushBack, HasTask, egressVars, outVars
<1>2. Aging
  BY <1>1 DEF Aging, SInv, QueuesTyped
<1>3. Head(work[t]).pkt \in Nat /\ Head(work[t]).pkt \notin Fresh'
  BY <1>1, FirstTask DEF SInv, AnyTask, Fresh
<1>4. \A i \in DOMAIN queue_hi : queue_hi[i] \notin Fresh'
  BY <1>2, FreshShrinks DEF OInv, Placed
<1>5. \A i \in DOMAIN queue_hi' : queue_hi'[i] \notin Fresh'
  <2>1. queue_hi \in Seq(Nat)
    BY DEF SInv, QueuesTyped
  <2>2. CASE queue_hi' = queue_hi
    BY <1>4, <2>2
  <2>3. CASE queue_hi' = Append(queue_hi, Head(work[t]).pkt)
    BY <1>3, <1>4, <2>1, <2>3, AppendAt
  <2> QED
    BY <1>1, <2>2, <2>3
<1> QED
  BY <1>1, <1>2, <1>5, DoneOrder

LEMMA CloneOrder == ASSUME SInv, OInv, NEW t \in Handler, ClonePacket(t) PROVE OInv'
<1>1. /\ pc[t] = "work" /\ packet_id' \in Nat /\ packet_id <= packet_id'
      /\ overtaken \subseteq overtaken'
  BY CloneMakes
<1>2. PICK more \in Seq(AnyTask) :
          /\ work' = [work EXCEPT ![t] = more \o Tail(work[t])]
          /\ OnlyCopies(more, overtaken')
  BY CloneMakes DEF OnlyCopies
<1>3. Aging
  BY <1>1 DEF Aging, SInv, QueuesTyped
<1>4. UNCHANGED <<sent, output_buffer, egress_buffers, queue_lo, rx_packet, queue_hi>>
  BY DEF ClonePacket, inputVars, egressVars, outVars
<1>5. \A i \in DOMAIN queue_hi' : queue_hi'[i] \notin Fresh'
  BY <1>3, <1>4, PlacedSame DEF OInv
<1> QED
  BY <1>1, <1>2, <1>3, <1>4, <1>5, WorkOrder

LEMMA MulticastOrder == ASSUME SInv, OInv, MulticastPacket PROVE OInv'
<1> DEFINE task == Head(work[ingress])
           ports == Group[task.id]
           more == Replicate(ports, packet_id, task.priority)
<1>1. ingress \in Handler /\ pc[ingress] = "work" /\ task.op = "multicast"
  BY Threads DEF MulticastPacket, HasTask
<1>2. /\ task \in AnyTask /\ work[ingress] \in Seq(AnyTask) /\ work[ingress] # << >>
      /\ task = work[ingress][1] /\ IsWork(work[ingress])
  BY <1>1, FirstTask DEF SInv
<1>3. task.id \in DOMAIN Group
  <2>1. 1 \in DOMAIN work[ingress]
    BY <1>2
  <2> QED
    BY <1>1, <1>2, <2>1 DEF IsWork
<1>4. ports \in Seq(Port) /\ task.priority \in Nat /\ packet_id \in Nat
  BY <1>2, <1>3, SessionsAssumption DEF SInv, QueuesTyped, AnyTask
<1>5. /\ work' = [work EXCEPT ![ingress] = more \o Tail(work[ingress])]
      /\ packet_id' = packet_id + Len(ports)
      /\ overtaken' = overtaken \cup (packet_id + 1 .. packet_id')
  BY Zenon DEF MulticastPacket, GoOn
<1> HIDE DEF task, ports
<1>6. /\ more \in Seq(AnyTask)
      /\ \A i \in DOMAIN more :
            more[i].op = "enqueue" /\ more[i].pkt \in packet_id + 1 .. packet_id + Len(ports)
  BY <1>4, ReplicateIsWork
<1> HIDE DEF more
<1>7. OnlyCopies(more, overtaken')
  BY <1>5, <1>6 DEF OnlyCopies
<1>8. Aging
  <2>1. Len(ports) \in Nat
    BY <1>4
  <2> QED
    BY <1>4, <1>5, <2>1 DEF Aging
<1>9. UNCHANGED <<sent, output_buffer, egress_buffers, queue_lo, rx_packet, queue_hi>>
  BY DEF MulticastPacket, inputVars, egressVars, outVars
<1>10. \A i \in DOMAIN queue_hi' : queue_hi'[i] \notin Fresh'
  BY <1>8, <1>9, PlacedSame DEF OInv
<1> QED
  BY <1>1, <1>5, <1>6, <1>7, <1>8, <1>9, <1>10, WorkOrder

LEMMA WorkerOfPort == ASSUME NEW p \in Port PROVE WorkerOf(p) \in Worker
BY WorkersAssumption DEF WorkerOf, Worker

LEMMA NoElements == ASSUME NEW S, NEW r \in Seq(S), Len(r) = 0 PROVE r = << >>
OBVIOUS

LEMMA OnlyTask == ASSUME NEW S, NEW s \in Seq(S), Len(s) = 1 PROVE << >> \o Tail(s) = << >>
<1>1. Tail(s) \in Seq(S) /\ Len(Tail(s)) = 0
  OBVIOUS
<1>2. Tail(s) = << >>
  BY <1>1, NoElements
<1> QED
  BY <1>2

\* A packet put at the end of an egress buffer.
LEMMA PushFlow ==
    ASSUME SInv, OInv, Aging, NEW p0 \in Port, NEW q0 \in Queue, NEW x \in Nat,
           PushEgress(p0, q0, x),
           x \in Fresh' => \A y \in Buffered(p0, q0) : y \in Fresh => y < x
    PROVE  /\ \A p \in Port, q \in Queue : \A y \in Buffered(p, q)' :
                 y \in Buffered(p, q) \/ (p = p0 /\ q = q0 /\ y = x)
           /\ \A w \in Worker, q \in Queue : SortedBuffer(egress_buffers'[w][q], Fresh')
           /\ \A w \in Worker, q \in Queue : \A i \in DOMAIN egress_buffers'[w][q] :
                 WorkerOf(egress_buffers'[w][q][i].port) = w
<1> DEFINE item == [pkt |-> x, port |-> p0]
           w0 == WorkerOf(p0)
<1>1. item \in Queued /\ item.pkt = x /\ item.port = p0 /\ WorkerOf(item.port) = w0
  BY DEF Queued
<1>2. w0 \in Worker
  BY WorkerOfPort
<1>3. egress_buffers' = [egress_buffers EXCEPT ![w0][q0] = Append(@, item)]
  BY Zenon DEF PushEgress
<1> HIDE DEF item, w0
<1>4. ASSUME NEW w \in Worker, NEW q \in Queue
      PROVE  /\ egress_buffers[w][q] \in Seq(Queued)
             /\ egress_buffers'[w][q] =
                   IF w = w0 /\ q = q0 THEN Append(egress_buffers[w][q], item)
                                       ELSE egress_buffers[w][q]
  <2>1. egress_buffers \in [Worker -> [Queue -> Seq(Queued)]]
    BY DEF SInv, QueuesTyped
  <2> QED
    BY <1>2, <1>3, <2>1
<1>5. ASSUME NEW w \in Worker, NEW q \in Queue, NEW i \in DOMAIN egress_buffers'[w][q]
      PROVE  \/ i \in DOMAIN egress_buffers[w][q]
                /\ egress_buffers'[w][q][i] = egress_buffers[w][q][i]
             \/ w = w0 /\ q = q0 /\ egress_buffers'[w][q][i] = item
  <2>1. CASE w = w0 /\ q = q0
    <3>1. egress_buffers[w][q] \in Seq(Queued)
          /\ egress_buffers'[w][q] = Append(egress_buffers[w][q], item)
      BY <1>4, <2>1
    <3>2. \A j \in DOMAIN Append(egress_buffers[w][q], item) :
              \/ j \in DOMAIN egress_buffers[w][q]
                 /\ Append(egress_buffers[w][q], item)[j] = egress_buffers[w][q][j]
              \/ Append(egress_buffers[w][q], item)[j] = item
      BY <1>1, <3>1, AppendAt
    <3> QED
      BY <2>1, <3>1, <3>2
  <2>2. CASE ~(w = w0 /\ q = q0)
    BY <1>4, <2>2
  <2> QED BY <2>1, <2>2
<1>6. ASSUME NEW p \in Port, NEW q \in Queue, NEW y \in Buffered(p, q)'
      PROVE  y \in Buffered(p, q) \/ (p = p0 /\ q = q0 /\ y = x)
  <2>1. PICK i \in DOMAIN egress_buffers'[WorkerOf(p)][q] :
            LET b == egress_buffers'[WorkerOf(p)][q][i] IN b.pkt = y /\ b.port = p
    BY DEF Buffered, WorkerOf
  <2>2. y \in Nat
    BY DEF Buffered
  <2>3. \/ i \in DOMAIN egress_buffers[WorkerOf(p)][q]
           /\ egress_buffers'[WorkerOf(p)][q][i] = egress_buffers[WorkerOf(p)][q][i]
        \/ q = q0 /\ egress_buffers'[WorkerOf(p)][q][i] = item
    BY <1>5, WorkerOfPort
  <2> QED
    BY <1>1, <2>1, <2>2, <2>3 DEF Buffered
<1>7. ASSUME NEW w \in Worker, NEW q \in Queue
      PROVE  SortedBuffer(egress_buffers'[w][q], Fresh')
  <2>1. SortedBuffer(egress_buffers[w][q], Fresh) /\ Fresh' \subseteq Fresh
    BY FreshShrinks DEF OInv, SortedQueues
  <2>2. CASE w = w0 /\ q = q0
    <3>1. ASSUME NEW i \in DOMAIN egress_buffers[w][q],
                 egress_buffers[w][q][i].port = item.port,
                 egress_buffers[w][q][i].pkt \in Fresh', item.pkt \in Fresh'
          PROVE  egress_buffers[w][q][i].pkt < item.pkt
      <4>1. egress_buffers[w][q][i].pkt \in Buffered(p0, q0)
        <5>1. egress_buffers[w][q][i] \in Queued
          BY <1>4
        <5>2. egress_buffers[w][q][i].pkt \in Nat
          BY <5>1 DEF Queued
        <5> QED
          BY <1>1, <2>2, <3>1, <5>2 DEF Buffered, w0
      <4> QED
        BY <1>1, <2>1, <3>1, <4>1
    <3>2. egress_buffers'[w][q] = Append(egress_buffers[w][q], item)
      BY <1>4, <2>2
    <3> QED
      BY <1>1, <1>4, <2>1, <3>1, <3>2, BufferAppend
  <2>3. CASE ~(w = w0 /\ q = q0)
    <3>1. egress_buffers'[w][q] = egress_buffers[w][q]
      BY <1>4, <2>3
    <3> QED
      BY <2>1, <3>1 DEF SortedBuffer
  <2> QED BY <2>2, <2>3
<1>8. ASSUME NEW w \in Worker, NEW q \in Queue, NEW i \in DOMAIN egress_buffers'[w][q]
      PROVE  WorkerOf(egress_buffers'[w][q][i].port) = w
  BY <1>1, <1>5 DEF OInv, Placed
<1> QED
  BY <1>6, <1>7, <1>8

LEMMA EnqueueOrder == ASSUME SInv, OInv, NEW t \in Handler, EnqueuePacket(t) PROVE OInv'
<1> DEFINE task == Head(work[t])
           q0 == nb_queues_per_port - 1 - task.priority
           x == task.pkt
           rest == << >> \o Tail(work[t])
<1>1. /\ pc[t] = "work" /\ GoOn(t, << >>) /\ packet_id' = packet_id /\ overtaken' = overtaken
      /\ UNCHANGED <<sent, output_buffer, queue_lo, rx_packet, queue_hi>>
      /\ task.op = "enqueue"
      /\ work' = [work EXCEPT ![t] = rest]
  BY Zenon DEF EnqueuePacket, HasTask, inputVars, outVars, GoOn
<1>2. \/ egress_buffers' = egress_buffers
      \/ task.priority < nb_queues_per_port /\ PushEgress(task.port, q0, x)
  BY Zenon DEF EnqueuePacket, egressVars
<1>3. Aging
  BY <1>1 DEF Aging, SInv, QueuesTyped
<1>4. \A i \in DOMAIN queue_hi' : queue_hi'[i] \notin Fresh'
  BY <1>1, <1>3, PlacedSame DEF OInv
<1>5. /\ work[t] \in Seq(AnyTask) /\ work[t] # << >> /\ GoodWork(t, work[t], overtaken)
      /\ task = work[t][1] /\ task \in AnyTask
  BY <1>1, FirstTask DEF SInv, OInv, Placed
<1>6. CASE egress_buffers' = egress_buffers
  BY <1>1, <1>3, <1>4, <1>6, DoneOrder
<1>7. CASE task.priority < nb_queues_per_port /\ PushEgress(task.port, q0, x)
  <2>1. x \in Nat /\ task.port \in Port /\ task.priority \in Nat
    BY <1>5 DEF AnyTask
  <2>2. q0 \in Queue
    BY <1>7, <2>1, WorkersAssumption DEF Queue
  <2>3. 1 \in DOMAIN work[t] /\ (Len(work[t]) = 1 => rest = << >>)
    BY <1>5, OnlyTask
  <2>4. x \in Fresh => t = ingress /\ rest = << >> /\ x \in Enqueued
    <3>1. x \in Fresh => t = ingress /\ Len(work[t]) = 1
      BY <1>1, <1>5, <2>3 DEF GoodWork, Fresh
    <3> QED
      BY <1>1, <1>5, <2>1, <2>3, <3>1 DEF Enqueued
  <2>5. GoodWork(t, rest, overtaken') /\ CopiesOrOf(rest, work[t], overtaken')
    <3>1. << >> \in Seq(AnyTask) /\ OnlyCopies(<< >>, overtaken')
      BY DEF OnlyCopies
    <3> QED
      BY <1>3, <1>5, <3>1, RestGood DEF Aging
  <2> HIDE DEF task, q0, x, rest
  <2>6. /\ \A u \in Handler : GoodWork(u, work'[u], overtaken')
        /\ \A p \in Port, q \in Queue : \A y \in Emitted(p, q)' : y \in Emitted(p, q)
        /\ \A y \in Enqueued' : y \in Fresh' => y \in Enqueued
    BY <1>1, <1>3, <2>5, WorkFlow DEF OInv
  <2>7. Fresh' = Fresh
    BY <1>1 DEF Fresh
  <2>8. x \in Fresh' => \A y \in Buffered(task.port, q0) : y \in Fresh => y < x
    <3>1. InOrder(Stages(task.port, q0), Fresh)
      BY <2>1, <2>2 DEF OInv, OrderedStages, Ordered
    <3>2. \A y \in Stages(task.port, q0)[4], z \in Stages(task.port, q0)[5] :
              y \in Fresh /\ z \in Fresh => y < z
      BY <3>1 DEF InOrder
    <3> QED
      BY <2>4, <2>7, <3>2, StageOf
  <2>9. /\ \A p \in Port, q \in Queue : \A y \in Buffered(p, q)' :
              y \in Buffered(p, q) \/ (p = task.port /\ q = q0 /\ y = x)
        /\ \A w \in Worker, q \in Queue : SortedBuffer(egress_buffers'[w][q], Fresh')
        /\ \A w \in Worker, q \in Queue : \A i \in DOMAIN egress_buffers'[w][q] :
              WorkerOf(egress_buffers'[w][q][i].port) = w
    BY <1>3, <1>7, <2>1, <2>2, <2>8, PushFlow
  <2>10. Placed'
    BY <1>1, <1>3, <2>6, <2>9, PlacedSame DEF OInv, Placed
  <2>11. SortedQueues'
    BY <1>1, <1>3, <2>9, SortedSame DEF OInv, SortedQueues
  <2>12. ASSUME NEW p \in Port, NEW q \in Queue PROVE Ordered(p, q)'
    <3>1. CASE p = task.port /\ q = q0 /\ x \in Fresh
      <4>1. Flow(p, q, 4, x)
        BY <1>1, <2>6, <2>9, Same DEF Flow
      <4>2. x \in Stages(p, q)[5]
        BY <2>4, <3>1, StageOf
      <4>3. Enqueued' = {}
        <5>1. work'[ingress] = << >>
          BY <1>1, <2>4, <3>1, Threads DEF SInv, WorkTyped
        <5> QED
          BY <5>1 DEF Enqueued, ingress
      <4>4. Stages(p, q)'[5] = {}
        BY <4>3, StageOf
      <4> QED
        BY <1>3, <4>1, <4>2, <4>4, MoveStages DEF OInv, OrderedStages
    <3>2. CASE ~(p = task.port /\ q = q0 /\ x \in Fresh)
      <4>1. Flow(p, q, 0, nullptr)
        BY <1>1, <2>6, <2>7, <2>9, <3>2, Same DEF Flow
      <4> QED
        BY <1>3, <4>1, ShrinkStages DEF OInv, OrderedStages
    <3> QED BY <3>1, <3>2
  <2> QED
    BY <2>10, <2>11, <2>12 DEF OInv, OrderedStages
<1> QED BY <1>2, <1>6, <1>7

LEMMA EmitOrder == ASSUME SInv, OInv, NEW w \in Worker, EmitPacket(w) PROVE OInv'
<1> DEFINE task == Head(work[w])
           item == [pkt |-> task.pkt, port |-> task.port, queue |-> task.priority]
           rest == << >> \o Tail(work[w])
<1>1. /\ pc[w] = "work" /\ packet_id' = packet_id /\ overtaken' = overtaken
      /\ UNCHANGED <<sent, egress_buffers, queue_lo, rx_packet, queue_hi>>
      /\ task.op = "emit" /\ work' = [work EXCEPT ![w] = rest]
      /\ output_buffer' = Append(output_buffer, item)
  BY Zenon DEF EmitPacket, HasTask, inputVars, egressVars, GoOn
<1>2. Aging /\ Fresh' = Fresh
  BY <1>1 DEF Aging, SInv, QueuesTyped, Fresh
<1>3. /\ w \in Handler /\ work[w] \in Seq(AnyTask) /\ work[w] # << >>
      /\ GoodWork(w, work[w], overtaken) /\ task = work[w][1] /\ task \in AnyTask
  BY <1>1, FirstTask, Threads DEF SInv, OInv, Placed
<1>4. 1 \in DOMAIN work[w]
  BY <1>3
<1>5. Len(work[w]) = 1 /\ WorkerOf(task.port) = w /\ task.priority \in Queue
  BY <1>1, <1>3, <1>4 DEF GoodWork
<1>6. rest = << >>
  BY <1>3, <1>5, OnlyTask
<1>7. task.pkt \in Nat /\ task.port \in Port
  BY <1>3 DEF AnyTask
<1>8. item \in Leaving /\ item.pkt = task.pkt /\ item.port = task.port
      /\ item.queue = task.priority
  BY <1>5, <1>7 DEF Leaving
<1>9. task.pkt \in Emitted(task.port, task.priority)
  BY <1>1, <1>3, <1>4, <1>5, <1>7 DEF Emitted
<1> HIDE DEF task, item, rest
<1>10. /\ \A u \in Handler : GoodWork(u, work'[u], overtaken')
       /\ \A p \in Port, q \in Queue : \A y \in Emitted(p, q)' : y \in Emitted(p, q)
       /\ \A y \in Enqueued' : y \in Fresh' => y \in Enqueued
  <2>1. GoodWork(w, rest, overtaken') /\ CopiesOrOf(rest, work[w], overtaken')
    BY <1>6 DEF GoodWork, CopiesOrOf
  <2> QED
    BY <1>1, <1>2, <1>3, <2>1, WorkFlow DEF OInv
<1>11. output_buffer \in Seq(Leaving)
  BY DEF OInv, Placed
<1>12. output_buffer' \in Seq(Leaving)
  BY <1>1, <1>8, <1>11, AppendAt
<1>13. Placed'
  BY <1>1, <1>2, <1>10, <1>12, PlacedSame DEF OInv, Placed
<1>14. SortedLine(output_buffer', Fresh')
  <2>1. ASSUME NEW i \in DOMAIN output_buffer,
               output_buffer[i].port = item.port, output_buffer[i].queue = item.queue,
               output_buffer[i].pkt \in Fresh', item.pkt \in Fresh'
        PROVE  output_buffer[i].pkt < item.pkt
    <3>1. output_buffer[i].pkt \in Out(task.port, task.priority)
      <4>1. output_buffer[i] \in Leaving
        BY <1>11
      <4>2. output_buffer[i].pkt \in Nat
        BY <4>1 DEF Leaving
      <4> QED
        BY <1>8, <2>1, <4>2 DEF Out
    <3>2. InOrder(Stages(task.port, task.priority), Fresh)
      BY <1>5, <1>7 DEF OInv, OrderedStages, Ordered
    <3>3. \A y \in Stages(task.port, task.priority)[2],
             z \in Stages(task.port, task.priority)[3] : y \in Fresh /\ z \in Fresh => y < z
      BY <3>2 DEF InOrder
    <3> QED
      BY <1>2, <1>8, <1>9, <2>1, <3>1, <3>3, StageOf
  <2>2. SortedLine(output_buffer, Fresh)
    BY DEF OInv, SortedQueues
  <2> QED
    BY <1>1, <1>2, <1>8, <1>11, <2>1, <2>2, LineAppend
<1>15. SortedQueues'
  BY <1>1, <1>2, <1>14, SortedSame DEF OInv, SortedQueues
<1>16. ASSUME NEW p \in Port, NEW q \in Queue, NEW y \in Out(p, q)'
       PROVE  y \in Out(p, q) \/ (p = task.port /\ q = task.priority /\ y = task.pkt)
  <2>1. PICK i \in DOMAIN output_buffer' :
            /\ output_buffer'[i].pkt = y /\ output_buffer'[i].port = p
            /\ output_buffer'[i].queue = q
    BY DEF Out
  <2>2. y \in Nat
    BY DEF Out
  <2>3. (i \in DOMAIN output_buffer /\ output_buffer'[i] = output_buffer[i])
        \/ output_buffer'[i] = item
    BY <1>1, <1>8, <1>11, AppendAt
  <2> QED
    BY <1>8, <2>1, <2>2, <2>3 DEF Out
<1>17. ASSUME NEW p \in Port, NEW q \in Queue PROVE Ordered(p, q)'
  <2>1. CASE p = task.port /\ q = task.priority
    <3>1. Flow(p, q, 2, task.pkt)
      BY <1>1, <1>10, <1>16, Same DEF Flow
    <3>2. task.pkt \in Stages(p, q)[3]
      BY <1>9, <2>1, StageOf
    <3>3. Emitted(p, q)' = {}
      <4>1. work'[WorkerOf(p)] = << >>
        BY <1>1, <1>3, <1>5, <1>6, <2>1 DEF SInv, WorkTyped
      <4> QED
        BY <4>1 DEF Emitted, WorkerOf
    <3>4. Stages(p, q)'[3] = {}
      BY <3>3, StageOf
    <3> QED
      BY <1>2, <3>1, <3>2, <3>4, MoveStages DEF OInv, OrderedStages
  <2>2. CASE ~(p = task.port /\ q = task.priority)
    <3>1. Flow(p, q, 0, nullptr)
      BY <1>1, <1>10, <1>16, <2>2, Same DEF Flow
    <3> QED
      BY <1>2, <3>1, ShrinkStages DEF OInv, OrderedStages
  <2> QED BY <2>1, <2>2
<1> QED
  BY <1>13, <1>15, <1>17 DEF OInv, OrderedStages

LEMMA TransmitOrder == ASSUME SInv, OInv, Transmit PROVE OInv'
<1> DEFINE h == Head(output_buffer)
<1>1. /\ output_buffer # << >> /\ output_buffer' = Tail(output_buffer)
      /\ \/ sent' = sent
         \/ h.pkt # nullptr /\ sent' = Append(sent, h)
      /\ UNCHANGED <<work, egress_buffers, queue_lo, rx_packet, queue_hi,
                     packet_id, overtaken>>
  BY Zenon DEF Transmit, inputVars, egressVars, handlingVars
<1>2. Aging /\ Fresh' = Fresh
  BY <1>1 DEF Aging, SInv, QueuesTyped, Fresh
<1>3. /\ output_buffer \in Seq(Leaving) /\ sent \in Seq(Leaving)
      /\ SortedLine(output_buffer, Fresh) /\ SortedLine(sent, Fresh)
  BY DEF OInv, Placed, SortedQueues
<1>4. /\ h \in Leaving /\ h = output_buffer[1] /\ 1 \in DOMAIN output_buffer
      /\ Tail(output_buffer) \in Seq(Leaving)
      /\ \A i \in DOMAIN Tail(output_buffer) :
            i \in Nat /\ i + 1 \in DOMAIN output_buffer /\ 1 < i + 1
            /\ Tail(output_buffer)[i] = output_buffer[i + 1]
  BY <1>1, <1>3, TailAt
<1>5. h.pkt \in Nat /\ h.port \in Port /\ h.queue \in Queue
  BY <1>4 DEF Leaving
<1>6. h.pkt \in Out(h.port, h.queue)
  BY <1>4, <1>5 DEF Out
<1> HIDE DEF h
<1>7. ASSUME NEW p \in Port, NEW q \in Queue, NEW y \in Out(p, q)'
      PROVE  /\ y \in Out(p, q)
             /\ p = h.port /\ q = h.queue /\ y \in Fresh /\ h.pkt \in Fresh => h.pkt < y
  <2>1. PICK i \in DOMAIN output_buffer' :
            /\ output_buffer'[i].pkt = y /\ output_buffer'[i].port = p
            /\ output_buffer'[i].queue = q
    BY DEF Out
  <2>2. y \in Nat
    BY DEF Out
  <2>3. /\ i \in Nat /\ i + 1 \in DOMAIN output_buffer /\ 1 < i + 1
        /\ output_buffer[i + 1].pkt = y /\ output_buffer[i + 1].port = p
        /\ output_buffer[i + 1].queue = q
    BY <1>1, <1>4, <2>1
  <2> QED
    BY <1>3, <1>4, <2>2, <2>3 DEF Out, SortedLine
<1>8. SortedLine(output_buffer', Fresh')
  BY <1>1, <1>2, <1>3, LineTail
<1>9. CASE sent' = sent
  <2>1. Placed'
    BY <1>1, <1>2, <1>4, <1>9, PlacedSame DEF OInv, Placed
  <2>2. SortedQueues'
    BY <1>1, <1>2, <1>8, <1>9, SortedSame DEF OInv, SortedQueues
  <2>3. ASSUME NEW p \in Port, NEW q \in Queue PROVE Ordered(p, q)'
    <3>1. Flow(p, q, 0, nullptr)
      BY <1>1, <1>7, <1>9, Same DEF Flow
    <3> QED
      BY <1>2, <3>1, ShrinkStages DEF OInv, OrderedStages
  <2> QED
    BY <2>1, <2>2, <2>3 DEF OInv, OrderedStages
<1>10. CASE h.pkt # nullptr /\ sent' = Append(sent, h)
  <2>1. /\ sent' \in Seq(Leaving)
        /\ \A i \in DOMAIN sent' : \/ i \in DOMAIN sent /\ sent'[i] = sent[i]
                                   \/ sent'[i] = h
    BY <1>3, <1>4, <1>10, AppendAt
  <2>2. \A i \in DOMAIN sent' : sent'[i].pkt # nullptr
    BY <1>10, <2>1 DEF OInv, Placed
  <2>3. Placed'
    BY <1>1, <1>2, <1>4, <2>1, <2>2, PlacedSame DEF OInv, Placed
  <2>4. SortedLine(sent', Fresh')
    <3>1. ASSUME NEW i \in DOMAIN sent, sent[i].port = h.port, sent[i].queue = h.queue,
                 sent[i].pkt \in Fresh', h.pkt \in Fresh'
          PROVE  sent[i].pkt < h.pkt
      <4>1. sent[i] \in Leaving
        BY <1>3
      <4>2. sent[i].pkt \in Sent(h.port, h.queue)
        BY <3>1, <4>1 DEF Sent, Leaving
      <4>3. InOrder(Stages(h.port, h.queue), Fresh)
        BY <1>5 DEF OInv, OrderedStages, Ordered
      <4>4. \A y \in Stages(h.port, h.queue)[1], z \in Stages(h.port, h.queue)[2] :
                y \in Fresh /\ z \in Fresh => y < z
        BY <4>3 DEF InOrder
      <4> QED
        BY <1>2, <1>6, <3>1, <4>2, <4>4, StageOf
    <3> QED
      BY <1>2, <1>3, <1>4, <1>10, <3>1, LineAppend
  <2>5. SortedQueues'
    BY <1>1, <1>2, <1>8, <2>4, SortedSame DEF OInv, SortedQueues
  <2>6. ASSUME NEW p \in Port, NEW q \in Queue, NEW y \in Sent(p, q)'
        PROVE  y \in Sent(p, q) \/ (p = h.port /\ q = h.queue /\ y = h.pkt)
    <3>1. PICK i \in DOMAIN sent' :
              sent'[i].pkt = y /\ sent'[i].port = p /\ sent'[i].queue = q
      BY DEF Sent
    <3>2. y \in Nat
      BY DEF Sent
    <3> QED
      BY <2>1, <3>1, <3>2 DEF Sent
  <2>7. ASSUME NEW p \in Port, NEW q \in Queue PROVE Ordered(p, q)'
    <3>1. CASE p = h.port /\ q = h.queue
      <4>1. Flow(p, q, 1, h.pkt)
        BY <1>1, <1>7, <2>6, Same DEF Flow
      <4>2. h.pkt \in Stages(p, q)[2]
        BY <1>6, <3>1, StageOf
      <4>3. \A y \in Stages(p, q)'[2] : y \in Fresh' /\ h.pkt \in Fresh' => h.pkt < y
        BY <1>2, <1>7, <3>1, StageOf
      <4> QED
        BY <1>2, <4>1, <4>2, <4>3, MoveStages DEF OInv, OrderedStages
    <3>2. CASE ~(p = h.port /\ q = h.queue)
      <4>1. Flow(p, q, 0, nullptr)
        BY <1>1, <1>7, <2>6, <3>2, Same DEF Flow
      <4> QED
        BY <1>2, <4>1, ShrinkStages DEF OInv, OrderedStages
    <3> QED BY <3>1, <3>2
  <2> QED
    BY <2>3, <2>5, <2>7 DEF OInv, OrderedStages
<1> QED BY <1>1, <1>9, <1>10

\* The tasks a pipeline leaves: all about the packet that was taken, and its
\* fate comes last.
TasksOf(tasks, x, p, q, fates) ==
    \A i \in DOMAIN tasks :
        /\ tasks[i].pkt = x
        /\ tasks[i].op \in {"emit", "enqueue"} => i = Len(tasks) /\ tasks[i].op \in fates
        /\ tasks[i].op = "emit" => tasks[i].port = p /\ tasks[i].priority = q

LEMMA ProcessTasks ==
    ASSUME NEW t, NEW x \in Nat, NEW p \in Port, NEW q \in Nat, NEW verdicts, NEW fates,
           \A v \in verdicts : IsVerdict(v, fates), Process(t, x, p, q, verdicts)
    PROVE  \E tasks : work' = [work EXCEPT ![t] = tasks] /\ TasksOf(tasks, x, p, q, fates)
<1>1. PICK v \in verdicts : work' = [work EXCEPT ![t] = Handed(v, x, p, q)]
  BY DEF Process
<1> DEFINE tasks == Handed(v, x, p, q)
<1>2. v \in Seq(AnyTask) /\ Len(v) \in {1, 2}
  BY DEF IsVerdict
<1>3. DOMAIN v = 1 .. Len(v) /\ DOMAIN tasks = DOMAIN v
  BY <1>2 DEF Handed
<1>4. ASSUME NEW i \in DOMAIN v
      PROVE  /\ tasks[i].pkt = x /\ tasks[i].op = v[i].op
             /\ tasks[i].op = "emit" => tasks[i].port = p /\ tasks[i].priority = q
  <2>1. v[i] \in AnyTask
    BY <1>2
  <2>2. tasks[i] = IF v[i].op = "emit"
                     THEN [v[i] EXCEPT !.pkt = x, !.port = p, !.priority = q]
                     ELSE [v[i] EXCEPT !.pkt = x]
    BY DEF Handed
  <2> HIDE DEF tasks
  <2> QED
    BY <2>1, <2>2 DEF AnyTask
<1>5. Len(tasks) = Len(v)
  <2>1. tasks = [i \in 1 .. Len(v) |-> tasks[i]]
    BY <1>3 DEF Handed
  <2> HIDE DEF tasks
  <2> QED
    BY <1>2, <2>1
<1>6. /\ Len(v) = 2 => v[1].op = "clone"
      /\ v[Len(v)].op \in fates
  BY DEF IsVerdict
<1>7. work' = [work EXCEPT ![t] = tasks]
  BY <1>1
<1> HIDE DEF tasks
<1>8. ASSUME NEW i \in DOMAIN tasks, tasks[i].op \in {"emit", "enqueue"}
      PROVE  i = Len(tasks) /\ tasks[i].op \in fates
  <2>1. v[i].op # "clone" /\ i \in 1 .. Len(v)
    BY <1>3, <1>4, <1>8
  <2>2. i = Len(v)
    BY <1>2, <1>6, <2>1
  <2> QED
    BY <1>3, <1>4, <1>5, <1>6, <2>2
<1>9. TasksOf(tasks, x, p, q, fates)
  BY <1>3, <1>4, <1>8 DEF TasksOf
<1> QED
  BY <1>7, <1>9

LEMMA IngressPopOrder == ASSUME SInv, OInv, IngressPop PROVE OInv'
<1> DEFINE fates == {"enqueue", "multicast", "resubmit", "drop"}
           hi == queue_hi # << >> /\ queue_hi' = Tail(queue_hi) /\ queue_lo' = queue_lo
           lo == queue_lo # << >> /\ queue_lo' = Tail(queue_lo) /\ queue_hi' = queue_hi
<1>1. PICK x :
          /\ IngressTake(x)
          /\ (hi /\ x = Head(queue_hi)) \/ (lo /\ x = Head(queue_lo))
  BY Zenon DEF IngressPop
<1>2. queue_hi \in Seq(Nat) /\ queue_lo \in Seq(Nat) /\ SortedInput(queue_lo, Fresh)
  BY DEF SInv, QueuesTyped, OInv, SortedQueues
<1>3. hi => /\ Head(queue_hi) = queue_hi[1] /\ Head(queue_hi) \in Nat /\ 1 \in DOMAIN queue_hi
            /\ \A i \in DOMAIN queue_hi' : i + 1 \in DOMAIN queue_hi
                                           /\ queue_hi'[i] = queue_hi[i + 1]
  BY <1>2, TailAt
<1>4. lo => /\ Head(queue_lo) = queue_lo[1] /\ Head(queue_lo) \in Nat /\ 1 \in DOMAIN queue_lo
            /\ \A i \in DOMAIN queue_lo' :
                  i \in Nat /\ 1 < i + 1 /\ i + 1 \in DOMAIN queue_lo
                  /\ queue_lo'[i] = queue_lo[i + 1]
  BY <1>2, TailAt
<1>5. x \in Nat /\ (hi /\ x = Head(queue_hi) => x \notin Fresh)
  BY <1>1, <1>3, <1>4 DEF OInv, Placed
<1>6. UNCHANGED <<rx_packet, sent, output_buffer, egress_buffers, packet_id, overtaken>>
  BY Zenon, <1>1 DEF IngressTake, egressVars, outVars
<1>7. Aging /\ Fresh' = Fresh
  BY <1>6 DEF Aging, SInv, QueuesTyped, Fresh
<1>8. \/ work' = work
      \/ \E tasks : work' = [work EXCEPT ![ingress] = tasks] /\ TasksOf(tasks, x, 0, 0, fates)
  <2>1. \A v \in IngressVerdicts : IsVerdict(v, fates)
    BY VerdictsAssumption
  <2> HIDE DEF fates
  <2>2. CASE x = nullptr
    BY <1>1, <2>2 DEF IngressTake
  <2>3. CASE x # nullptr
    <3>1. Process(ingress, x, 0, 0, IngressVerdicts)
      BY <1>1, <2>3 DEF IngressTake
    <3> QED
      BY <1>5, <2>1, <3>1, PortZero, ProcessTasks
  <2> QED BY <2>2, <2>3
<1>9. /\ \A u \in Handler : GoodWork(u, work'[u], overtaken')
      /\ \A p \in Port, q \in Queue : Emitted(p, q)' = Emitted(p, q)
      /\ \A y \in Enqueued' : y \in Enqueued \/ y = x
  <2>1. CASE work' = work
    BY <1>7, <2>1, Same, PlacedSame DEF OInv
  <2>2. CASE \E tasks : work' = [work EXCEPT ![ingress] = tasks]
                        /\ TasksOf(tasks, x, 0, 0, fates)
    <3>1. PICK tasks : work' = [work EXCEPT ![ingress] = tasks] /\ TasksOf(tasks, x, 0, 0, fates)
      BY <2>2
    <3>2. ingress \in Handler /\ \A w \in Worker : w \in Handler /\ w # ingress
      BY Threads
    <3>3. work'[ingress] = tasks /\ \A u \in Handler : u # ingress => work'[u] = work[u]
      BY <3>1, <3>2 DEF SInv, WorkTyped
    <3>4. "emit" \notin fates
      OBVIOUS
    <3> HIDE DEF fates
    <3>5. GoodWork(ingress, tasks, overtaken')
      BY <3>1, <3>4 DEF GoodWork, TasksOf
    <3>6. \A u \in Handler : GoodWork(u, work'[u], overtaken')
      BY <1>6, <3>3, <3>5 DEF OInv, Placed
    <3>7. \A p \in Port, q \in Queue : Emitted(p, q)' = Emitted(p, q)
      <4>1. \A p \in Port : work'[WorkerOf(p)] = work[WorkerOf(p)]
        BY <3>2, <3>3, WorkerOfPort
      <4> QED
        BY <4>1 DEF Emitted, WorkerOf
    <3>8. \A y \in Enqueued' : y = x
      <4> SUFFICES ASSUME NEW y \in Enqueued' PROVE y = x
        OBVIOUS
      <4>1. PICK i \in DOMAIN tasks : tasks[i].pkt = y
        BY <3>3 DEF Enqueued, ingress
      <4> QED
        BY <3>1, <4>1 DEF TasksOf
    <3> QED
      BY <3>6, <3>7, <3>8
  <2> QED BY <1>8, <2>1, <2>2
<1>10. \A i \in DOMAIN queue_hi' : queue_hi'[i] \notin Fresh'
  BY <1>1, <1>3, <1>7 DEF OInv, Placed
<1>11. Placed'
  BY <1>6, <1>7, <1>9, <1>10, PlacedSame DEF OInv, Placed
<1>12. SortedInput(queue_lo', Fresh')
  BY <1>1, <1>2, <1>7, InputTail DEF SortedInput
<1>13. SortedQueues'
  BY <1>6, <1>7, <1>12, SortedSame DEF OInv, SortedQueues
<1>14. CASE hi /\ x = Head(queue_hi)
  <2>1. ASSUME NEW p \in Port, NEW q \in Queue PROVE Ordered(p, q)'
    <3>1. Flow(p, q, 0, nullptr)
      BY <1>5, <1>6, <1>7, <1>9, <1>14, Same DEF Flow
    <3> QED
      BY <1>7, <3>1, ShrinkStages DEF OInv, OrderedStages
  <2> QED
    BY <1>11, <1>13, <2>1 DEF OInv, OrderedStages
<1>15. CASE lo /\ x = Head(queue_lo)
  <2>1. x \in Waiting
    BY <1>4, <1>15 DEF Waiting
  <2>2. \A y \in Waiting' : y \in Waiting /\ (y \in Fresh /\ x \in Fresh => x < y)
    <3> SUFFICES ASSUME NEW y \in Waiting'
                 PROVE  y \in Waiting /\ (y \in Fresh /\ x \in Fresh => x < y)
      OBVIOUS
    <3>1. PICK i \in DOMAIN queue_lo' : queue_lo'[i] = y
      BY DEF Waiting
    <3>2. y \in Nat
      BY DEF Waiting
    <3> QED
      BY <1>2, <1>4, <1>15, <3>1, <3>2 DEF Waiting, SortedInput
  <2>3. ASSUME NEW p \in Port, NEW q \in Queue PROVE Ordered(p, q)'
    <3>1. Flow(p, q, 5, x)
      BY <1>6, <1>7, <1>9, <2>2, Same DEF Flow
    <3>2. x \in Stages(p, q)[6]
      BY <2>1, StageOf
    <3>3. \A y \in Stages(p, q)'[6] : y \in Fresh' /\ x \in Fresh' => x < y
      BY <1>7, <2>2, StageOf
    <3> QED
      BY <1>7, <3>1, <3>2, <3>3, MoveStages DEF OInv, OrderedStages
  <2> QED
    BY <1>11, <1>13, <2>3 DEF OInv, OrderedStages
<1> QED BY <1>1, <1>14, <1>15

LEMMA EgressPopOrder == ASSUME SInv, OInv, NEW w \in Worker, EgressPop(w) PROVE OInv'
<1> DEFINE fates == {"emit", "recirculate", "drop"}
<1>1. PICK q0 \in Queue :
          /\ egress_buffers[w][q0] # << >>
          /\ egress_buffers' = [egress_buffers EXCEPT ![w][q0] = Tail(@)]
          /\ IF Head(egress_buffers[w][q0]).pkt = nullptr
               THEN Goto(w, "done") /\ UNCHANGED <<work, seen>>
               ELSE Process(w, Head(egress_buffers[w][q0]).pkt,
                            Head(egress_buffers[w][q0]).port, q0, EgressVerdicts)
  BY DEF EgressPop
<1> DEFINE b == egress_buffers[w][q0]
           x == Head(b).pkt
           p0 == Head(b).port
<1>2. b \in Seq(Queued) /\ SortedBuffer(b, Fresh)
  BY DEF SInv, QueuesTyped, OInv, SortedQueues
<1>3. /\ Head(b) = b[1] /\ Head(b) \in Queued /\ 1 \in DOMAIN b
      /\ Tail(b) \in Seq(Queued)
      /\ \A i \in DOMAIN Tail(b) :
            i \in Nat /\ i + 1 \in DOMAIN b /\ 1 < i + 1 /\ Tail(b)[i] = b[i + 1]
  BY <1>1, <1>2, TailAt
<1>4. x \in Nat /\ p0 \in Port
  BY <1>3 DEF Queued
<1>5. WorkerOf(p0) = w
  BY <1>3 DEF OInv, Placed
<1>6. x \in Buffered(p0, q0)
  BY <1>3, <1>4, <1>5 DEF Buffered
<1>7. UNCHANGED <<sent, output_buffer, queue_lo, queue_hi, rx_packet, packet_id, overtaken>>
  BY Zenon DEF EgressPop, inputVars, outVars
<1>8. Aging /\ Fresh' = Fresh
  BY <1>7 DEF Aging, SInv, QueuesTyped, Fresh
<1>9. w \in Handler /\ w # ingress
  BY Threads
<1>10. \/ work' = work
       \/ \E tasks : work' = [work EXCEPT ![w] = tasks] /\ TasksOf(tasks, x, p0, q0, fates)
  <2>1. \A v \in EgressVerdicts : IsVerdict(v, fates)
    BY VerdictsAssumption
  <2>2. q0 \in Nat
    BY WorkersAssumption DEF Queue
  <2> HIDE DEF fates
  <2>3. work' = work \/ Process(w, x, p0, q0, EgressVerdicts)
    BY <1>1
  <2> HIDE DEF x, p0
  <2> QED
    BY <1>4, <2>1, <2>2, <2>3, ProcessTasks
<1>11. ASSUME NEW v \in Worker, NEW q \in Queue
       PROVE  /\ egress_buffers[v][q] \in Seq(Queued)
              /\ egress_buffers'[v][q] = IF v = w /\ q = q0 THEN Tail(b) ELSE egress_buffers[v][q]
  <2>1. egress_buffers \in [Worker -> [Queue -> Seq(Queued)]]
    BY DEF SInv, QueuesTyped
  <2> QED
    BY <1>1, <2>1
<1> HIDE DEF x, p0, b
<1>b. b = egress_buffers[w][q0] /\ b[1].pkt = x /\ b[1].port = p0
  BY <1>3 DEF b, x, p0
<1>12. /\ \A u \in Handler : GoodWork(u, work'[u], overtaken')
       /\ \A p \in Port, q \in Queue : \A y \in Emitted(p, q)' :
             y \in Emitted(p, q) \/ (p = p0 /\ q = q0 /\ y = x)
       /\ Enqueued' = Enqueued
  <2>1. CASE work' = work
    BY <1>8, <2>1, Same, PlacedSame DEF OInv
  <2>2. CASE \E tasks : work' = [work EXCEPT ![w] = tasks]
                        /\ TasksOf(tasks, x, p0, q0, fates)
    <3>1. PICK tasks : work' = [work EXCEPT ![w] = tasks] /\ TasksOf(tasks, x, p0, q0, fates)
      BY <2>2
    <3>2. work'[w] = tasks /\ \A u \in Handler : u # w => work'[u] = work[u]
      BY <1>9, <3>1 DEF SInv, WorkTyped
    <3>3. "enqueue" \notin fates
      OBVIOUS
    <3> HIDE DEF fates
    <3>4. GoodWork(w, tasks, overtaken')
      BY <1>5, <3>1, <3>3 DEF GoodWork, TasksOf
    <3>5. \A u \in Handler : GoodWork(u, work'[u], overtaken')
      BY <1>7, <3>2, <3>4 DEF OInv, Placed
    <3>6. ASSUME NEW p \in Port, NEW q \in Queue, NEW y \in Emitted(p, q)'
          PROVE  y \in Emitted(p, q) \/ (p = p0 /\ q = q0 /\ y = x)
      <4>1. PICK i \in DOMAIN work'[WorkerOf(p)] :
                LET task == work'[WorkerOf(p)][i]
                IN  task.op = "emit" /\ task.pkt = y /\ task.port = p /\ task.priority = q
        BY DEF Emitted, WorkerOf
      <4>2. y \in Nat
        BY DEF Emitted
      <4>3. CASE WorkerOf(p) = w
        BY <3>1, <3>2, <4>1, <4>3 DEF TasksOf
      <4>4. CASE WorkerOf(p) # w
        <5>1. work'[WorkerOf(p)] = work[WorkerOf(p)]
          BY <3>2, <4>4, WorkerOfPort, Threads
        <5> QED
          BY <4>1, <4>2, <5>1 DEF Emitted
      <4> QED BY <4>3, <4>4
    <3>7. Enqueued' = Enqueued
      <4>1. work'[ingress] = work[ingress]
        BY <1>9, <3>2, Threads
      <4> QED
        BY <4>1 DEF Enqueued, ingress
    <3> QED
      BY <3>5, <3>6, <3>7
  <2> QED BY <1>10, <2>1, <2>2
<1>13. ASSUME NEW p \in Port, NEW q \in Queue, NEW y \in Buffered(p, q)'
       PROVE  /\ y \in Buffered(p, q)
              /\ p = p0 /\ q = q0 /\ y \in Fresh /\ x \in Fresh => x < y
  <2>1. PICK i \in DOMAIN egress_buffers'[WorkerOf(p)][q] :
            LET item == egress_buffers'[WorkerOf(p)][q][i] IN item.pkt = y /\ item.port = p
    BY DEF Buffered, WorkerOf
  <2>2. y \in Nat
    BY DEF Buffered
  <2>3. CASE WorkerOf(p) = w /\ q = q0
    <3>1. egress_buffers'[WorkerOf(p)][q] = Tail(b)
      BY <1>11, <2>3
    <3>2. /\ i \in Nat /\ i + 1 \in DOMAIN b /\ 1 < i + 1
          /\ b[i + 1].pkt = y /\ b[i + 1].port = p
      BY <1>3, <2>1, <3>1
    <3>3. y \in Buffered(p, q)
      BY <1>b, <2>2, <2>3, <3>2 DEF Buffered
    <3> QED
      BY <1>2, <1>3, <1>b, <3>2, <3>3 DEF SortedBuffer
  <2>4. CASE ~(WorkerOf(p) = w /\ q = q0)
    <3>1. egress_buffers'[WorkerOf(p)][q] = egress_buffers[WorkerOf(p)][q]
      BY <1>11, <2>4, WorkerOfPort
    <3>2. y \in Buffered(p, q)
      BY <2>1, <2>2, <3>1 DEF Buffered
    <3> QED
      BY <1>5, <2>4, <3>2
  <2> QED BY <2>3, <2>4
<1>14. ASSUME NEW v \in Worker, NEW q \in Queue
       PROVE  /\ SortedBuffer(egress_buffers'[v][q], Fresh')
              /\ \A i \in DOMAIN egress_buffers'[v][q] :
                    WorkerOf(egress_buffers'[v][q][i].port) = v
  <2>1. CASE v = w /\ q = q0
    <3>1. egress_buffers'[v][q] = Tail(b) /\ b # << >>
      BY <1>1, <1>11, <1>b, <2>1
    <3>2. SortedBuffer(egress_buffers'[v][q], Fresh')
      BY <1>2, <1>8, <3>1, BufferTail
    <3> QED
      BY <1>3, <1>b, <2>1, <3>1, <3>2 DEF OInv, Placed
  <2>2. CASE ~(v = w /\ q = q0)
    <3>1. egress_buffers'[v][q] = egress_buffers[v][q]
      BY <1>11, <2>2
    <3> QED
      BY <1>8, <3>1 DEF OInv, Placed, SortedQueues
  <2> QED BY <2>1, <2>2
<1>15. Placed'
  BY <1>7, <1>8, <1>12, <1>14, PlacedSame DEF OInv, Placed
<1>16. SortedQueues'
  BY <1>7, <1>8, <1>14, SortedSame DEF OInv, SortedQueues
<1>17. ASSUME NEW p \in Port, NEW q \in Queue PROVE Ordered(p, q)'
  <2>1. CASE p = p0 /\ q = q0
    <3>1. Flow(p, q, 3, x)
      BY <1>7, <1>12, <1>13, Same DEF Flow
    <3>2. x \in Stages(p, q)[4]
      BY <1>6, <2>1, StageOf
    <3>3. \A y \in Stages(p, q)'[4] : y \in Fresh' /\ x \in Fresh' => x < y
      BY <1>8, <1>13, <2>1, StageOf
    <3> QED
      BY <1>8, <3>1, <3>2, <3>3, MoveStages DEF OInv, OrderedStages
  <2>2. CASE ~(p = p0 /\ q = q0)
    <3>1. Flow(p, q, 0, nullptr)
      BY <1>7, <1>12, <1>13, <2>2, Same DEF Flow
    <3> QED
      BY <1>8, <3>1, ShrinkStages DEF OInv, OrderedStages
  <2> QED BY <2>1, <2>2
<1> QED
  BY <1>15, <1>16, <1>17 DEF OInv, OrderedStages

LEMMA ReceiveOrder == ASSUME SInv, OInv, Receive PROVE OInv'
<1>1. /\ packet_id' = packet_id + 1 /\ rx_packet' = packet_id + 1 /\ overtaken' = overtaken
      /\ UNCHANGED <<sent, output_buffer, work, egress_buffers, queue_lo, queue_hi>>
  BY Zenon DEF Receive, egressVars, outVars
<1>2. packet_id \in Nat
  BY DEF SInv, QueuesTyped
<1>3. Aging /\ Fresh' = Fresh /\ Fresh \subseteq Nat
  BY <1>1, <1>2 DEF Aging, Fresh
<1>4. Placed'
  BY <1>1, <1>3, PlacedSame DEF OInv, Placed
<1>5. SortedQueues'
  BY <1>1, <1>3, SortedSame DEF OInv, SortedQueues
<1>6. ASSUME NEW p \in Port, NEW q \in Queue PROVE Ordered(p, q)'
  <2> DEFINE Z == Stages(p, q)
  <2>1. InOrder(Z, Fresh) /\ \A a \in 1 .. 7 : \A y \in Z[a] : y \in Fresh => y <= packet_id
    BY DEF OInv, OrderedStages, Ordered
  <2>2. \A a \in 1 .. 6 : Z'[a] = Z[a]
    <3>1. /\ Z'[1] = Z[1] /\ Z'[2] = Z[2] /\ Z'[3] = Z[3]
          /\ Z'[4] = Z[4] /\ Z'[5] = Z[5] /\ Z'[6] = Z[6]
      BY <1>1, Same, StageOf
    <3>2. \A a \in 1 .. 6 : a = 1 \/ a = 2 \/ a = 3 \/ a = 4 \/ a = 5 \/ a = 6
      OBVIOUS
    <3> HIDE DEF Z
    <3> QED
      BY <3>1, <3>2
  <2>3. Z'[7] = {packet_id + 1}
    BY <1>1, StageOf DEF Received
  <2> HIDE DEF Z
  <2>4. \A a \in 1 .. 6 : \A y \in Z'[a] : y \in Fresh => y \in Z[a] /\ y < packet_id + 1
    <3> SUFFICES ASSUME NEW a \in 1 .. 6, NEW y \in Z'[a], y \in Fresh
                 PROVE  y \in Z[a] /\ y < packet_id + 1
      OBVIOUS
    <3>1. a \in 1 .. 7 /\ y \in Z[a]
      BY <2>2
    <3> QED
      BY <1>2, <1>3, <2>1, <3>1
  <2>5. InOrder(Z', Fresh)
    <3>1. packet_id + 1 \in Nat /\ \A y \in Z'[7] : y = packet_id + 1
      BY <1>2, <2>3
    <3> QED
      BY <1>3, <2>1, <2>4, <3>1, ArriveOrder
  <2>6. \A a \in 1 .. 7 : \A y \in Z'[a] : y \in Fresh' => y <= packet_id'
    <3> SUFFICES ASSUME NEW a \in 1 .. 7, NEW y \in Z'[a], y \in Fresh
                 PROVE  y <= packet_id + 1
      BY <1>1, <1>3
    <3>1. CASE a = 7
      BY <1>2, <2>3, <3>1
    <3>2. CASE a # 7
      <4>1. a \in 1 .. 6
        BY <3>2
      <4> QED
        BY <1>2, <1>3, <2>4, <4>1
    <3> QED BY <3>1, <3>2
  <2> QED
    BY <1>3, <2>5, <2>6 DEF Ordered, Z, InOrder
<1> QED
  BY <1>4, <1>5, <1>6 DEF OInv, OrderedStages

LEMMA ReceivePushOrder == ASSUME SInv, OInv, ReceivePush PROVE OInv'
<1>1. /\ queue_lo' = Append(queue_lo, rx_packet) /\ rx_packet' = nullptr
      /\ UNCHANGED <<sent, output_buffer, work, egress_buffers, queue_hi, packet_id, overtaken>>
  BY Zenon DEF ReceivePush, egressVars, outVars, handlingVars
<1>2. /\ rx_packet \in Nat /\ queue_lo \in Seq(Nat) /\ packet_id \in Nat
      /\ SortedInput(queue_lo, Fresh)
  BY DEF SInv, QueuesTyped, OInv, SortedQueues
<1>3. Aging /\ Fresh' = Fresh
  BY <1>1, <1>2 DEF Aging, Fresh
<1>4. Placed'
  BY <1>1, <1>3, PlacedSame DEF OInv, Placed
<1>5. \A y \in Waiting : y \in Fresh /\ rx_packet \in Fresh => y < rx_packet
  <2>1. 0 \in Port /\ 0 \in Queue
    BY PortZero, WorkersAssumption DEF Queue
  <2>2. InOrder(Stages(0, 0), Fresh)
    BY <2>1 DEF OInv, OrderedStages, Ordered
  <2>3. \A y \in Stages(0, 0)[6], z \in Stages(0, 0)[7] : y \in Fresh /\ z \in Fresh => y < z
    BY <2>2 DEF InOrder
  <2> QED
    BY <2>3, StageOf DEF Received
<1>6. SortedInput(queue_lo', Fresh')
  <2>1. \A i \in DOMAIN queue_lo :
            queue_lo[i] \in Fresh /\ rx_packet \in Fresh => queue_lo[i] < rx_packet
    BY <1>2, <1>5 DEF Waiting
  <2> QED
    BY <1>1, <1>2, <1>3, <2>1, InputAppend
<1>7. SortedQueues'
  BY <1>1, <1>3, <1>6, SortedSame DEF OInv, SortedQueues
<1>8. \A y \in Waiting' : y \in Waiting \/ y = rx_packet
  <2> SUFFICES ASSUME NEW y \in Waiting' PROVE y \in Waiting \/ y = rx_packet
    OBVIOUS
  <2>1. PICK i \in DOMAIN queue_lo' : queue_lo'[i] = y
    BY DEF Waiting
  <2>2. y \in Nat
    BY DEF Waiting
  <2>3. (i \in DOMAIN queue_lo /\ queue_lo'[i] = queue_lo[i]) \/ queue_lo'[i] = rx_packet
    BY <1>1, <1>2, AppendAt
  <2> QED
    BY <2>1, <2>2, <2>3 DEF Waiting
<1>9. \A y \in Received' : y \notin Fresh'
  BY <1>1 DEF Received, Fresh
<1>10. ASSUME NEW p \in Port, NEW q \in Queue PROVE Ordered(p, q)'
  <2>1. Flow(p, q, 6, rx_packet)
    BY <1>1, <1>8, <1>9, Same DEF Flow
  <2>2. rx_packet \in Stages(p, q)[7]
    BY StageOf DEF Received
  <2>3. \A y \in Stages(p, q)'[7] : y \notin Fresh'
    BY <1>9, StageOf
  <2> QED
    BY <1>3, <2>1, <2>2, <2>3, MoveStages DEF OInv, OrderedStages
<1> QED
  BY <1>4, <1>7, <1>10 DEF OInv, OrderedStages

LEMMA DestructorOrder == ASSUME SInv, OInv, Destroy \/ Stop PROVE OInv'
<1>1. /\ UNCHANGED <<work, sent, queue_lo, rx_packet, packet_id, overtaken>>
  BY Zenon DEF Destroy, Stop, StopIngress, StopEgress, StopTransmit, Join, handlingVars,
               inputVars, outVars
<1>2. Aging /\ Fresh' = Fresh
  BY <1>1 DEF Aging, SInv, QueuesTyped, Fresh
<1>3. nullptr \in Nat /\ nullptr \notin Fresh
  BY DEF nullptr, Fresh
<1>4. CASE Destroy \/ Join
  <2>1. UNCHANGED <<output_buffer, egress_buffers, queue_hi>>
    BY <1>4 DEF Destroy, Join, inputVars, outVars, egressVars
  <2> QED
    BY <1>1, <1>2, <2>1, QuietOrder
<1>5. CASE StopIngress
  <2>1. /\ queue_hi' = Append(queue_hi, nullptr)
        /\ UNCHANGED <<output_buffer, egress_buffers>>
    BY <1>5 DEF StopIngress, outVars, egressVars
  <2>2. queue_hi \in Seq(Nat)
    BY DEF SInv, QueuesTyped
  <2>3. \A i \in DOMAIN queue_hi' : queue_hi'[i] \notin Fresh'
    BY <1>2, <1>3, <2>1, <2>2, AppendAt DEF OInv, Placed
  <2>4. Placed'
    BY <1>1, <1>2, <2>1, <2>3, PlacedSame DEF OInv, Placed
  <2>5. SortedQueues'
    BY <1>1, <1>2, <2>1, SortedSame DEF OInv, SortedQueues
  <2>6. ASSUME NEW p \in Port, NEW q \in Queue PROVE Ordered(p, q)'
    <3>1. Flow(p, q, 0, nullptr)
      BY <1>1, <2>1, Same DEF Flow
    <3> QED
      BY <1>2, <3>1, ShrinkStages DEF OInv, OrderedStages
  <2> QED
    BY <2>4, <2>5, <2>6 DEF OInv, OrderedStages
<1>6. CASE StopEgress
  <2>1. /\ PushEgress(stop_i, 0, nullptr) /\ stop_i < nb_egress_threads
        /\ UNCHANGED <<output_buffer, queue_hi>>
    BY Zenon, <1>6 DEF StopEgress, inputVars, outVars
  <2>2. stop_i \in Port /\ 0 \in Queue
    BY <2>1, WorkersAssumption DEF SInv, QueuesTyped, Queue
  <2>3. /\ \A p \in Port, q \in Queue : \A y \in Buffered(p, q)' :
              y \in Buffered(p, q) \/ (p = stop_i /\ q = 0 /\ y = nullptr)
        /\ \A w \in Worker, q \in Queue : SortedBuffer(egress_buffers'[w][q], Fresh')
        /\ \A w \in Worker, q \in Queue : \A i \in DOMAIN egress_buffers'[w][q] :
              WorkerOf(egress_buffers'[w][q][i].port) = w
    BY <1>2, <1>3, <2>1, <2>2, PushFlow
  <2>4. Placed'
    BY <1>1, <1>2, <2>1, <2>3, PlacedSame DEF OInv, Placed
  <2>5. SortedQueues'
    BY <1>1, <1>2, <2>1, <2>3, SortedSame DEF OInv, SortedQueues
  <2>6. ASSUME NEW p \in Port, NEW q \in Queue PROVE Ordered(p, q)'
    <3>1. \A y \in Buffered(p, q)' : y \in Fresh' => y \in Buffered(p, q)
      BY <1>2, <1>3, <2>3
    <3>2. Flow(p, q, 0, nullptr)
      BY <1>1, <2>1, <3>1, Same DEF Flow
    <3> QED
      BY <1>2, <3>2, ShrinkStages DEF OInv, OrderedStages
  <2> QED
    BY <2>4, <2>5, <2>6 DEF OInv, OrderedStages
<1>7. CASE StopTransmit
  <2>1. /\ output_buffer' = Append(output_buffer, EndOfOutput)
        /\ UNCHANGED <<egress_buffers, queue_hi>>
    BY <1>7 DEF StopTransmit, inputVars, egressVars
  <2>2. EndOfOutput \in Leaving /\ EndOfOutput.pkt = nullptr
    BY <1>3, PortZero, WorkersAssumption DEF EndOfOutput, Leaving, Queue
  <2>3. output_buffer \in Seq(Leaving) /\ SortedLine(output_buffer, Fresh)
    BY DEF OInv, Placed, SortedQueues
  <2>4. /\ output_buffer' \in Seq(Leaving)
        /\ \A i \in DOMAIN output_buffer' :
              \/ i \in DOMAIN output_buffer /\ output_buffer'[i] = output_buffer[i]
              \/ output_buffer'[i] = EndOfOutput
    BY <2>1, <2>2, <2>3, AppendAt
  <2>5. Placed'
    BY <1>1, <1>2, <2>1, <2>4, PlacedSame DEF OInv, Placed
  <2>6. SortedLine(output_buffer', Fresh')
    BY <1>2, <1>3, <2>1, <2>2, <2>3, LineAppend
  <2>7. SortedQueues'
    BY <1>1, <1>2, <2>1, <2>6, SortedSame DEF OInv, SortedQueues
  <2>8. ASSUME NEW p \in Port, NEW q \in Queue PROVE Ordered(p, q)'
    <3>1. ASSUME NEW y \in Out(p, q)', y \in Fresh' PROVE y \in Out(p, q)
      <4>1. PICK i \in DOMAIN output_buffer' :
                /\ output_buffer'[i].pkt = y /\ output_buffer'[i].port = p
                /\ output_buffer'[i].queue = q
        BY DEF Out
      <4>2. y \in Nat
        BY DEF Out
      <4> QED
        BY <1>2, <1>3, <2>2, <2>4, <3>1, <4>1, <4>2 DEF Out
    <3>2. Flow(p, q, 0, nullptr)
      BY <1>1, <2>1, <3>1, Same DEF Flow
    <3> QED
      BY <1>2, <3>2, ShrinkStages DEF OInv, OrderedStages
  <2> QED
    BY <2>5, <2>7, <2>8 DEF OInv, OrderedStages
<1> QED
  BY <1>4, <1>5, <1>6, <1>7 DEF Stop

LEMMA ControlOrder == ASSUME SInv, OInv, Control \/ UNCHANGED vars PROVE OInv'
<1>1. UNCHANGED <<sent, output_buffer, work, egress_buffers, queue_lo, rx_packet, queue_hi,
                  packet_id, overtaken>>
  <2>1. CASE UNCHANGED vars
    BY <2>1 DEF vars, inputVars, egressVars, outVars, handlingVars
  <2>2. CASE Control
    BY Zenon, <2>2 DEF Control, AddSession, DeleteSession, SetDepth, inputVars, egressVars,
                       outVars, handlingVars
  <2> QED BY <2>1, <2>2
<1>2. Aging
  BY <1>1 DEF Aging, SInv, QueuesTyped
<1> QED
  BY <1>1, <1>2, QuietOrder

LEMMA InitOrder == Init => OInv
<1> SUFFICES ASSUME Init PROVE OInv
  OBVIOUS
<1>1. /\ output_buffer = << >> /\ sent = << >> /\ queue_hi = << >> /\ queue_lo = << >>
      /\ rx_packet = nullptr /\ packet_id = 0
      /\ \A t \in Handler : work[t] = << >>
      /\ \A w \in Worker, q \in Queue : egress_buffers[w][q] = << >>
  BY DEF Init
<1>2. Placed
  BY <1>1 DEF Placed, GoodWork
<1>3. SortedQueues
  BY <1>1 DEF SortedQueues, SortedLine, SortedBuffer, SortedInput
<1>4. ASSUME NEW p \in Port, NEW q \in Queue PROVE Ordered(p, q)
  <2>1. WorkerOf(p) \in Worker /\ WorkerOf(p) \in Handler /\ ingress \in Handler
    BY WorkerOfPort, Threads
  <2>2. /\ Sent(p, q) = {} /\ Out(p, q) = {} /\ Emitted(p, q) = {} /\ Buffered(p, q) = {}
        /\ Enqueued = {} /\ Waiting = {} /\ Received = {nullptr}
    BY <1>1, <2>1 DEF Sent, Out, Emitted, Buffered, Enqueued, Waiting, Received
  <2>3. \A a \in 1 .. 7 : \A y \in Stages(p, q)[a] : y \notin Fresh
    <3>1. nullptr \notin Fresh
      BY DEF Fresh
    <3> SUFFICES ASSUME NEW a \in 1 .. 7, NEW y \in Stages(p, q)[a] PROVE y \notin Fresh
      OBVIOUS
    <3>2. CASE a = 7 BY <2>2, <3>1, <3>2, StageOf
    <3>3. CASE a # 7 BY <2>2, <3>3, StageOf, Seven
    <3> QED BY <3>2, <3>3
  <2> QED
    BY <2>3 DEF Ordered, InOrder
<1> QED
  BY <1>2, <1>3, <1>4 DEF OInv, OrderedStages

LEMMA NextOrder == ASSUME SInv, OInv, [Next]_vars PROVE OInv'
<1>1. CASE Control \/ UNCHANGED vars BY <1>1, ControlOrder
<1>2. CASE Receive BY <1>2, ReceiveOrder
<1>3. CASE ReceivePush BY <1>3, ReceivePushOrder
<1>4. ASSUME NEW t \in Handler, Copying(t) \/ DropPacket(t) PROVE OInv'
  BY <1>4, CloneOrder, EnqueueOrder, DropOrder DEF Copying
<1>5. ASSUME NEW t \in Handler, NEW op, BackToIngress(t, op) PROVE OInv'
  BY <1>5, BackToIngressOrder
<1>6. CASE IngressThread
  BY <1>4, <1>5, <1>6, IngressPopOrder, MulticastOrder, Threads DEF IngressThread
<1>7. ASSUME NEW w \in Worker, EgressThread(w) PROVE OInv'
  <2>1. w \in Handler
    BY Threads
  <2> QED
    BY <1>4, <1>5, <1>7, <2>1, EgressPopOrder, EmitOrder DEF EgressThread
<1>8. CASE Transmit BY <1>8, TransmitOrder
<1>9. CASE Destroy \/ Stop BY <1>9, DestructorOrder
<1> QED
  BY <1>1, <1>2, <1>3, <1>6, <1>7, <1>8, <1>9 DEF Next
----------------------------------------------------------------------------
\* Packets for the same port and queue leave in the order they were received,
\* whatever the number of egress threads, the P4 programs, the changes of the
\* queues' depths and the shutdown: a port belongs to one thread
\* (EgressThreadMapper, optical_switch.h:163-172).
THEOREM FlowsStayInOrder == Spec => []SamePortSameOrder
<1>1. OInv => SamePortSameOrder
  <2> SUFFICES ASSUME OInv, NEW i \in DOMAIN sent, NEW j \in DOMAIN sent,
                      i < j, sent[i].port = sent[j].port, sent[i].queue = sent[j].queue,
                      {sent[i].pkt, sent[j].pkt} \cap overtaken = {}
               PROVE  sent[i].pkt < sent[j].pkt
    BY DEF SamePortSameOrder
  <2>1. sent \in Seq(Leaving) /\ sent[i].pkt # nullptr /\ sent[j].pkt # nullptr
    BY DEF OInv, Placed
  <2>2. sent[i] \in Leaving /\ sent[j] \in Leaving
    BY <2>1
  <2>3. sent[i].pkt \in Nat /\ sent[j].pkt \in Nat
    BY <2>2 DEF Leaving
  <2>4. sent[i].pkt \in Fresh /\ sent[j].pkt \in Fresh
    BY <2>1, <2>3 DEF Fresh
  <2> QED
    BY <2>4 DEF OInv, SortedQueues, SortedLine
<1>2. Init => SInv /\ OInv
  BY InitKeeps, InitOrder
<1>3. (SInv /\ OInv) /\ [Next]_vars => (SInv /\ OInv)'
  BY NextKeeps, NextOrder
<1> QED
  BY <1>1, <1>2, <1>3, PTL DEF Spec
----------------------------------------------------------------------------
(* Where packets are.                                                      *)

Real == Nat \ {nullptr}
Lone(S) == \E i : S = {i}

\* Packet x is in line k and nowhere else.
OnlyIn(k, x) == Lone(Spots(k, x)) /\ \A j \in Line \ {k} : Spots(j, x) = {}

\* A packet that exists is in one place, and one that does not is in none.
Settled(x) ==
    IF x <= packet_id THEN \E k \in Line : OnlyIn(k, x)
                      ELSE \A k \in Line : Spots(k, x) = {}
InPlace == \A x \in Real : Settled(x)

\* Only where a sentinel may be is there no packet.
LoReal == \A i \in DOMAIN queue_lo : queue_lo[i] # nullptr
WorkReal == \A t \in Handler : \A i \in DOMAIN work[t] : work[t][i].pkt # nullptr
OutReal ==
    \A i \in DOMAIN output_buffer :
        output_buffer[i].pkt = nullptr => output_buffer[i] = EndOfOutput

\* A thread has a packet only while it handles one.
RxIdle == IF pc[rx] = "push" THEN rx_packet # nullptr ELSE rx_packet = nullptr
WorkIdle == \A t \in Handler : pc[t] # "work" => work[t] = << >>

PInv == InPlace /\ LoReal /\ WorkReal /\ OutReal /\ RxIdle /\ WorkIdle
----------------------------------------------------------------------------
(* Where packet x is in a sequence, and how that changes with the sequence. *)

Hits(k, s, x) == {i \in DOMAIN s : StandsFor(k, s[i], x)}

\* Taking the oldest element out.
LEMMA TailHits ==
    ASSUME NEW S, NEW s \in Seq(S), s # << >>, NEW k, NEW x
    PROVE  /\ ~ StandsFor(k, Head(s), x) =>
                 /\ Hits(k, s, x) = {} => Hits(k, Tail(s), x) = {}
                 /\ Lone(Hits(k, s, x)) => Lone(Hits(k, Tail(s), x))
           /\ StandsFor(k, Head(s), x) =>
                 /\ Hits(k, s, x) # {}
                 /\ Lone(Hits(k, s, x)) => Hits(k, Tail(s), x) = {}
<1>1. /\ Tail(s) \in Seq(S) /\ Len(Tail(s)) = Len(s) - 1 /\ Head(s) = s[1]
      /\ Len(s) \in Nat /\ Len(s) > 0 /\ 1 \in DOMAIN s
      /\ DOMAIN s = 1 .. Len(s) /\ DOMAIN Tail(s) = 1 .. Len(s) - 1
      /\ \A i \in DOMAIN Tail(s) : Tail(s)[i] = s[i + 1]
  OBVIOUS
<1>2. \A i \in Hits(k, Tail(s), x) : i + 1 \in Hits(k, s, x) /\ i + 1 # 1
  BY <1>1 DEF Hits
<1>3. \A i \in Hits(k, s, x) : i = 1 \/ i - 1 \in Hits(k, Tail(s), x)
  BY <1>1 DEF Hits
<1>4. StandsFor(k, Head(s), x) <=> 1 \in Hits(k, s, x)
  BY <1>1 DEF Hits
<1>5. \A i \in Hits(k, s, x) : i \in Nat
  BY <1>1 DEF Hits
<1>6. \A i \in Hits(k, Tail(s), x) : i \in Nat
  BY <1>1 DEF Hits
<1>7. ASSUME ~ StandsFor(k, Head(s), x), Lone(Hits(k, s, x)) PROVE Lone(Hits(k, Tail(s), x))
  <2>1. PICK i : Hits(k, s, x) = {i}
    BY <1>7 DEF Lone
  <2>2. i \in Nat /\ i # 1 /\ i - 1 \in Hits(k, Tail(s), x)
    BY <1>3, <1>4, <1>5, <1>7, <2>1
  <2>3. \A j \in Hits(k, Tail(s), x) : j + 1 = i
    BY <1>2, <2>1
  <2>4. \A j \in Hits(k, Tail(s), x) : j = i - 1
    BY <1>6, <2>2, <2>3
  <2> QED
    BY <2>2, <2>4 DEF Lone
<1>8. ASSUME StandsFor(k, Head(s), x), Lone(Hits(k, s, x)) PROVE Hits(k, Tail(s), x) = {}
  BY <1>2, <1>4, <1>8 DEF Lone
<1> QED
  BY <1>2, <1>4, <1>7, <1>8

\* Adding an element at the end.
LEMMA AppendHits ==
    ASSUME NEW S, NEW s \in Seq(S), NEW e \in S, NEW k, NEW x
    PROVE  /\ ~ StandsFor(k, e, x) => Hits(k, Append(s, e), x) = Hits(k, s, x)
           /\ StandsFor(k, e, x) /\ Hits(k, s, x) = {} => Lone(Hits(k, Append(s, e), x))
<1>1. /\ DOMAIN s = 1 .. Len(s) /\ Len(s) \in Nat
      /\ DOMAIN Append(s, e) = 1 .. Len(s) + 1
      /\ \A i \in 1 .. Len(s) : Append(s, e)[i] = s[i]
      /\ Append(s, e)[Len(s) + 1] = e
  OBVIOUS
<1>2. ASSUME ~ StandsFor(k, e, x) PROVE Hits(k, Append(s, e), x) = Hits(k, s, x)
  BY <1>1, <1>2 DEF Hits
<1>3. ASSUME StandsFor(k, e, x), Hits(k, s, x) = {} PROVE Lone(Hits(k, Append(s, e), x))
  <2>1. Len(s) + 1 \in Hits(k, Append(s, e), x)
    BY <1>1, <1>3 DEF Hits
  <2>2. \A i \in Hits(k, Append(s, e), x) : i = Len(s) + 1
    BY <1>1, <1>3 DEF Hits
  <2> QED
    BY <2>1, <2>2 DEF Lone
<1> QED
  BY <1>2, <1>3

\* Tasks put in front of others.
LEMMA ConcatHits ==
    ASSUME NEW S, NEW m \in Seq(S), NEW s \in Seq(S), NEW k, NEW x
    PROVE  /\ Hits(k, m, x) = {} =>
                 /\ Hits(k, s, x) = {} => Hits(k, m \o s, x) = {}
                 /\ Lone(Hits(k, s, x)) => Lone(Hits(k, m \o s, x))
           /\ Lone(Hits(k, m, x)) /\ Hits(k, s, x) = {} => Lone(Hits(k, m \o s, x))
<1>1. /\ DOMAIN m = 1 .. Len(m) /\ DOMAIN s = 1 .. Len(s) /\ Len(m) \in Nat /\ Len(s) \in Nat
      /\ DOMAIN (m \o s) = 1 .. Len(m) + Len(s)
      /\ \A i \in 1 .. Len(m) : (m \o s)[i] = m[i]
      /\ \A i \in 1 .. Len(s) : (m \o s)[Len(m) + i] = s[i]
  OBVIOUS
<1>2. \A i \in Hits(k, m \o s, x) :
          \/ i \in Hits(k, m, x)
          \/ i - Len(m) \in Hits(k, s, x) /\ i = Len(m) + (i - Len(m))
  <2>1. ASSUME NEW i \in 1 .. Len(m) + Len(s)
        PROVE  i \in 1 .. Len(m) \/ (i - Len(m) \in 1 .. Len(s) /\ i = Len(m) + (i - Len(m)))
    BY <1>1
  <2> QED
    BY <1>1, <2>1 DEF Hits
<1>3. \A i \in Hits(k, m, x) : i \in Hits(k, m \o s, x)
  BY <1>1 DEF Hits
<1>4. \A i \in Hits(k, s, x) : Len(m) + i \in Hits(k, m \o s, x)
  <2>1. ASSUME NEW i \in 1 .. Len(s) PROVE Len(m) + i \in 1 .. Len(m) + Len(s)
    BY <1>1
  <2> QED
    BY <1>1, <2>1 DEF Hits
<1>5. ASSUME Hits(k, m, x) = {}, Hits(k, s, x) = {} PROVE Hits(k, m \o s, x) = {}
  BY <1>2, <1>5
<1>6. ASSUME Hits(k, m, x) = {}, Lone(Hits(k, s, x)) PROVE Lone(Hits(k, m \o s, x))
  <2>1. PICK i : Hits(k, s, x) = {i}
    BY <1>6 DEF Lone
  <2>2. Len(m) + i \in Hits(k, m \o s, x)
    BY <1>4, <2>1
  <2>3. \A j \in Hits(k, m \o s, x) : j = Len(m) + i
    <3>1. ASSUME NEW j \in Hits(k, m \o s, x) PROVE j = Len(m) + i
      <4>1. j - Len(m) = i /\ j = Len(m) + (j - Len(m))
        BY <1>2, <1>6, <2>1
      <4> QED
        BY <4>1
    <3> QED
      BY <3>1
  <2> QED
    BY <2>2, <2>3 DEF Lone
<1>7. ASSUME Lone(Hits(k, m, x)), Hits(k, s, x) = {} PROVE Lone(Hits(k, m \o s, x))
  <2>1. Hits(k, m \o s, x) = Hits(k, m, x)
    BY <1>2, <1>3, <1>7
  <2> QED
    BY <1>7, <2>1
<1> QED
  BY <1>5, <1>6, <1>7
----------------------------------------------------------------------------
(* The lines by name, and what is in them.                                 *)

RxLine == <<"rx", 0>>
HiLine == <<"hi", 0>>
LoLine == <<"lo", 0>>
OutLine == <<"out", 0>>
SentLine == <<"sent", 0>>
Gone == <<"gone", 0>>
WorkLine(t) == <<"work", t>>
EgressLine(w, q) == <<"egress", <<w, q>>>>

Element(k) ==
    CASE k[1] \in {"rx", "hi", "lo"} -> Nat
      [] k[1] = "work" -> AnyTask
      [] k[1] = "egress" -> Queued
      [] OTHER -> Leaving

\* The names are lines, and only Gone is the set.
LEMMA LineNames ==
    /\ {RxLine, HiLine, LoLine, OutLine, SentLine, Gone} \subseteq Line
    /\ Gone \notin {RxLine, HiLine, LoLine, OutLine, SentLine}
    /\ \A t \in Handler : WorkLine(t) \in Line /\ WorkLine(t) # Gone
    /\ \A w \in Worker, q \in Queue : EgressLine(w, q) \in Line /\ EgressLine(w, q) # Gone
BY DEF Line, RxLine, HiLine, LoLine, OutLine, SentLine, Gone, WorkLine, EgressLine

\* There are no other lines.
LEMMA Kinds ==
    ASSUME NEW k \in Line
    PROVE  \/ k \in {RxLine, HiLine, LoLine, OutLine, SentLine, Gone}
           \/ \E t \in Handler : k = WorkLine(t)
           \/ \E w \in Worker : \E q \in Queue : k = EgressLine(w, q)
BY DEF Line, RxLine, HiLine, LoLine, OutLine, SentLine, Gone, WorkLine, EgressLine

\* What is in the line of each name.
LEMMA Contents ==
    /\ Content(RxLine) = <<rx_packet>> /\ Content(RxLine)' = <<rx_packet'>>
    /\ Content(HiLine) = queue_hi /\ Content(HiLine)' = queue_hi'
    /\ Content(LoLine) = queue_lo /\ Content(LoLine)' = queue_lo'
    /\ Content(OutLine) = output_buffer /\ Content(OutLine)' = output_buffer'
    /\ Content(SentLine) = sent /\ Content(SentLine)' = sent'
    /\ \A t : Content(WorkLine(t)) = work[t] /\ Content(WorkLine(t))' = work'[t]
    /\ \A w, q : /\ Content(EgressLine(w, q)) = egress_buffers[w][q]
                 /\ Content(EgressLine(w, q))' = egress_buffers'[w][q]
BY DEF Content, RxLine, HiLine, LoLine, OutLine, SentLine, WorkLine, EgressLine

\* What the elements of each line are.
LEMMA Elements ==
    /\ Element(RxLine) = Nat /\ Element(HiLine) = Nat /\ Element(LoLine) = Nat
    /\ Element(OutLine) = Leaving /\ Element(SentLine) = Leaving
    /\ \A t : Element(WorkLine(t)) = AnyTask
    /\ \A w, q : Element(EgressLine(w, q)) = Queued
BY DEF Element, RxLine, HiLine, LoLine, OutLine, SentLine, WorkLine, EgressLine

\* How an element of each line stands for a packet.
LEMMA StandFor ==
    ASSUME NEW e, NEW x
    PROVE  /\ StandsFor(RxLine, e, x) <=> e = x
           /\ StandsFor(HiLine, e, x) <=> e = x
           /\ StandsFor(LoLine, e, x) <=> e = x
           /\ StandsFor(OutLine, e, x) <=> e.pkt = x
           /\ StandsFor(SentLine, e, x) <=> e.pkt = x
           /\ \A t : StandsFor(WorkLine(t), e, x) <=> e.pkt = x /\ e.op # "clone"
           /\ \A w, q : StandsFor(EgressLine(w, q), e, x) <=> e.pkt = x
BY DEF StandsFor, RxLine, HiLine, LoLine, OutLine, SentLine, WorkLine, EgressLine

\* The places of a packet as Hits in the sequence, before a step and after it.
LEMMA SpotsAre ==
    ASSUME NEW k \in Line, NEW x
    PROVE  /\ k # Gone => /\ Spots(k, x) = Hits(k, Content(k), x)
                          /\ Spots(k, x)' = Hits(k, Content(k)', x)
           /\ Spots(Gone, x) = gone \cap {x} /\ Spots(Gone, x)' = gone' \cap {x}
<1>1. k # Gone => k[1] # "gone"
  BY DEF Line, Gone
<1>2. Gone[1] = "gone"
  BY DEF Gone
<1> QED
  BY <1>1, <1>2 DEF Spots, Hits, StandsFor

\* Each line but Gone is a sequence of its elements.
LEMMA LineTyped ==
    ASSUME SInv, OInv, NEW k \in Line, k # Gone
    PROVE  Content(k) \in Seq(Element(k))
<1> USE DEF SInv, OInv, QueuesTyped, WorkTyped, Placed
<1>1. CASE k = RxLine
  <2>1. <<rx_packet>> \in Seq(Nat)
    OBVIOUS
  <2> QED
    BY <1>1, <2>1, Contents, Elements
<1>4. CASE k \in {HiLine, LoLine}
  BY <1>4, Contents, Elements
<1>5. CASE k \in {OutLine, SentLine}
  BY <1>5, Contents, Elements
<1>2. CASE \E t \in Handler : k = WorkLine(t)
  BY <1>2, Contents, Elements
<1>3. CASE \E w \in Worker : \E q \in Queue : k = EgressLine(w, q)
  BY <1>3, Contents, Elements
<1> QED
  BY <1>1, <1>2, <1>3, <1>4, <1>5, Kinds
----------------------------------------------------------------------------
(* What a step may do to a line.                                           *)

\* Packet x is in the line after the step as it was before.
Like(k, x) ==
    /\ Spots(k, x) = {} => Spots(k, x)' = {}
    /\ Lone(Spots(k, x)) => Lone(Spots(k, x)')

\* Packet x leaves line k, or comes to it; the others stay.
Takes(k, x) == \A y \in Real :
    IF y = x THEN Spots(k, y) # {} /\ (Lone(Spots(k, y)) => Spots(k, y)' = {})
             ELSE Like(k, y)
Gives(k, x) == \A y \in Real :
    IF y = x THEN Spots(k, y) = {} => Lone(Spots(k, y)')
             ELSE Like(k, y)
Kept(k) == \A y \in Real : Like(k, y)

\* A line that does not change keeps its packets.
LEMMA SameKept ==
    ASSUME NEW k \in Line, IF k = Gone THEN gone' = gone ELSE Content(k)' = Content(k)
    PROVE  Kept(k)
BY SpotsAre DEF Kept, Like

\* The oldest element leaves line k.
LEMMA HeadLeaves ==
    ASSUME SInv, OInv, NEW k \in Line, k # Gone,
           Content(k) # << >>, Content(k)' = Tail(Content(k))
    PROVE  /\ \A x : (\A y \in Real : StandsFor(k, Head(Content(k)), y) <=> y = x)
                        => Takes(k, x)
           /\ (\A y \in Real : ~ StandsFor(k, Head(Content(k)), y)) => Kept(k)
<1>1. Content(k) \in Seq(Element(k))
  BY LineTyped
<1>2. ASSUME NEW y \in Real
      PROVE  /\ Spots(k, y) = Hits(k, Content(k), y)
             /\ Spots(k, y)' = Hits(k, Tail(Content(k)), y)
  BY SpotsAre
<1>3. ASSUME NEW y \in Real
      PROVE  /\ ~ StandsFor(k, Head(Content(k)), y) => Like(k, y)
             /\ StandsFor(k, Head(Content(k)), y) =>
                   Spots(k, y) # {} /\ (Lone(Spots(k, y)) => Spots(k, y)' = {})
  BY <1>1, <1>2, TailHits DEF Like
<1> QED
  BY <1>3 DEF Takes, Kept

\* Element e comes to the end of line k.
LEMMA LastComes ==
    ASSUME SInv, OInv, NEW k \in Line, k # Gone, NEW e \in Element(k),
           Content(k)' = Append(Content(k), e)
    PROVE  /\ \A x : (\A y \in Real : StandsFor(k, e, y) <=> y = x) => Gives(k, x)
           /\ (\A y \in Real : ~ StandsFor(k, e, y)) => Kept(k)
<1>1. Content(k) \in Seq(Element(k))
  BY LineTyped
<1>2. ASSUME NEW y \in Real
      PROVE  /\ Spots(k, y) = Hits(k, Content(k), y)
             /\ Spots(k, y)' = Hits(k, Append(Content(k), e), y)
  BY SpotsAre
<1>3. ASSUME NEW y \in Real
      PROVE  /\ ~ StandsFor(k, e, y) => Like(k, y)
             /\ StandsFor(k, e, y) => (Spots(k, y) = {} => Lone(Spots(k, y)'))
  BY <1>1, <1>2, AppendHits DEF Like
<1> QED
  BY <1>3 DEF Gives, Kept

\* Packet x is gone.
LEMMA GoneGives == ASSUME NEW x \in Real, gone' = gone \cup {x} PROVE Gives(Gone, x)
<1>1. \A y : Spots(Gone, y) = gone \cap {y} /\ Spots(Gone, y)' = gone' \cap {y}
  BY LineNames, SpotsAre
<1>2. ASSUME NEW y \in Real, y # x PROVE Like(Gone, y)
  <2>1. gone' \cap {y} = gone \cap {y}
    BY <1>2
  <2> QED
    BY <1>1, <2>1 DEF Like
<1>3. Lone(Spots(Gone, x)')
  <2>1. gone' \cap {x} = {x}
    OBVIOUS
  <2> QED
    BY <1>1, <2>1 DEF Lone
<1> QED
  BY <1>2, <1>3 DEF Gives
----------------------------------------------------------------------------
(* What a step may do to a packet.                                         *)

\* A packet that no line loses or gets stays in one place, or in none.
LEMMA StaysSettled ==
    ASSUME NEW y \in Real, Settled(y), \A k \in Line : Like(k, y),
           y <= packet_id' <=> y <= packet_id
    PROVE  Settled(y)'
<1>1. CASE y <= packet_id
  <2>1. PICK k \in Line : OnlyIn(k, y)
    BY <1>1 DEF Settled
  <2> QED
    BY <1>1, <2>1 DEF Settled, OnlyIn, Like
<1>2. CASE ~(y <= packet_id)
  BY <1>2 DEF Settled, Like
<1> QED
  BY <1>1, <1>2

\* A packet that line a loses and line b gets is in one place again.
LEMMA MovesSettled ==
    ASSUME NEW y \in Real, Settled(y), y <= packet_id => y <= packet_id',
           NEW a \in Line, NEW b \in Line, a # b,
           Spots(a, y) # {}, Lone(Spots(a, y)) => Spots(a, y)' = {},
           Spots(b, y) = {} => Lone(Spots(b, y)'),
           \A k \in Line \ {a, b} : Like(k, y)
    PROVE  Settled(y)'
<1>2. y <= packet_id /\ OnlyIn(a, y)
  BY DEF Settled, OnlyIn
<1>3. Spots(a, y)' = {} /\ Lone(Spots(b, y)')
  BY <1>2 DEF OnlyIn
<1>4. \A k \in Line \ {a, b} : Spots(k, y)' = {}
  BY <1>2 DEF OnlyIn, Like
<1>5. OnlyIn(b, y)'
  BY <1>3, <1>4 DEF OnlyIn
<1> QED
  BY <1>2, <1>5 DEF Settled

\* A packet that is new and that one line gets is in one place.
LEMMA ArrivesSettled ==
    ASSUME NEW y \in Real, Settled(y), ~(y <= packet_id), y <= packet_id',
           NEW b \in Line, Spots(b, y) = {} => Lone(Spots(b, y)'),
           \A k \in Line \ {b} : Like(k, y)
    PROVE  Settled(y)'
<1>1. \A k \in Line : Spots(k, y) = {}
  BY DEF Settled
<1>2. OnlyIn(b, y)'
  BY <1>1 DEF OnlyIn, Like
<1> QED
  BY <1>2 DEF Settled

\* Nothing but sentinels moves.
LEMMA StayInPlace ==
    ASSUME InPlace, UNCHANGED packet_id, \A k \in Line : Kept(k)
    PROVE  InPlace'
<1>1. ASSUME NEW y \in Real PROVE Settled(y)'
  <2>1. Settled(y) /\ \A k \in Line : Like(k, y)
    BY DEF InPlace, Kept
  <2> QED
    BY <2>1, StaysSettled
<1> QED
  BY <1>1 DEF InPlace

\* Packet x moves from line a to line b.
LEMMA MoveInPlace ==
    ASSUME InPlace, UNCHANGED packet_id, NEW x, NEW a \in Line, NEW b \in Line, a # b,
           Takes(a, x), Gives(b, x), \A k \in Line \ {a, b} : Kept(k)
    PROVE  InPlace'
<1>1. ASSUME NEW y \in Real PROVE Settled(y)'
  <2>0. Settled(y)
    BY DEF InPlace
  <2>1. CASE y = x
    BY <2>0, <2>1, MovesSettled DEF Takes, Gives, Kept
  <2>2. CASE y # x
    <3>1. \A k \in Line : Like(k, y)
      BY <2>2 DEF Takes, Gives, Kept
    <3> QED
      BY <2>0, <3>1, StaysSettled
  <2> QED
    BY <2>1, <2>2
<1> QED
  BY <1>1 DEF InPlace
----------------------------------------------------------------------------
(* The lines a step leaves alone.                                          *)

\* A line keeps its packets when its variable does not change.
LEMMA KeptLines ==
    /\ UNCHANGED rx_packet => Kept(RxLine)
    /\ UNCHANGED queue_hi => Kept(HiLine)
    /\ UNCHANGED queue_lo => Kept(LoLine)
    /\ UNCHANGED output_buffer => Kept(OutLine)
    /\ UNCHANGED sent => Kept(SentLine)
    /\ UNCHANGED gone => Kept(Gone)
    /\ UNCHANGED work => \A t \in Handler : Kept(WorkLine(t))
    /\ UNCHANGED egress_buffers => \A w \in Worker : \A q \in Queue : Kept(EgressLine(w, q))
<1>1. ASSUME NEW k \in Line \ {Gone}, Content(k)' = Content(k) PROVE Kept(k)
  BY <1>1, SameKept
<1>2. UNCHANGED gone => Kept(Gone)
  BY LineNames, SameKept
<1>3. UNCHANGED work => \A t \in Handler : Kept(WorkLine(t))
  BY <1>1, LineNames, Contents
<1>4. UNCHANGED egress_buffers => \A w \in Worker : \A q \in Queue : Kept(EgressLine(w, q))
  BY <1>1, LineNames, Contents
<1> QED
  BY <1>1, <1>2, <1>3, <1>4, LineNames, Contents

\* Only the work of thread t, or only the buffer of one queue, changes.
LEMMA KeptWork ==
    ASSUME SInv, NEW t \in Handler, NEW e, work' = [work EXCEPT ![t] = e],
           NEW u \in Handler, u # t
    PROVE  Kept(WorkLine(u))
<1>1. work'[u] = work[u]
  BY DEF SInv, WorkTyped
<1> QED
  BY <1>1, LineNames, Contents, SameKept

\* Another buffer keeps its packets.
LEMMA KeptEgress ==
    ASSUME SInv, NEW w \in Worker, NEW q \in Queue, NEW e,
           egress_buffers' = [egress_buffers EXCEPT ![w][q] = e],
           NEW v \in Worker, NEW r \in Queue, <<v, r>> # <<w, q>>
    PROVE  Kept(EgressLine(v, r))
<1>1. egress_buffers'[v][r] = egress_buffers[v][r]
  <2>1. CASE v = w
    BY <2>1 DEF SInv, QueuesTyped
  <2>2. CASE v # w
    BY <2>2 DEF SInv, QueuesTyped
  <2> QED BY <2>1, <2>2
<1> QED
  BY <1>1, LineNames, Contents, SameKept

\* Thread t goes on to tasks more and the rest of its work.
LEMMA WorkGoesOn ==
    ASSUME SInv, OInv, NEW t \in Handler, work[t] # << >>,
           NEW more \in Seq(AnyTask), work' = [work EXCEPT ![t] = more \o Tail(work[t])],
           NEW y \in Real
    PROVE  LET k == WorkLine(t)
           IN  /\ Hits(k, more, y) = {} /\ ~ StandsFor(k, Head(work[t]), y) => Like(k, y)
               /\ Hits(k, more, y) = {} /\ StandsFor(k, Head(work[t]), y) =>
                     Spots(k, y) # {} /\ (Lone(Spots(k, y)) => Spots(k, y)' = {})
               /\ Lone(Hits(k, more, y)) /\ Spots(k, y) = {} => Lone(Spots(k, y)')
<1> DEFINE k == WorkLine(t)
<1>1. k \in Line /\ k # Gone /\ work[t] \in Seq(AnyTask) /\ Tail(work[t]) \in Seq(AnyTask)
  BY LineNames DEF SInv, WorkTyped
<1>2. Content(k) = work[t] /\ Content(k)' = more \o Tail(work[t])
  BY Contents DEF SInv, WorkTyped
<1> HIDE DEF k
<1>3. Spots(k, y) = Hits(k, work[t], y) /\ Spots(k, y)' = Hits(k, more \o Tail(work[t]), y)
  BY <1>1, <1>2, SpotsAre
<1>4. /\ ~ StandsFor(k, Head(work[t]), y) =>
           /\ Hits(k, work[t], y) = {} => Hits(k, Tail(work[t]), y) = {}
           /\ Lone(Hits(k, work[t], y)) => Lone(Hits(k, Tail(work[t]), y))
      /\ StandsFor(k, Head(work[t]), y) =>
           /\ Hits(k, work[t], y) # {}
           /\ Lone(Hits(k, work[t], y)) => Hits(k, Tail(work[t]), y) = {}
  BY <1>1, TailHits
<1>5. /\ Hits(k, more, y) = {} =>
           /\ Hits(k, Tail(work[t]), y) = {} => Hits(k, more \o Tail(work[t]), y) = {}
           /\ Lone(Hits(k, Tail(work[t]), y)) => Lone(Hits(k, more \o Tail(work[t]), y))
      /\ Lone(Hits(k, more, y)) /\ Hits(k, Tail(work[t]), y) = {}
           => Lone(Hits(k, more \o Tail(work[t]), y))
  BY <1>1, ConcatHits
<1>6. /\ Hits(k, more, y) = {} /\ ~ StandsFor(k, Head(work[t]), y) => Like(k, y)
      /\ Hits(k, more, y) = {} /\ StandsFor(k, Head(work[t]), y) =>
            Spots(k, y) # {} /\ (Lone(Spots(k, y)) => Spots(k, y)' = {})
      /\ Lone(Hits(k, more, y)) /\ Spots(k, y) = {} => Lone(Spots(k, y)')
  BY <1>3, <1>4, <1>5 DEF Like
<1> QED
  BY <1>6 DEF k

\* Every task of a verdict is about the packet it was given for.
LEMMA HandedPacket ==
    ASSUME NEW v \in Seq(AnyTask), NEW x \in Nat, NEW p, NEW q, NEW i \in DOMAIN v
    PROVE  Handed(v, x, p, q)[i].pkt = x
<1>1. v[i] \in AnyTask
  OBVIOUS
<1> DEFINE task == Handed(v, x, p, q)[i]
<1>2. task = IF v[i].op = "emit"
               THEN [v[i] EXCEPT !.pkt = x, !.port = p, !.priority = q]
               ELSE [v[i] EXCEPT !.pkt = x]
  BY DEF Handed
<1> HIDE DEF task
<1>3. task.pkt = x
  BY <1>1, <1>2 DEF AnyTask
<1> QED
  BY <1>3 DEF task

\* The packet of the first task is in the line, unless the task is to clone.
LEMMA HeadSpot ==
    ASSUME SInv, NEW t \in Handler, work[t] # << >>, NEW y,
           StandsFor(WorkLine(t), Head(work[t]), y)
    PROVE  Spots(WorkLine(t), y) # {}
<1>1. work[t] \in Seq(AnyTask)
  BY DEF SInv, WorkTyped
<1>2. Hits(WorkLine(t), work[t], y) # {}
  BY <1>1, TailHits
<1> QED
  BY <1>2, LineNames, Contents, SpotsAre

\* The tasks of a verdict on packet x hold it once.
LEMMA HandedHits ==
    ASSUME NEW v, NEW fates, "clone" \notin fates, IsVerdict(v, fates),
           NEW x \in Nat, NEW p, NEW q, NEW t
    PROVE  /\ Lone(Hits(WorkLine(t), Handed(v, x, p, q), x))
           /\ \A y : y # x => Hits(WorkLine(t), Handed(v, x, p, q), y) = {}
<1> DEFINE tasks == Handed(v, x, p, q)
<1>1. v \in Seq(AnyTask) /\ Len(v) \in {1, 2} /\ DOMAIN v = 1 .. Len(v)
      /\ (Len(v) = 2 => v[1].op = "clone") /\ v[Len(v)].op # "clone"
  BY DEF IsVerdict
<1>2. DOMAIN tasks = DOMAIN v
  BY DEF Handed
<1>3. ASSUME NEW i \in DOMAIN v PROVE tasks[i].op = v[i].op /\ tasks[i].pkt = x
  <2>1. v[i] \in AnyTask
    BY <1>1
  <2>2. tasks[i] = IF v[i].op = "emit"
                     THEN [v[i] EXCEPT !.pkt = x, !.port = p, !.priority = q]
                     ELSE [v[i] EXCEPT !.pkt = x]
    BY DEF Handed
  <2> HIDE DEF tasks
  <2> QED
    BY <2>1, <2>2 DEF AnyTask
<1> HIDE DEF tasks
<1>4. \A i \in DOMAIN v : v[i].op # "clone" <=> i = Len(v)
  BY <1>1
<1>5. Len(v) \in DOMAIN v
  BY <1>1
<1>6. ASSUME NEW i \in DOMAIN v, NEW y
      PROVE  StandsFor(WorkLine(t), tasks[i], y) <=> y = x /\ i = Len(v)
  <2>1. StandsFor(WorkLine(t), tasks[i], y) <=> tasks[i].pkt = y /\ tasks[i].op # "clone"
    BY StandFor
  <2> QED
    BY <1>3, <1>4, <2>1
<1>7. \A y : y # x => Hits(WorkLine(t), tasks, y) = {}
  BY <1>2, <1>6 DEF Hits
<1>8. Hits(WorkLine(t), tasks, x) = {Len(v)}
  BY <1>2, <1>5, <1>6 DEF Hits
<1> QED
  BY <1>7, <1>8 DEF Lone, tasks
----------------------------------------------------------------------------
(* The threads.                                                            *)

IsWorkLine(k) == \E t \in Handler : k = WorkLine(t)

\* What thread t has at hand, when its work becomes some other.
LEMMA NewWork ==
    ASSUME SInv, WorkReal, WorkIdle, RxIdle, NEW t \in Handler,
           NEW tasks, work' = [work EXCEPT ![t] = tasks],
           \A i \in DOMAIN tasks : tasks[i].pkt # nullptr,
           \/ pc' = pc /\ pc[t] = "work"
           \/ Goto(t, "work")
           \/ Goto(t, "pop") /\ tasks = << >>,
           UNCHANGED rx_packet
    PROVE  WorkReal' /\ WorkIdle' /\ RxIdle'
<1>0. /\ \A u \in Handler : work'[u] = IF u = t THEN tasks ELSE work[u]
      /\ \A u \in Thread : u # t => pc'[u] = pc[u]
      /\ pc'[t] = "work" \/ tasks = << >>
  BY Threads DEF SInv, WorkTyped, Goto
<1>1. WorkReal'
  BY <1>0 DEF WorkReal
<1>2. WorkIdle'
  BY <1>0, Threads DEF WorkIdle
<1>3. RxIdle'
  BY <1>0, Threads DEF RxIdle
<1> QED
  BY <1>1, <1>2, <1>3

\* Nothing changes for the threads that handle packets.
LEMMA SameWork ==
    ASSUME WorkReal, WorkIdle, RxIdle, UNCHANGED <<work, rx_packet>>,
           pc' = pc \/ \E l \in {"done", "stop ingress", "stop egress", "join"} :
               \E t \in Thread \ {rx} : (t \in Handler => pc[t] = "pop") /\ Goto(t, l),
           pc \in [Thread -> Label]
    PROVE  WorkReal' /\ WorkIdle' /\ RxIdle'
<1>1. /\ \A t \in Handler : pc'[t] # "work" => pc[t] # "work"
      /\ pc'[rx] = pc[rx]
  <2>1. CASE pc' = pc
    BY <2>1
  <2>2. ASSUME NEW l, NEW t \in Thread \ {rx}, t \in Handler => pc[t] = "pop", Goto(t, l)
        PROVE  <1>1!:
    <3>1. \A u \in Thread : u # t => pc'[u] = pc[u]
      BY <2>2 DEF Goto
    <3> QED
      BY <2>2, <3>1, Threads
  <2> QED
    BY <2>1, <2>2
<1> QED
  BY <1>1 DEF WorkReal, WorkIdle, RxIdle

\* The main thread handles no packets and receives none.
LEMMA MainIsNot == main \in Thread \ {rx} /\ main \notin Handler
BY Threads, WorkersAssumption DEF main, rx

\* Tasks with packets, in front of others with packets.
LEMMA TailReal ==
    ASSUME NEW more \in Seq(AnyTask), \A i \in DOMAIN more : more[i].pkt # nullptr,
           NEW tasks \in Seq(AnyTask), tasks # << >>,
           \A i \in DOMAIN tasks : tasks[i].pkt # nullptr
    PROVE  \A i \in DOMAIN (more \o Tail(tasks)) : (more \o Tail(tasks))[i].pkt # nullptr
<1>1. Tail(tasks) \in Seq(AnyTask) /\ \A i \in DOMAIN Tail(tasks) : Tail(tasks)[i].pkt # nullptr
  BY TailAt
<1>2. \A i \in DOMAIN (more \o Tail(tasks)) :
          \/ i \in DOMAIN more /\ (more \o Tail(tasks))[i] = more[i]
          \/ i - Len(more) \in DOMAIN Tail(tasks)
             /\ (more \o Tail(tasks))[i] = Tail(tasks)[i - Len(more)]
  BY <1>1
<1> QED
  BY <1>1, <1>2

\* A thread that goes on has tasks with packets, or is idle without any.
LEMMA GoOnWork ==
    ASSUME SInv, WorkReal, WorkIdle, RxIdle, NEW t \in Handler, pc[t] = "work",
           NEW more \in Seq(AnyTask), \A i \in DOMAIN more : more[i].pkt # nullptr,
           GoOn(t, more), UNCHANGED rx_packet
    PROVE  WorkReal' /\ WorkIdle' /\ RxIdle'
<1>1. work[t] \in Seq(AnyTask) /\ work[t] # << >>
  BY FirstTask DEF SInv
<1>2. \A i \in DOMAIN (more \o Tail(work[t])) : (more \o Tail(work[t]))[i].pkt # nullptr
  BY <1>1, TailReal DEF WorkReal
<1> DEFINE tasks == more \o Tail(work[t])
<1>3. /\ work' = [work EXCEPT ![t] = tasks]
      /\ (pc' = pc /\ pc[t] = "work") \/ (Goto(t, "pop") /\ tasks = << >>)
  BY DEF GoOn
<1> HIDE DEF tasks
<1>4. \A i \in DOMAIN tasks : tasks[i].pkt # nullptr
  BY <1>2 DEF tasks
<1> QED
  BY <1>3, <1>4, NewWork

\* The first task of a thread has a packet.
LEMMA HeadReal ==
    ASSUME SInv, PInv, NEW t \in Handler, pc[t] = "work"
    PROVE  Head(work[t]).pkt \in Real
<1>1. /\ work[t] \in Seq(AnyTask) /\ work[t] # << >>
      /\ Head(work[t]) \in AnyTask /\ Head(work[t]) = work[t][1]
  BY FirstTask DEF SInv
<1>2. 1 \in DOMAIN work[t]
  BY <1>1
<1> QED
  BY <1>1, <1>2 DEF AnyTask, PInv, WorkReal, Real

\* Thread t is done with its first task, whose packet goes to line b.
LEMMA TaskMoves ==
    ASSUME SInv, OInv, PInv, NEW t \in Handler, NEW op, HasTask(t, op), op # "clone",
           GoOn(t, << >>), UNCHANGED <<packet_id, rx_packet>>,
           NEW b \in Line, ~ IsWorkLine(b), Gives(b, Head(work[t]).pkt),
           \A k \in Line \ {b} : ~ IsWorkLine(k) => Kept(k)
    PROVE  InPlace' /\ WorkReal' /\ WorkIdle' /\ RxIdle'
<1> DEFINE e == Head(work[t])
           a == WorkLine(t)
<1>1. /\ work[t] \in Seq(AnyTask) /\ work[t] # << >> /\ pc[t] = "work"
      /\ e.pkt \in Nat /\ e.op # "clone" /\ e = work[t][1] /\ 1 \in DOMAIN work[t]
  <2>1. /\ work[t] \in Seq(AnyTask) /\ work[t] # << >> /\ pc[t] = "work"
        /\ e \in AnyTask /\ e = work[t][1] /\ e.op # "clone"
    BY FirstTask DEF SInv, HasTask
  <2>2. 1 \in DOMAIN work[t]
    BY <2>1
  <2>3. e.pkt \in Nat
    BY <2>1 DEF AnyTask
  <2> QED
    BY <2>1, <2>2, <2>3
<1>2. e.pkt \in Real
  BY <1>1 DEF PInv, WorkReal, Real
<1>3. << >> \in Seq(AnyTask) /\ DOMAIN << >> = {} /\ << >> \o Tail(work[t]) = Tail(work[t])
  BY <1>1
<1>4. work' = [work EXCEPT ![t] = Tail(work[t])]
  BY <1>3 DEF GoOn
<1>5. a \in Line /\ a # Gone /\ Content(a) = work[t] /\ Content(a)' = Tail(work[t])
  BY <1>4, LineNames, Contents DEF SInv, WorkTyped
<1>6. \A y : StandsFor(a, e, y) <=> y = e.pkt
  BY <1>1, StandFor
<1>7. a # b
  BY DEF IsWorkLine
<1>8. \A k \in Line \ {a, b} : Kept(k)
  <2>1. \A u \in Handler : u # t => Kept(WorkLine(u))
    BY <1>4, KeptWork
  <2> QED
    BY <2>1 DEF IsWorkLine
<1> HIDE DEF a, e
<1>9. Takes(a, e.pkt)
  BY <1>1, <1>5, <1>6, HeadLeaves DEF e
<1>10. Gives(b, e.pkt)
  BY DEF e
<1>11. InPlace'
  BY <1>5, <1>7, <1>8, <1>9, <1>10, MoveInPlace DEF PInv
<1>12. \A i \in DOMAIN << >> : << >>[i].pkt # nullptr
  BY <1>3
<1>13. WorkReal' /\ WorkIdle' /\ RxIdle'
  BY <1>1, <1>3, <1>12, GoOnWork DEF PInv
<1> QED
  BY <1>11, <1>13

\* Thread t takes packet x from line a and runs a pipeline on it.
LEMMA ProcessMoves ==
    ASSUME SInv, OInv, PInv, NEW t \in Handler, pc[t] = "pop", NEW x \in Real, NEW p, NEW q,
           NEW verdicts, NEW fates, "clone" \notin fates,
           \A v \in verdicts : IsVerdict(v, fates),
           Process(t, x, p, q, verdicts), UNCHANGED <<packet_id, rx_packet>>,
           NEW a \in Line, ~ IsWorkLine(a), Takes(a, x),
           \A k \in Line \ {a} : ~ IsWorkLine(k) => Kept(k)
    PROVE  InPlace' /\ WorkReal' /\ WorkIdle' /\ RxIdle'
<1>1. PICK v \in verdicts :
          work' = [work EXCEPT ![t] = Handed(v, x, p, q)] /\ Goto(t, "work")
  BY DEF Process
<1> DEFINE tasks == Handed(v, x, p, q)
           b == WorkLine(t)
<1> HIDE DEF tasks, b
<1>2. Lone(Hits(b, tasks, x)) /\ \A y : y # x => Hits(b, tasks, y) = {}
  <2>1. IsVerdict(v, fates) /\ x \in Nat
    BY DEF Real
  <2> QED
    <3>1. Lone(Hits(WorkLine(t), Handed(v, x, p, q), x))
      BY <2>1, HandedHits
    <3>2. \A y : y # x => Hits(WorkLine(t), Handed(v, x, p, q), y) = {}
      BY <2>1, HandedHits
    <3> QED
      BY <3>1, <3>2 DEF tasks, b
<1>3. work[t] = << >>
  BY DEF PInv, WorkIdle
<1>4. b \in Line /\ b # Gone /\ Content(b) = work[t] /\ Content(b)' = tasks
  BY <1>1, LineNames, Contents DEF SInv, WorkTyped, tasks, b
<1>5. \A k \in Line \ {a, b} : Kept(k)
  <2>1. \A u \in Handler : u # t => Kept(WorkLine(u))
    BY <1>1, KeptWork
  <2> QED
    BY <2>1 DEF IsWorkLine, b
<1>6. a # b
  BY DEF IsWorkLine, b
<1>7. \A y : Hits(b, work[t], y) = {}
  BY <1>3 DEF Hits
<1>8. \A y : Spots(b, y) = {} /\ Spots(b, y)' = Hits(b, tasks, y)
  BY <1>4, <1>7, SpotsAre
<1>9. Gives(b, x)
  <2>1. \A y : y # x => Spots(b, y) = {} /\ Spots(b, y)' = {}
    BY <1>2, <1>8
  <2>2. ~ Lone({})
    BY DEF Lone
  <2>3. Lone(Spots(b, x)')
    BY <1>2, <1>8
  <2> QED
    BY <2>1, <2>2, <2>3 DEF Gives, Like
<1>10. InPlace'
  BY <1>4, <1>5, <1>6, <1>9, MoveInPlace DEF PInv
<1>11. \A i \in DOMAIN tasks : tasks[i].pkt # nullptr
  <2>1. v \in Seq(AnyTask) /\ DOMAIN tasks = DOMAIN v
    BY DEF IsVerdict, Handed, tasks
  <2>2. \A i \in DOMAIN v : tasks[i].pkt = x
    BY <2>1, HandedPacket DEF Real, tasks
  <2> QED
    BY <2>1, <2>2 DEF Real
<1>12. WorkReal' /\ WorkIdle' /\ RxIdle'
  BY <1>1, <1>11, NewWork DEF PInv, tasks
<1> QED
  BY <1>10, <1>12
----------------------------------------------------------------------------
(* The actions, one by one.                                                *)

\* No two names are the same line.
LEMMA NamesDiffer ==
    /\ RxLine # HiLine /\ RxLine # LoLine /\ HiLine # LoLine /\ OutLine # SentLine
    /\ \A w, q : EgressLine(w, q) \notin {RxLine, HiLine, LoLine, OutLine, SentLine, Gone}
    /\ {RxLine, HiLine, LoLine, OutLine, SentLine, Gone} \cap {WorkLine(t) : t \in Handler} = {}
    /\ \A w, q : ~ IsWorkLine(EgressLine(w, q))
    /\ \A k \in {RxLine, HiLine, LoLine, OutLine, SentLine, Gone} : ~ IsWorkLine(k)
    /\ \A t \in Handler : IsWorkLine(WorkLine(t))
BY DEF RxLine, HiLine, LoLine, OutLine, SentLine, Gone, EgressLine, WorkLine, IsWorkLine

\* The packet moves from the work of the thread to Gone.
LEMMA DropPInv == ASSUME SInv, OInv, PInv, NEW t \in Handler, DropPacket(t) PROVE PInv'
<1>1. /\ HasTask(t, "drop") /\ GoOn(t, << >>) /\ gone' = gone \cup {Head(work[t]).pkt}
      /\ UNCHANGED <<packet_id, rx_packet, queue_hi, queue_lo, output_buffer, sent, egress_buffers>>
  BY DEF DropPacket, inputVars, outVars, egressVars
<1>2. Head(work[t]).pkt \in Real
  BY <1>1, HeadReal DEF HasTask
<1>3. Gives(Gone, Head(work[t]).pkt)
  BY <1>1, <1>2, GoneGives
<1>4. \A k \in Line \ {Gone} : ~ IsWorkLine(k) => Kept(k)
  BY <1>1, Kinds, KeptLines, NamesDiffer
<1>5. InPlace' /\ WorkReal' /\ WorkIdle' /\ RxIdle'
  BY <1>1, <1>3, <1>4, LineNames, NamesDiffer, TaskMoves
<1> QED
  BY <1>1, <1>5 DEF PInv, LoReal, OutReal

\* The packet moves from the work of the thread to the high-priority queue, or is gone.
LEMMA BackToIngressPInv ==
    ASSUME SInv, OInv, PInv, NEW t \in Handler, NEW op, op # "clone", BackToIngress(t, op)
    PROVE  PInv'
<1> DEFINE x == Head(work[t]).pkt
<1>1. /\ HasTask(t, op) /\ GoOn(t, << >>) /\ PushBack(t, x)
      /\ UNCHANGED <<packet_id, rx_packet, queue_lo, output_buffer, sent, egress_buffers>>
  BY DEF BackToIngress, outVars, egressVars
<1>2. x \in Real
  BY <1>1, HeadReal DEF HasTask
<1> HIDE DEF x
<1>3. ASSUME gone' = gone \cup {x} /\ UNCHANGED queue_hi
      PROVE  InPlace' /\ WorkReal' /\ WorkIdle' /\ RxIdle'
  <2>1. Gives(Gone, x)
    BY <1>2, <1>3, GoneGives
  <2>2. \A k \in Line \ {Gone} : ~ IsWorkLine(k) => Kept(k)
    BY <1>1, <1>3, Kinds, KeptLines, NamesDiffer
  <2>3. Gives(Gone, Head(work[t]).pkt)
    BY <2>1 DEF x
  <2> QED
    BY <1>1, <2>2, <2>3, LineNames, NamesDiffer, TaskMoves
<1>4. ASSUME queue_hi' = Append(queue_hi, x) /\ UNCHANGED gone
      PROVE  InPlace' /\ WorkReal' /\ WorkIdle' /\ RxIdle'
  <2>1. Content(HiLine)' = Append(Content(HiLine), x) /\ x \in Element(HiLine)
    BY <1>2, <1>4, Contents, Elements DEF Real
  <2>2. Gives(HiLine, x)
    BY <2>1, LineNames, StandFor, LastComes
  <2>3. \A k \in Line \ {HiLine} : ~ IsWorkLine(k) => Kept(k)
    BY <1>1, <1>4, Kinds, KeptLines, NamesDiffer
  <2>4. Gives(HiLine, Head(work[t]).pkt)
    BY <2>2 DEF x
  <2> QED
    BY <1>1, <2>3, <2>4, LineNames, NamesDiffer, TaskMoves
<1>5. InPlace' /\ WorkReal' /\ WorkIdle' /\ RxIdle'
  BY <1>1, <1>3, <1>4 DEF PushBack
<1> QED
  BY <1>1, <1>5 DEF PInv, LoReal, OutReal

\* The packet moves from the work of the thread to an egress buffer, or is gone.
LEMMA EnqueuePInv == ASSUME SInv, OInv, PInv, NEW t \in Handler, EnqueuePacket(t) PROVE PInv'
<1> DEFINE task == Head(work[t])
           q == nb_queues_per_port - 1 - task.priority
           x == task.pkt
           w == WorkerOf(task.port)
           item == [pkt |-> x, port |-> task.port]
<1>1. /\ HasTask(t, "enqueue") /\ GoOn(t, << >>)
      /\ UNCHANGED <<packet_id, rx_packet, queue_hi, queue_lo, output_buffer, sent>>
  BY DEF EnqueuePacket, inputVars, outVars
<1>2. x \in Real /\ task.port \in Port /\ task.priority \in Nat
  BY <1>1, HeadReal, FirstTask DEF SInv, HasTask, AnyTask
<1>3. \/ gone' = gone \cup {x} /\ UNCHANGED egress_buffers
      \/ task.priority < nb_queues_per_port /\ UNCHANGED gone
         /\ egress_buffers' = [egress_buffers EXCEPT ![w][q] = Append(@, item)]
  BY Zenon DEF EnqueuePacket, PushEgress, egressVars
<1>4. w \in Worker
  BY <1>2, WorkerOfPort
<1>5. task.priority < nb_queues_per_port => q \in Queue
  BY <1>2, WorkersAssumption DEF Queue
<1>6. item \in Queued /\ item.pkt = x
  BY <1>2 DEF Queued, Real
<1> HIDE DEF task, q, x, w, item
<1>7. ASSUME gone' = gone \cup {x} /\ UNCHANGED egress_buffers
      PROVE  InPlace' /\ WorkReal' /\ WorkIdle' /\ RxIdle'
  <2>1. Gives(Gone, x)
    BY <1>2, <1>7, GoneGives
  <2>2. \A k \in Line \ {Gone} : ~ IsWorkLine(k) => Kept(k)
    BY <1>1, <1>7, Kinds, KeptLines, NamesDiffer
  <2>3. Gives(Gone, Head(work[t]).pkt)
    BY <2>1 DEF x, task
  <2> QED
    BY <1>1, <2>2, <2>3, LineNames, NamesDiffer, TaskMoves
<1>8. ASSUME q \in Queue, UNCHANGED gone,
             egress_buffers' = [egress_buffers EXCEPT ![w][q] = Append(@, item)]
      PROVE  InPlace' /\ WorkReal' /\ WorkIdle' /\ RxIdle'
  <2>1. PICK v \in Worker, r \in Queue, e \in Queued : v = w /\ r = q /\ e = item
    BY <1>4, <1>6, <1>8
  <2> DEFINE b == EgressLine(v, r)
  <2>2. b \in Line /\ b # Gone /\ ~ IsWorkLine(b)
    BY LineNames, NamesDiffer
  <2>3. egress_buffers' = [egress_buffers EXCEPT ![v][r] = Append(egress_buffers[v][r], e)]
    BY <1>8, <2>1
  <2>4. egress_buffers'[v][r] = Append(egress_buffers[v][r], e)
    BY <2>3 DEF SInv, QueuesTyped
  <2>5. Content(b)' = Append(Content(b), e) /\ e \in Element(b)
    BY <2>4, Contents, Elements
  <2>6. \A y : StandsFor(b, e, y) <=> y = Head(work[t]).pkt
    BY <1>6, <2>1, StandFor DEF x, task
  <2>7. \A u \in Worker : \A m \in Queue : EgressLine(u, m) # b => Kept(EgressLine(u, m))
    BY <2>3, KeptEgress DEF EgressLine
  <2> HIDE DEF b
  <2>8. Gives(b, Head(work[t]).pkt)
    BY <2>2, <2>5, <2>6, LastComes
  <2>9. \A k \in Line \ {b} : ~ IsWorkLine(k) => Kept(k)
    BY <1>1, <1>8, <2>7, Kinds, KeptLines, NamesDiffer DEF IsWorkLine
  <2> QED
    BY <1>1, <2>2, <2>8, <2>9, TaskMoves
<1>9. InPlace' /\ WorkReal' /\ WorkIdle' /\ RxIdle'
  BY <1>3, <1>5, <1>7, <1>8
<1> QED
  BY <1>1, <1>9 DEF PInv, LoReal, OutReal

\* The packet moves from the work of the thread to the output buffer.
LEMMA EmitPInv == ASSUME SInv, OInv, PInv, NEW w \in Worker, EmitPacket(w) PROVE PInv'
<1> DEFINE task == Head(work[w])
           x == task.pkt
           item == [pkt |-> x, port |-> task.port, queue |-> task.priority]
<1>0. w \in Handler
  BY Threads
<1>1. /\ HasTask(w, "emit") /\ GoOn(w, << >>) /\ output_buffer' = Append(output_buffer, item)
      /\ UNCHANGED <<packet_id, rx_packet, queue_hi, queue_lo, egress_buffers, gone, sent>>
  BY Zenon DEF EmitPacket, inputVars, egressVars
<1>2. x \in Real /\ task.port \in Port
  BY <1>0, <1>1, HeadReal, FirstTask DEF SInv, HasTask, AnyTask
<1>3. task.priority \in Queue
  <2>1. GoodWork(w, work[w], overtaken) /\ task = work[w][1] /\ 1 \in DOMAIN work[w]
    BY <1>0, <1>1, FirstTask DEF SInv, OInv, Placed, HasTask
  <2> QED
    BY <1>1, <2>1 DEF GoodWork, HasTask
<1>4. item \in Leaving /\ item.pkt = x
  BY <1>2, <1>3 DEF Leaving, Real
<1> HIDE DEF item, x, task
<1>5. Content(OutLine)' = Append(Content(OutLine), item) /\ item \in Element(OutLine)
  BY <1>1, <1>4, Contents, Elements
<1>6. Gives(OutLine, x)
  BY <1>4, <1>5, LineNames, StandFor, LastComes
<1>7. \A k \in Line \ {OutLine} : ~ IsWorkLine(k) => Kept(k)
  BY <1>1, Kinds, KeptLines, NamesDiffer
<1>8. InPlace' /\ WorkReal' /\ WorkIdle' /\ RxIdle'
  BY <1>0, <1>1, <1>6, <1>7, LineNames, NamesDiffer, TaskMoves DEF x, task
<1>9. OutReal'
  <2>1. output_buffer \in Seq(Leaving)
    BY DEF OInv, Placed
  <2>2. item.pkt # nullptr
    BY <1>2, <1>4 DEF Real
  <2> QED
    BY <1>1, <1>4, <2>1, <2>2, AppendAt DEF PInv, OutReal
<1> QED
  BY <1>1, <1>8, <1>9 DEF PInv, LoReal

\* The packet moves from the output buffer to the wire; the sentinel only leaves.
LEMMA TransmitPInv == ASSUME SInv, OInv, PInv, Transmit PROVE PInv'
<1>1. /\ pc[transmit] = "pop" /\ output_buffer # << >> /\ output_buffer' = Tail(output_buffer)
      /\ UNCHANGED <<packet_id, rx_packet, queue_hi, queue_lo, work, egress_buffers, gone>>
      /\ \/ /\ Head(output_buffer).pkt = nullptr /\ Goto(transmit, "done") /\ UNCHANGED sent
         \/ /\ Head(output_buffer).pkt # nullptr /\ sent' = Append(sent, Head(output_buffer))
            /\ UNCHANGED pc
  BY DEF Transmit, inputVars, egressVars, handlingVars
<1>2. output_buffer \in Seq(Leaving)
  BY DEF OInv, Placed
<1>3. PICK e \in Leaving : e = Head(output_buffer)
  BY <1>1, <1>2, TailAt
<1>4. Content(OutLine) # << >> /\ Content(OutLine)' = Tail(Content(OutLine))
      /\ Head(Content(OutLine)) = e
  BY <1>1, <1>3, Contents
<1>5. \A y : StandsFor(OutLine, e, y) <=> y = e.pkt
  BY StandFor
<1>6. \A k \in Line \ {OutLine, SentLine} : Kept(k)
  BY <1>1, Kinds, KeptLines, NamesDiffer
<1>7. InPlace'
  <2>1. ASSUME e.pkt = nullptr, UNCHANGED sent PROVE InPlace'
    <3>1. Kept(SentLine) /\ Kept(OutLine)
      BY <1>4, <1>5, <2>1, HeadLeaves, LineNames, KeptLines DEF Real
    <3> QED
      BY <1>1, <1>6, <3>1, StayInPlace DEF PInv
  <2>2. ASSUME e.pkt # nullptr, sent' = Append(sent, e) PROVE InPlace'
    <3>1. e.pkt \in Real
      BY <2>2 DEF Leaving, Real
    <3>2. Takes(OutLine, e.pkt)
      BY <1>4, <1>5, HeadLeaves, LineNames
    <3>3. Content(SentLine)' = Append(Content(SentLine), e) /\ e \in Element(SentLine)
      BY <2>2, Contents, Elements
    <3>4. \A y : StandsFor(SentLine, e, y) <=> y = e.pkt
      BY StandFor
    <3>5. Gives(SentLine, e.pkt)
      BY <3>3, <3>4, LastComes, LineNames
    <3> QED
      BY <1>1, <1>6, <3>2, <3>5, LineNames, NamesDiffer, MoveInPlace DEF PInv
  <2> QED
    BY <1>1, <1>3, <2>1, <2>2
<1>8. WorkReal' /\ WorkIdle' /\ RxIdle'
  <2>1. transmit \in Thread \ {rx} /\ transmit \notin Handler
    BY Threads, WorkersAssumption DEF transmit, rx
  <2>2. pc' = pc \/ Goto(transmit, "done")
    BY <1>1
  <2> QED
    BY <1>1, <2>1, <2>2, SameWork DEF PInv, SInv, WorkTyped
<1>9. OutReal'
  BY <1>1, <1>2, TailAt DEF PInv, OutReal
<1> QED
  BY <1>1, <1>7, <1>8, <1>9 DEF PInv, LoReal

\* Where the packet is that is being received.
LEMMA RxSpots ==
    ASSUME NEW y
    PROVE  /\ rx_packet # y => Spots(RxLine, y) = {}
           /\ rx_packet' # y => Spots(RxLine, y)' = {}
           /\ rx_packet = y => Lone(Spots(RxLine, y))
           /\ rx_packet' = y => Lone(Spots(RxLine, y)')
<1>1. \A x : /\ x # y => Hits(RxLine, <<x>>, y) = {}
             /\ x = y => Hits(RxLine, <<x>>, y) = {1}
  <2>1. ASSUME NEW x
        PROVE  /\ x # y => Hits(RxLine, <<x>>, y) = {}
               /\ x = y => Hits(RxLine, <<x>>, y) = {1}
    <3>1. DOMAIN <<x>> = {1} /\ <<x>>[1] = x
      OBVIOUS
    <3>2. StandsFor(RxLine, x, y) <=> x = y
      BY StandFor
    <3> QED
      BY <3>1, <3>2 DEF Hits
  <2> QED
    BY <2>1
<1>2. /\ Spots(RxLine, y) = Hits(RxLine, <<rx_packet>>, y)
      /\ Spots(RxLine, y)' = Hits(RxLine, <<rx_packet'>>, y)
  BY SpotsAre, LineNames, Contents
<1> QED
  BY <1>1, <1>2 DEF Lone

\* A packet is new and in the hands of receive_.
LEMMA ReceivePInv == ASSUME SInv, OInv, PInv, Receive PROVE PInv'
<1>1. /\ pc[rx] = "idle" /\ packet_id' = packet_id + 1 /\ rx_packet' = packet_id + 1
      /\ Goto(rx, "push")
      /\ UNCHANGED <<queue_hi, queue_lo, output_buffer, sent, work, egress_buffers, gone>>
  BY DEF Receive, egressVars, outVars
<1>2. packet_id \in Nat /\ pc \in [Thread -> Label]
  BY DEF SInv, QueuesTyped, WorkTyped
<1>3. rx_packet = nullptr
  BY <1>1 DEF PInv, RxIdle
<1>4. \A k \in Line \ {RxLine} : Kept(k)
  BY <1>1, Kinds, KeptLines, NamesDiffer
<1>5. ASSUME NEW y \in Real PROVE Settled(y)'
  <2>0. Settled(y) /\ y \in Nat
    BY DEF PInv, InPlace, Real
  <2>1. Spots(RxLine, y) = {}
    BY <1>3, RxSpots DEF Real
  <2>2. CASE y = packet_id + 1
    <3>1. Lone(Spots(RxLine, y)')
      BY <1>1, <2>2, RxSpots
    <3>2. ~ (y <= packet_id) /\ y <= packet_id'
      BY <1>1, <1>2, <2>2
    <3> QED
      BY <1>4, <2>0, <3>1, <3>2, LineNames, ArrivesSettled DEF Kept
  <2>3. CASE y # packet_id + 1
    <3>1. Spots(RxLine, y)' = {} /\ ~ Lone({})
      BY <1>1, <2>3, RxSpots DEF Lone
    <3>2. y <= packet_id' <=> y <= packet_id
      BY <1>1, <1>2, <2>0, <2>3
    <3>3. \A k \in Line : Like(k, y)
      BY <1>4, <2>1, <3>1 DEF Kept, Like
    <3> QED
      BY <2>0, <3>2, <3>3, StaysSettled
  <2> QED
    BY <2>2, <2>3
<1>6. InPlace'
  BY <1>5 DEF InPlace
<1>7. pc'[rx] = "push" /\ \A t \in Handler : pc'[t] = pc[t]
  BY <1>1, <1>2, Threads DEF Goto
<1>8. packet_id + 1 # nullptr
  BY <1>2 DEF nullptr
<1>9. RxIdle' /\ WorkIdle'
  BY <1>1, <1>7, <1>8 DEF RxIdle, WorkIdle, PInv
<1> QED
  BY <1>1, <1>6, <1>9 DEF PInv, LoReal, WorkReal, OutReal

\* The packet moves from receive_ to the low-priority queue.
LEMMA ReceivePushPInv == ASSUME SInv, OInv, PInv, ReceivePush PROVE PInv'
<1>1. /\ pc[rx] = "push" /\ queue_lo' = Append(queue_lo, rx_packet) /\ rx_packet' = nullptr
      /\ Goto(rx, "idle")
      /\ UNCHANGED <<packet_id, queue_hi, output_buffer, sent, work, egress_buffers, gone>>
  BY DEF ReceivePush, egressVars, outVars, handlingVars
<1>2. rx_packet \in Real /\ queue_lo \in Seq(Nat) /\ pc \in [Thread -> Label]
  BY <1>1 DEF SInv, QueuesTyped, WorkTyped, PInv, RxIdle, Real
<1>3. PICK x \in Real : x = rx_packet
  BY <1>2
<1>4. Takes(RxLine, x)
  <2>1. ASSUME NEW y \in Real
        PROVE  IF y = x
                 THEN Spots(RxLine, y) # {} /\ (Lone(Spots(RxLine, y)) => Spots(RxLine, y)' = {})
                 ELSE Like(RxLine, y)
    <3>1. Spots(RxLine, y)' = {} /\ ~ Lone({})
      BY <1>1, RxSpots DEF Real, Lone
    <3>2. y = x => Lone(Spots(RxLine, y))
      BY <1>3, RxSpots
    <3>3. y # x => Spots(RxLine, y) = {}
      BY <1>3, RxSpots
    <3> QED
      BY <3>1, <3>2, <3>3 DEF Like
  <2> QED
    BY <2>1 DEF Takes
<1>5. Gives(LoLine, x)
  <2>1. Content(LoLine)' = Append(Content(LoLine), x) /\ x \in Element(LoLine)
    BY <1>1, <1>3, Contents, Elements DEF Real
  <2> QED
    BY <2>1, LineNames, StandFor, LastComes
<1>6. \A k \in Line \ {RxLine, LoLine} : Kept(k)
  BY <1>1, Kinds, KeptLines, NamesDiffer
<1>7. InPlace'
  BY <1>1, <1>4, <1>5, <1>6, LineNames, NamesDiffer, MoveInPlace DEF PInv
<1>8. pc'[rx] = "idle" /\ \A t \in Handler : pc'[t] = pc[t]
  BY <1>1, <1>2, Threads DEF Goto
<1>9. RxIdle' /\ WorkIdle'
  BY <1>1, <1>8 DEF RxIdle, WorkIdle, PInv
<1>10. LoReal'
  BY <1>1, <1>2, AppendAt DEF PInv, LoReal, Real
<1> QED
  BY <1>1, <1>7, <1>9, <1>10 DEF PInv, WorkReal, OutReal

\* The ingress thread takes the head of line a, one of its queues.
LEMMA IngressTakes ==
    ASSUME SInv, OInv, PInv, pc[ingress] = "pop", NEW a \in {HiLine, LoLine},
           Content(a) # << >>, Content(a)' = Tail(Content(a)), NEW x, x = Head(Content(a)),
           IngressTake(x), \A k \in {HiLine, LoLine} \ {a} : Kept(k)
    PROVE  InPlace' /\ WorkReal' /\ WorkIdle' /\ RxIdle'
<1>1. UNCHANGED <<packet_id, rx_packet, output_buffer, sent, egress_buffers, gone>>
  BY DEF IngressTake, egressVars, outVars
<1>2. a \in Line /\ a # Gone /\ ~ IsWorkLine(a) /\ ingress \in Handler /\ ingress \in Thread \ {rx}
  BY LineNames, NamesDiffer, Threads
<1>3. Content(a) \in Seq(Nat) /\ x \in Nat
  <2>1. Content(a) \in Seq(Element(a)) /\ Element(a) = Nat
    BY <1>2, LineTyped, Elements
  <2> QED
    BY <2>1
<1>4. \A y : StandsFor(a, x, y) <=> y = x
  BY StandFor
<1>5. \A k \in Line \ {a} : ~ IsWorkLine(k) => Kept(k)
  BY <1>1, Kinds, KeptLines, NamesDiffer
<1>6. ASSUME x = nullptr PROVE InPlace' /\ WorkReal' /\ WorkIdle' /\ RxIdle'
  <2>1. Goto(ingress, "done") /\ UNCHANGED work
    BY <1>6 DEF IngressTake
  <2>2. Kept(a)
    BY <1>2, <1>4, <1>6, HeadLeaves DEF Real
  <2>3. \A k \in Line : Kept(k)
    BY <1>5, <2>1, <2>2, KeptLines DEF IsWorkLine
  <2>4. InPlace'
    BY <1>1, <2>3, StayInPlace DEF PInv
  <2>5. WorkReal' /\ WorkIdle' /\ RxIdle'
    BY <1>1, <1>2, <2>1, SameWork DEF PInv, SInv, WorkTyped
  <2> QED
    BY <2>4, <2>5
<1>7. ASSUME x # nullptr PROVE InPlace' /\ WorkReal' /\ WorkIdle' /\ RxIdle'
  <2>1. Process(ingress, x, 0, 0, IngressVerdicts) /\ x \in Real
    BY <1>3, <1>7 DEF IngressTake, Real
  <2>2. Takes(a, x)
    BY <1>2, <1>4, HeadLeaves
  <2> DEFINE fates == {"enqueue", "multicast", "resubmit", "drop"}
  <2>3. "clone" \notin fates /\ \A v \in IngressVerdicts : IsVerdict(v, fates)
    BY VerdictsAssumption
  <2> HIDE DEF fates
  <2> QED
    BY <1>1, <1>2, <1>5, <2>1, <2>2, <2>3, ProcessMoves
<1> QED
  BY <1>6, <1>7

\* The packet moves from a queue of the input buffer to the work of the thread.
LEMMA IngressPopPInv == ASSUME SInv, OInv, PInv, IngressPop PROVE PInv'
<1>1. pc[ingress] = "pop"
  BY DEF IngressPop
<1>2. queue_lo \in Seq(Nat)
  BY DEF SInv, QueuesTyped
<1>3. ASSUME queue_hi # << >>, queue_hi' = Tail(queue_hi), UNCHANGED queue_lo,
             IngressTake(Head(queue_hi))
      PROVE  PInv'
  <2>1. PICK x : x = Head(queue_hi)
    OBVIOUS
  <2>2. InPlace' /\ WorkReal' /\ WorkIdle' /\ RxIdle'
    BY <1>1, <1>3, <2>1, Contents, KeptLines, IngressTakes
  <2>3. UNCHANGED output_buffer
    BY <1>3 DEF IngressTake, outVars
  <2> QED
    BY <1>3, <2>2, <2>3 DEF PInv, LoReal, OutReal
<1>4. ASSUME queue_lo # << >>, queue_lo' = Tail(queue_lo), UNCHANGED queue_hi,
             IngressTake(Head(queue_lo))
      PROVE  PInv'
  <2>1. PICK x : x = Head(queue_lo)
    OBVIOUS
  <2>2. InPlace' /\ WorkReal' /\ WorkIdle' /\ RxIdle'
    BY <1>1, <1>4, <2>1, Contents, KeptLines, IngressTakes
  <2>3. UNCHANGED output_buffer
    BY <1>4 DEF IngressTake, outVars
  <2>4. LoReal'
    BY <1>2, <1>4, TailAt DEF PInv, LoReal
  <2> QED
    BY <2>2, <2>3, <2>4 DEF PInv, OutReal
<1> QED
  BY <1>3, <1>4 DEF IngressPop

\* The packet moves from an egress buffer to the work of the thread.
LEMMA EgressPopPInv == ASSUME SInv, OInv, PInv, NEW w \in Worker, EgressPop(w) PROVE PInv'
<1>1. PICK q \in Queue :
          /\ egress_buffers[w][q] # << >>
          /\ egress_buffers' = [egress_buffers EXCEPT ![w][q] = Tail(@)]
          /\ IF Head(egress_buffers[w][q]).pkt = nullptr
               THEN Goto(w, "done") /\ UNCHANGED <<work, seen>>
               ELSE Process(w, Head(egress_buffers[w][q]).pkt,
                            Head(egress_buffers[w][q]).port, q, EgressVerdicts)
  BY DEF EgressPop
<1>2. /\ pc[w] = "pop"
      /\ UNCHANGED <<packet_id, rx_packet, queue_hi, queue_lo, output_buffer, sent, gone>>
  BY DEF EgressPop, inputVars, outVars
<1>3. egress_buffers[w][q] \in Seq(Queued)
  BY DEF SInv, QueuesTyped
<1>4. PICK e \in Queued : e = Head(egress_buffers[w][q])
  BY <1>1, <1>3, TailAt
<1> DEFINE a == EgressLine(w, q)
<1>5. a \in Line /\ a # Gone /\ ~ IsWorkLine(a)
  BY LineNames, NamesDiffer
<1>6. w \in Handler /\ w \in Thread \ {rx}
  BY Threads
<1>7. egress_buffers' = [egress_buffers EXCEPT ![w][q] = Tail(egress_buffers[w][q])]
  BY <1>1
<1>8. egress_buffers'[w][q] = Tail(egress_buffers[w][q])
  BY <1>7 DEF SInv, QueuesTyped
<1>9. /\ Content(a) # << >> /\ Content(a)' = Tail(Content(a)) /\ Head(Content(a)) = e
      /\ \A y : StandsFor(a, e, y) <=> y = e.pkt
  <2>1. Content(a) = egress_buffers[w][q] /\ Content(a)' = egress_buffers'[w][q]
    BY Contents
  <2>2. \A y : StandsFor(a, e, y) <=> y = e.pkt
    BY StandFor
  <2> QED
    BY <1>1, <1>4, <1>8, <2>1, <2>2
<1>10. \A v \in Worker : \A r \in Queue : EgressLine(v, r) # a => Kept(EgressLine(v, r))
  BY <1>7, KeptEgress DEF EgressLine
<1> HIDE DEF a
<1>11. \A k \in Line \ {a} : ~ IsWorkLine(k) => Kept(k)
  BY <1>2, <1>10, Kinds, KeptLines, NamesDiffer DEF IsWorkLine
<1>12. ASSUME e.pkt = nullptr PROVE InPlace' /\ WorkReal' /\ WorkIdle' /\ RxIdle'
  <2>1. Goto(w, "done") /\ UNCHANGED work
    BY <1>1, <1>4, <1>12
  <2>2. Kept(a)
    BY <1>5, <1>9, <1>12, HeadLeaves DEF Real
  <2>3. \A k \in Line : Kept(k)
    BY <1>11, <2>1, <2>2, KeptLines DEF IsWorkLine
  <2>4. InPlace'
    BY <1>2, <2>3, StayInPlace DEF PInv
  <2>5. WorkReal' /\ WorkIdle' /\ RxIdle'
    BY <1>2, <1>6, <2>1, SameWork DEF PInv, SInv, WorkTyped
  <2> QED
    BY <2>4, <2>5
<1>13. ASSUME e.pkt # nullptr PROVE InPlace' /\ WorkReal' /\ WorkIdle' /\ RxIdle'
  <2>1. PICK x \in Real, p \in Port : x = e.pkt /\ p = e.port
    BY <1>13 DEF Queued, Real
  <2>2. Process(w, x, p, q, EgressVerdicts)
    BY <1>1, <1>4, <1>13, <2>1
  <2>3. Takes(a, x)
    BY <1>5, <1>9, <2>1, HeadLeaves
  <2> DEFINE fates == {"emit", "recirculate", "drop"}
  <2>4. "clone" \notin fates /\ \A v \in EgressVerdicts : IsVerdict(v, fates)
    BY VerdictsAssumption
  <2> HIDE DEF fates
  <2> QED
    BY <1>2, <1>5, <1>6, <1>11, <2>2, <2>3, <2>4, ProcessMoves
<1>14. InPlace' /\ WorkReal' /\ WorkIdle' /\ RxIdle'
  BY <1>12, <1>13
<1> QED
  BY <1>2, <1>14 DEF PInv, LoReal, OutReal

\* Nothing moves.
LEMMA QuietPInv ==
    ASSUME SInv, PInv,
           UNCHANGED <<packet_id, rx_packet, queue_hi, queue_lo, output_buffer, sent, work,
                       egress_buffers, gone>>,
           pc' = pc \/ \E l \in {"stop ingress", "stop egress", "join", "done"} : Goto(main, l)
    PROVE  PInv'
<1>1. \A k \in Line : Kept(k)
  BY Kinds, KeptLines
<1>2. InPlace'
  BY <1>1, StayInPlace DEF PInv
<1>3. WorkReal' /\ WorkIdle' /\ RxIdle'
  BY MainIsNot, SameWork DEF PInv, SInv, WorkTyped
<1> QED
  BY <1>2, <1>3 DEF PInv, LoReal, OutReal

\* The control plane moves no packets.
LEMMA ControlPInv == ASSUME SInv, PInv, Control \/ UNCHANGED vars PROVE PInv'
<1>1. UNCHANGED <<packet_id, rx_packet, queue_hi, queue_lo, output_buffer, sent, work,
                  egress_buffers, gone, pc>>
  <2>1. CASE UNCHANGED vars
    BY <2>1 DEF vars, inputVars, egressVars, outVars, handlingVars
  <2>2. CASE Control
    BY Zenon, <2>2 DEF Control, AddSession, DeleteSession, SetDepth, inputVars, egressVars,
                       outVars, handlingVars
  <2> QED BY <2>1, <2>2
<1> QED
  BY <1>1, QuietPInv

\* A sentinel comes to an egress buffer.
LEMMA StopEgressPInv == ASSUME SInv, OInv, PInv, StopEgress PROVE PInv'
<1>1. /\ PushEgress(stop_i, 0, nullptr) /\ stop_i < nb_egress_threads
      /\ UNCHANGED <<packet_id, rx_packet, queue_hi, queue_lo, output_buffer, sent, work,
                     gone, pc>>
  BY Zenon DEF StopEgress, inputVars, outVars, handlingVars
<1>2. PICK p \in Port : p = stop_i
  BY <1>1, WorkersAssumption DEF SInv, QueuesTyped
<1>3. WorkerOf(p) \in Worker /\ 0 \in Queue
  BY WorkerOfPort, WorkersAssumption DEF Queue
<1>4. PICK w \in Worker : w = WorkerOf(p)
  BY <1>3
<1> DEFINE item == [pkt |-> nullptr, port |-> p]
           a == EgressLine(w, 0)
<1>5. egress_buffers' = [egress_buffers EXCEPT ![w][0] = Append(egress_buffers[w][0], item)]
  BY <1>1, <1>2, <1>4 DEF PushEgress
<1>6. egress_buffers'[w][0] = Append(egress_buffers[w][0], item)
  BY <1>3, <1>5 DEF SInv, QueuesTyped
<1>7. item \in Queued /\ item.pkt = nullptr
  BY DEF Queued, nullptr
<1>8. /\ Content(a)' = Append(Content(a), item) /\ item \in Element(a)
      /\ a \in Line /\ a # Gone
  <2>1. Content(a) = egress_buffers[w][0] /\ Content(a)' = egress_buffers'[w][0]
    BY Contents
  <2>2. Element(a) = Queued /\ a \in Line /\ a # Gone
    BY <1>3, Elements, LineNames
  <2> QED
    BY <1>6, <1>7, <2>1, <2>2
<1>9. \A y \in Real : ~ StandsFor(a, item, y)
  <2> HIDE DEF item
  <2>1. \A y : StandsFor(a, item, y) <=> item.pkt = y
    BY StandFor
  <2> QED
    BY <1>7, <2>1 DEF Real
<1>10. \A v \in Worker : \A r \in Queue : EgressLine(v, r) # a => Kept(EgressLine(v, r))
  BY <1>3, <1>5, KeptEgress DEF EgressLine
<1> HIDE DEF a, item
<1>11. Kept(a)
  BY <1>8, <1>9, LastComes
<1>12. \A k \in Line : Kept(k)
  BY <1>1, <1>10, <1>11, Kinds, KeptLines
<1>13. InPlace'
  BY <1>1, <1>12, StayInPlace DEF PInv
<1> QED
  BY <1>1, <1>13 DEF PInv, LoReal, OutReal, WorkReal, WorkIdle, RxIdle

\* The destructor moves only sentinels.
LEMMA DestructorPInv == ASSUME SInv, OInv, PInv, Destroy \/ Stop PROVE PInv'
<1>1. ASSUME Destroy \/ Join PROVE PInv'
  <2>1. /\ UNCHANGED <<packet_id, rx_packet, queue_hi, queue_lo, output_buffer, sent, work,
                       egress_buffers, gone>>
        /\ Goto(main, "stop ingress") \/ Goto(main, "done")
    BY <1>1 DEF Destroy, Join, inputVars, outVars, egressVars, handlingVars
  <2> QED
    BY <2>1, QuietPInv
<1>2. ASSUME StopIngress PROVE PInv'
  <2>1. /\ queue_hi' = Append(queue_hi, nullptr) /\ Goto(main, "stop egress")
        /\ UNCHANGED <<packet_id, rx_packet, queue_lo, output_buffer, sent, work,
                       egress_buffers, gone>>
    BY <1>2 DEF StopIngress, outVars, egressVars, handlingVars
  <2>2. Content(HiLine)' = Append(Content(HiLine), nullptr) /\ nullptr \in Element(HiLine)
    BY <2>1, Contents, Elements DEF nullptr
  <2>3. Kept(HiLine)
    BY <2>2, LineNames, StandFor, LastComes DEF Real
  <2>4. \A k \in Line : Kept(k)
    BY <2>1, <2>3, Kinds, KeptLines
  <2>5. InPlace'
    BY <2>1, <2>4, StayInPlace DEF PInv
  <2>6. WorkReal' /\ WorkIdle' /\ RxIdle'
    BY <2>1, MainIsNot, SameWork DEF PInv, SInv, WorkTyped
  <2> QED
    BY <2>1, <2>5, <2>6 DEF PInv, LoReal, OutReal
<1>3. ASSUME StopTransmit PROVE PInv'
  <2>1. /\ output_buffer' = Append(output_buffer, EndOfOutput) /\ Goto(main, "join")
        /\ UNCHANGED <<packet_id, rx_packet, queue_hi, queue_lo, sent, work,
                       egress_buffers, gone>>
    BY <1>3 DEF StopTransmit, inputVars, egressVars, handlingVars
  <2>2. EndOfOutput \in Leaving /\ EndOfOutput.pkt = nullptr
    BY PortZero, WorkersAssumption DEF EndOfOutput, Leaving, Queue, nullptr
  <2>3. Content(OutLine)' = Append(Content(OutLine), EndOfOutput)
        /\ EndOfOutput \in Element(OutLine)
    BY <2>1, <2>2, Contents, Elements
  <2>4. Kept(OutLine)
    BY <2>2, <2>3, LineNames, StandFor, LastComes DEF Real
  <2>5. \A k \in Line : Kept(k)
    BY <2>1, <2>4, Kinds, KeptLines
  <2>6. InPlace'
    BY <2>1, <2>5, StayInPlace DEF PInv
  <2>7. WorkReal' /\ WorkIdle' /\ RxIdle'
    BY <2>1, MainIsNot, SameWork DEF PInv, SInv, WorkTyped
  <2>8. OutReal'
    BY <2>1, <2>2, AppendAt DEF PInv, OutReal, OInv, Placed
  <2> QED
    BY <2>1, <2>6, <2>7, <2>8 DEF PInv, LoReal
<1> QED
  BY <1>1, <1>2, <1>3, StopEgressPInv DEF Stop

\* At first there are no packets.
LEMMA InitPInv == Init => PInv
<1> SUFFICES ASSUME Init PROVE PInv
  OBVIOUS
<1>1. /\ packet_id = 0 /\ rx_packet = nullptr /\ queue_hi = << >> /\ queue_lo = << >>
      /\ output_buffer = << >> /\ sent = << >> /\ gone = {}
      /\ \A t \in Handler : work[t] = << >>
      /\ \A w \in Worker : \A q \in Queue : egress_buffers[w][q] = << >>
  BY DEF Init
<1>0. pc[rx] = "idle"
  BY Threads, MainIsNot DEF Init
<1>2. ASSUME NEW y \in Real, NEW k \in Line PROVE Spots(k, y) = {}
  <2>1. Hits(k, << >>, y) = {}
    BY DEF Hits
  <2>2. CASE k = Gone
    BY <1>1, <2>2, SpotsAre
  <2>3. CASE k = RxLine
    BY <1>1, <2>3, RxSpots DEF Real
  <2>4. CASE k # Gone /\ k # RxLine
    <3>1. Content(k) = << >>
      BY <1>1, <2>4, Kinds, Contents
    <3> QED
      BY <2>1, <2>4, <3>1, SpotsAre
  <2> QED
    BY <2>2, <2>3, <2>4
<1>3. InPlace
  <2>1. ASSUME NEW y \in Real PROVE ~ (y <= packet_id)
    BY <1>1 DEF Real, nullptr
  <2> QED
    BY <1>2, <2>1 DEF InPlace, Settled
<1> QED
  BY <1>0, <1>1, <1>3 DEF PInv, LoReal, WorkReal, OutReal, RxIdle, WorkIdle
----------------------------------------------------------------------------
(* Copies.                                                                 *)

\* A replica for each port, numbered from the newest packet on.
LEMMA ReplicateHits ==
    ASSUME NEW ports \in Seq(Port), NEW from \in Nat, NEW pri \in Nat, NEW t, NEW y \in Nat
    PROVE  IF y \in from + 1 .. from + Len(ports)
             THEN Lone(Hits(WorkLine(t), Replicate(ports, from, pri), y))
             ELSE Hits(WorkLine(t), Replicate(ports, from, pri), y) = {}
<1> DEFINE copies == Replicate(ports, from, pri)
<1>1. DOMAIN ports = 1 .. Len(ports) /\ Len(ports) \in Nat
  OBVIOUS
<1>2. DOMAIN copies = 1 .. Len(ports)
  BY <1>1 DEF Replicate
<1>3. ASSUME NEW i \in 1 .. Len(ports) PROVE copies[i].op = "enqueue" /\ copies[i].pkt = from + i
  BY <1>1 DEF Replicate, Enqueue, Task
<1> HIDE DEF copies
<1>4. ASSUME NEW i \in 1 .. Len(ports)
      PROVE  StandsFor(WorkLine(t), copies[i], y) <=> from + i = y
  <2>1. StandsFor(WorkLine(t), copies[i], y) <=> copies[i].pkt = y /\ copies[i].op # "clone"
    BY StandFor
  <2> QED
    BY <1>3, <2>1
<1>5. Hits(WorkLine(t), copies, y) = {i \in 1 .. Len(ports) : from + i = y}
  BY <1>2, <1>4 DEF Hits
<1>6. ASSUME y \in from + 1 .. from + Len(ports) PROVE Lone(Hits(WorkLine(t), copies, y))
  <2>1. y - from \in 1 .. Len(ports) /\ from + (y - from) = y
    BY <1>1, <1>6
  <2>2. \A i \in 1 .. Len(ports) : from + i = y => i = y - from
    BY <1>1
  <2>3. {i \in 1 .. Len(ports) : from + i = y} = {y - from}
    BY <2>1, <2>2
  <2> QED
    BY <1>5, <2>3 DEF Lone
<1>7. ASSUME y \notin from + 1 .. from + Len(ports) PROVE Hits(WorkLine(t), copies, y) = {}
  <2>1. \A i \in 1 .. Len(ports) : from + i # y
    BY <1>1, <1>7
  <2> QED
    BY <1>5, <2>1
<1> QED
  BY <1>6, <1>7 DEF copies

\* What is numbered beyond the newest packet is not there yet.
LEMMA NotYet ==
    ASSUME SInv, InPlace, NEW y \in Real, y > packet_id, NEW k \in Line
    PROVE  Spots(k, y) = {}
<1>1. ~ (y <= packet_id)
  BY DEF SInv, QueuesTyped, Real
<1> QED
  BY <1>1 DEF InPlace, Settled

\* The packet is gone and the replicas are new, all in the work of the thread.
LEMMA MulticastPInv == ASSUME SInv, OInv, PInv, MulticastPacket PROVE PInv'
<1> DEFINE task == Head(work[ingress])
           ports == Group[task.id]
           more == Replicate(ports, packet_id, task.priority)
<1>1. /\ HasTask(ingress, "multicast") /\ GoOn(ingress, more)
      /\ packet_id' = packet_id + Len(ports) /\ gone' = gone \cup {task.pkt}
      /\ UNCHANGED <<rx_packet, queue_hi, queue_lo, output_buffer, sent, egress_buffers>>
  BY Zenon DEF MulticastPacket, DiscardOriginal, inputVars, outVars, egressVars
<1>2. ingress \in Handler /\ pc[ingress] = "work" /\ task.op = "multicast"
  BY <1>1, Threads DEF HasTask
<1>3. /\ task \in AnyTask /\ work[ingress] \in Seq(AnyTask) /\ work[ingress] # << >>
      /\ task = work[ingress][1] /\ IsWork(work[ingress])
  BY <1>2, FirstTask DEF SInv
<1>4. task.id \in DOMAIN Group
  <2>1. 1 \in DOMAIN work[ingress]
    BY <1>3
  <2> QED
    BY <1>2, <1>3, <2>1 DEF IsWork
<1>5. ports \in Seq(Port) /\ task.priority \in Nat /\ packet_id \in Nat
  BY <1>3, <1>4, SessionsAssumption DEF SInv, QueuesTyped, AnyTask
<1>6. PICK x \in Real : x = task.pkt
  BY <1>2, HeadReal
<1>7. PICK m \in Seq(AnyTask) : m = more
  BY <1>5, ReplicateIsWork
<1>8. PICK n \in Nat : n = Len(ports)
  BY <1>5
<1> DEFINE k == WorkLine(ingress)
<1>9. ASSUME NEW y \in Real
      PROVE  IF y \in packet_id + 1 .. packet_id + n THEN Lone(Hits(k, m, y))
                                                     ELSE Hits(k, m, y) = {}
  BY <1>5, <1>7, <1>8, ReplicateHits DEF Real
<1>10. \A i \in DOMAIN m : m[i].pkt # nullptr
  <2>1. \A i \in DOMAIN m : m[i].pkt \in packet_id + 1 .. packet_id + n
    BY <1>5, <1>7, <1>8, ReplicateIsWork
  <2> QED
    BY <1>5, <2>1 DEF nullptr
<1>11. \A y : StandsFor(k, task, y) <=> y = x
  BY <1>2, <1>6, StandFor
<1>12. /\ work' = [work EXCEPT ![ingress] = m \o Tail(work[ingress])]
       /\ packet_id' = packet_id + n /\ gone' = gone \cup {x}
  BY <1>1, <1>6, <1>7, <1>8 DEF GoOn
<1>13. ASSUME NEW y \in Real
       PROVE  /\ Hits(k, m, y) = {} /\ y # x => Like(k, y)
              /\ Hits(k, m, y) = {} /\ y = x =>
                    Spots(k, y) # {} /\ (Lone(Spots(k, y)) => Spots(k, y)' = {})
              /\ Lone(Hits(k, m, y)) /\ Spots(k, y) = {} => Lone(Spots(k, y)')
  BY <1>2, <1>3, <1>11, <1>12, WorkGoesOn
<1>14. k \in Line /\ k # Gone
  BY <1>2, LineNames
<1>15. \A l \in Line \ {k, Gone} : Kept(l)
  <2>1. \A u \in Handler : u # ingress => Kept(WorkLine(u))
    BY <1>2, <1>12, KeptWork
  <2> QED
    BY <1>1, <2>1, Kinds, KeptLines
<1>16. Gives(Gone, x)
  BY <1>12, GoneGives
<1> HIDE DEF k, task, ports, more
<1>17. ASSUME NEW y \in Real PROVE Settled(y)'
  <2>0. Settled(y) /\ y \in Nat
    BY DEF PInv, InPlace, Real
  <2>1. CASE y > packet_id /\ y <= packet_id + n
    <3>1. \A l \in Line : Spots(l, y) = {}
      BY <2>1, NotYet DEF PInv
    <3>2. Lone(Hits(k, m, y)) /\ y <= packet_id' /\ ~ (y <= packet_id)
      BY <1>5, <1>9, <1>12, <2>0, <2>1
    <3>3. Lone(Spots(k, y)')
      BY <1>13, <1>14, <3>1, <3>2
    <3>4. y # x
      <4>1. Hits(k, m, y) = {} /\ y = x => Spots(k, y) # {}
        BY <1>13
      <4>2. x <= packet_id
        <5>1. ASSUME x > packet_id PROVE FALSE
          <6>1. \A l \in Line : Spots(l, x) = {}
            BY <5>1, NotYet DEF PInv
          <6>2. Spots(k, x) # {}
            BY <1>2, <1>3, <1>11, HeadSpot DEF k, task
          <6> QED
            BY <1>14, <6>1, <6>2
        <5> QED
          BY <1>5, <5>1 DEF Real
      <4> QED
        BY <1>5, <2>0, <3>2, <4>2
    <3>5. \A l \in Line \ {k} : Like(l, y)
      BY <1>15, <1>16, <3>4 DEF Kept, Gives
    <3> QED
      BY <1>14, <2>0, <3>2, <3>3, <3>5, ArrivesSettled
  <2>2. CASE ~ (y > packet_id /\ y <= packet_id + n)
    <3>1. Hits(k, m, y) = {} /\ (y <= packet_id' <=> y <= packet_id)
      BY <1>5, <1>9, <1>12, <2>0, <2>2
    <3>2. CASE y = x
      <4>1. /\ Spots(k, y) # {} /\ (Lone(Spots(k, y)) => Spots(k, y)' = {})
            /\ (Spots(Gone, y) = {} => Lone(Spots(Gone, y)'))
        BY <1>13, <1>16, <3>1, <3>2 DEF Gives
      <4>2. \A l \in Line \ {k, Gone} : Like(l, y)
        BY <1>15 DEF Kept
      <4> QED
        BY <1>14, <2>0, <3>1, <4>1, <4>2, LineNames, MovesSettled
    <3>3. CASE y # x
      <4>1. \A l \in Line : Like(l, y)
        BY <1>13, <1>15, <1>16, <3>1, <3>3 DEF Kept, Gives
      <4> QED
        BY <2>0, <3>1, <4>1, StaysSettled
    <3> QED
      BY <3>2, <3>3
  <2> QED
    BY <2>1, <2>2
<1>18. InPlace'
  BY <1>17 DEF InPlace
<1>19. GoOn(ingress, m)
  BY <1>1, <1>7
<1>20. WorkReal' /\ WorkIdle' /\ RxIdle'
  BY <1>1, <1>2, <1>10, <1>19, GoOnWork DEF PInv
<1> QED
  BY <1>1, <1>18, <1>20 DEF PInv, LoReal, OutReal

\* The copies that cloning makes: one for the port of the session, if it has
\* one, and a replica for each port of its group.
LEMMA CloneCopies ==
    ASSUME SInv, NEW t \in Handler, ClonePacket(t)
    PROVE  \/ work' = [work EXCEPT ![t] = Tail(work[t])] /\ UNCHANGED <<packet_id, gone>>
           \/ \E n \in Nat, m \in Seq(AnyTask) :
                 /\ packet_id' = packet_id + 1 + n
                 /\ work' = [work EXCEPT ![t] = m \o Tail(work[t])]
                 /\ \A i \in DOMAIN m : m[i].pkt # nullptr
                 /\ \A y \in Real : y \notin packet_id + 1 .. packet_id'
                       => Hits(WorkLine(t), m, y) = {}
                 /\ \A y \in packet_id + 2 .. packet_id' : Lone(Hits(WorkLine(t), m, y))
                 /\ \/ Lone(Hits(WorkLine(t), m, packet_id + 1)) /\ UNCHANGED gone
                    \/ /\ Hits(WorkLine(t), m, packet_id + 1) = {}
                       /\ gone' = gone \cup {packet_id + 1}
<1> DEFINE task == Head(work[t])
           c == sessions_map[Masked(task.id)]
           copy == packet_id + 1
           first == Replicate(Ports(c), copy, task.priority)
           one == [Enqueue(c.egress_port, task.priority) EXCEPT !.pkt = copy]
           forPort == IF c.egress_port_valid THEN <<one>> ELSE << >>
<1>1. HasTask(t, "clone")
  BY DEF ClonePacket
<1>2. \/ c = Unset /\ work' = [work EXCEPT ![t] = Tail(@)] /\ UNCHANGED <<packet_id, gone>>
      \/ /\ c # Unset /\ packet_id' = copy + Len(Ports(c))
         /\ work' = [work EXCEPT ![t] = first \o forPort \o Tail(@)]
         /\ gone' = IF c.egress_port_valid THEN gone ELSE gone \cup {copy}
  BY Zenon DEF ClonePacket
<1>3. task \in AnyTask
  BY <1>1, FirstTask DEF SInv, HasTask
<1>4. task.id \in Nat /\ task.priority \in Nat /\ packet_id \in Nat
  BY <1>3 DEF AnyTask, SInv, QueuesTyped
<1>5. c \in Answers
  <2>1. Masked(task.id) \in SessionId
    BY <1>4, MaskedInRange
  <2> QED
    BY <2>1 DEF SInv, SessionsFollow
<1> HIDE DEF task, c
<1>6. CASE c = Unset /\ work' = [work EXCEPT ![t] = Tail(@)] /\ UNCHANGED <<packet_id, gone>>
  BY <1>6
<1>7. CASE /\ c # Unset /\ packet_id' = copy + Len(Ports(c))
           /\ work' = [work EXCEPT ![t] = first \o forPort \o Tail(@)]
           /\ gone' = IF c.egress_port_valid THEN gone ELSE gone \cup {copy}
  <2>1. c.mgid \in DOMAIN Group /\ c.egress_port \in Port
    BY <1>5, <1>7, SessionsAssumption DEF Answers
  <2>2. Ports(c) \in Seq(Port)
    BY <2>1, SessionsAssumption DEF Ports
  <2>3. PICK n \in Nat : n = Len(Ports(c))
    BY <2>2
  <2>4. copy \in Nat /\ copy \in Real /\ copy # nullptr
    BY <1>4 DEF Real, nullptr
  <2>5. one \in AnyTask /\ one.op = "enqueue" /\ one.pkt = copy
    BY <1>4, <2>1, <2>4 DEF Enqueue, Task, AnyTask, Operation, nullptr
  <2>6. first \in Seq(AnyTask) /\ \A i \in DOMAIN first : first[i].pkt \in copy + 1 .. copy + n
    BY <1>4, <2>2, <2>3, <2>4, ReplicateIsWork
  <2>7. ASSUME NEW y \in Nat
        PROVE  IF y \in copy + 1 .. copy + n THEN Lone(Hits(WorkLine(t), first, y))
                                             ELSE Hits(WorkLine(t), first, y) = {}
    BY <1>4, <2>2, <2>3, <2>4, ReplicateHits
  <2> HIDE DEF one
  <2>8. /\ forPort \in Seq(AnyTask)
        /\ \A i \in DOMAIN forPort : forPort[i].pkt = copy
        /\ \A y : y # copy \/ ~ c.egress_port_valid => Hits(WorkLine(t), forPort, y) = {}
        /\ c.egress_port_valid => Lone(Hits(WorkLine(t), forPort, copy))
    <3>1. CASE c.egress_port_valid
      <4>1. forPort = <<one>>
        BY <3>1
      <4>2. <<one>> \in Seq(AnyTask) /\ DOMAIN <<one>> = {1} /\ <<one>>[1] = one
        BY <2>5
      <4>3. \A y : StandsFor(WorkLine(t), one, y) <=> y = copy
        BY <2>5, StandFor
      <4>4. /\ \A y : y # copy => Hits(WorkLine(t), <<one>>, y) = {}
            /\ Hits(WorkLine(t), <<one>>, copy) = {1}
        BY <4>2, <4>3 DEF Hits
      <4> QED
        BY <2>5, <3>1, <4>1, <4>2, <4>4 DEF Lone
    <3>2. CASE ~ c.egress_port_valid
      <4>1. forPort = << >>
        BY <3>2
      <4>2. << >> \in Seq(AnyTask) /\ DOMAIN << >> = {}
        OBVIOUS
      <4>3. \A y : Hits(WorkLine(t), << >>, y) = {}
        BY <4>2 DEF Hits
      <4> QED
        BY <3>2, <4>1, <4>2, <4>3
    <3> QED
      BY <3>1, <3>2
  <2> HIDE DEF first, forPort
  <2>c. first \in Seq(AnyTask) /\ forPort \in Seq(AnyTask)
    BY <2>6, <2>8
  <2>d. ASSUME NEW a \in Seq(AnyTask), NEW b \in Seq(AnyTask) PROVE a \o b \in Seq(AnyTask)
    OBVIOUS
  <2>9. PICK m \in Seq(AnyTask) : m = first \o forPort
    BY <2>c, <2>d
  <2>10. \A y : /\ Hits(WorkLine(t), first, y) = {} =>
                     /\ Hits(WorkLine(t), forPort, y) = {} => Hits(WorkLine(t), m, y) = {}
                     /\ Lone(Hits(WorkLine(t), forPort, y)) => Lone(Hits(WorkLine(t), m, y))
                /\ Lone(Hits(WorkLine(t), first, y)) /\ Hits(WorkLine(t), forPort, y) = {}
                     => Lone(Hits(WorkLine(t), m, y))
    BY <2>6, <2>8, <2>9, ConcatHits
  <2>11. \A i \in DOMAIN m : m[i].pkt # nullptr
    <3>1. /\ \A i \in DOMAIN first : first[i].pkt # nullptr
          /\ \A i \in DOMAIN forPort : forPort[i].pkt # nullptr
      BY <2>4, <2>6, <2>8 DEF nullptr
    <3>2. \A i \in DOMAIN m : \/ i \in DOMAIN first /\ m[i] = first[i]
                              \/ i - Len(first) \in DOMAIN forPort
                                 /\ m[i] = forPort[i - Len(first)]
      BY <2>6, <2>8, <2>9
    <3> QED
      BY <3>1, <3>2
  <2>12. packet_id' = packet_id + 1 + n /\ packet_id' = copy + n
    BY <1>4, <1>7, <2>3
  <2>13. work' = [work EXCEPT ![t] = m \o Tail(work[t])]
    BY <1>7, <2>9
  <2>14. ASSUME NEW y \in Real, y \notin packet_id + 1 .. packet_id'
         PROVE  Hits(WorkLine(t), m, y) = {}
    <3>1. y \in Nat /\ y # copy /\ y \notin copy + 1 .. copy + n
      BY <1>4, <2>12, <2>14 DEF Real
    <3> QED
      BY <2>7, <2>8, <2>10, <3>1
  <2>15. ASSUME NEW y \in packet_id + 2 .. packet_id' PROVE Lone(Hits(WorkLine(t), m, y))
    <3>1. y \in Nat /\ y # copy /\ y \in copy + 1 .. copy + n
      BY <1>4, <2>12
    <3> QED
      BY <2>7, <2>8, <2>10, <3>1
  <2>16. Hits(WorkLine(t), first, copy) = {}
    BY <2>4, <2>7
  <2>17. \/ Lone(Hits(WorkLine(t), m, copy)) /\ UNCHANGED gone
         \/ Hits(WorkLine(t), m, copy) = {} /\ gone' = gone \cup {copy}
    BY <1>7, <2>8, <2>10, <2>16
  <2> QED
    BY <2>11, <2>12, <2>13, <2>14, <2>15, <2>17
<1> QED
  BY <1>2, <1>6, <1>7

\* The copy is new, in the work of the thread or gone, and so are its replicas.
LEMMA ClonePInv == ASSUME SInv, OInv, PInv, NEW t \in Handler, ClonePacket(t) PROVE PInv'
<1>1. /\ HasTask(t, "clone")
      /\ UNCHANGED <<rx_packet, queue_hi, queue_lo, output_buffer, sent, egress_buffers, pc>>
  BY DEF ClonePacket, inputVars, outVars, egressVars
<1>2. /\ work[t] \in Seq(AnyTask) /\ work[t] # << >> /\ pc[t] = "work"
      /\ Head(work[t]).op = "clone" /\ packet_id \in Nat
  BY <1>1, FirstTask DEF SInv, HasTask, QueuesTyped
<1> DEFINE k == WorkLine(t)
<1>3. k \in Line /\ k # Gone
  BY LineNames
<1>4. \A y : ~ StandsFor(k, Head(work[t]), y)
  BY <1>2, StandFor
<1>5. ASSUME NEW m \in Seq(AnyTask), work' = [work EXCEPT ![t] = m \o Tail(work[t])],
             \A i \in DOMAIN m : m[i].pkt # nullptr
      PROVE  /\ \A y \in Real :
                   /\ Hits(k, m, y) = {} => Like(k, y)
                   /\ Lone(Hits(k, m, y)) /\ Spots(k, y) = {} => Lone(Spots(k, y)')
             /\ WorkReal' /\ WorkIdle' /\ RxIdle'
             /\ \A l \in Line \ {k, Gone} : Kept(l)
  <2>1. ASSUME NEW y \in Real
        PROVE  /\ Hits(k, m, y) = {} => Like(k, y)
               /\ Lone(Hits(k, m, y)) /\ Spots(k, y) = {} => Lone(Spots(k, y)')
    BY <1>2, <1>4, <1>5, WorkGoesOn
  <2>2. \A i \in DOMAIN (m \o Tail(work[t])) : (m \o Tail(work[t]))[i].pkt # nullptr
    BY <1>2, <1>5, TailReal DEF PInv, WorkReal
  <2>3. WorkReal' /\ WorkIdle' /\ RxIdle'
    BY <1>1, <1>2, <1>5, <2>2, NewWork DEF PInv
  <2>4. \A u \in Handler : u # t => Kept(WorkLine(u))
    BY <1>5, KeptWork
  <2>5. \A l \in Line \ {k, Gone} : Kept(l)
    BY <1>1, <2>4, Kinds, KeptLines
  <2> QED
    BY <2>1, <2>3, <2>5
<1>6. ASSUME work' = [work EXCEPT ![t] = Tail(work[t])], UNCHANGED <<packet_id, gone>>
      PROVE  InPlace' /\ WorkReal' /\ WorkIdle' /\ RxIdle'
  <2>1. << >> \in Seq(AnyTask) /\ DOMAIN << >> = {} /\ << >> \o Tail(work[t]) = Tail(work[t])
    BY <1>2
  <2>2. \A y : Hits(k, << >>, y) = {}
    BY <2>1 DEF Hits
  <2>3. (\A y \in Real : Like(k, y)) /\ WorkReal' /\ WorkIdle' /\ RxIdle'
        /\ \A l \in Line \ {k, Gone} : Kept(l)
    BY <1>5, <1>6, <2>1, <2>2
  <2>4. \A l \in Line : Kept(l)
    BY <1>6, <2>3, KeptLines DEF Kept
  <2> QED
    BY <1>6, <2>3, <2>4, StayInPlace DEF PInv
<1>7. ASSUME NEW n \in Nat, NEW m \in Seq(AnyTask),
             packet_id' = packet_id + 1 + n,
             work' = [work EXCEPT ![t] = m \o Tail(work[t])],
             \A i \in DOMAIN m : m[i].pkt # nullptr,
             \A y \in Real : y \notin packet_id + 1 .. packet_id' => Hits(k, m, y) = {},
             \A y \in packet_id + 2 .. packet_id' : Lone(Hits(k, m, y)),
             \/ Lone(Hits(k, m, packet_id + 1)) /\ UNCHANGED gone
             \/ Hits(k, m, packet_id + 1) = {} /\ gone' = gone \cup {packet_id + 1}
      PROVE  InPlace' /\ WorkReal' /\ WorkIdle' /\ RxIdle'
  <2>1. /\ \A y \in Real :
              /\ Hits(k, m, y) = {} => Like(k, y)
              /\ Lone(Hits(k, m, y)) /\ Spots(k, y) = {} => Lone(Spots(k, y)')
        /\ WorkReal' /\ WorkIdle' /\ RxIdle'
        /\ \A l \in Line \ {k, Gone} : Kept(l)
    BY <1>5, <1>7
  <2>2. PICK copy \in Real : copy = packet_id + 1
    BY <1>2 DEF Real, nullptr
  <2> HIDE DEF k
  <2>3. (UNCHANGED gone /\ Kept(Gone)) \/ (gone' = gone \cup {copy} /\ Gives(Gone, copy))
    BY <1>7, <2>2, KeptLines, GoneGives
  <2>4. \A y \in Real : y # copy => Like(Gone, y)
    BY <2>3 DEF Kept, Gives
  <2>5. ASSUME NEW y \in Real PROVE Settled(y)'
    <3>0. Settled(y) /\ y \in Nat
      BY DEF PInv, InPlace, Real
    <3>1. CASE y \in packet_id + 2 .. packet_id'
      <4>1. y > packet_id /\ ~ (y <= packet_id) /\ y <= packet_id' /\ y # copy
        BY <1>2, <1>7, <2>2, <3>1
      <4>2. Spots(k, y) = {}
        BY <1>3, <4>1, NotYet DEF PInv
      <4>3. Lone(Spots(k, y)')
        BY <1>7, <2>1, <3>1, <4>2
      <4>4. \A l \in Line \ {k} : Like(l, y)
        BY <2>1, <2>4, <4>1 DEF Kept
      <4> QED
        BY <1>3, <3>0, <4>1, <4>3, <4>4, ArrivesSettled
    <3>2. CASE y = copy
      <4>1. y > packet_id /\ ~ (y <= packet_id) /\ y <= packet_id'
        BY <1>2, <1>7, <2>2, <3>2
      <4>2. \A l \in Line : Spots(l, y) = {}
        BY <4>1, NotYet DEF PInv
      <4>3. CASE Lone(Hits(k, m, copy)) /\ UNCHANGED gone
        <5>1. Lone(Spots(k, y)')
          BY <1>3, <2>1, <3>2, <4>2, <4>3
        <5>2. \A l \in Line \ {k} : Like(l, y)
          BY <2>1, <4>3, KeptLines DEF Kept
        <5> QED
          BY <1>3, <3>0, <4>1, <5>1, <5>2, ArrivesSettled
      <4>4. CASE Hits(k, m, copy) = {} /\ gone' = gone \cup {copy}
        <5>1. Lone(Spots(Gone, y)')
          BY <3>2, <4>2, <4>4, GoneGives, LineNames DEF Gives
        <5>2. \A l \in Line \ {Gone} : Like(l, y)
          BY <2>1, <3>2, <4>4 DEF Kept
        <5> QED
          BY <3>0, <4>1, <5>1, <5>2, LineNames, ArrivesSettled
      <4> QED
        BY <1>7, <2>2, <4>3, <4>4
    <3>3. CASE y \notin packet_id + 1 .. packet_id'
      <4>1. (y <= packet_id' <=> y <= packet_id) /\ y # copy
        BY <1>2, <1>7, <2>2, <3>0, <3>3
      <4>2. \A l \in Line : Like(l, y)
        BY <1>7, <2>1, <2>4, <3>3, <4>1 DEF Kept
      <4> QED
        BY <3>0, <4>1, <4>2, StaysSettled
    <3> QED
      BY <1>2, <1>7, <2>2, <3>0, <3>1, <3>2, <3>3
  <2> QED
    BY <2>1, <2>5 DEF InPlace
<1>8. InPlace' /\ WorkReal' /\ WorkIdle' /\ RxIdle'
  BY <1>6, <1>7, CloneCopies
<1> QED
  BY <1>1, <1>8 DEF PInv, LoReal, OutReal

\* All steps.
LEMMA NextPInv == ASSUME SInv, OInv, PInv, [Next]_vars PROVE PInv'
<1>1. CASE Control \/ UNCHANGED vars BY <1>1, ControlPInv
<1>2. CASE Receive BY <1>2, ReceivePInv
<1>3. CASE ReceivePush BY <1>3, ReceivePushPInv
<1>4. ASSUME NEW t \in Handler, Copying(t) \/ DropPacket(t) PROVE PInv'
  BY <1>4, ClonePInv, EnqueuePInv, DropPInv DEF Copying
<1>5. ASSUME NEW t \in Handler, BackToIngress(t, "resubmit") \/ BackToIngress(t, "recirculate")
      PROVE  PInv'
  BY <1>5, BackToIngressPInv
<1>6. CASE IngressThread
  BY <1>4, <1>5, <1>6, IngressPopPInv, MulticastPInv, Threads DEF IngressThread
<1>7. ASSUME NEW w \in Worker, EgressThread(w) PROVE PInv'
  <2>1. w \in Handler
    BY Threads
  <2> QED
    BY <1>4, <1>5, <1>7, <2>1, EgressPopPInv, EmitPInv DEF EgressThread
<1>8. CASE Transmit BY <1>8, TransmitPInv
<1>9. CASE Destroy \/ Stop BY <1>9, DestructorPInv
<1> QED
  BY <1>1, <1>2, <1>3, <1>6, <1>7, <1>8, <1>9 DEF Next

\* The three invariants hold together.
LEMMA InvHolds == Spec => [](SInv /\ OInv /\ PInv)
<1>1. Init => SInv /\ OInv /\ PInv
  BY InitKeeps, InitOrder, InitPInv
<1>2. (SInv /\ OInv /\ PInv) /\ [Next]_vars => (SInv /\ OInv /\ PInv)'
  BY NextKeeps, NextOrder, NextPInv
<1> QED
  BY <1>1, <1>2, PTL DEF Spec

\* Every packet and every copy stays in one place from the moment it is made:
\* in the hands of one thread, in one queue, transmitted or dropped.  No
\* unique_ptr is lost by a push to a full queue, moved twice, or left behind by
\* multicast, mirroring, a change of the depths or the shutdown
\* (optical_switch.cpp:486-787).
THEOREM OcsPacketsKeptOnce == Spec => []EveryPacketInOnePlace
<1>1. ASSUME SInv, OInv, PInv PROVE EveryPacketInOnePlace
  <2> SUFFICES ASSUME NEW x \in Packet PROVE Cardinality(Whereabouts(x)) = 1
    BY DEF EveryPacketInOnePlace
  <2>1. x \in Real /\ x <= packet_id
    BY <1>1 DEF Packet, Real, nullptr, SInv, QueuesTyped
  <2>2. PICK k \in Line : OnlyIn(k, x)
    BY <1>1, <2>1 DEF PInv, InPlace, Settled
  <2>3. PICK i : Spots(k, x) = {i}
    BY <2>2 DEF OnlyIn, Lone
  <2>4. \A j \in Line : j # k => Spots(j, x) = {}
    BY <2>2 DEF OnlyIn
  <2>5. \A z : z \in Whereabouts(x) <=> \E j \in Line : \E n \in Spots(j, x) : z = <<j, n>>
    BY DEF Whereabouts
  <2>6. \A z : z \in Whereabouts(x) <=> z = <<k, i>>
    BY <2>3, <2>4, <2>5
  <2>7. Whereabouts(x) = {<<k, i>>}
    BY <2>6
  <2> QED
    BY <2>7, FS_Singleton
<1> QED
  BY <1>1, InvHolds, PTL
----------------------------------------------------------------------------
(* Types.                                                                  *)

\* What is in a place is a packet that exists, or a sentinel.
LEMMA OnlyPackets ==
    ASSUME SInv, OInv, PInv, NEW k \in Line, k # Gone, NEW i \in DOMAIN Content(k),
           NEW y \in Nat, StandsFor(k, Content(k)[i], y)
    PROVE  y \in Packet \cup {nullptr}
<1>1. CASE y = nullptr
  BY <1>1
<1>2. CASE y # nullptr
  <2>1. y \in Real
    BY <1>2 DEF Real
  <2>2. Spots(k, y) # {}
    BY SpotsAre DEF Hits
  <2>3. ~ (y > packet_id)
    BY <2>1, <2>2, NotYet DEF PInv
  <2> QED
    BY <1>2, <2>3 DEF Packet, SInv, QueuesTyped, nullptr
<1> QED
  BY <1>1, <1>2

\* A sequence is one of T when its elements are in T.
LEMMA ElementsIn ==
    ASSUME NEW S, NEW T, NEW s \in Seq(S), \A i \in DOMAIN s : s[i] \in T
    PROVE  s \in Seq(T)
OBVIOUS

\* Every queue has room for a packet, whatever depth it was given.
DepthInv == depth \in [Port \X Queue -> Nat \ {0}]

\* Only SetDepth changes a depth.
LEMMA DepthStays == ASSUME SInv, DepthInv, [Next]_vars PROVE DepthInv'
<1>1. CASE Control
  <2>1. \/ \E ports, queues : \E d \in Depths : SetDepth(ports, queues, d)
        \/ UNCHANGED depth
    BY <1>1 DEF Control, AddSession, DeleteSession, egressVars
  <2>2. ASSUME NEW ports, NEW queues, NEW d \in Depths, SetDepth(ports, queues, d)
        PROVE  DepthInv'
    BY <2>2, RoomAssumption DEF SetDepth, DepthInv
  <2> QED
    BY <2>1, <2>2 DEF DepthInv
<1>2. CASE UNCHANGED vars
  BY <1>2 DEF vars, egressVars, DepthInv
<1>3. ASSUME ~ Control, Next PROVE UNCHANGED depth
  <2>1. ASSUME NEW t, ClonePacket(t) \/ EnqueuePacket(t) \/ DropPacket(t) PROVE UNCHANGED depth
    BY <2>1, Zenon DEF ClonePacket, EnqueuePacket, DropPacket, PushEgress, egressVars
  <2>2. ASSUME NEW t, NEW op, BackToIngress(t, op) PROVE UNCHANGED depth
    BY <2>2, Zenon DEF BackToIngress, egressVars
  <2>3. IngressPop \/ MulticastPacket => UNCHANGED depth
    BY Zenon DEF IngressPop, IngressTake, MulticastPacket, egressVars
  <2>4. ASSUME NEW w, EgressPop(w) \/ EmitPacket(w) PROVE UNCHANGED depth
    BY <2>4, Zenon DEF EgressPop, EmitPacket, egressVars
  <2>5. Receive \/ ReceivePush \/ Transmit \/ Destroy => UNCHANGED depth
    BY Zenon DEF Receive, ReceivePush, Transmit, Destroy, egressVars
  <2>6. Stop => UNCHANGED depth
    BY Zenon DEF Stop, StopIngress, StopEgress, StopTransmit, Join, PushEgress, egressVars
  <2>7. IngressThread => UNCHANGED depth
    BY <2>1, <2>2, <2>3 DEF IngressThread, Copying
  <2>8. ASSUME NEW w, EgressThread(w) PROVE UNCHANGED depth
    BY <2>1, <2>2, <2>4, <2>8 DEF EgressThread, Copying
  <2> QED
    BY <1>3, <2>5, <2>6, <2>7, <2>8 DEF Next
<1> QED
  BY <1>1, <1>2, <1>3 DEF DepthInv

\* What each queue and variable holds, a sentinel only where a thread waits
\* for one, and that a thread has tasks exactly while it handles a packet
\* (the queue types of optical_switch.h, and every queue has room for a
\* packet whatever set_egress_queue_depth was told).
THEOREM OcsTypes == Spec => []TypeOK
<1>1. ASSUME SInv, OInv, PInv, DepthInv PROVE TypeOK
  <2> USE <1>1
  <2>1. packet_id \in Nat /\ sessions_map \in [SessionId -> Config \cup {Unset}]
    BY DEF SInv, QueuesTyped, SessionsFollow, Answers
  <2>2. rx_packet \in Packet \cup {nullptr}
    <3>1. rx_packet \in Nat
      BY DEF SInv, QueuesTyped
    <3>2. 1 \in DOMAIN <<rx_packet>> /\ <<rx_packet>>[1] = rx_packet
      OBVIOUS
    <3> QED
      BY <3>1, <3>2, OnlyPackets, LineNames, Contents, StandFor
  <2>3. queue_hi \in Seq(Packet \cup {nullptr})
    <3>1. queue_hi \in Seq(Nat)
      BY DEF SInv, QueuesTyped
    <3>2. \A i \in DOMAIN queue_hi : queue_hi[i] \in Packet \cup {nullptr}
      BY <3>1, OnlyPackets, LineNames, Contents, StandFor
    <3> QED
      BY <3>1, <3>2, ElementsIn
  <2>4. queue_lo \in Seq(Packet)
    <3>1. queue_lo \in Seq(Nat)
      BY DEF SInv, QueuesTyped
    <3>2. \A i \in DOMAIN queue_lo : queue_lo[i] \in Packet \cup {nullptr}
      BY <3>1, OnlyPackets, LineNames, Contents, StandFor
    <3>3. \A i \in DOMAIN queue_lo : queue_lo[i] \in Packet
      BY <3>2 DEF PInv, LoReal
    <3> QED
      BY <3>1, <3>3, ElementsIn
  <2>5. ASSUME NEW w \in Worker, NEW q \in Queue
        PROVE  egress_buffers[w][q] \in Seq([pkt : Packet \cup {nullptr}, port : Port])
    <3>1. egress_buffers[w][q] \in Seq(Queued)
      BY DEF SInv, QueuesTyped
    <3>2. \A i \in DOMAIN egress_buffers[w][q] : egress_buffers[w][q][i] \in Queued
      BY <3>1
    <3>3. ASSUME NEW i \in DOMAIN egress_buffers[w][q]
          PROVE  egress_buffers[w][q][i].pkt \in Packet \cup {nullptr}
      <4>1. egress_buffers[w][q][i].pkt \in Nat
        BY <3>2 DEF Queued
      <4>2. PICK k \in Line : k = EgressLine(w, q)
        BY LineNames
      <4>3. k # Gone /\ Content(k) = egress_buffers[w][q]
        BY <4>2, LineNames, Contents
      <4>4. StandsFor(k, egress_buffers[w][q][i], egress_buffers[w][q][i].pkt)
        BY <4>2, StandFor
      <4> QED
        BY <4>1, <4>3, <4>4, OnlyPackets
    <3>4. \A i \in DOMAIN egress_buffers[w][q] :
              egress_buffers[w][q][i] \in [pkt : Packet \cup {nullptr}, port : Port]
      BY <3>2, <3>3 DEF Queued
    <3> QED
      BY <3>1, <3>4, ElementsIn
  <2>6. egress_buffers \in
            [Worker -> [Queue -> Seq([pkt : Packet \cup {nullptr}, port : Port])]]
    BY <2>5 DEF SInv, QueuesTyped
  <2>7. output_buffer \in Seq([pkt : Packet, port : Port, queue : Queue] \cup {EndOfOutput})
    <3>1. output_buffer \in Seq(Leaving)
      BY DEF OInv, Placed
    <3>2. \A i \in DOMAIN output_buffer : output_buffer[i] \in Leaving
      BY <3>1
    <3>3. ASSUME NEW i \in DOMAIN output_buffer
          PROVE  output_buffer[i].pkt \in Packet \cup {nullptr}
      <4>1. output_buffer[i].pkt \in Nat
        BY <3>2 DEF Leaving
      <4> QED
        BY <4>1, OnlyPackets, LineNames, Contents, StandFor
    <3>4. \A i \in DOMAIN output_buffer :
              output_buffer[i] \in [pkt : Packet, port : Port, queue : Queue] \cup {EndOfOutput}
      BY <3>2, <3>3 DEF Leaving, PInv, OutReal
    <3> QED
      BY <3>1, <3>4, ElementsIn
  <2>8. \A t \in Handler : (pc[t] = "work") <=> (work[t] # << >>)
    BY DEF SInv, WorkTyped, PInv, WorkIdle
  <2> QED
    BY <2>1, <2>2, <2>3, <2>4, <2>6, <2>7, <2>8 DEF TypeOK, DepthInv
<1>2. Init => DepthInv
  BY RoomAssumption DEF Init, DepthInv
<1>3. SInv /\ DepthInv /\ [Next]_vars => DepthInv'
  BY DepthStays
<1> QED
  BY <1>1, <1>2, <1>3, InvHolds, PTL DEF Spec
============================================================================
