# Verification of Optics-Mininet

Optics-Mininet emulates an optical data-centre network on one machine: ToR switches (electrical, with
time-slotted "calendar" queues) are connected to one optical circuit switch (OCS) whose circuits change
from time slice to time slice. A Python front end computes the schedule of circuits, the routes over it,
and the tables of all switches; two C++ targets built on the behavioral-model library (bmv2) run the
P4 programs `p4/tor/tor.p4` and `p4/ocs/ocs.p4`.

This directory has TLA+ models of that program, the TLC configurations that check them, and TLAPS proofs.
Paths below are relative to the repository's root.

## Inventory

| Component | State | Operations | Talks to |
|---|---|---|---|
| Calendar queues, `targets/tor_switch/calendar_queue.h` | a deque per slice shared by all ports, a hash table of counters per (port, slice), a total | `push_front`, `pop_back`, `size`, `get_q_size`, `get_port_qs`, `get_overall_size` | called by the ToR's ingress and calendar threads (one mutex), and by its Thrift thread |
| Input buffer, class `InputBuffer` in both targets | two deques, three condition variables, one mutex | `push_front` (waits, or gives up), `pop_back` | the threads of a switch |
| ToR switch, `targets/tor_switch/tor_switch.cpp` | input buffer, calendar queues, normal egress queues, output buffer, counters of received and dropped packets, mirroring sessions | `receive_`, ingress thread, calendar thread, normal egress thread, transmit thread, destructor, Thrift setters and getters | packets over its ports; tables from the P4 runtime; clock |
| OCS, `targets/optical_switch/optical_switch.cpp` | input buffer, egress queues and their depths, output buffer, mirroring sessions | `receive_`, ingress thread, four egress threads, transmit thread, destructor, Thrift setters | the ToRs' ports 1; clock; Thrift thread |
| P4 programs, `p4/` | tables; the source-routing header in the packet | parser, ingress control | run by the ingress threads |
| Front end, `src/OpticalToolbox.py`, `src/utils.py` | the topology per slice, the routes | `connect`, `round_robin`, `opera`, `topology_random`, `routing`, `entries`, `start`, `update_db` | writes the tables of both switches; asks the ToRs for reports |
| Runner, `targets/*/runner.cpp` | whether a configuration swap is under way | capture of digests, idle entries and swap notices | learning engine, ageing monitor, control plane; P4Runtime |
| Primitives and register access, `targets/*/primitives.cpp`, `register_access.h` | three registers of a packet | P4 primitives | the threads of a switch, which read the registers after each pipeline |
| Thrift servers and command lines | none | remote calls | the switch object |
| Mininet adapter, `src/p4_mininet.py` | processes | start, stop | operating system |
| Dashboard, `src/dashboard/` | database rows, web sockets | views, consumers | reads what `update_db` stored |

What is hard, and what has to hold:

* **Calendar queues.** The capacity is per (port, slice), but ports share a deque, and the table of
  counters is kept by other statements than the deque. Correct: counters equal contents, no pair is over
  its capacity, `pop_back` never meets a missing or zero counter, and callers cannot tell the structure
  from independent FIFOs.
* **ToR switch.** Five threads and bounded buffers, two of which make their producer wait, two of which
  refuse, one of which does either depending on the kind of packet; packets that go back to the input;
  unsynchronised counters; shutdown by sentinels. Correct: no packet vanishes without a reason or exists
  twice; drops are counted; nothing waits for ever; packets of one queue stay in order; the destructor
  comes back.
* **Input buffer.** Threads wait for room or for an item, notifications come after the mutex is released,
  and wake one thread each. Correct: it behaves as one atomic priority buffer, and nobody waits beside an
  item or a free place for ever.
* **OCS.** Four egress threads share the ports, copies are made by sessions that the control plane
  changes, shutdown is by sentinels that queue up with packets. Correct: packets of a port keep their
  order, no packet vanishes or doubles, a copy is made by a configuration in force, the destructor
  comes back.
* **Requests.** Four requests share a register of the packet; a packet passes several pipelines, and is
  copied and parsed again on the way. Correct: what was asked for is done once, for that packet only;
  the length kept beside the packet is its length, but for the primitives
  that do not keep it; a packet is dropped exactly when it is marked.
* **Notifications.** Three kinds of threads notify while configurations are swapped. Correct: silence during a
  swap, and only then.
* **Reports.** The queues are read while they change. Correct: the total is off by no more than what came
  and went, no pair goes missing from the dashboard's series, and the thread that asks can be stopped.
* **Time.** Every switch reads the clock for itself: the ToR when a packet arrives (which route), again
  when it takes packets out (which queue), the OCS when its ingress thread gets to the packet (which
  circuit). Any of them may be in another slice than the one before it. Correct: a packet the OCS sees in
  its slice gets where it should.
* **Tables.** Routes are computed with slice ids and ToR ids, the OCS's table with the order of insertion
  and ports counted from 1, the header with padding and an end marker. Correct: they agree.

The complete list of hazards, each with its source line, is under `hazards` in `PROJECT.json`.

## Modules

    PortFifos  <==implements==  CalendarQueueApi <--extends-- CalendarQueueProofs
                                       |
                                       +--extends--> CalendarQueue <--extends-- QueueReport <--extends-- QueueReportProofs
                                                       ^
                                        INSTANCE (CQ)  |
                                                       |
    TimeSlice <--extends-------------------------- TorSwitch <--extends-- TorSwitchProofs
        ^
        |
        +--------- OpticalNetwork <--extends-- OpticalNetworkProofs
                       |
                       +--extends--> Schedule, SourceRouting
                                        ^
                                        +-- OpticalToolbox <--extends-- OpticalToolboxProofs

    PriorityBuffer  <==implements==  InputBuffer <--extends-- InputBufferProofs

    OpticalSwitch <--extends-- OpticalSwitchProofs

    PacketRequests, Notifications <--extends-- Digests <--extends-- DigestsProofs

* `CalendarQueue`: the data structure. One action per outcome of `push_front` and `pop_back`; every
  operation runs under the mutex, so each is a step. The code pushes at the front and pops at the back;
  here the head of a sequence is the oldest element. `overal_qdepth` starts as garbage because the
  constructor leaves it out.
* `CalendarQueueApi`: the same with the value each call returns. `PortFifos` is what callers may
  believe: one bounded FIFO per (port, slice). The refinement mapping picks the elements of a port out of
  the shared deque by their rank among those of the port (written as a function, not as a recursion over
  the deque, so that it can be reasoned about).
* `TimeSlice`: `ts2time_slice`, the same in both targets.
* `TorSwitch`: all threads of the switch. `pc[t]` says where thread `t` is between two points another
  thread can tell apart: an operation on a queue, a read of the clock, a load or store of
  `nb_pkts_dropped`. What the P4 program decides about a packet is a *verdict*, a list of tasks (replicas
  first, then the fate of the packet, in the order the pipeline code looks at them), chosen from a
  constant set: `tor.p4` in one instance, everything the target offers in another. Packets are serial
  numbers. `sent`, `gone` and `raced` are history.
* `InputBuffer`: one step from locking the mutex to unlocking it or to waiting, and one for a notification,
  which comes after the unlock; condition variables may wake threads without being told. `PriorityBuffer`
  is what callers may believe: each call takes effect at one moment, and one that waits does so only while
  there is no room, or nothing to take. `TorSwitch` and `OpticalSwitch` use it in that form.
* `OpticalSwitch`: all threads of the OCS, at the same level as `TorSwitch`. `work[t]` is what thread `t`
  has still to do with its packet and the copies it made. The control plane's calls and the destructor
  come at any time; a clone's configuration is looked up when the thread gets to it. `told`, `seen` and
  `used` are the history of answers and look-ups, `overtaken`, `sent` and `gone` that of packets.
* `QueueReport`: `get_num_queued_packets` step by step (keys without the mutex, sizes under it) beside the
  pushes and pops of `CalendarQueue`, with the loop of `update_db` that asks for it and the command line
  that ends it. When the table changes while its keys are read, any of the keys may be missing.
* `PacketRequests`: one packet through ingress and either kind of egress, with the primitives a program
  may call on the way. Fields of registers are parts of numbers, read and written with the shifts and
  masks of `register_access.h`, in units of a field. Where a thread copies the packet, the model goes on with the copy or the
  original. A field list says which of `egress_spec` and `mcast_grp` come over to a copy whose metadata was
  reset (`WithFields`, `copy_field_list_and_set_type`); other metadata decides nothing here. `asked`, `intent` and `silent`
  are history: the requests still to be done, whether the port was last set by a mark and a group asked for, and how many
  header bytes came or went by `add_header_fast` and `copy_header`, which leave register 0 alone. The code is the same in both targets; the rows of the map name the ToR's, which has the second egress
  thread.
* `Notifications`: the capture in the runner, up to the calls into P4Runtime's library. `Digests`
  joins the two through the learning engine of the library, which has a buffer, and perhaps a thread, for each
  learn list: a digest waits among those of its own list, and which list is sent first is open.
* `Schedule`: `connect`, the circle method of `round_robin` (and `opera`), `topology_random`,
  `earliest_direct_conn`, and the OCS table as `gen_ocs_commands` writes it, as functions.
  `OpticalToolbox`: the script of calls that builds a network, with the ways it raises; among them a ToR without
  an entry in `num_hosts`, which only the generators set.
* `SourceRouting`: the header as `Path.ssrr_entry` writes it and the parser of `tor.p4` takes it apart.
* `OpticalNetwork`: ToRs, OCS, hosts and clock together. ToRs are taken at the level of their queues
  (what `TorSwitch` does between two queues is one step), their calendar queues are `PortFifos`, and the
  calendar thread may pop the queue of a slice any time after it read the clock. `late`, `path` and
  `slice` in a packet are history.

The definitions called "Faulty" in the modules are never used by the specifications. Each is a bug the
code might have had, and the property named with it in `PROJECT.json` (`mutants`) fails when it takes
the place of the right definition.

## Runs

| Run | Question | Result |
|---|---|---|
| `calendar_queue` | Counters, capacity, `pop_back`, and refinement of `PortFifos`; two ports, two slices, two items, capacity 2 | holds |
| `tor_any` | With every decision a P4 program can take: each packet is in exactly one place; the drops of calendar queues, bad priorities and marks are counted exactly unless two increments overlap; the switch uses the calendar queues only through their operations | holds |
| `tor_tail_drops` | In the same instance: are the drops of full normal queues counted too? | violated |
| `tor_forward` | With a program that only sends on or drops, as `tor.p4`, and the destructor: order within a queue, drops against packets received, every packet leaves unless the switch is destroyed, and the sentinels stop three of the four kinds of thread, unless the one of the output overtakes more packets than the output buffer holds | holds |
| `tor_loop` | Resubmission and recirculation into full buffers: ingress is never stuck, calendar queues drain | holds |
| `toolbox_generated` | Round robins of up to ten ToRs, all random schedules of up to four, and scripts of `connect` alone, which raise: routes and OCS table agree, the OCS table is a matching, routes wait no longer than needed; a round robin connects every pair once, and its script never raises | holds |
| `toolbox_manual` | Do routes and OCS table agree when a slice is connected by hand besides a round robin? | violated |
| `network` | Four ToRs, three slices, one-hop and two-hop routes: packets that are on time arrive, flows stay in order | holds |
| `input_buffer` | Four producers of all kinds and the ingress thread: the buffer implements `PriorityBuffer`, liveness included, and no wake-up is lost | holds |
| `ocs` | Packets through the OCS with two egress threads, cloning, multicast, resubmission, recirculation, changes of sessions and depths, and shutdown: one place for each packet, order per port, clones by configurations in force, ingress never stuck, the destructor returns | holds |
| `queue_report` | The total of a report against what was queued, the series of the dashboard, and the end of the thread that feeds it | holds |
| `digests` | Requests, length and drop marks of a packet through its pipelines, copies and passes; the digests of each learn list in order; silence during a swap and only then | holds |

Bounds, and why they are enough:

* Buffers hold one packet (two where order needs two). A full buffer, a waiting
  producer and a lost packet all appear with two or three packets; `MaxPackets` counts replicas too.
* A slice is one tick and the clock wraps after one turn of the schedule. What matters is which slice a
  thread believes in, and every difference between two readings of the clock occurs. Two slices are the
  fewest with "now" and "not now"; the network has three, so that a packet can also be two slices late.
* `Word = 3` for `overal_qdepth`: with four queues of two packets the total, which starts as garbage and is read
  by nobody, wraps both ways.
* `tor_forward`: `tor.p4` drops packets that have no route (`DropIt`), so a packet may be dropped and counted before it is
  counted as received: the drops then exceed the packets received by that one. Two packets can wait in one deque. The
  output buffer holds one: the transmit thread may end (its sentinel is queued while packets are still on their way
  through egress) and the normal egress thread wait for room for ever, which is the exception in
  `SentinelsStopThreads`, `OutputAbandoned`, and with this buffer it happens. The host is on port 0, not 2, since the
  sentinel of egress is queued for port 0 and may find no room there. Larger buffers are left to `QueueOrderKept`
  and `LossRateBounded`, proved for every capacity.
* `toolbox_manual`: one round robin of four ToRs and two calls of `connect` for a slice 3, in any order and number up to
  three calls.
* The instance of the network sends two packets, which is what an order or a full queue needs. Its
  schedule leaves a pair unconnected and a ToR idle in one slice, so that missing routes and missing
  entries occur.
* `input_buffer`: five threads are two normal producers, one that recirculates, the sentinel of the
  destructor, and the consumer; a low queue of two and a high queue of one give full and empty queues,
  two waiting producers, and a notification that finds its place taken.
* `ocs`: two egress threads for the code's four, since one port belongs to one thread and what matters is two
  threads at work at once; buffers of one packet, three packets and copies, one change by the control
  plane. Session ids are {0} in range and 1 out of range.
* `queue_report`: two ports and two slices are four keys, and two packets may come or go during a report.
* `digests`: a field holds four values, of which the upper half is the valid bit of a session; two headers of one
  byte (interchangeable, hence the symmetry), two primitives in one pass, two digests; field list 2 names
  `egress_spec`, 3 both fields, the others none. p4info knows two of the three learn lists, so that the digests of two lists
  can be told apart where they arrive. `MaxSilent = 1`: once register 0 is wrong by two bytes, all there are, it gets
  no worse. The packet and the senders share nothing but `samples`, which one
  appends to and the other takes from, and a digest may wait there for any time. `ReducedSpec` lets the packets
  move before the first message, and messages be sent only from a state in which a packet waits for ingress. Every
  property checked is about the packet's variables alone or the senders' alone, or about `samples` and `digests`,
  which are all that the packets' steps leave to the senders; a digest can always be followed by the rest of
  its packet's way to ingress without another one. `DigestsProofs` proves every one of them for the full interleaving.
* Schedules: the circle method up to ten ToRs; three random slices of four ToRs are 3^4 schedules.

## Fairness

The `FairSpec` of `TorSwitch` assumes that the operating system runs every thread that can run (weak
fairness of each thread) and that time passes. The calendar thread is a busy loop that takes
microseconds a turn, a slice lasts 2^15 microseconds (`tor_switch.cpp:751`): so for each slice it gets
to every one of its steps in that slice, if it can take it there again and again (strong fairness, per
slice). Without it the model would contain a thread that is only ever scheduled when its slice is over.
Nothing makes packets arrive or the destructor begin. `CalendarDrains` and `EveryPacketLeaves` need
the strong fairness; `IngressNeverStuck` and `SentinelsStopThreads` need the weak part.

`OpticalSwitch` assumes weak fairness of each thread and of the destructor once it has begun, `InputBuffer`
of each thread that is in a call and not waiting (it gets the mutex in the end; no fairness among threads that
compete for room, and spurious wake-ups never have to happen), `QueueReport` of the two threads of the front end
and of the Thrift call one of them makes. Nothing obliges packets, control calls or the
command line's end to come. All of it is what an operating system's scheduler gives.

## Findings

* `toolbox_manual`: `topo_to_dict` numbers slices by order of insertion (`OpticalToolbox.py:291`), routes use the slice ids.
  A slice 3 connected by hand before `round_robin(4, 1)` makes slices 0 to 2 is slice 0 of the OCS: ToRs send packets when
  the OCS connects them to another one. (By hand alone the set-up does not get that far, see below.)
* `tor_tail_drops`: `enqueue()` of the ToR compares the result of `QueueingLogicPriRL::push_front` with -1 "if queue
  is full" (`tor_switch.cpp:496-497`), but it is 0 then, as the destructor's loop takes for granted (line 310): tail drops of
  the normal queues are never counted, and the loss rate leaves them out. What is counted is the subject of
  `DropCountExactUnlessRaced`.

Noticed while reading, with no run:

* The ToR's destructor never returns: nothing stops `egress_cq_thread`, its `if (packet == nullptr) break`
  can never be reached, and `join` waits for it (`tor_switch.cpp:313`); the tests delete a
  switch (`tests/test_queueing.cpp:83-85`). `tor_forward` shows that the other threads do end, with the exception below.
* A script that only calls `connect`, as `Readme.md:73-75` offers, cannot start its network: `num_hosts` is still the empty
  list of `OpticalToolbox.py:38` and line 210 raises IndexError for the first ToR. `SetupOcs` raises there.
* `opera` with two uplinks puts several links of a ToR in one slice; they are several table entries with one key
  (`utils.py:29-30`) and the OCS keeps the first.
* `tor.p4` knows one host, on port 2 (lines 285 and 306); the front end connects as many as `num_hosts` says.
* `set_egress_priority_queue_depth` passes the priority on as it is (`optical_switch.cpp:335`), `enqueue` turns it round
  (line 426): the depth of priority `p` is set for another queue, unless there is one only.
* "It should not be an issue" (`optical_switch.cpp:298-300`) speaks of the egress sentinels; the output
  sentinel, which follows at once, may overtake packets still in the egress threads, and when there are more of them
  than the output buffer holds (128) an egress thread waits for ever: `DestructorReturns`, and `SentinelsStopThreads` of the ToR,
  name this exception (`OutputAbandoned`).
* A clone's session id of 2^15 or more loses its top bit (`primitives.cpp:284-286`), so it aliases a lower one; field list 0 for
  `resubmit`, `recirculate` and `generate_digest` is no request at all, since the field doubles as the flag.
* `add_header_fast`, `copy_header` and `truncate` leave the length register as it is (`primitives.cpp:244-248, 267-271`): the
  `packet_length` of egress is wrong after them. `LengthExact` says by how much for the first two.
* A mark to drop passes to the next pass where the field list of a resubmission or recirculation names `egress_spec`: the
  packet is dropped there unmarked, unless the program assigns a port. `DroppedIffMarked` says so.
* The calendar thread does not look at clone requests: a program that clones at egress clones packets for
  hosts, but not those for the OCS.
* `Readme.md:68` calls `round_robin` without `port_num` (the two-argument version
  is shadowed by the second definition) and with an odd number; `Readme.md:69` calls `opera(6, 2)`, which
  fails the assertion at `OpticalToolbox.py:367`; the comment "one slice per second"
  (`tor_switch.cpp:751`, `optical_switch.cpp:483`) where a slice is 32.8 milliseconds; `tor_switch.h:120` "since the
  switch started" where `get_ts` counts from the epoch; `routing_vlb`, `routing_hoho` and
  `routing_opera`, which the Readme offers, are empty; the order of slices breaks when the 48-bit clock
  wraps, unless their number is a power of two.

## Proofs

All with TLAPS, for every value of the constants that satisfies the named assumptions.

**`CalendarQueueProofs`** (assumptions: `CapacityAssumption`, `QueuesAssumption`, `WordAssumption`; the
ports and the items are any sets).

* `TypeCorrect`, `CountersAreExact`, `CapacityIsPerPair` and `PopNeverThrows`. The capacity is not inductive
  by itself: `push_front` tests a counter, not the deque. The inductive invariant is
  `IInv == TypeOK /\ CountersExact /\ CountersBounded`
  (counters equal contents, and no counter is over the capacity), from which the capacity follows, and
  also that `pop_back` finds a positive counter: the element at the end of the deque is one of those its
  counter counts. The work is in what appending an element to a sequence and taking its first one away do
  to the set of positions that belong to a port (`PositionsAppend`, `PositionsTail`, the latter by a
  bijection between positions); then there is one lemma per action.
* `AnswersLikePortFifos`: `ApiSpec => Fifos!Spec`, every call with the value it returns is a call of
  `PortFifos`. The items of a port are those at its positions, numbered by rank; `Ranks` says that ranks
  number the positions from 1 without a gap (an injection between finite sets of one size),
  `ItemsUnique` that a sequence with the right length and the right item at each rank is the one the
  mapping gives. `ItemsAppend` and `ItemsTail` then say what a push and a pop do to the items of every port,
  and `CallsRefine` has one step per outcome of a call.

**`TorSwitchProofs`** (assumptions: `PortAssumption`, `CapacitiesAssumption`, `BoundAssumption`,
`VerdictsAssumption`, and those of `TimeSlice`; any ports, buffer sizes, numbers of slices, and any P4
program, as a set of verdicts).

* `ImplementsCalendarQueue`: whatever its five threads and the destructor do, the switch changes the
  three variables of the calendar queues only as `CalendarQueue` allows: `Spec => CQ!Spec`. The step
  needs to know that the port, the packet and the slice given to `push_front` exist and that the slice
  the calendar thread remembers does, and so the invariant `TInv`: types, and `ThreadsHold`, what a thread
  holds at the places where it uses it without looking (a received packet when the receiving thread is
  at `push`, a non-empty list of tasks when a worker is at `work`). One lemma per action, one step per
  conjunct an action disturbs. That the slice is in range is the check that ends the process
  (`NoSuchSlice`) for a slice from a table, and the lemma `SliceOfClock` for one from the clock.
* `SwitchQueuesCorrect`: hence the counters are exact, no pair is over its capacity and `pop_back` never
  throws in the switch either. The theorems of `CalendarQueueProofs` are instantiated (`CQP`), not
  proved again.
* `SwitchTypeCorrect`: every variable of the switch keeps its type. `TInv` says nothing of the counters'
  types; they come from `CalendarQueueProofs` in the same way.

In the same module, from the same assumptions and `TInv`: the places of a packet are *lines*: the
buffers, each slice's deque, the lists of tasks of the threads, what the receiving thread holds, what was
sent, and the set of packets that are gone. `Spots` is where in a line a packet is.

* `PacketsKeptOnce`: every packet that exists is in one place. The invariant is `PInv == InPlace /\ Idle`:
  one spot in one line, none in all the others, none at all for a packet not yet received; and a thread has
  tasks only where it works at them. Five lemmas say what keeps `InPlace` (nothing moves, a packet goes from
  one line to another, it leaves for good, packets are made); each action is one of these. Making replicas
  puts several tasks into one list at once, and the packet itself behind them.
* `DropsCounted`: `nb_pkts_dropped` never exceeds the drops, and equals them between increments when no two
  ever overlapped. `CInv` adds the threads that have dropped a packet and not yet counted it, and what
  a thread has loaded and not yet stored: an increment that is lost makes the counter smaller, never larger.
* `LossRateBounded`, for programs that make no copies (`NoReplicas`): drops do not exceed packets received,
  but for the one being received. It follows from `PInv` and `CInv`: every drop is a packet that is gone, a
  packet is gone once, and the packet the receiving thread holds is not. With copies it is false, since a copy may be
  dropped and nobody received it.
* `QueueOrderKept`, for programs that only send packets on (`ForwardOnly`: no copies, no resubmission, no
  recirculation). The invariant `OInv` ranks the lines a packet of one class (port, kind of queue, priority)
  goes through; of two packets in different lines the one further on has the smaller number, and within a
  line the one in front (`Ordered`); and no thread has a task that sends a packet back (`Forward`). Each
  excluded primitive puts a packet behind one received later, so the hypothesis is needed; `p4/tor/tor.p4`
  uses none of them.

**`QueueReportProofs`** (assumptions: those of the calendar queues; any ports, slices, capacity, and any number
of packets coming and going during a report). The report reads the size of one pair after the other; that the total
is near anything is not inductive, since it says nothing of the sizes still to come. The invariant `RInv` does
(`TotalOnTheWay`): what has been added up and the counters still to be asked for, together, are the contents when the
report began, give or take the calls since. It needs that the counters add up to the contents of the deques
(`ContentsCounted`), which is another fact than `CountersExact`: one is a sum over the pairs that have a counter, the
other one over the slices. Both are sums over finite sets, `Sum`, whose recursion and laws (`SumStep`, `SumOff`,
`SumChange`, `SumNew`) are proved by well-founded induction stated with sets. `Moves` is what a push, a refused push and a pop have
in common: `d` elements of one pair come or go.

* `TotalIsNearSnapshot`: the total is off by no more than the packets that came and went meanwhile.
* `SeriesAreWhole`: a pair reported once is reported in every later time step. Both unless the table grew while
  its keys were read.

**`InputBufferProofs`** (assumptions: `ThreadAssumption`, `CapacitiesAssumption`, `RequestsAssumption`,
`ConsumerAssumption`; any finite set of threads, of which at most one pops, any items and capacities).

* `InputBufferTypes` and `NoWakeupIsLost`. `NoLostWakeup` alone is not inductive: a thread that is "lock"ed
  or waiting must be in the kind of call its condition variable stands for. The inductive invariant is
  `IInv == TypeOK /\ CallsMatch`, and `NoLostWakeup` is kept by every step under it. The work is in
  counting: a push takes one place away and turns one woken producer into none, a notification moves a
  thread from one set of wake-ups to another; each of these changes a finite set by one element.
* `AnswersLikeOneBuffer`: every step is a step of `PriorityBuffer` or leaves its variables alone. That no
  call waits for ever is the other half of the refinement, and left to TLC.

**`OpticalSwitchProofs`** (assumptions: `WorkersAssumption`, `SessionsAssumption`, `VerdictsAssumption`; any
numbers of egress threads, ports, queues and sessions, any P4 programs as sets of verdicts, any control calls).
`ClonesFollow`: a packet is cloned by a configuration that was in force since its thread took it. That
the configurations used are among the answers seen is not inductive: the look-up reads
`sessions_map`, not the answers. The invariant `SInv` adds that the table is what the control plane was told
(`SessionsFollow`), that a thread whose next task is a clone has seen the answer now in force for that
session, and that no other task on its list is a clone (`IsWork`), so that the answers seen never
belong to another session. That needs the types of the queues and of the lists of tasks: an id read from
a packet must name a session once it is masked, and copies must be tasks again. `GoOnKeeps`,
`ProcessKeeps`, `AnswerKeeps` and `OthersKeep` state what the four kinds of step do; one lemma per action follows.

In the same module, from the same assumptions and `SInv`: `FlowsStayInOrder`: packets for the same
port and queue are sent in the order they were received, for any number of egress threads, any P4
programs, changes of the queues' depths and the shutdown. That what was sent is in order says nothing
of what comes next. The invariant is `OInv == Placed /\ SortedQueues /\ OrderedStages`. A packet passes seven
stages (received, waiting for ingress, about to be enqueued, in an egress buffer, about to be emitted,
in the output buffer, sent). `OrderedStages`: of two fresh packets in different stages the one further on is
older; fresh packets are those that are no copies and never went round. `SortedQueues`: within a stage
that is a queue, the one in front is older. `Placed` is where the work of a thread may be: a port's
packets are only in the buffer and in the list of the one thread the port belongs to, an emission is the
last task of a list, and so is the enqueueing of a packet that is no copy. `MoveOrder` and `ArriveOrder` are what moving the
oldest packet of a stage to the next, and receiving one, do to the order; each action is one of the two
or brings no fresh packet anywhere (`ShrinkOrder`).

The same module says where packets are, with lines as in `TorSwitchProofs`:

* `OcsPacketsKeptOnce`: every packet and copy that was made is in one place, whatever the sessions, the depths and
  the destructor do. The invariant is `PInv`: a packet that exists has one spot in one line, and one that
  does not exist yet has none (`InPlace`, so that a copy is not also somewhere else); sentinels are only in
  `queue_hi`, the egress buffers and the output buffer (`LoReal`, `WorkReal`, `OutReal`); `receive_` and a thread
  have a packet only while they handle one (`RxIdle`, `WorkIdle`). A clone task is no place of its packet: the
  fate that follows it is. `StayInPlace` and `MoveInPlace` are what most actions come to; `MulticastPInv` and
  `ClonePInv` bring several new packets into one list at once, and the copy of a session that has a group but no
  port is gone as soon as it is replicated.
* `OcsTypes` (with `RoomAssumption`): what is queued anywhere is a packet that exists, or a sentinel where one may
  be; and no queue's depth is ever 0. That a packet is not newer than `packet_id` follows from `PInv`.

**`DigestsProofs`** (assumptions: those of the constants; any headers of any sizes, fields of any width, any
program, learning engine and schedule of swaps). All properties of the run, for the full interleaving of packets and senders:

* `SwapsAreQuiet`: from the return of the call that tells of a new configuration to the call that ends
  the swap, nothing reaches P4Runtime. The invariant `NInv` says that a sender past `send` holds the mutex
  alone (`MutexHeld`), and that the flag is set while a client may rely on it (`SwapKnown`).
* `RequestsKept`, `LengthsExact`, `MarkedAreDropped`, from `QInv`. `Hold(reg, asked)` says what the four fields of
  the register are in terms of what was asked, as one number (`Packed`): every shift and mask of
  `register_access.h` then has to give the same number with one field changed (`Unpacked`, `Repacked`), for
  any width. `ShortBy` is about the length at every place, up to `silent` and including the stretch where the packet is
  saved and the headers are parsed again; `Means` says what port and group tell of the marks and groups asked for, and
  `Fielded` what a field list leaves of both. The sum of the sizes of a set of headers is a fold; what adding and removing
  a header does to it is proved by well-founded induction over finite sets, stated with sets (`SumsAgree`,
  `SumsExist`), since induction theorems with an operator parameter cannot be used.
* `SwapsAloneSilence` and `DigestsHeardInOrder`, from `WInv`: who notifies during a swap is recorded as
  having met it; for each learn list the digests waiting are in order (`Waiting`), those heard of are in order and
  older than those (`Told`), and the one being sent, if any, is between the two (`Telling`).
* `RegistersTyped`: the types, from all three.

**`OpticalNetworkProofs`** (assumptions: `TopologyAssumption`, `PathsAssumption`, `FlowsAssumption`,
`HostPortsAssumption`, `RoutesAssumption`; any schedule with one partner per ToR and slice, any number of ToRs, slices, hops
and flows, any capacities). The queues of all switches are lines again; a step takes the head of one
and puts it, changed, at the end of another.

* `OnTimeArrive`: what the OCS handles on time arrives, and is lost only to a full queue or for want of a
  route. That is not inductive, for it says nothing of packets under way. `LInv` does (`Places`): a packet in a calendar
  queue, an output buffer or at the OCS's input has the hops of its path left in its header that are
  still to do, waits for the slice of the next one, and, unless it was late, is at the ToR its path leads
  through; behind the OCS it is on the way to the next. `RoutesAssumption` is what a route means: its slices lead,
  link by link, from source to destination (`Leads`). For the routes `routing_direct` computes this is
  `RoutesMeetTheirLink`, a theorem about generated schedules (`GeneratedSchedules` below); that round robins
  satisfy `TopologyAssumption` is `CirclesFitNetwork`. `HostPorts = {2}` is `tor.p4:285`: packets of hosts on
  other ports find no route.
* `FlowsKeepOrder`: packets of one flow with one path, handled on time, are delivered in the order they were
  sent. `FInv == LInv /\ Ordered`: the lines a packet goes through have a rank, five for each hop, and of two
  packets of a flow and path the one in the line of higher rank, or further in front in the same line, was
  sent first. Packets that are late are outside the order from then on, which is why `Places` has to be known too.

**`OpticalToolboxProofs`** (assumption: `SizesAssumption`, which the round robins need; any sizes and any calls of
`connect`). The property of the routes is false of scripts in general, as the finding `toolbox_manual` shows, so
the theorems say of which topologies it is true. `Tidy`: the slices were made in their order, from 0 without a gap,
and in each a ToR has at most one link. Two invariants say what a script has done so far: `Staged`, which tables
exist in which phase and that they come from the topology; `OneCall`, that after one call of a generator the topology is what it makes, with hosts for each ToR.

* `TidyRoutesMeet`, `TidyRoutesLoseNoTime`, `TidyIsMatching`: the three properties for every tidy topology. `EntriesAre`
  is the OCS table entry by entry; in a tidy topology an entry's key has one entry, so nothing is left to the order
  in which they are loaded; `earliest_direct_conn` finds the first slice with the link because an interval of
  integers has a least element in every non-empty subset.
* `GeneratedSchedules`: `topology_random(n)` and `round_robin(n, 1)` make tidy topologies, for every `n`.
* `EveryPairMeets`: for every even number of ToRs, the circle method connects every two of them in exactly one slice.
  `RoundRobinCalls` is a recursive function of rotations, flattened, and `ConnectAll` a fold. `Turned` is the
  list of ToRs after so many rotations, in closed form; `RoundRobinCallsAre` unfolds the calls, `CircleStep` adds the
  links of one slice to those of the slices before, and `RoundRobinMakes` concludes that the topology is `Circle`, which is
  written without recursion. Two ToRs have a link in the slice in which their places add up to `n + 1`, and
  arithmetic modulo `n - 1` says that there is one such slice (`MeetOnce`). Induction over the integers of an interval is
  stated with a set (`UpTo`), since the theorems of the library cannot be instantiated.
* `CirclesComplete`: hence the routing finds a path from any slice of arrival (`CircleRoutes`), every ToR has its hosts (`CircleTors`), and nothing raises
  (`NoCircleRaises`); the run checks the two as `CirclesAreComplete`.
* `CirclesFitNetwork`: slices and ToRs are numbered as `OpticalNetwork` assumes and the switch's table is unique
  (`OneTable`).

The reasons for a loss have names without spaces, and `Leads` is an operator of `OpticalNetwork`, so that the provers can use them.

## Only model-checked, not modelled

Model-checked only:

* all liveness (`CalendarDrains`, `EveryPacketLeaves`, `IngressNeverStuck`, `SentinelsStopThreads`, the destructor
  of the OCS, the end of the front end's thread, and that calls of the input buffer return): fairness and ENABLED
  are beyond TLAPS here.

Abstracted or left out:

* In `TorSwitch`: the contents of packets, learning, checksums; a mirroring session exists or does not as
  part of the verdict (`OpticalSwitch` has the table of sessions and the setters of depth, the same code in both
  targets); rates of the normal queues (they only delay); an instance has one priority. In the model `exit(-1)` stops everything at once.
* bmv2 (external): `QueueingLogicPriRL` as a queue per priority with a count per port, `Queue` as a
  blocking bounded FIFO, tables as functions.
* In `OpticalNetwork`: the links and the kernel lose nothing and keep order; input buffers (1024) do not
  fill with two packets; the OCS's egress and transmit threads are one step; no cloning, multicast,
  resubmission (neither P4 program uses them). A path has at most five hops: the flag of a sixth would
  be overwritten by the end marker (`OpticalToolbox.py:601`).
* In `OpticalSwitch`: the slice lookup (in `OpticalNetwork`), the contents of packets, rates, the reset of the
  multicast engine.
* In `PacketRequests`: metadata other than port and group, and so what else a field list keeps; arithmetic, hash, meter,
  counter and truncate primitives, which hand their arguments to the library; the payload, so that register 0, which
  `add_header_fast` and `remove_header` together can make too small, may be negative where the 64-bit register with the
  payload in it is not, or wraps.
* In `QueueReport`: one ToR, the loss rate (`LossRateBound` of `TorSwitch` is about its counters), the rows of the database.
  The data race of `get_port_qs` with an insertion is modelled as missing any of the keys; that it might
  also crash is not.
* In `OpticalToolbox`: no run and no theorem about the routes of `round_robin` with several ports (`Schedule` has the
  function), which gives a ToR several links in a slice, so that the schedule is not tidy; nor of several generators
  called one after the other.
* External: the learning engine (a FIFO for each learn list, that filters; a message carries one digest, sent by a thread of
  its list), the ageing monitor, the swap itself, P4Runtime.
* Thrift servers and command lines forward calls one to one and parse text; the Mininet adapter starts
  processes; the dashboard's views read tables and draw them: no state of their own to check.

## Plan

Done, in this order: `CalendarQueue` with its abstract specification and proofs, `TorSwitch`,
`Schedule` and `OpticalToolbox`, `SourceRouting` and `OpticalNetwork`; then `InputBuffer` with its abstract
specification and proofs, `OpticalSwitch` with its proofs, `QueueReport`, `PacketRequests`, `Notifications` and `Digests`;
then the proofs of the refinement of `PortFifos`, of every safety property of `TorSwitch`, `OpticalSwitch`, `Digests`,
`OpticalNetwork` and `QueueReport`, and of `OpticalToolbox` for topologies that are tidy.

What could follow:

1. The queues of the OCS in `OpticalNetwork` as an abstraction of `OpticalSwitch`.
2. Round robins with several ports, where what matters is which of several links the OCS keeps.
