------------------------------ MODULE Digests ------------------------------
(***************************************************************************)
(* From generate_digest to P4Runtime: the packets (PacketRequests) and the *)
(* capture of notifications (Notifications), joined by the learning engine *)
(* of the library.  The engine keeps a buffer for each learn list and may  *)
(* send them in threads of their own: of the order of two lists nothing is *)
(* assumed.                                                                *)
(***************************************************************************)
EXTENDS PacketRequests, Notifications

ASSUME LearnListAssumption == LearnList \subseteq 0 .. FieldSize - 1

vars == <<requestVars, noticeVars>>

Init == RequestInit /\ NoticeInit

\* The learning engine sends the oldest digest of list l.
SendDigest(l) ==
    /\ samples[l] # << >>
    /\ samples' = [samples EXCEPT ![l] = Tail(@)]
    /\ Send(learning(l), LEA(l, Head(samples[l])))
    /\ UNCHANGED <<place, packet, saved, calls, historyVars, ageings>>

Next ==
    \/ RequestStep /\ UNCHANGED noticeVars
    \/ NoticeStep /\ UNCHANGED requestVars
    \/ \E l \in LearnList : SendDigest(l)

Spec == Init /\ [][Next]_vars

\* Packets and senders share nothing but samples, which one side appends to and
\* the other takes from, and a digest may wait there for ever.  To check safety
\* it is enough to let the packets move first, and to begin to send when one
\* waits for ingress: from every digest on, one can get there without another.
ReducedNext ==
    \/ NoticeInit /\ RequestStep /\ UNCHANGED noticeVars
    \/ /\ place = "input"
       /\ \/ NoticeStep /\ UNCHANGED requestVars
          \/ \E l \in LearnList : SendDigest(l)

ReducedSpec == Init /\ [][ReducedNext]_vars
----------------------------------------------------------------------------
Place == {"input", "ingress", "clone", "learn", "resubmit", "forward", "queued",
          "calendar queue", "egress", "calendar", "egress clone", "verdict", "out", "gone"}

\* No field outgrows its place in a register, and the rest is of its type
\* (register_access.h: 64-bit registers, four fields of 16 bits).
TypeOK ==
    /\ place \in Place
    /\ packet.reg[0] \in Int /\ packet.reg[1] \in 0 .. FieldSize * Weight(RESUBMIT_FLAG) - 1
    /\ packet.reg[2] \in 0 .. FieldSize - 1
    /\ packet.data \cup packet.valid \subseteq Header
    /\ packet.egress_spec \in Port \cup {drop_port, drop_port + 1}
    /\ packet.mcast_grp \in Mgid \cup {0}
    /\ samples \in [0 .. FieldSize - 1 -> Seq(DOMAIN digests)]
    /\ mutex \in Sender \cup {nobody} /\ ongoing_swap \in BOOLEAN
    /\ pc \in [Sender -> {"idle", "send", "dispatch", "forward"}]

\* Wherever a packet is, its registers hold what was asked for this very
\* packet and is still to do, and nothing else: no request disturbs another
\* one of the same register, none is done twice, none passes on to a copy or
\* to the next pass (register_access.h; set and cleared in primitives.cpp and
\* in the threads).
RequestsAsAsked ==
    LET r == packet.reg
    IN  /\ Get(CLONE_MIRROR_SESSION_ID, r) =
              IF asked.session = None THEN 0 ELSE ValidBit + asked.session
        /\ Get(CLONE_FIELD_LIST, r) = asked.list
        /\ Get(LF_FIELD_LIST, r) = asked.learn
        /\ Get(RESUBMIT_FLAG, r) = asked.resubmit
        /\ Get(RECIRCULATE_FLAG, r) = asked.recirculate

\* Register 0 is the length of the packet, whichever headers add_header and
\* remove_header bring and take, and for every copy too ("using packet register
\* 0 to store length", tor_switch.cpp:263): egress sets packet_length from it.
\* It is wrong by what add_header_fast and copy_header did since the packet was
\* last measured and by nothing else, and a packet that waits for ingress,
\* resubmitted or recirculated ones too, has been measured: there it is exact.
LengthExact ==
    /\ Length(packet) + silent = Size(packet.data) + Size(packet.valid)
    /\ place = "input" => Length(packet) = Size(packet.data)

\* At the end of ingress a packet is dropped if and only if the program marked
\* it and assigned no port or group since, at the end of egress if and only if
\* it did so in egress.  A mark forgets the group asked for earlier, and it
\* outlives its pass only where the field list of a resubmission, recirculation
\* or clone names egress_spec, as a group does where it names mcast_grp
\* (primitives.cpp:164-205, tor_switch.cpp:502-511, 661-692, 796-832).
DroppedIffMarked ==
    [][/\ place = "forward" /\ place' # place
         => (place' = "gone" <=> intent.drop /\ ~intent.group)
       /\ place = "verdict" /\ place' # place
         => (place' = "gone" <=> intent.drop)]_vars

\* "ensure that learning & ageing notifications are not sent to PI / P4Runtime
\* during the config swap process" (runner.cpp:122-124): once the call that
\* tells of the new configuration has returned, nothing is forwarded before
\* the swap is completed or cancelled, not even what was under way.
QuietDuringSwap == [][swap = "on" => UNCHANGED forwarded]_vars

\* Only a swap silences: a notification of something known whose call met no
\* swap is forwarded in full.
OnlySwapsSilence ==
    [][\A s \in Sender :
          pc[s] # "idle" /\ pc'[s] = "idle" /\ Known(msg[s]) /\ s \notin overlapped
            => pc[s] = "forward" /\ msg[s].n = 0]_vars

\* P4Runtime hears of the digests packets asked for, of none twice, and of
\* those of one learn list in their order, perhaps not of all of them.  The
\* lists may overtake each other.
DigestsInOrder ==
    LET heard(l) == {i \in DOMAIN forwarded :
                        forwarded[i][1] = "LEA" /\ forwarded[i][2] = l}
    IN  \A l \in LearnList :
          /\ \A i \in heard(l) :
                /\ forwarded[i][3] \in DOMAIN digests
                /\ digests[forwarded[i][3]] = l
          /\ \A i, j \in heard(l) : i < j => forwarded[i][3] < forwarded[j][3]
============================================================================
