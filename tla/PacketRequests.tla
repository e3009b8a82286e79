--------------------------- MODULE PacketRequests ---------------------------
(***************************************************************************)
(* What a P4 program asks of its target, and how the target remembers it.  *)
(* A primitive (primitives.cpp) does no more than note the request in one  *)
(* of three registers of the packet (register_access.h), or in two fields  *)
(* of its metadata; the thread that runs the pipeline reads them afterwards*)
(* and does what was asked (tor_switch.cpp, optical_switch.cpp).  Four     *)
(* requests share a register, and a packet runs through several pipelines. *)
(*                                                                         *)
(* The packets do not share any of this, so the module follows one packet  *)
(* at a time.  Where a thread makes copies, the next state follows either  *)
(* one of them or the original; what becomes of the others is TorSwitch's  *)
(* and OpticalSwitch's matter.                                             *)
(***************************************************************************)
EXTENDS Integers, Sequences, FiniteSetsExt

CONSTANTS
    FieldSize,     \* values of a request field: 2^16
    Header,        \* the headers the parser knows
    Bytes,         \* [Header -> Nat]
    Session,       \* mirroring sessions that are configured
    SessionId, ListId,     \* arguments of the primitives
    Fields,        \* which of egress_spec and mcast_grp each field list names
    Port, drop_port,
    Mgid,          \* multicast groups a program may ask for, besides 0
    MaxCalls,      \* bound: primitives called in one pass
    MaxDigests,    \* bound: digests ever asked for
    MaxSilent      \* bound: bytes register 0 is wrong by before it may get worse

\* MIRROR_SESSION_ID_VALID_MASK is the top bit of a field, MIRROR_SESSION_ID_MASK
\* the bits below.
ValidBit == FieldSize \div 2

ASSUME FieldAssumption ==
    /\ FieldSize \in Nat \ {0, 1} /\ FieldSize % 2 = 0
    /\ SessionId \subseteq 0 .. ValidBit - 1 /\ ListId \subseteq 0 .. FieldSize - 1
    /\ Fields \in [0 .. FieldSize - 1 -> SUBSET {"egress_spec", "mcast_grp"}]
ASSUME MetadataAssumption ==
    /\ Bytes \in [Header -> Nat] /\ IsFiniteSet(Header)
    /\ Port \subseteq Nat /\ 0 \in Port /\ drop_port \in Nat \ Port
    /\ drop_port + 1 \notin Port /\ Mgid \subseteq Nat \ {0}

VARIABLES
    place,      \* where the packet is, or what its thread is about to do
    packet,     \* its registers, header bytes and metadata
    saved,      \* the ingress thread's packet_in_state and ingress_packet_size
    calls,      \* primitives called in this pass
    samples,    \* [list -> digests of it that the learning engine has still to send]
    asked,      \* history: what was asked for this packet and is still to do
    intent,     \* history: was its port last set by a mark to drop, has it a group
    silent,     \* history: header bytes come and gone without register 0
    digests     \* history: every digest asked for, as its learn list

historyVars == <<asked, intent, silent, digests>>
requestVars == <<place, packet, saved, calls, samples, historyVars>>
----------------------------------------------------------------------------
(* Registers: where each field sits, how one is read and written.          *)

PACKET_LENGTH == 0
CLONE_MIRROR_SESSION_ID == [reg |-> 1, shift |-> 0]
CLONE_FIELD_LIST == [reg |-> 1, shift |-> 1]
LF_FIELD_LIST == [reg |-> 1, shift |-> 2]
RESUBMIT_FLAG == [reg |-> 1, shift |-> 3]
RECIRCULATE_FLAG == [reg |-> 2, shift |-> 0]

\* Shifts count in fields: what a shift by so many multiplies by.
Weight(f) ==
    <<1, FieldSize, FieldSize * FieldSize, FieldSize * FieldSize * FieldSize>>[f.shift + 1]

Get(f, r) == (r[f.reg] \div Weight(f)) % FieldSize

\* Faulty: the old value is not masked out.
SetOver(f, v, r) == [r EXCEPT ![f.reg] = @ + v * Weight(f)]

Set(f, v, r) == [r EXCEPT ![f.reg] = @ + (v - Get(f, r)) * Weight(f)]

\* Faulty: written when everything still fitted in one register.
clear_all_But2(r) == [r EXCEPT ![1] = 0]

\* The length stays.
clear_all(r) == [r EXCEPT ![1] = 0, ![2] = 0]

WithLength(n, r) == [r EXCEPT ![PACKET_LENGTH] = n]
Length(p) == p.reg[PACKET_LENGTH]

\* The bytes of a set of headers.  The payload never changes and is left out.
Size(hs) == MapThenSumSet(LAMBDA h : Bytes[h], hs)
----------------------------------------------------------------------------
(* History.                                                                *)

None == -1
Nothing == [session |-> None, list |-> 0, learn |-> 0, resubmit |-> 0, recirculate |-> 0]

NoIntent == [drop |-> FALSE, group |-> FALSE]

Pipeline == {"ingress", "egress", "calendar"}

\* A copy starts with nothing asked for, and with intent i.
Copied(p, to, i) ==
    /\ packet' = p /\ place' = to /\ calls' = 0
    /\ asked' = Nothing /\ intent' = i

ReadyToParse(hs, n, r) ==
    [reg |-> WithLength(n, clear_all(r)), data |-> hs, valid |-> {},
     egress_spec |-> 0, mcast_grp |-> 0]

\* copy_fields_between_phvs: the metadata of packet p was reset; the fields of
\* list l come over from packet q.
WithFields(l, p, q) ==
    [p EXCEPT !.egress_spec = IF "egress_spec" \in Fields[l] THEN q.egress_spec ELSE @,
              !.mcast_grp = IF "mcast_grp" \in Fields[l] THEN q.mcast_grp ELSE @]

IntentWith(l) ==
    [drop |-> "egress_spec" \in Fields[l] /\ intent.drop,
     group |-> "mcast_grp" \in Fields[l] /\ intent.group]
----------------------------------------------------------------------------
(* Primitives.                                                             *)

Called(where, p) ==
    /\ place \in where /\ calls < MaxCalls
    /\ calls' = calls + 1
    /\ packet' = p
    /\ UNCHANGED <<place, saved, samples, digests>>

\* Requests.
Request(where, r, a) ==
    /\ Called(where, [packet EXCEPT !.reg = r])
    /\ asked' = a /\ UNCHANGED <<intent, silent>>

generate_digest(l) ==
    /\ Len(digests) < MaxDigests
    /\ Request({"ingress"}, Set(LF_FIELD_LIST, l, packet.reg), [asked EXCEPT !.learn = l])

\* clone_ingress_pkt_to_egress and clone_egress_pkt_to_egress.
clone(s, l) ==
    Request(Pipeline,
            Set(CLONE_FIELD_LIST, l, Set(CLONE_MIRROR_SESSION_ID, ValidBit + s, packet.reg)),
            [asked EXCEPT !.session = s, !.list = l])

resubmit(l) ==
    Request({"ingress"}, Set(RESUBMIT_FLAG, l, packet.reg), [asked EXCEPT !.resubmit = l])

recirculate(l) ==
    Request(Pipeline, Set(RECIRCULATE_FLAG, l, packet.reg), [asked EXCEPT !.recirculate = l])

\* Headers.  The valid ones become those of hs, and the length n.
Reshape(hs, n) ==
    /\ Called(Pipeline, [packet EXCEPT !.valid = hs, !.reg = WithLength(n, @)])
    /\ UNCHANGED <<asked, intent>>

add_header(h) ==
    /\ Reshape(packet.valid \cup {h},
               Length(packet) + IF h \in packet.valid THEN 0 ELSE Bytes[h])
    /\ UNCHANGED silent

remove_header(h) ==
    /\ Reshape(packet.valid \ {h},
               Length(packet) - IF h \in packet.valid THEN Bytes[h] ELSE 0)
    /\ UNCHANGED silent

\* The other two do not write register 0.
ReshapeSilently(hs) ==
    /\ silent \in -MaxSilent .. MaxSilent
    /\ Reshape(hs, Length(packet))
    /\ silent' = silent + Size(hs) - Size(packet.valid)

add_header_fast(h) == ReshapeSilently(packet.valid \cup {h})

copy_header(dst, src) ==
    ReshapeSilently(IF src \in packet.valid THEN packet.valid \cup {dst}
                                            ELSE packet.valid \ {dst})

\* Port and group.
Assign(where, p, i) ==
    /\ Called(where, p)
    /\ intent' = i /\ UNCHANGED <<asked, silent>>

\* Faulty: a group asked for earlier still counts.
mark_to_drop_ButGroup ==
    Assign(Pipeline, [packet EXCEPT !.egress_spec = drop_port],
           [drop |-> TRUE, group |-> FALSE])

\* drop and mark_to_drop.
mark_to_drop ==
    Assign(Pipeline, [packet EXCEPT !.egress_spec = drop_port, !.mcast_grp = 0],
           [drop |-> TRUE, group |-> FALSE])

\* Assignments of the program.
SetEgressSpec(p) ==
    Assign(Pipeline, [packet EXCEPT !.egress_spec = p], [intent EXCEPT !.drop = FALSE])
SetGroup(g) ==
    Assign({"ingress"}, [packet EXCEPT !.mcast_grp = g], [intent EXCEPT !.group = TRUE])

Primitive ==
    \/ \E l \in ListId : generate_digest(l) \/ resubmit(l) \/ recirculate(l)
    \/ \E s \in SessionId, l \in ListId : clone(s, l)
    \/ \E h \in Header : add_header(h) \/ remove_header(h) \/ add_header_fast(h)
    \/ \E dst, src \in Header : copy_header(dst, src)
    \/ mark_to_drop
    \/ \E p \in Port : SetEgressSpec(p)
    \/ \E g \in Mgid : SetGroup(g)
----------------------------------------------------------------------------
(* Ingress.                                                                *)

NoPacket == [reg |-> [i \in 0 .. 2 |-> 0], data |-> {}, valid |-> {},
             egress_spec |-> 0, mcast_grp |-> 0]

RequestInit ==
    /\ place = "out" /\ packet = NoPacket
    /\ saved = [data |-> {}, length |-> 0]
    /\ calls = 0 /\ samples = [l \in 0 .. FieldSize - 1 |-> << >>]
    /\ asked = Nothing /\ intent = NoIntent /\ silent = 0 /\ digests = << >>

\* receive_, once the packet before is through.  The registers of a new packet
\* are cleared whatever they hold.
Receive(hs) ==
    /\ place \in {"out", "gone"}
    /\ Copied(ReadyToParse(hs, Size(hs), packet.reg), "input", NoIntent)
    /\ silent' = 0
    /\ UNCHANGED <<saved, samples, digests>>

StartIngress ==
    /\ place = "input"
    /\ saved' = [data |-> packet.data, length |-> Length(packet)]
    /\ packet' = [packet EXCEPT !.data = {}, !.valid = packet.data]
    /\ place' = "ingress"
    /\ UNCHANGED <<calls, samples, historyVars>>

EndIngress ==
    /\ place = "ingress" /\ place' = "clone"
    /\ UNCHANGED <<packet, saved, calls, samples, historyVars>>

Unclone(p) == [p EXCEPT !.reg = Set(CLONE_FIELD_LIST, 0, Set(CLONE_MIRROR_SESSION_ID, 0, @))]

\* The thread takes the request for a clone off and goes on.
GoOnUncloned(to) ==
    /\ IF Get(CLONE_MIRROR_SESSION_ID, packet.reg) = 0
         THEN UNCHANGED <<packet, asked>>
         ELSE /\ packet' = Unclone(packet)
              /\ asked' = [asked EXCEPT !.session = None, !.list = 0]
    /\ place' = to
    /\ UNCHANGED <<saved, calls, samples, intent, silent, digests>>

\* The thread masks the id before it looks the session up.
ClonesTo(p, to) ==
    /\ Get(CLONE_MIRROR_SESSION_ID, packet.reg) # 0
    /\ Get(CLONE_MIRROR_SESSION_ID, packet.reg) % ValidBit \in Session
    /\ Copied(p, to, IntentWith(asked.list))
    /\ UNCHANGED <<saved, samples, digests>>

CloneFields(p) == Get(CLONE_FIELD_LIST, p.reg)

\* Faulty: the copy holds the packet as received, its length is that of now.
IngressCloneOf(p) ==
    WithFields(CloneFields(p),
               [ReadyToParse({}, Length(p), p.reg) EXCEPT !.valid = saved.data], p)

\* The copy is the packet as received, parsed again, with the registers of a
\* new one.
IngressClone(p) ==
    WithFields(CloneFields(p),
               [ReadyToParse({}, saved.length, p.reg) EXCEPT !.valid = saved.data], p)

CloneAtIngress ==
    /\ place = "clone"
    /\ \/ GoOnUncloned("learn")
       \/ ClonesTo(IngressClone(packet), "queued") /\ silent' = 0

\* Faulty: the request that is read next.
LearnIdOfResubmit == Get(RESUBMIT_FLAG, packet.reg)

LearnId == Get(LF_FIELD_LIST, packet.reg)

\* LearnEngine::learn (external): the digest, known by its number, waits in the
\* buffer of its list, or is filtered out as one that was sent before.
learn(l) ==
    \/ samples' = [samples EXCEPT ![l] = Append(@, Len(digests) + 1)]
    \/ UNCHANGED samples

Learn ==
    /\ place = "learn"
    /\ IF LearnId > 0 THEN learn(LearnId) ELSE UNCHANGED samples
    /\ digests' = IF asked.learn > 0 THEN Append(digests, asked.learn) ELSE digests
    /\ place' = "resubmit"
    /\ UNCHANGED <<packet, saved, calls, asked, intent, silent>>

Resubmit ==
    /\ place = "resubmit"
    /\ LET l == Get(RESUBMIT_FLAG, packet.reg)
       IN  IF l = 0
             THEN place' = "forward" /\ UNCHANGED <<packet, asked, intent, silent, calls>>
             ELSE /\ Copied(WithFields(l, ReadyToParse(saved.data, saved.length,
                                                       Set(RESUBMIT_FLAG, 0, packet.reg)),
                                       packet),
                            "input", IntentWith(asked.resubmit))
                  /\ silent' = 0
    /\ UNCHANGED <<saved, samples, digests>>

\* multicast(): a copy of the headers and metadata, with no request.
Replica(p) == [p EXCEPT !.reg = WithLength(Length(p), clear_all(@))]

\* Replicated, dropped or enqueued: by enqueue() or, on the ToR, enqueue_cq().
Forward ==
    /\ place = "forward"
    /\ \/ packet.mcast_grp # 0 /\ Copied(Replica(packet), "queued", intent)
       \/ /\ packet.mcast_grp = 0
          /\ place' \in IF packet.egress_spec = drop_port THEN {"gone"}
                                                          ELSE {"queued", "calendar queue"}
          /\ calls' = 0 /\ UNCHANGED <<packet, asked, intent>>
    /\ UNCHANGED <<saved, samples, silent, digests>>
----------------------------------------------------------------------------
(* Egress: egress_thread, and egress_cq_thread, which clones nothing.      *)

FreshSpec(p) == [p EXCEPT !.egress_spec = drop_port + 1]

StartEgress ==
    /\ place \in {"queued", "calendar queue"}
    /\ place' = IF place = "queued" THEN "egress" ELSE "calendar"
    /\ packet' = FreshSpec(packet) /\ intent' = [intent EXCEPT !.drop = FALSE]
    /\ UNCHANGED <<saved, calls, samples, asked, silent, digests>>

EndEgress ==
    /\ place \in {"egress", "calendar"}
    /\ place' = IF place = "egress" THEN "egress clone" ELSE "verdict"
    /\ UNCHANGED <<packet, saved, calls, samples, historyVars>>

\* The copy keeps headers and length; its metadata is reset.
EgressClone(p) ==
    WithFields(CloneFields(p), [Replica(p) EXCEPT !.egress_spec = 0, !.mcast_grp = 0], p)

CloneAtEgress ==
    /\ place = "egress clone"
    /\ \/ GoOnUncloned("verdict")
       \/ ClonesTo(EgressClone(packet), "queued") /\ UNCHANGED silent

EgressDrop ==
    /\ place = "verdict" /\ packet.egress_spec = drop_port
    /\ place' = "gone"
    /\ UNCHANGED <<packet, saved, calls, samples, historyVars>>

\* A recirculated packet is measured again once deparsed.
Deparse ==
    /\ place = "verdict" /\ packet.egress_spec # drop_port
    /\ LET l == Get(RECIRCULATE_FLAG, packet.reg)
       IN  IF l = 0
             THEN /\ packet' = [packet EXCEPT !.data = @ \cup packet.valid, !.valid = {}]
                  /\ place' = "out" /\ UNCHANGED <<asked, intent, silent, calls>>
             ELSE /\ Copied(WithFields(l, ReadyToParse(packet.valid, Size(packet.valid),
                                                       Set(RECIRCULATE_FLAG, 0, packet.reg)),
                                       packet),
                            "input", IntentWith(asked.recirculate))
                  /\ silent' = 0
    /\ UNCHANGED <<saved, samples, digests>>

RequestStep ==
    \/ \E hs \in SUBSET Header : Receive(hs)
    \/ StartIngress \/ Primitive \/ EndIngress \/ CloneAtIngress \/ Learn
    \/ Resubmit \/ Forward \/ StartEgress \/ EndEgress \/ CloneAtEgress
    \/ EgressDrop \/ Deparse
============================================================================
