--------------------------- MODULE Notifications ---------------------------
(***************************************************************************)
(* NotificationsCapture (runner.cpp, WITH_PI): what the switch tells of    *)
(* digests, idle entries and configuration swaps passes through here on    *)
(* its way to P4Runtime, which must not hear of digests and idle entries   *)
(* while a swap is under way.  The senders are threads of their own; each  *)
(* calls send_msgs_, and one mutex covers a message from the look at its   *)
(* topic to the last call into PI.                                         *)
(***************************************************************************)
EXTENDS Naturals, Sequences

CONSTANTS
    LearnList,     \* learn lists of the switch
    KnownLists,    \* learn lists of the configuration that p4info knows, with
                   \* digests of the size it gives
    KnownTables,   \* tables with idle timeouts likewise
    Table,         \* tables that may age
    Entries,       \* bound: entries in one ageing notification
    MaxAgeings,    \* bound: ageing notifications
    Context        \* contexts of the switch

ASSUME ContextAssumption == 0 \in Context /\ Entries \in Nat

NEW_CONFIG_LOADED == 0
SWAP_REQUESTED == 1
SWAP_COMPLETED == 2
SWAP_CANCELLED == 3
SwapStatus == NEW_CONFIG_LOADED .. SWAP_CANCELLED

\* The threads that notify: the learning engine's (external: it may have one for
\* each list), the ageing monitor's, and the one that serves the control plane.
learning(l) == <<"learning", l>>
ageing == <<"ageing", 0>>
config == <<"config", 0>>
Sender == {learning(l) : l \in LearnList} \cup {ageing, config}
nobody == <<"nobody", 0>>

VARIABLES
    ongoing_swap,
    mutex,          \* the sender that holds it, or nobody
    pc,             \* [Sender -> {"idle", "send", "dispatch", "forward"}]
    msg,            \* [Sender -> the message it is sending]
    forwarded,      \* history: <<topic, id, serial>> of every call into PI
    ageings,
    swap,           \* history: what the control plane knows of a swap
    overlapped      \* history: senders whose message met a swap

noticeVars == <<ongoing_swap, mutex, pc, msg, forwarded, ageings, swap, overlapped>>

SWP(cxt, status) == [topic |-> "SWP", cxt_id |-> cxt, status |-> status]
\* A serial number tells digests apart; other entries have number 0.
LEA(list, serial) == [topic |-> "LEA", id |-> list, serial |-> serial, n |-> 1]
AGE(table, n) == [topic |-> "AGE", id |-> table, serial |-> 0, n |-> n]
PRT == [topic |-> "PRT"]
Nil == [topic |-> "none"]
----------------------------------------------------------------------------
NoticeInit ==
    /\ ongoing_swap = FALSE /\ mutex = nobody
    /\ pc = [s \in Sender |-> "idle"] /\ msg = [s \in Sender |-> Nil]
    /\ forwarded = << >> /\ ageings = 0
    /\ swap = "none" /\ overlapped = {}

Goto(s, label) == pc' = [pc EXCEPT ![s] = label]

Starts(m) == m.topic = "SWP" /\ m.cxt_id = 0 /\ m.status = NEW_CONFIG_LOADED
Ends(m) ==
    m.topic = "SWP" /\ m.cxt_id = 0 /\ m.status \in {SWAP_COMPLETED, SWAP_CANCELLED}

\* A swap is under way for its clients from the call that starts it until the
\* return of the call that ends it, and certainly so in between.
SwapSeenAs(state) ==
    /\ swap' = state
    /\ overlapped' = overlapped \cup {s \in Sender : pc[s] # "idle"}

\* send_msgs_ is called with message m.
Send(s, m) ==
    /\ pc[s] = "idle"
    /\ Goto(s, "send") /\ msg' = [msg EXCEPT ![s] = m]
    /\ \/ Starts(m) /\ SwapSeenAs("starting")
       \/ Ends(m) /\ swap = "on" /\ SwapSeenAs("ending")
       \/ /\ ~Starts(m) /\ ~(Ends(m) /\ swap = "on")
          /\ overlapped' = IF swap = "none" THEN overlapped ELSE overlapped \cup {s}
          /\ UNCHANGED swap
    /\ UNCHANGED <<ongoing_swap, mutex, forwarded>>

Lock(s) ==
    /\ pc[s] = "send" /\ mutex = nobody
    /\ mutex' = s
    /\ Goto(s, "dispatch")
    /\ UNCHANGED <<ongoing_swap, msg, forwarded, ageings, swap, overlapped>>

\* The call is over: the mutex is released, the caller goes on.
Return(s) ==
    /\ mutex' = nobody
    /\ Goto(s, "idle") /\ msg' = [msg EXCEPT ![s] = Nil]
    /\ swap' = IF Starts(msg[s]) THEN "on" ELSE IF Ends(msg[s]) THEN "none" ELSE swap
    /\ overlapped' = overlapped \ {s}

\* Faulty: a cancelled swap is not over.
EndsSwapNotCancelled(status) == status = SWAP_COMPLETED

EndsSwap(status) == status \in {SWAP_COMPLETED, SWAP_CANCELLED}

\* Other contexts than the first do not count.
handle_SWP(s) ==
    /\ pc[s] = "dispatch" /\ msg[s].topic = "SWP"
    /\ LET m == msg[s]
       IN  IF m.cxt_id = 0 /\ (m.status = NEW_CONFIG_LOADED \/ EndsSwap(m.status))
             THEN ongoing_swap' = (m.status = NEW_CONFIG_LOADED)
             ELSE UNCHANGED ongoing_swap
    /\ Return(s)
    /\ UNCHANGED <<forwarded, ageings>>

Known(m) ==
    \/ m.topic = "LEA" /\ m.id \in KnownLists
    \/ m.topic = "AGE" /\ m.id \in KnownTables

\* Faulty: the mutex covers the flag only.
AdmitAndUnlock(s) == mutex' = nobody /\ Goto(s, "forward")

Admit(s) == UNCHANGED mutex /\ Goto(s, "forward")

\* handle_LEA and handle_AGE, up to the first call into PI: given up during a
\* swap, and for what the configuration or p4info do not know.
Check(s) ==
    /\ pc[s] = "dispatch" /\ msg[s].topic \in {"LEA", "AGE"}
    /\ IF ~ongoing_swap /\ Known(msg[s])
         THEN Admit(s) /\ UNCHANGED <<msg, swap, overlapped>>
         ELSE Return(s)
    /\ UNCHANGED <<ongoing_swap, forwarded, ageings>>

\* pi_learn_new_msg once, table_idle_timeout_notify once for each entry.
CallPI(s) ==
    /\ pc[s] = "forward" /\ msg[s].n > 0
    /\ forwarded' = Append(forwarded, <<msg[s].topic, msg[s].id, msg[s].serial>>)
    /\ msg' = [msg EXCEPT ![s].n = @ - 1]
    /\ UNCHANGED <<ongoing_swap, mutex, pc, ageings, swap, overlapped>>

CalledPI(s) ==
    /\ pc[s] = "forward" /\ msg[s].n = 0
    /\ Return(s)
    /\ UNCHANGED <<ongoing_swap, forwarded, ageings>>

\* Topics the capture does not know, port statuses among them.
Ignore(s) ==
    /\ pc[s] = "dispatch" /\ msg[s].topic \notin {"SWP", "LEA", "AGE"}
    /\ Return(s)
    /\ UNCHANGED <<ongoing_swap, forwarded, ageings>>

\* What the other senders have to say; the learning engine's messages come
\* with the digests (Digests).
Notify ==
    \/ /\ \/ \E c \in Context, status \in SwapStatus : Send(config, SWP(c, status))
          \/ Send(config, PRT)
       /\ UNCHANGED ageings
    \/ /\ ageings < MaxAgeings /\ ageings' = ageings + 1
       /\ \E t \in Table, n \in 1 .. Entries : Send(ageing, AGE(t, n))

NoticeStep ==
    \/ Notify
    \/ \E s \in Sender :
          Lock(s) \/ handle_SWP(s) \/ Check(s) \/ CallPI(s) \/ CalledPI(s) \/ Ignore(s)
============================================================================
