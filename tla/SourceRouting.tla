--------------------------- MODULE SourceRouting ---------------------------
(***************************************************************************)
(* The source-routing header of a packet: written as a table entry by      *)
(* Path.ssrr_entry (src/OpticalToolbox.py), put into the packet by the     *)
(* first ToR, and taken apart one hop at a time by the parser of           *)
(* p4/tor/tor.p4.  A path is the sequence of the time slices to send in;   *)
(* the port of every hop is 1, the link to the optical switch.             *)
(***************************************************************************)
EXTENDS Integers, Sequences, SequencesExt

ssrr_len == 6

Hop(valid_flag, send_slice) == [valid_flag |-> valid_flag, send_slice |-> send_slice]

\* Faulty: the end flag is set before the padding is added.
ssrr_entryEndsEarly(path) ==
    [i \in 1 .. ssrr_len |->
        IF i < Len(path) THEN Hop(1, path[i])
        ELSE IF i = Len(path) THEN Hop(255, path[i]) ELSE Hop(0, -1)]

\* Padded to six hops, the last of which carries the end flag, whatever it
\* was before.
ssrr_entry(path) ==
    [i \in 1 .. ssrr_len |->
        LET hop == IF i <= Len(path) THEN Hop(1, path[i]) ELSE Hop(0, -1)
        IN  IF i = ssrr_len THEN [hop EXCEPT !.valid_flag = 255] ELSE hop]

\* What a later ToR makes of the hops left in the packet: it extracts one
\* entry, and when that is padding goes on to the first that is not.
SkipPadding(hops) ==
    LET used == {i \in DOMAIN hops : hops[i].valid_flag # 0}
    IN  IF used = {} THEN << >>
        ELSE SubSeq(hops, CHOOSE i \in used : \A j \in used : i <= j, Len(hops))
============================================================================
