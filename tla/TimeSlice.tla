----------------------------- MODULE TimeSlice -----------------------------
(***************************************************************************)
(* How both switches turn a clock into a time slice: ts2time_slice of      *)
(* targets/tor_switch/tor_switch.cpp and of targets/optical_switch/        *)
(* optical_switch.cpp.  The clock counts microseconds since the epoch; its *)
(* low 48 bits are kept, shifted right by 15 bits (a slice lasts 2^15      *)
(* microseconds) and taken modulo the number of slices.                    *)
(***************************************************************************)
EXTENDS Integers

CONSTANTS
    ClockModulus,        \* 2^48 in the code: the mask 0x0000FFFFFFFFFFFF
    SliceTicks,          \* 2^15 in the code: the shift by 15
    nb_calendar_queues   \* time slices of the schedule (nb_time_slices in the OCS)

ASSUME TicksAssumption == SliceTicks \in Nat \ {0}
ASSUME ModulusAssumption ==
    ClockModulus \in Nat \ {0} /\ ClockModulus % SliceTicks = 0
ASSUME SlicesAssumption == nb_calendar_queues \in Nat \ {0}

\* Faulty: the last slice never comes.
ts2time_sliceShort(t) ==
    ((t % ClockModulus) \div SliceTicks) % (nb_calendar_queues - 1)

ts2time_slice(t) == ((t % ClockModulus) \div SliceTicks) % nb_calendar_queues
============================================================================
