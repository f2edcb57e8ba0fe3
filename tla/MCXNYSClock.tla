---------------------------- MODULE MCXNYSClock ----------------------------
(***************************************************************************)
(* The clock of the XNYS calendar, from the last days before the supported *)
(* years to the first days after them.                                     *)
(***************************************************************************)
EXTENDS XNYSClock

\* From midnight to midnight in New York, which is five hours behind.
MCFirstSlot == (Date(2024, 12, 27) - 1) * SlotsPerDay + 10
MCLastSlot == (Date(2027, 1, 6) - 1) * SlotsPerDay + 10
=============================================================================
