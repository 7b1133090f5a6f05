---------------------------- MODULE MCEventLedger ----------------------------
(***************************************************************************)
(* Small instances of EventLedger.                                         *)
(***************************************************************************)
EXTENDS EventLedger

\* A payment, and the dispute that takes it back.
PaidThenLost == {Paid, Lost}
=============================================================================
