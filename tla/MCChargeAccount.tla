--------------------------- MODULE MCChargeAccount ---------------------------
(***************************************************************************)
(* Small instances of EventLedger and of what it has heard.                *)
(***************************************************************************)
EXTENDS EventLedgerRefinement

\* Two partial refunds of one charge, told in any order.
PaidThenRefunded == {Paid, Refund(1), Refund(2)}
=============================================================================
