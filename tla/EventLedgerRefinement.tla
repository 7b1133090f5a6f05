------------------------ MODULE EventLedgerRefinement ------------------------
(***************************************************************************)
(* How the payments of EventLedger are the account of ChargeAccount.  What *)
(* has been heard is a history variable: the handlers that committed since *)
(* the charge was recorded.  What is kept is read off the live payment.    *)
(***************************************************************************)
EXTENDS EventLedger

CONSTANT Unrecorded

ASSUME AccountAssumption == Unrecorded \notin Int

VARIABLE heard

\* The events whose handlers commit in this step.
Committed ==
    {Of(w) : w \in {v \in Workers : Working(v, "loaded") /\ Working(v, "applied")'}}

Remember == heard' = IF payment[0] = "none" THEN heard ELSE heard \cup Committed

HeardSpec == Init /\ heard = {} /\ [][Next /\ Remember]_<<vars, heard>>

\* A lost dispute takes all of the charge, a refund what Stripe says it comes
\* to so far; a checkout event takes nothing.
LossOf(e) ==
    CASE e.kind = "lost"   -> Charged
      [] e.kind = "refund" -> e.refunded
      [] OTHER             -> 0

Kept ==
    IF payment[0] = "none" THEN Unrecorded
    ELSE IF Live = {} THEN 0
    ELSE Charged - CHOOSE k \in Live : TRUE

Account == INSTANCE ChargeAccount WITH
    Loss <- [e \in Events |-> LossOf(e)], kept <- Kept

\* With one worker the ledger keeps the promise of ChargeAccount: refunds and
\* lost disputes count in whatever order they are told, each of them once.
KeepsTheCharge == Account!AccountSpec
=============================================================================
