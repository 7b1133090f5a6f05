---------------------------- MODULE ChargeAccount ----------------------------
(***************************************************************************)
(* What the ledger promises of one charge, said without workers, rows or   *)
(* messages.  From the moment the charge is on the books, what is kept of  *)
(* it depends on which losses have been heard of since, and not on their   *)
(* order, nor on how often each was told.                                  *)
(***************************************************************************)
EXTENDS Integers

CONSTANTS
    Charged,      \* what the card was charged, in cents
    Events,       \* what may be heard of it
    Loss,         \* what each takes away in all, counted from the charge
    Unrecorded    \* not a number of cents

VARIABLES
    kept,    \* cents of the charge that count, or Unrecorded
    heard    \* what was heard since it was recorded

accountVars == <<kept, heard>>

\* What is left once S was heard: the worst of it counts.
IsLeft(c, S) ==
    /\ c = Charged \/ \E e \in S : c = Charged - Loss[e]
    /\ c <= Charged /\ \A e \in S : c <= Charged - Loss[e]

Left(S) == CHOOSE c \in 0 .. Charged : IsLeft(c, S)

AccountInit == kept = Unrecorded /\ heard = {}

Record ==
    /\ kept = Unrecorded
    /\ kept' = Charged
    /\ UNCHANGED heard

Hear(e) ==
    /\ kept # Unrecorded
    /\ heard' = heard \cup {e}
    /\ kept' = Left(heard')

AccountNext == Record \/ \E e \in Events : Hear(e)

AccountSpec == AccountInit /\ [][AccountNext]_accountVars
=============================================================================
