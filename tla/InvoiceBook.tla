----------------------------- MODULE InvoiceBook -----------------------------
(***************************************************************************)
(* What billing promises of its documents, said without requests, locks or *)
(* amounts: a visit is on one live invoice, a draft is a working paper, a  *)
(* number is spent once and in order, and an issued invoice can only be    *)
(* voided, which gives its visits back.                                    *)
(***************************************************************************)
EXTENDS Naturals, Sequences

CONSTANTS Invoices, Jobs,
          NoInvoice   \* not one of Invoices

VARIABLES
    standing,   \* where each invoice is in its life
    billedOn,   \* the live invoice each visit is on, or NoInvoice
    register    \* the invoices in the order they were numbered

bookVars == <<standing, billedOn, register>>

Standing == {"none", "draft", "discarded", "issued", "void"}

\* The visits an invoice gives back when it is discarded or voided.
Released(i) == [j \in Jobs |-> IF billedOn[j] = i THEN NoInvoice ELSE billedOn[j]]

BookInit ==
    /\ standing = [i \in Invoices |-> "none"]
    /\ billedOn = [j \in Jobs |-> NoInvoice]
    /\ register = <<>>

Draft(i, visits) ==
    /\ standing[i] = "none"
    /\ visits # {}
    /\ \A j \in visits : billedOn[j] = NoInvoice
    /\ standing' = [standing EXCEPT ![i] = "draft"]
    /\ billedOn' = [j \in Jobs |-> IF j \in visits THEN i ELSE billedOn[j]]
    /\ UNCHANGED register

Strike(i, j) ==
    /\ standing[i] = "draft"
    /\ billedOn[j] = i
    /\ billedOn' = [billedOn EXCEPT ![j] = NoInvoice]
    /\ UNCHANGED <<standing, register>>

Discard(i) ==
    /\ standing[i] = "draft"
    /\ standing' = [standing EXCEPT ![i] = "discarded"]
    /\ billedOn' = Released(i)
    /\ UNCHANGED register

Issue(i) ==
    /\ standing[i] = "draft"
    /\ standing' = [standing EXCEPT ![i] = "issued"]
    /\ register' = Append(register, i)
    /\ UNCHANGED billedOn

Void(i) ==
    /\ standing[i] = "issued"
    /\ standing' = [standing EXCEPT ![i] = "void"]
    /\ billedOn' = Released(i)
    /\ UNCHANGED register

BookNext ==
    \E i \in Invoices :
        \/ \E visits \in SUBSET Jobs : Draft(i, visits)
        \/ \E j \in Jobs : Strike(i, j)
        \/ Discard(i)
        \/ Issue(i)
        \/ Void(i)

BookSpec == BookInit /\ [][BookNext]_bookVars
=============================================================================
