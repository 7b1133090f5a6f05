------------------------- MODULE InvoicingRefinement -------------------------
(***************************************************************************)
(* How the rows of Invoicing are the book of InvoiceBook: an invoice's     *)
(* standing is its status and deleted_at, a visit is on the live invoice   *)
(* that has its line, and the register is read off the numbers.            *)
(***************************************************************************)
EXTENDS Invoicing, Sequences

CONSTANT NoInvoice

ASSUME BookAssumption == NoInvoice \notin Invoices

StandingOf(row) ==
    IF row.deleted THEN "discarded"
    ELSE CASE row.status = "NEW"    -> "none"
           [] row.status = "DRAFT"  -> "draft"
           [] row.status = "ISSUED" -> "issued"
           [] row.status = "VOID"   -> "void"

Holders(j)  == {i \in Invoices : Live(i) /\ j \in Claims(i)}
Numbered(n) == {i \in Invoices : invoice[i].number = n}

TheOne(S) == IF S = {} THEN NoInvoice ELSE CHOOSE i \in S : TRUE

Standings == [i \in Invoices |-> StandingOf(invoice[i])]
BilledOn  == [j \in Jobs |-> TheOne(Holders(j))]
Register  == [n \in 1 .. next_number - 1 |-> TheOne(Numbered(n))]

Book == INSTANCE InvoiceBook WITH
    standing <- Standings, billedOn <- BilledOn, register <- Register

\* The ledger keeps the promise of InvoiceBook: every step of the service is
\* one of its moves or none.
KeepsTheBook == Book!BookSpec
=============================================================================
