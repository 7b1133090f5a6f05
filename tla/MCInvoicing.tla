----------------------------- MODULE MCInvoicing -----------------------------
(***************************************************************************)
(* Small instances of Invoicing and of its mapping to InvoiceBook.         *)
(***************************************************************************)
EXTENDS InvoicingRefinement, Functions, TLC

\* A completed visit bills 2, a locked door nothing.
MCCharge == [j \in Jobs |-> IF j \in NoAccess THEN 0 ELSE 2]
MCDiscounts == {-1}
MCTaxed == Jobs \cup {Adjustment}

Everything == AllHandlers
Racing == {"issue", "void", "delete", "record_payment", "void_payment", "card_payment"}
PatchAndIssue == {"issue", "void", "notes"}

\* SumOf is the sum: checked against the fold of the community modules.
ASSUME SumIsTheFold ==
    \A S \in SUBSET Payments : \A f \in [S -> 1 .. 2] :
        SumOf(S, f) = FoldFunctionOnSet(+, 0, f, S)

Interchangeable == Permutations(Requests) \cup Permutations(Invoices)
                   \cup Permutations(HandPayments)
=============================================================================
