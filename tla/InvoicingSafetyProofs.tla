------------------------ MODULE InvoicingSafetyProofs ------------------------
(***************************************************************************)
(* What the locks of billing/services.py protect, for every number of      *)
(* requests, as long as none of them is a PATCH of a draft's notes: that   *)
(* one saves every column of a row it holds no lock on, and the run        *)
(* patch_rebills shows what it undoes.  Then the ledger under the row lock *)
(* of record_payment and void_invoice: money a person recorded stays on an *)
(* issued invoice, and within its total.                                   *)
(***************************************************************************)
EXTENDS InvoicingProofs

NoPatch == "notes" \notin Handlers

\* A step in which no PATCH writes an old row back.
NothingReverted == \A r \in Requests : SaveNotes(r) => invoice' = invoice

\* Without the PATCH handler none does: nobody is at its second step.
LEMMA NoPatchRevertsNothing ==
    ASSUME NoPatch, Typed
    PROVE  NothingReverted
BY InvoicingAssumption
   DEF NoPatch, Typed, ReadsHold, NothingReverted, SaveNotes, At, AllHandlers

LEMMA PatchesAlone ==
    ASSUME NothingReverted, NEW r \in Requests, ReloadForNotes(r) \/ SaveNotes(r)
    PROVE  invoice' = invoice /\ lines' = lines /\ next_number' = next_number
BY DEF NothingReverted, ReloadForNotes, SaveNotes

\* Reads, and writes to the ledger or to lines, leave every document alone.
LEMMA DocumentsAlone ==
    ASSUME NEW r \in Requests,
           Read(r) \/ CommitLine(r) \/ CommitPayment(r) \/ Abandon(r)
    PROVE  invoice' = invoice /\ next_number' = next_number
BY DEF Read, ReadInvoice, ReadPayment, ReadCardPayment, Reading, Abandon,
       CommitLine, AddLine, EditLine, RemoveLine, RepriceLine, WriteLine,
       CommitPayment, RecordPayment, VoidPayment, RecordProviderPayment, WritePayment

\* The moves a step may make with one invoice's row.
RowMove(i) ==
    \/ invoice'[i] = invoice[i]
    \/ /\ invoice[i].status = "NEW"
       /\ invoice'[i] = [invoice[i] EXCEPT !.status = "DRAFT"]
    \/ /\ invoice[i].status = "DRAFT"
       /\ invoice'[i].status = "ISSUED"
       /\ invoice'[i].deleted = invoice[i].deleted
    \/ /\ invoice[i].status = "ISSUED"
       /\ invoice'[i] = [invoice[i] EXCEPT !.status = "VOID"]
    \/ invoice'[i] = [invoice[i] EXCEPT !.deleted = TRUE]

LEMMA RowMoves ==
    ASSUME NothingReverted, Typed, [Next]_vars, NEW i \in Invoices
    PROVE  RowMove(i)
<1> USE DEF RowMove, Typed, TypeOK
<1>1. ASSUME NEW k \in Invoices, NEW selected \in SUBSET Jobs, DraftInvoice(k, selected)
      PROVE  RowMove(i)
    BY <1>1 DEF DraftInvoice, Row
<1>2. ASSUME NEW r \in Requests, Read(r) \/ CommitLine(r) \/ CommitPayment(r) \/ Abandon(r)
      PROVE  RowMove(i)
    BY <1>2, DocumentsAlone
<1>3. ASSUME NEW r \in Requests, IssueInvoice(r) PROVE RowMove(i)
    BY <1>3, SMTT(30) DEF IssueInvoice, LockedStatus, Row
<1>4. ASSUME NEW r \in Requests, VoidInvoice(r) PROVE RowMove(i)
    BY <1>4 DEF VoidInvoice, LockedStatus, Row
<1>5. ASSUME NEW r \in Requests, DeleteInvoice(r) PROVE RowMove(i)
    BY <1>5 DEF DeleteInvoice, Row
<1>6. ASSUME NEW p \in Intents, RefundCard(p) \/ \E k \in Invoices : OpenCheckout(p, k)
      PROVE  RowMove(i)
    BY <1>6 DEF RefundCard, OpenCheckout
<1>7. CASE UNCHANGED vars
    BY <1>7 DEF vars
<1>8. ASSUME NEW r \in Requests, ReloadForNotes(r) \/ SaveNotes(r) PROVE RowMove(i)
    BY <1>8, PatchesAlone
<1> QED
    BY <1>1, <1>2, <1>3, <1>4, <1>5, <1>6, <1>7, <1>8 DEF Next, CommitDocument

\* An issued invoice's number and total never change again, and the only move
\* left to it is to be voided.
THEOREM IssuedIsFrozen == ASSUME NoPatch PROVE Spec => DocumentFrozen
<1>1. ASSUME Typed, [Next]_vars, NEW i \in Invoices PROVE Frozen(i)
    <2>1. RowMove(i)
        BY <1>1, NoPatchRevertsNothing, RowMoves
    <2>2. invoice[i] \in Row
        BY <1>1 DEF Typed, TypeOK
    <2> QED
        BY <2>1, <2>2 DEF RowMove, Row, Frozen
<1>2. Typed /\ [Next]_vars => [\A i \in Invoices : Frozen(i)]_invoice
    BY <1>1
<1> QED
    BY <1>2, AlwaysTyped, PTL DEF Spec, DocumentFrozen

-----------------------------------------------------------------------------
(* A visit is billed once.                                                 *)

\* A step that opens no invoice adds no claim.
LEMMA ClaimsShrink ==
    ASSUME VisitBilledOnce,
           \A i \in Invoices : Live(i)' => Live(i) /\ Claims(i)' \subseteq Claims(i)
    PROVE  VisitBilledOnce'
<1> USE DEF VisitBilledOnce
<1> HIDE DEF Live, Claims
<1> QED
    OBVIOUS

LEMMA BilledOnceStep ==
    ASSUME NothingReverted, Typed, VisitBilledOnce, [Next]_vars
    PROVE  VisitBilledOnce'
<1> USE InvoicingAssumption DEF Typed
<1>1. ASSUME NEW i \in Invoices, NEW selected \in SUBSET Jobs, DraftInvoice(i, selected)
      PROVE  VisitBilledOnce'
    <2>1. Claims(i)' \subseteq selected
        BY <1>1 DEF DraftInvoice, Claims, Present, TypeOK
    <2>2. ASSUME NEW k \in Invoices \ {i}
          PROVE  /\ Claims(k)' = Claims(k)
                 /\ Live(k)' <=> Live(k)
                 /\ Live(k) => Claims(k) \cap selected = {}
        <3>1. lines'[k] = lines[k] /\ invoice'[k] = invoice[k]
            BY <1>1 DEF DraftInvoice, TypeOK
        <3>2. Live(k) => Claims(k) \subseteq Claimed
            BY DEF Claimed
        <3> QED
            BY <1>1, <3>1, <3>2 DEF DraftInvoice, Claims, Present, Live, Visible
    <2> HIDE DEF Live, Claims
    <2> QED
        BY <2>1, <2>2 DEF VisitBilledOnce
<1>2. ASSUME NEW r \in Requests, IssueInvoice(r) \/ VoidInvoice(r) \/ DeleteInvoice(r)
      PROVE  VisitBilledOnce'
    <2>1. lines' = lines
        BY <1>2 DEF IssueInvoice, VoidInvoice, DeleteInvoice
    <2>2. \A i \in Invoices : Live(i)' => Live(i)
        BY <1>2 DEF IssueInvoice, VoidInvoice, DeleteInvoice, Live, Visible, LockedStatus,
                    TypeOK, Row
    <2>3. \A i \in Invoices : Claims(i)' = Claims(i)
        BY <2>1 DEF Claims, Present
    <2> QED
        BY <2>2, <2>3, ClaimsShrink
<1>3. ASSUME NEW r \in Requests, CommitLine(r)
      PROVE  VisitBilledOnce'
    <2>1. \A i \in Invoices : Live(i)' <=> Live(i)
        BY <1>3, DocumentsAlone DEF Live, Visible
    <2>2. ASSUME NEW s \in Slots, NEW a \in Int \cup {NoLine}, WriteLine(r, s, a),
                 s = Adjustment \/ a = NoLine \/ lines[req[r].on][s] # NoLine,
                 NEW i \in Invoices
          PROVE  Claims(i)' \subseteq Claims(i)
        BY <2>2 DEF WriteLine, Claims, Present, TypeOK, Lines
    <2>3. Repriced \subseteq Int /\ Adjustment \in Slots /\ Jobs \subseteq Slots
        BY CentsAssumption DEF Slots
    <2>4. \A i \in Invoices : Claims(i)' \subseteq Claims(i)
        BY <1>3, <2>2, <2>3
           DEF CommitLine, AddLine, EditLine, RemoveLine, RepriceLine, Present
    <2> QED
        BY <2>1, <2>4, ClaimsShrink
<1>4. CASE lines' = lines /\ invoice' = invoice
    <2>1. \A i \in Invoices : Live(i)' = Live(i) /\ Claims(i)' = Claims(i)
        BY <1>4 DEF Live, Visible, Claims, Present
    <2> QED
        BY <2>1, ClaimsShrink
<1>5. ASSUME NEW r \in Requests, Read(r) \/ CommitPayment(r) \/ Abandon(r)
      PROVE  lines' = lines /\ invoice' = invoice
    BY <1>5 DEF Read, ReadInvoice, ReadPayment, ReadCardPayment, Reading, Abandon,
                CommitPayment, RecordPayment, VoidPayment, RecordProviderPayment, WritePayment
<1>6. ASSUME NEW p \in Intents, RefundCard(p) \/ \E k \in Invoices : OpenCheckout(p, k)
      PROVE  lines' = lines /\ invoice' = invoice
    BY <1>6 DEF RefundCard, OpenCheckout
<1>7. CASE UNCHANGED vars
    BY <1>7, <1>4 DEF vars
<1> QED
    BY <1>1, <1>2, <1>3, <1>4, <1>5, <1>6, <1>7, PatchesAlone
    DEF Next, CommitDocument

\* A visit is on at most one live invoice, however many requests are drafting,
\* discarding, voiding and editing at once.
THEOREM VisitsBilledOnce == ASSUME NoPatch PROVE Spec => []VisitBilledOnce
<1>1. Init => VisitBilledOnce
    BY DEF Init, VisitBilledOnce, Live, Visible, NoRow
<1>2. Typed /\ VisitBilledOnce /\ [Next]_vars => VisitBilledOnce'
    BY NoPatchRevertsNothing, BilledOnceStep
<1> QED
    BY <1>1, <1>2, AlwaysTyped, PTL DEF Spec

-----------------------------------------------------------------------------
(* The sequence has no gap.  A number is spent on an invoice that had none, *)
(* so it never takes the place of another.                                 *)

Unnumbered(i) == invoice[i].status \in {"NEW", "DRAFT"}

NumbersInOrder ==
    /\ NumbersDense
    /\ \A i \in Invoices : Unnumbered(i) => invoice[i].number = 0

\* Whatever is not an issue numbers nothing, and no invoice becomes a draft
\* that was more than one.
LEMMA OnlyIssueNumbers ==
    ASSUME NothingReverted, Typed, [Next]_vars, ~ \E r \in Requests : IssueInvoice(r)
    PROVE  /\ next_number' = next_number
           /\ \A i \in Invoices : /\ invoice'[i].number = invoice[i].number
                                  /\ Unnumbered(i)' => Unnumbered(i)
<1> USE DEF Unnumbered, Typed, TypeOK
<1>1. ASSUME NEW k \in Invoices, NEW selected \in SUBSET Jobs, DraftInvoice(k, selected)
      PROVE  /\ next_number' = next_number
             /\ \A i \in Invoices : /\ invoice'[i].number = invoice[i].number
                                    /\ Unnumbered(i)' => Unnumbered(i)
    BY <1>1 DEF DraftInvoice, Row
<1>2. ASSUME NEW r \in Requests, VoidInvoice(r) \/ DeleteInvoice(r)
      PROVE  /\ next_number' = next_number
             /\ \A i \in Invoices : /\ invoice'[i].number = invoice[i].number
                                    /\ Unnumbered(i)' => Unnumbered(i)
    BY <1>2 DEF VoidInvoice, DeleteInvoice, LockedStatus, Row
<1>3. ASSUME NEW r \in Requests, Read(r) \/ CommitLine(r) \/ CommitPayment(r) \/ Abandon(r)
      PROVE  invoice' = invoice /\ next_number' = next_number
    BY <1>3, DocumentsAlone
<1>4. ASSUME NEW p \in Intents, RefundCard(p) \/ \E k \in Invoices : OpenCheckout(p, k)
      PROVE  invoice' = invoice /\ next_number' = next_number
    BY <1>4 DEF RefundCard, OpenCheckout
<1>5. CASE UNCHANGED vars
    BY <1>5 DEF vars
<1> QED
    BY <1>1, <1>2, <1>3, <1>4, <1>5, PatchesAlone DEF Next, CommitDocument

LEMMA NumbersInOrderStep ==
    ASSUME NothingReverted, Typed, NumbersInOrder, [Next]_vars
    PROVE  NumbersInOrder'
<1>1. ASSUME NEW r \in Requests, IssueInvoice(r)
      PROVE  NumbersInOrder'
    <2>1. PICK i \in Invoices : i = req[r].on
        BY <1>1 DEF IssueInvoice, At, Typed, TypeOK, Request
    <2>2. Unnumbered(i) /\ ~Unnumbered(i)'
        BY <1>1, <2>1 DEF IssueInvoice, LockedStatus, Unnumbered, Typed, TypeOK, Row
    <2>3. /\ next_number' = next_number + 1
          /\ invoice'[i].number = next_number
          /\ \A k \in Invoices \ {i} : invoice'[k] = invoice[k]
        BY <1>1, <2>1 DEF IssueInvoice, NumberToIssue, Typed, TypeOK, Row
    <2>4. next_number \in Nat \ {0}
        BY DEF Typed, TypeOK
    <2>5. \A k \in Invoices \ {i} : Unnumbered(k)' <=> Unnumbered(k)
        BY <2>3 DEF Unnumbered
    <2>6. ASSUME NEW n \in 1 .. next_number' - 1
          PROVE  \E k \in Invoices : invoice'[k].number = n
        <3>1. CASE n = next_number
            BY <3>1, <2>3
        <3>2. CASE n # next_number
            <4>1. n \in 1 .. next_number - 1
                BY <3>2, <2>3, <2>4
            <4>2. PICK k \in Invoices : invoice[k].number = n
                BY <4>1 DEF NumbersInOrder, NumbersDense
            <4>3. k # i
                BY <2>2, <4>1, <4>2 DEF NumbersInOrder
            <4> QED
                BY <2>3, <4>2, <4>3
        <3> QED
            BY <3>1, <3>2
    <2> HIDE DEF Unnumbered
    <2> QED
        BY <2>2, <2>3, <2>5, <2>6 DEF NumbersInOrder, NumbersDense
<1>2. CASE ~ \E r \in Requests : IssueInvoice(r)
    <2>1. /\ next_number' = next_number
          /\ \A i \in Invoices : /\ invoice'[i].number = invoice[i].number
                                 /\ Unnumbered(i)' => Unnumbered(i)
        BY <1>2, OnlyIssueNumbers
    <2> HIDE DEF Unnumbered
    <2> QED
        BY <2>1 DEF NumbersInOrder, NumbersDense
<1> QED
    BY <1>1, <1>2

\* Every number handed out is on a document: the status is re-read under the
\* row lock, so no invoice is numbered twice.
THEOREM SequenceHasNoGap == ASSUME NoPatch PROVE Spec => []NumbersDense
<1>1. Init => NumbersInOrder
    BY DEF Init, NumbersInOrder, NumbersDense, Unnumbered, NoRow
<1>2. Typed /\ NumbersInOrder /\ [Next]_vars => NumbersInOrder'
    BY NoPatchRevertsNothing, NumbersInOrderStep
<1>3. NumbersInOrder => NumbersDense
    BY DEF NumbersInOrder
<1> QED
    BY <1>1, <1>2, <1>3, AlwaysTyped, PTL DEF Spec

-----------------------------------------------------------------------------
(* The ledger.                                                              *)

HandLive(i) == LivePayments(i) \cap HandPayments

\* What a step may do with a person's payment: leave it, void it, or write it
\* on an issued invoice, for no more than is owed.
HandMove(p) ==
    \/ payment'[p] = payment[p]
    \/ payment'[p] # NoPayment /\ payment'[p].voided_by # Nobody
    \/ /\ payment[p] = NoPayment
       /\ payment'[p] \in Payment
       /\ invoice[payment'[p].on].status = "ISSUED"
       /\ payment'[p].amount <= Balance(payment'[p].on)
       /\ \A q \in Payments \ {p} : payment'[q] = payment[q]
       /\ invoice' = invoice

LEMMA HandMoves ==
    ASSUME Typed, [Next]_vars, NEW p \in HandPayments
    PROVE  HandMove(p)
<1> USE InvoicingAssumption DEF HandMove, Typed, TypeOK, Payments
<1>1. ASSUME NEW r \in Requests, NEW q \in HandPayments, NEW a \in Tendered,
             RecordPayment(r, q, a)
      PROVE  HandMove(p)
    <2>1. CASE q = p
        <3> DEFINE row == [on |-> req[r].on, amount |-> a, voided_by |-> Nobody]
        <3>1. row \in Payment
            BY <1>1 DEF RecordPayment, At, Request, Payment, Voiders
        <3>2. payment' = [payment EXCEPT ![p] = row] /\ invoice' = invoice
            BY <1>1, <2>1 DEF RecordPayment, WritePayment
        <3>3. payment'[p] = row /\ \A k \in Payments \ {p} : payment'[k] = payment[k]
            BY <3>2
        <3>4. /\ payment[p] = NoPayment
              /\ invoice[row.on].status = "ISSUED"
              /\ row.amount <= Balance(row.on)
            BY <1>1, <2>1 DEF RecordPayment, LockedStatus
        <3> QED
            BY <3>1, <3>2, <3>3, <3>4
    <2>2. CASE q # p
        BY <1>1, <2>2 DEF RecordPayment, WritePayment
    <2> QED
        BY <2>1, <2>2
<1>2. ASSUME NEW r \in Requests, VoidPayment(r)
      PROVE  HandMove(p)
    <2>1. req[r].pay \in HandPayments /\ payment[req[r].pay] \in Payment
        BY <1>2 DEF VoidPayment, At, ReadsHold
    <2>2. CASE req[r].pay = p
        <3> DEFINE row == [payment[p] EXCEPT !.voided_by = r]
        <3>1. row \in Payment /\ row.voided_by # Nobody
            BY <2>1, <2>2 DEF Payment, Voiders
        <3>2. payment'[p] = row
            BY <1>2, <2>2 DEF VoidPayment, WritePayment
        <3> HIDE DEF row
        <3> QED
            BY <3>1, <3>2
    <2>3. CASE req[r].pay # p
        BY <1>2, <2>3 DEF VoidPayment, WritePayment
    <2> QED
        BY <2>2, <2>3
<1>3. ASSUME NEW r \in Requests, RecordProviderPayment(r)
      PROVE  payment'[p] = payment[p]
    BY <1>3 DEF RecordProviderPayment, WritePayment, At, ReadsHold
<1>4. ASSUME NEW q \in Intents, RefundCard(q)
      PROVE  payment'[p] = payment[p]
    BY <1>4 DEF RefundCard
<1>5. ASSUME NEW r \in Requests, Read(r) \/ CommitDocument(r) \/ CommitLine(r) \/ Abandon(r)
      PROVE  payment' = payment
    BY <1>5 DEF Read, ReadInvoice, ReadPayment, ReadCardPayment, Reading, Abandon,
                CommitDocument, IssueInvoice, VoidInvoice, DeleteInvoice, ReloadForNotes,
                SaveNotes, CommitLine, AddLine, EditLine, RemoveLine, RepriceLine, WriteLine
<1>6. ASSUME NEW i \in Invoices, NEW selected \in SUBSET Jobs, DraftInvoice(i, selected)
      PROVE  payment' = payment
    BY <1>6 DEF DraftInvoice
<1>7. ASSUME NEW q \in Intents, NEW i \in Invoices, OpenCheckout(q, i)
      PROVE  payment' = payment
    BY <1>7 DEF OpenCheckout
<1>8. CASE UNCHANGED vars
    BY <1>8 DEF vars
<1> QED
    BY <1>1, <1>2, <1>3, <1>4, <1>5, <1>6, <1>7, <1>8 DEF Next, CommitPayment

\* An invoice is not voided under live money.
LEMMA VoidWaitsForMoney ==
    ASSUME NothingReverted, Typed, [Next]_vars, NEW i \in Invoices,
           invoice[i].status = "ISSUED", invoice'[i].status # "ISSUED"
    PROVE  payment' = payment /\ LivePayments(i) = {}
<1> USE DEF Typed, TypeOK
<1>1. ASSUME NEW k \in Invoices, NEW selected \in SUBSET Jobs, DraftInvoice(k, selected)
      PROVE  FALSE
    BY <1>1 DEF DraftInvoice, Row
<1>2. ASSUME NEW r \in Requests, Read(r) \/ CommitLine(r) \/ CommitPayment(r) \/ Abandon(r)
      PROVE  FALSE
    BY <1>2, DocumentsAlone
<1>3. ASSUME NEW r \in Requests, IssueInvoice(r) \/ DeleteInvoice(r)
      PROVE  FALSE
    BY <1>3 DEF IssueInvoice, DeleteInvoice, Row
<1>4. ASSUME NEW r \in Requests, VoidInvoice(r)
      PROVE  payment' = payment /\ LivePayments(i) = {}
    BY <1>4 DEF VoidInvoice, HasMoney, Row
<1>5. ASSUME NEW p \in Intents, RefundCard(p) \/ \E k \in Invoices : OpenCheckout(p, k)
      PROVE  FALSE
    BY <1>5 DEF RefundCard, OpenCheckout
<1>6. CASE UNCHANGED vars
    BY <1>6 DEF vars
<1> QED
    BY <1>1, <1>2, <1>3, <1>4, <1>5, <1>6, PatchesAlone DEF Next, CommitDocument

LEMMA HandMoneyStep ==
    ASSUME NothingReverted, Typed, HandMoneyOnIssued, [Next]_vars
    PROVE  HandMoneyOnIssued'
<1> SUFFICES ASSUME NEW p \in HandPayments,
                    payment'[p] # NoPayment, payment'[p].voided_by = Nobody
             PROVE  invoice'[payment'[p].on].status = "ISSUED"
    BY DEF HandMoneyOnIssued
<1>1. HandMove(p)
    BY HandMoves
<1>2. CASE payment'[p] = payment[p]
    <2> DEFINE i == payment[p].on
    <2>1. i \in Invoices /\ invoice[i].status = "ISSUED"
        BY <1>2 DEF HandMoneyOnIssued, Typed, TypeOK, Payments, Payment
    <2>2. p \in LivePayments(i)
        BY <1>2 DEF LivePayments, Payments
    <2> HIDE DEF i
    <2>3. invoice'[i].status = "ISSUED"
        BY <2>1, <2>2, VoidWaitsForMoney
    <2> QED
        BY <2>3, <1>2 DEF i
<1> QED
    BY <1>1, <1>2 DEF HandMove

\* Money a person recorded never points at a draft or a void invoice: the
\* payment and the void both hold the invoice's row.
THEOREM HandMoneyStays == ASSUME NoPatch PROVE Spec => []HandMoneyOnIssued
<1>1. Init => HandMoneyOnIssued
    BY DEF Init, HandMoneyOnIssued, Payments
<1>2. Typed /\ HandMoneyOnIssued /\ [Next]_vars => HandMoneyOnIssued'
    BY NoPatchRevertsNothing, HandMoneyStep
<1> QED
    BY <1>1, <1>2, AlwaysTyped, PTL DEF Spec

-----------------------------------------------------------------------------
(* What people recorded fits the total.  The invariant is inductive only   *)
(* with HandMoneyOnIssued: an invoice being issued must have no money yet. *)

\* If no payment is written on an invoice, what its payments come to does not grow.
LEMMA HandMoneyShrinks ==
    ASSUME TypeOK, NEW i \in Invoices,
           HandLive(i)' \in SUBSET HandLive(i),
           \A p \in HandLive(i)' : payment'[p] = payment[p]
    PROVE  Paid(HandLive(i))' <= Paid(HandLive(i))
<1>1. IsFiniteSet(HandLive(i))
    BY InvoicingAssumption, FS_Subset DEF HandLive, LivePayments
<1> QED
    BY <1>1, SumOfFewer DEF Paid

\* A payment written on an invoice adds its amount, and no more than is owed.
LEMMA HandMoneyFitsOneMore ==
    ASSUME TypeOK, NEW i \in Invoices, NEW p \in HandPayments,
           payment[p] = NoPayment, payment'[p] \in Payment,
           HandLive(i)' = HandLive(i) \cup {p},
           \A q \in Payments \ {p} : payment'[q] = payment[q],
           invoice[i].status = "ISSUED",
           payment'[p].amount <= Balance(i)
    PROVE  Paid(HandLive(i))' <= invoice[i].total
<1> DEFINE S == HandLive(i)
           f == [q \in S |-> payment[q].amount]
           g == [q \in S \cup {p} |-> payment'[q].amount]
           all == [q \in LivePayments(i) |-> payment[q].amount]
<1>1. IsFiniteSet(LivePayments(i)) /\ IsFiniteSet(S)
    BY InvoicingAssumption, FS_Subset DEF HandLive, LivePayments
<1>2. p \notin S
    BY DEF HandLive, LivePayments
<1>3. g[p] = payment'[p].amount /\ g[p] \in Amount
    BY DEF Payment
<1>4. \A q \in S : g[q] = f[q]
    BY <1>2 DEF HandLive, LivePayments
<1>5. SumOf(S \cup {p}, g) = SumOf(S, f) + g[p]
    BY <1>1, <1>2, <1>3, <1>4, SumOfOneMore
<1>6. SumOf(S, f) <= SumOf(LivePayments(i), all)
    <2>1. S \in SUBSET LivePayments(i) /\ \A q \in S : f[q] = all[q]
        BY DEF HandLive
    <2> HIDE DEF S, f, all
    <2> QED
        BY <1>1, <2>1, SumOfFewer
<1>7. SumOf(S, f) \in Nat /\ SumOf(LivePayments(i), all) \in Nat
    BY <1>1, SumIsNat
<1>8. invoice[i].total \in Nat /\ g[p] \in Nat \ {0}
    BY <1>3, CentsAssumption DEF TypeOK, Row, Amount
<1>9. g[p] <= invoice[i].total - SumOf(LivePayments(i), all)
    BY <1>3, <1>7, <1>8 DEF Balance, Paid
<1>10. Paid(HandLive(i))' = SumOf(S \cup {p}, g)
    BY DEF Paid
<1> HIDE DEF S, f, g, all
<1> QED
    BY <1>5, <1>6, <1>7, <1>8, <1>9, <1>10

LEMMA HandMoneyFitsStep ==
    ASSUME NothingReverted, Typed, HandMoneyOnIssued, HandMoneyFits, [Next]_vars
    PROVE  HandMoneyFits'
<1> SUFFICES ASSUME NEW i \in Invoices, invoice'[i].status = "ISSUED"
             PROVE  Paid(HandLive(i))' <= invoice'[i].total
    BY DEF HandMoneyFits, HandLive
<1>1. RowMove(i) /\ invoice[i] \in Row /\ \A p \in HandPayments : HandMove(p)
    BY RowMoves, HandMoves DEF Typed, TypeOK
<1>2. CASE invoice[i].status = "ISSUED"
    <2>1. invoice'[i].total = invoice[i].total
        BY <1>1, <1>2 DEF RowMove, Row
    <2>2. Paid(HandLive(i)) \in Nat /\ Paid(HandLive(i)) <= invoice[i].total
        <3>1. IsFiniteSet(HandLive(i))
            BY InvoicingAssumption, FS_Subset DEF HandLive, LivePayments
        <3> QED
            BY <1>2, <3>1, SumIsNat DEF HandMoneyFits, HandLive, Paid
    <2>3. CASE \E p \in HandPayments :
                  /\ payment[p] = NoPayment /\ payment'[p] \in Payment
                  /\ payment'[p].on = i /\ payment'[p].voided_by = Nobody
        <3>1. PICK p \in HandPayments :
                  /\ payment[p] = NoPayment /\ payment'[p] \in Payment
                  /\ payment'[p].on = i /\ payment'[p].voided_by = Nobody
            BY <2>3
        <3>2. /\ payment'[p].amount <= Balance(i)
              /\ \A q \in Payments \ {p} : payment'[q] = payment[q]
            BY <1>1, <3>1, InvoicingAssumption DEF HandMove, Payments
        <3>3. HandLive(i)' = HandLive(i) \cup {p}
            BY <3>1, <3>2, InvoicingAssumption DEF HandLive, LivePayments, Payments
        <3> QED
            BY <1>2, <2>1, <3>1, <3>2, <3>3, HandMoneyFitsOneMore DEF Typed
    <2>4. CASE ~ \E p \in HandPayments :
                  /\ payment[p] = NoPayment /\ payment'[p] \in Payment
                  /\ payment'[p].on = i /\ payment'[p].voided_by = Nobody
        <3>1. \A p \in HandLive(i)' : payment'[p] = payment[p]
            BY <1>1, <2>4 DEF HandLive, LivePayments, HandMove
        <3>2. HandLive(i)' \in SUBSET HandLive(i)
            BY <3>1 DEF HandLive, LivePayments
        <3>3. Paid(HandLive(i))' <= Paid(HandLive(i))
            BY <3>1, <3>2, HandMoneyShrinks DEF Typed
        <3>4. Paid(HandLive(i))' \in Nat /\ invoice[i].total \in Nat
            <4>1. IsFiniteSet(HandLive(i)')
                BY InvoicingAssumption, FS_Subset DEF HandLive, LivePayments
            <4> QED
                BY <1>1, <4>1, SumIsNat, CentsAssumption DEF Paid, Row
        <3> QED
            BY <2>1, <2>2, <3>3, <3>4
    <2> QED
        BY <2>3, <2>4
<1>3. CASE invoice[i].status # "ISSUED"
    <2>1. \A p \in HandPayments : ~(payment[p] # NoPayment /\ payment[p].on = i
                                    /\ payment[p].voided_by = Nobody)
        BY <1>3 DEF HandMoneyOnIssued
    <2>2. ASSUME NEW p \in HandPayments,
                 payment'[p] # NoPayment, payment'[p].on = i, payment'[p].voided_by = Nobody
          PROVE  FALSE
        BY <1>1, <1>3, <2>1, <2>2 DEF HandMove
    <2>3. HandLive(i)' = {}
        BY <2>2 DEF HandLive, LivePayments
    <2>4. Paid(HandLive(i))' = 0
        BY <2>3, SumOfNone DEF Paid
    <2>5. invoice'[i].total \in Nat
        <3>1. TypeOK'
            BY TypedStep DEF Typed
        <3> QED
            BY <3>1, CentsAssumption DEF TypeOK, Row
    <2> QED
        BY <2>4, <2>5
<1> QED
    BY <1>2, <1>3

\* What people recorded on an issued invoice never exceeds its total, however
\* many are recording the same check.
THEOREM HandMoneyNeverOverpays == ASSUME NoPatch PROVE Spec => []HandMoneyFits
<1>1. Init => HandMoneyFits
    BY DEF Init, HandMoneyFits, NoRow
<1>2. Init => HandMoneyOnIssued
    BY DEF Init, HandMoneyOnIssued, Payments
<1>3. Typed /\ HandMoneyOnIssued /\ HandMoneyFits /\ [Next]_vars => HandMoneyFits'
    BY NoPatchRevertsNothing, HandMoneyFitsStep
<1> QED
    BY <1>1, <1>3, HandMoneyStays, AlwaysTyped, PTL DEF Spec
=============================================================================
