--------------------------- MODULE InvoicingProofs ---------------------------
(***************************************************************************)
(* What Invoicing guarantees for every number of invoices, visits,         *)
(* payments and requests, and any amounts; first, what a sum of cents is,  *)
(* for any finite set of amounts.                                          *)
(***************************************************************************)
EXTENDS Invoicing, FiniteSetTheorems, TLAPS

\* There are finitely many cents, so a sum is a natural number.
LEMMA SumIsNat ==
    ASSUME NEW S, IsFiniteSet(S), NEW f
    PROVE  IsFiniteSet(CentsOf(S, f)) /\ SumOf(S, f) \in Nat
<1>1. IsFiniteSet(Amount)
    BY FS_Interval, CentsAssumption DEF Amount
<1>2. IsFiniteSet(S \X Amount)
    BY <1>1, FS_Product
<1>3. CentsOf(S, f) \in SUBSET (S \X Amount)
    BY DEF CentsOf
<1>4. IsFiniteSet(CentsOf(S, f))
    BY <1>2, <1>3, FS_Subset
<1> QED
    BY <1>4, FS_CardinalityType DEF SumOf

\* Nothing adds up to nothing.
LEMMA SumOfNone == ASSUME NEW f PROVE SumOf({}, f) = 0
<1>1. CentsOf({}, f) = {}
    BY DEF CentsOf
<1> QED
    BY <1>1, FS_EmptySet DEF SumOf

\* Leaving amounts out never makes a sum larger.
LEMMA SumOfFewer ==
    ASSUME NEW S, IsFiniteSet(S), NEW T \in SUBSET S, NEW f, NEW g,
           \A x \in T : g[x] = f[x]
    PROVE  SumOf(T, g) <= SumOf(S, f)
<1>1. CentsOf(T, g) \in SUBSET CentsOf(S, f)
    BY DEF CentsOf
<1> QED
    BY <1>1, SumIsNat, FS_Subset DEF SumOf

\* A sum is about the amounts summed and nothing else.
LEMMA SumOfSame ==
    ASSUME NEW S, NEW f, NEW g, \A x \in S : g[x] = f[x]
    PROVE  SumOf(S, g) = SumOf(S, f)
<1>1. CentsOf(S, g) = CentsOf(S, f)
    BY DEF CentsOf
<1> QED
    BY <1>1 DEF SumOf

\* One more amount adds itself.
LEMMA SumOfOneMore ==
    ASSUME NEW S, IsFiniteSet(S), NEW x, x \notin S, NEW f, NEW g,
           \A y \in S : g[y] = f[y],
           g[x] \in Amount
    PROVE  SumOf(S \cup {x}, g) = SumOf(S, f) + g[x]
<1> DEFINE new == {x} \X (1 .. g[x])
<1>1. CentsOf(S \cup {x}, g) = CentsOf(S, f) \cup new
    BY CentsAssumption DEF CentsOf, Amount
<1>2. CentsOf(S, f) \cap new = {}
    BY DEF CentsOf
<1>3. IsFiniteSet({x}) /\ Cardinality({x}) = 1
    BY FS_Singleton
<1>4. g[x] \in Nat
    BY CentsAssumption DEF Amount
<1>5. IsFiniteSet(1 .. g[x]) /\ Cardinality(1 .. g[x]) = g[x]
    BY <1>4, FS_Interval, SMTT(60)
<1>6. IsFiniteSet(new) /\ Cardinality(new) = g[x]
    <2>1. IsFiniteSet(new) /\ Cardinality(new) = Cardinality({x}) * Cardinality(1 .. g[x])
        BY <1>3, <1>5, FS_Product
    <2> QED
        BY <2>1, <1>3, <1>4, <1>5
<1>7. IsFiniteSet(CentsOf(S, f)) /\ Cardinality(CentsOf(S, f)) \in Nat
    BY SumIsNat DEF SumOf
<1>8. Cardinality(CentsOf(S, f) \cup new)
        = Cardinality(CentsOf(S, f)) + Cardinality(new) - Cardinality(CentsOf(S, f) \cap new)
    BY <1>6, <1>7, FS_Union
<1>9. Cardinality(CentsOf(S, f) \cap new) = 0
    BY <1>2, FS_EmptySet
<1>10. Cardinality(CentsOf(S, f)) + g[x] - 0 = Cardinality(CentsOf(S, f)) + g[x]
    BY <1>4, <1>7
<1>11. Cardinality(CentsOf(S, f) \cup new) = Cardinality(CentsOf(S, f)) + g[x] - 0
    BY <1>6, <1>8, <1>9
<1> QED
    BY <1>1, <1>10, <1>11 DEF SumOf

-----------------------------------------------------------------------------
\* What a request in flight has read is still there: nothing in the ledger is
\* ever taken away, and a Checkout session is never withdrawn.
ReadsHold ==
    \A r \in Requests : req[r] # Idle =>
        /\ req[r].op \in Handlers \/ ("notes" \in Handlers /\ req[r].op = "notes_save")
        /\ req[r].op = "void_payment" =>
              req[r].pay \in HandPayments /\ payment[req[r].pay] # NoPayment
        /\ req[r].op = "card_payment" =>
              req[r].pay \in Intents /\ session[req[r].pay] # NoSession

Typed == TypeOK /\ ReadsHold

\* An invoice that does not exist yet, and one with no lines.
LEMMA NoRowIsARow == NoRow \in Row /\ NoLines \in Lines
BY CentsAssumption, InvoicingAssumption DEF NoRow, Row, Status, NoLines, Lines

LEMMA TypedInit == Init => Typed
<1> SUFFICES ASSUME Init PROVE Typed
    OBVIOUS
<1>1. TypeOK
    BY NoRowIsARow DEF Init, TypeOK
<1>2. ReadsHold
    BY DEF Init, ReadsHold
<1> QED
    BY <1>1, <1>2 DEF Typed

LEMMA ReadTyped ==
    ASSUME Typed, NEW r \in Requests, Read(r)
    PROVE  Typed'
<1> USE DEF Typed
<1>1. ASSUME NEW op \in Handlers, NEW i \in Invoices, ReadInvoice(r, op, i)
      PROVE  Typed'
    BY <1>1, NoRowIsARow, InvoicingAssumption
       DEF ReadInvoice, Reading, TypeOK, ReadsHold, Request
<1>2. ASSUME NEW p \in HandPayments, ReadPayment(r, p)
      PROVE  Typed'
    BY <1>2, NoRowIsARow, InvoicingAssumption
       DEF ReadPayment, Reading, TypeOK, ReadsHold, Request, Payment, Payments
<1>3. ASSUME NEW p \in Intents, ReadCardPayment(r, p)
      PROVE  Typed'
    BY <1>3, NoRowIsARow, InvoicingAssumption
       DEF ReadCardPayment, Reading, TypeOK, ReadsHold, Request, Session, Payments
<1> QED
    BY <1>1, <1>2, <1>3 DEF Read

\* Each step of a handler's second half keeps the types.
LEMMA DocumentTyped ==
    ASSUME Typed, NEW r \in Requests, CommitDocument(r)
    PROVE  Typed'
<1> USE InvoicingAssumption, CentsAssumption DEF Typed, TypeOK, ReadsHold, Finish, At, Visible
<1>1. CASE IssueInvoice(r)
    BY <1>1, SMTT(30) DEF IssueInvoice, Issuable, NumberToIssue, Request, Row, Status, Amount
<1>2. CASE VoidInvoice(r)
    BY <1>2 DEF VoidInvoice, Request, Row, Status
<1>3. CASE DeleteInvoice(r)
    <2> DEFINE i == req[r].on
    <2>1. i \in Invoices /\ invoice[i] \in Row
        BY <1>3 DEF DeleteInvoice, Request
    <2>2. [invoice[i] EXCEPT !.deleted = TRUE] \in Row
        BY <2>1 DEF Row
    <2>3. invoice' = [invoice EXCEPT ![i] = [invoice[i] EXCEPT !.deleted = TRUE]]
        BY <1>3 DEF DeleteInvoice
    <2> HIDE DEF i
    <2>4. invoice' \in [Invoices -> Row]
        BY <2>1, <2>2, <2>3
    <2>5. TypeOK'
        BY <1>3, <2>4 DEF DeleteInvoice
    <2>6. ReadsHold'
        BY <1>3 DEF DeleteInvoice
    <2> QED
        BY <2>5, <2>6
<1>4. CASE ReloadForNotes(r)
    <2>1. req[r] \in Request /\ req[r].op = "notes" /\ invoice[req[r].on] \in Row
        BY <1>4 DEF ReloadForNotes, Request
    <2>2. [req[r] EXCEPT !.op = "notes_save", !.row = invoice[req[r].on]] \in Request
        BY <2>1 DEF Request
    <2>3. req' = [req EXCEPT ![r] = [req[r] EXCEPT !.op = "notes_save",
                                                   !.row = invoice[req[r].on]]]
        BY <1>4 DEF ReloadForNotes
    <2>4. "notes" \in Handlers
        BY <1>4, <2>1 DEF ReloadForNotes
    <2>5. TypeOK'
        BY <1>4, <2>2, <2>3 DEF ReloadForNotes
    <2>6. ReadsHold'
        BY <1>4, <2>1, <2>3, <2>4 DEF ReloadForNotes
    <2> QED
        BY <2>5, <2>6
<1>5. CASE SaveNotes(r)
    BY <1>5 DEF SaveNotes, Request
<1> QED
    BY <1>1, <1>2, <1>3, <1>4, <1>5 DEF CommitDocument

LEMMA LineTyped ==
    ASSUME Typed, NEW r \in Requests, CommitLine(r)
    PROVE  Typed'
<1> USE InvoicingAssumption DEF Typed, TypeOK, ReadsHold, Finish, At
<1>1. ASSUME NEW s \in Slots, NEW a \in Int \cup {NoLine}, req[r] # Idle, WriteLine(r, s, a)
      PROVE  Typed'
    BY <1>1 DEF WriteLine, Request, Lines
<1>2. Repriced \subseteq Int /\ Adjustment \in Slots /\ Jobs \subseteq Slots
    BY CentsAssumption DEF Slots
<1> QED
    BY <1>1, <1>2 DEF CommitLine, AddLine, EditLine, RemoveLine, RepriceLine

LEMMA PaymentTyped ==
    ASSUME Typed, NEW r \in Requests, CommitPayment(r)
    PROVE  Typed'
<1> USE InvoicingAssumption DEF Typed
<1>1. ASSUME NEW p \in Payments, NEW row \in Payment, req[r] # Idle, WritePayment(r, p, row)
      PROVE  Typed'
    BY <1>1 DEF WritePayment, Finish, TypeOK, ReadsHold
<1>2. ASSUME NEW p \in HandPayments, NEW a \in Tendered, RecordPayment(r, p, a)
      PROVE  Typed'
    <2>1. [on |-> req[r].on, amount |-> a, voided_by |-> Nobody] \in Payment
        BY <1>2 DEF RecordPayment, At, TypeOK, Request, Payment, Voiders
    <2> QED
        BY <1>1, <1>2, <2>1 DEF RecordPayment, At, Payments
<1>3. CASE VoidPayment(r)
    <2>1. req[r].pay \in Payments /\ payment[req[r].pay] \in Payment
        BY <1>3 DEF VoidPayment, At, TypeOK, ReadsHold, Payments
    <2>2. [payment[req[r].pay] EXCEPT !.voided_by = r] \in Payment
        BY <2>1 DEF Payment, Voiders
    <2> QED
        BY <1>1, <1>3, <2>1, <2>2 DEF VoidPayment, At
<1>4. CASE RecordProviderPayment(r)
    <2>1. req[r].pay \in Intents /\ session[req[r].pay] \in Session
        BY <1>4 DEF RecordProviderPayment, At, TypeOK, ReadsHold
    <2>2. [on |-> req[r].on, amount |-> session[req[r].pay].amount,
           voided_by |-> Nobody] \in Payment
        BY <1>4, <2>1 DEF RecordProviderPayment, At, TypeOK, Request, Session, Payment, Voiders
    <2> QED
        BY <1>1, <1>4, <2>1, <2>2 DEF RecordProviderPayment, At, Payments
<1> QED
    BY <1>2, <1>3, <1>4 DEF CommitPayment

\* A balance is what is left of a total, so it is an amount when it is not zero.
LEMMA BalanceIsAmount ==
    ASSUME TypeOK, NEW i \in Invoices
    PROVE  /\ IsFiniteSet(LivePayments(i))
           /\ Paid(LivePayments(i)) \in Nat
           /\ Balance(i) \in 0 .. invoice[i].total
           /\ Balance(i) \in Amount \cup {0}
<1>1. IsFiniteSet(LivePayments(i))
    BY InvoicingAssumption, FS_Subset DEF LivePayments
<1>2. Paid(LivePayments(i)) \in Nat
    BY <1>1, SumIsNat DEF Paid
<1>3. invoice[i].total \in 0 .. MaxCents
    BY DEF TypeOK, Row
<1> QED
    BY <1>1, <1>2, <1>3, CentsAssumption DEF Balance, Amount

\* TypeOK and ReadsHold are inductive together.
LEMMA TypedStep == Typed /\ [Next]_vars => Typed'
<1> SUFFICES ASSUME Typed, [Next]_vars PROVE Typed'
    OBVIOUS
<1> USE InvoicingAssumption, CentsAssumption
<1>1. ASSUME NEW i \in Invoices, NEW selected \in SUBSET Jobs, DraftInvoice(i, selected)
      PROVE  Typed'
    <2>1. [s \in Slots |-> IF s \in {j \in selected : j \in NoAccess => Charge[j] > 0}
                          THEN Charge[s] ELSE NoLine] \in Lines
        BY DEF Lines
    <2> QED
        BY <1>1, <2>1 DEF DraftInvoice, Typed, TypeOK, ReadsHold, Row, Status
<1>2. ASSUME NEW r \in Requests, Read(r) PROVE Typed'
    BY <1>2, ReadTyped
<1>3. ASSUME NEW r \in Requests, CommitDocument(r) PROVE Typed'
    BY <1>3, DocumentTyped
<1>4. ASSUME NEW r \in Requests, CommitLine(r) PROVE Typed'
    BY <1>4, LineTyped
<1>5. ASSUME NEW r \in Requests, CommitPayment(r) PROVE Typed'
    BY <1>5, PaymentTyped
<1>6. ASSUME NEW r \in Requests, Abandon(r) PROVE Typed'
    BY <1>6 DEF Abandon, Finish, Typed, TypeOK, ReadsHold
<1>7. ASSUME NEW p \in Intents, RefundCard(p) PROVE Typed'
    <2>1. payment[p] \in Payment /\ payment \in [Payments -> Payment \cup {NoPayment}]
        BY <1>7 DEF RefundCard, Typed, TypeOK, Payments
    <2>2. PICK row \in Payment : payment' = [payment EXCEPT ![p] = row]
        <3>1. CASE payment' = [payment EXCEPT ![p].voided_by = Provider]
            <4>1. [payment[p] EXCEPT !.voided_by = Provider] \in Payment
                BY <2>1 DEF Payment, Voiders
            <4> QED
                BY <3>1, <4>1
        <3>2. ASSUME NEW left \in 1 .. payment[p].amount - 1,
                     payment' = [payment EXCEPT ![p].amount = left]
              PROVE  \E row \in Payment : payment' = [payment EXCEPT ![p] = row]
            <4>1. left \in Amount
                BY <2>1, CentsAssumption DEF Payment, Amount
            <4>2. [payment[p] EXCEPT !.amount = left] \in Payment
                BY <2>1, <4>1 DEF Payment
            <4> QED
                BY <3>2, <4>2
        <3> QED
            BY <1>7, <3>1, <3>2 DEF RefundCard
    <2> QED
        BY <1>7, <2>1, <2>2 DEF RefundCard, Typed, TypeOK, ReadsHold, Payments
<1>8. ASSUME NEW p \in Intents, NEW i \in Invoices, OpenCheckout(p, i) PROVE Typed'
    BY <1>8, BalanceIsAmount DEF OpenCheckout, Typed, TypeOK, ReadsHold, Session
<1>9. CASE UNCHANGED vars
    BY <1>9 DEF vars, Typed, TypeOK, ReadsHold
<1> QED
    BY <1>1, <1>2, <1>3, <1>4, <1>5, <1>6, <1>7, <1>8, <1>9 DEF Next

LEMMA AlwaysTyped == Spec => []Typed
BY TypedInit, TypedStep, PTL DEF Spec

\* Every column holds what it can hold, whichever handlers run together.
THEOREM TypeCorrect == Spec => []TypeOK
<1>1. Typed => TypeOK
    BY DEF Typed
<1> QED
    BY <1>1, AlwaysTyped, PTL

-----------------------------------------------------------------------------
(* Numbers, whatever runs together: a PATCH may write an old row back, so  *)
(* the row each one holds has to be told apart as well.                    *)

Holding(r) == req[r] # Idle /\ req[r].op = "notes_save"

NumbersKeptApart ==
    /\ \A i \in Invoices : invoice[i].number < next_number
    /\ \A r \in Requests : Holding(r) => req[r].row.number < next_number
    /\ NumberNamesOneInvoice
    /\ \A r \in Requests, i \in Invoices :
          Holding(r) /\ req[r].on # i /\ req[r].row.number # 0
              => req[r].row.number # invoice[i].number
    /\ \A r, q \in Requests :
          Holding(r) /\ Holding(q) /\ req[r].on # req[q].on /\ req[r].row.number # 0
              => req[r].row.number # req[q].row.number

\* A step that numbers nothing, and starts or ends requests at most.
LEMMA NumbersUntouched ==
    ASSUME NumbersKeptApart,
           next_number' = next_number,
           \A i \in Invoices : invoice'[i].number = invoice[i].number,
           \A r \in Requests : Holding(r)' => req'[r] = req[r]
    PROVE  NumbersKeptApart'
<1>1. \A r \in Requests : Holding(r)' => Holding(r) /\ req'[r] = req[r]
    BY DEF Holding
<1> HIDE DEF Holding
<1> QED
    BY <1>1 DEF NumbersKeptApart, NumberNamesOneInvoice

LEMMA NumbersStep ==
    ASSUME Typed, NumbersKeptApart, [Next]_vars
    PROVE  NumbersKeptApart'
<1> USE DEF Typed
<1>1. ASSUME NEW i \in Invoices, NEW selected \in SUBSET Jobs, DraftInvoice(i, selected)
      PROVE  NumbersKeptApart'
    BY <1>1, NumbersUntouched DEF DraftInvoice, TypeOK, Row
<1>2. ASSUME NEW r \in Requests, Read(r)
      PROVE  NumbersKeptApart'
    <2>1. "notes_save" \notin Handlers
        BY InvoicingAssumption DEF AllHandlers
    <2>2. invoice' = invoice /\ next_number' = next_number
        BY <1>2 DEF Read, ReadInvoice, ReadPayment, ReadCardPayment, Reading
    <2>3. \A q \in Requests : Holding(q)' => req'[q] = req[q]
        BY <1>2, <2>1 DEF Read, ReadInvoice, ReadPayment, ReadCardPayment, Reading,
                          TypeOK, Holding
    <2> QED
        BY <2>2, <2>3, NumbersUntouched
<1>3. ASSUME NEW r \in Requests, IssueInvoice(r)
      PROVE  NumbersKeptApart'
    <2> DEFINE i == req[r].on
    <2>1. i \in Invoices /\ next_number \in Nat \ {0}
        BY <1>3 DEF IssueInvoice, At, TypeOK, Request
    <2>2. /\ next_number' = next_number + 1
          /\ invoice'[i].number = next_number
          /\ \A k \in Invoices \ {i} : invoice'[k].number = invoice[k].number
        BY <1>3, <2>1 DEF IssueInvoice, NumberToIssue, TypeOK, Row
    <2>3. \A q \in Requests : Holding(q)' => Holding(q) /\ req'[q] = req[q]
        BY <1>3 DEF IssueInvoice, Finish, TypeOK, Holding
    <2>4. /\ \A k \in Invoices : invoice[k].number \in Nat
          /\ \A q \in Requests : Holding(q) => req[q].row.number \in Nat
        BY DEF TypeOK, Request, Row, Holding
    <2> HIDE DEF Holding, i
    <2> QED
        BY <2>1, <2>2, <2>3, <2>4 DEF NumbersKeptApart, NumberNamesOneInvoice
<1>4. ASSUME NEW r \in Requests, VoidInvoice(r) \/ DeleteInvoice(r)
      PROVE  NumbersKeptApart'
    BY <1>4, NumbersUntouched DEF VoidInvoice, DeleteInvoice, Finish, Holding, TypeOK, Row
<1>5. ASSUME NEW r \in Requests, ReloadForNotes(r)
      PROVE  NumbersKeptApart'
    <2>1. req[r].on \in Invoices /\ req[r] \in Request
        BY <1>5 DEF ReloadForNotes, At, TypeOK, Request
    <2>2. /\ invoice' = invoice /\ next_number' = next_number
          /\ req'[r].row = invoice[req[r].on] /\ req'[r].on = req[r].on
          /\ \A q \in Requests \ {r} : req'[q] = req[q]
        BY <1>5, <2>1 DEF ReloadForNotes, TypeOK, Request
    <2>3. \A q \in Requests \ {r} : Holding(q)' => Holding(q)
        BY <2>2 DEF Holding
    <2> HIDE DEF Holding
    <2> QED
        BY <2>1, <2>2, <2>3 DEF NumbersKeptApart, NumberNamesOneInvoice
<1>6. ASSUME NEW r \in Requests, SaveNotes(r)
      PROVE  NumbersKeptApart'
    <2>1. req[r].on \in Invoices /\ Holding(r)
        BY <1>6 DEF SaveNotes, At, TypeOK, Request, Holding
    <2>2. /\ next_number' = next_number
          /\ invoice'[req[r].on] = req[r].row
          /\ \A k \in Invoices \ {req[r].on} : invoice'[k] = invoice[k]
        BY <1>6, <2>1 DEF SaveNotes, TypeOK
    <2>3. \A q \in Requests : Holding(q)' => Holding(q) /\ req'[q] = req[q]
        BY <1>6 DEF SaveNotes, Finish, TypeOK, Holding
    <2> HIDE DEF Holding
    <2> QED
        BY <2>1, <2>2, <2>3 DEF NumbersKeptApart, NumberNamesOneInvoice
<1>7. ASSUME NEW r \in Requests, CommitLine(r) \/ CommitPayment(r) \/ Abandon(r)
      PROVE  NumbersKeptApart'
    <2>1. invoice' = invoice /\ next_number' = next_number
        BY <1>7 DEF CommitLine, AddLine, EditLine, RemoveLine, RepriceLine, WriteLine, Abandon,
                    CommitPayment, RecordPayment, VoidPayment, RecordProviderPayment, WritePayment
    <2>2. req' = [req EXCEPT ![r] = Idle]
        BY <1>7 DEF CommitLine, AddLine, EditLine, RemoveLine, RepriceLine, WriteLine, Abandon,
                    CommitPayment, RecordPayment, VoidPayment, RecordProviderPayment, WritePayment,
                    Finish
    <2>3. \A q \in Requests : Holding(q)' => req'[q] = req[q]
        BY <2>2 DEF TypeOK, Holding
    <2> QED
        BY <2>1, <2>3, NumbersUntouched
<1>8. ASSUME NEW p \in Intents, RefundCard(p) \/ \E i \in Invoices : OpenCheckout(p, i)
      PROVE  NumbersKeptApart'
    BY <1>8, NumbersUntouched DEF RefundCard, OpenCheckout
<1>9. CASE UNCHANGED vars
    BY <1>9, NumbersUntouched DEF vars
<1> QED
    BY <1>1, <1>2, <1>3, <1>4, <1>5, <1>6, <1>7, <1>8, <1>9 DEF Next, CommitDocument

\* No number is ever on two invoices, whichever handlers run together: the row
\* a late PATCH writes back carries its own invoice's number or none.
THEOREM NumbersUnique == Spec => []NumberNamesOneInvoice
<1>1. Init => NumbersKeptApart
    BY DEF Init, NumbersKeptApart, NumberNamesOneInvoice, NoRow, Holding
<1>2. Typed /\ NumbersKeptApart /\ [Next]_vars => NumbersKeptApart'
    BY NumbersStep
<1>3. NumbersKeptApart => NumberNamesOneInvoice
    BY DEF NumbersKeptApart
<1> QED
    BY <1>1, <1>2, <1>3, AlwaysTyped, PTL DEF Spec
=============================================================================
