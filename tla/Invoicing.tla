------------------------------ MODULE Invoicing ------------------------------
(***************************************************************************)
(* Invoices, their lines and the payment ledger: billing/services.py with  *)
(* the views and the webhook handlers that call it.                        *)
(*                                                                         *)
(* PostgreSQL runs at READ COMMITTED and no request is wrapped in a        *)
(* transaction, so a handler is two steps.  It first READS: get_object()   *)
(* loads the invoice, and the checks made on that instance pass.  It then  *)
(* COMMITS: the service's transaction takes its row locks, re-reads what   *)
(* it re-reads, and writes.  The commit is one step because the locks it   *)
(* holds make it so; what it does not re-read it takes from the first      *)
(* step, and anything may have happened between the two.                   *)
(***************************************************************************)
EXTENDS Cents

CONSTANTS
    Invoices,      \* primary keys: at most this many invoices are drafted
    Jobs,          \* one customer's finished visits
    NoAccess,      \* those of Jobs that found a locked door
    Charge,        \* what draft_invoice puts on the line of each visit
    Adjustment,    \* the one adjustment line an invoice may have here
    Discounts,     \* amounts an adjustment may carry, signed
    Repriced,      \* amounts the recorded hours may come to
    TaxPercent,    \* the organization's rate
    Taxed,         \* the lines whose is_taxable is set
    HandPayments,  \* rows a person writes in the ledger
    Intents,       \* Stripe PaymentIntents, each the reference of one row
    Tendered,      \* amounts a person may enter for a payment
    Requests,      \* requests and worker tasks in flight at once
    Handlers,      \* the operations they carry out
    MaxNumber,     \* bound on the numbers handed out
    Provider, Nobody, NoLine, NoPayment, NoSession, Idle

Slots    == Jobs \cup {Adjustment}
Payments == HandPayments \cup Intents
Voiders  == Requests \cup {Provider, Nobody}

AllHandlers == {"issue", "void", "delete", "notes", "add_line", "edit_line",
                "remove_line", "reprice", "record_payment", "void_payment",
                "card_payment"}

\* The handlers that refuse an invoice they loaded as anything but a draft.
InvoiceEditsOnly == {"notes"}
DraftOnly == {"delete", "notes", "add_line", "edit_line", "remove_line", "reprice"}

VARIABLES
    invoice,      \* the row: status, deleted_at set, number (0 for ""), total
    lines,        \* each invoice's live lines: an amount, or NoLine
    next_number,  \* InvoiceSequence.next_number
    payment,      \* the ledger
    session,      \* Checkout sessions open at Stripe, by their PaymentIntent
    req           \* what each request in flight has read

vars == <<invoice, lines, next_number, payment, session, req>>

-----------------------------------------------------------------------------
Status == {"NEW", "DRAFT", "ISSUED", "VOID"}   \* NEW: no such row yet

Row     == [status : Status, deleted : BOOLEAN, number : Nat, total : 0 .. MaxCents]
Lines   == [Slots -> Int \cup {NoLine}]
Payment == [on : Invoices, amount : Amount, voided_by : Voiders]
Session == [on : Invoices, amount : Amount]
Request == [op   : AllHandlers \cup {"notes_save"},
            on   : Invoices,
            row  : Row,
            seen : Lines,
            pay  : Payments \cup {NoPayment}]

ASSUME InvoicingAssumption ==
    /\ IsFiniteSet(Jobs) /\ NoAccess \subseteq Jobs /\ Adjustment \notin Jobs
    /\ IsFiniteSet(Payments) /\ HandPayments \cap Intents = {}
    /\ MaxNumber \in Nat /\ TaxPercent \in Nat
    /\ Charge \in [Jobs -> 0 .. MaxCents]
    /\ Repriced \subseteq 0 .. MaxCents
    /\ Tendered \subseteq Amount
    /\ Discounts \subseteq Int /\ Taxed \subseteq Slots
    /\ Handlers \subseteq AllHandlers
    /\ NoLine \notin Int
    /\ Nobody # Provider /\ {Nobody, Provider} \cap Requests = {}
    /\ NoPayment \notin Payments \cup Payment
    /\ NoSession \notin Session
    /\ Idle \notin Request

NoRow   == [status |-> "NEW", deleted |-> FALSE, number |-> 0, total |-> 0]
NoLines == [s \in Slots |-> NoLine]

Present(ls) == {s \in Slots : ls[s] # NoLine}

\* services.totals: tax once over the taxable subtotal, rounded half up; a
\* discount that takes it below zero earns no credit.
Discount(ls) == IF ls[Adjustment] = NoLine THEN 0 ELSE ls[Adjustment]
Subtotal(ls) == SumOf(Present(ls) \cap Jobs, ls) + Discount(ls)
Taxable(ls)  == SumOf(Present(ls) \cap Jobs \cap Taxed, ls)
                + (IF Adjustment \in Taxed THEN Discount(ls) ELSE 0)
Tax(ls)      == IF Taxable(ls) <= 0 THEN 0 ELSE (Taxable(ls) * TaxPercent + 50) \div 100
Total(ls)    == Subtotal(ls) + Tax(ls)

\* What issue_invoice asks of the lines; a PositiveIntegerField holds the total.
HasLines(ls) == Present(ls) # {}
Issuable(ls) == HasLines(ls) /\ Total(ls) \in Amount /\ Subtotal(ls) >= 0

Visible(i) == invoice[i].status # "NEW" /\ ~invoice[i].deleted

\* services.live_lines: not a deleted invoice's, not a void one's.
Live(i)    == Visible(i) /\ invoice[i].status # "VOID"
Claims(i)  == Present(lines[i]) \cap Jobs

ClaimedByDrafts == UNION {Claims(i) : i \in {k \in Invoices : Live(k) /\ invoice[k].status = "DRAFT"}}
Claimed == UNION {Claims(i) : i \in {k \in Invoices : Live(k)}}

LivePayments(i) == {p \in Payments : /\ payment[p] # NoPayment
                                     /\ payment[p].on = i
                                     /\ payment[p].voided_by = Nobody}
Paid(S) == SumOf(S, [p \in S |-> payment[p].amount])

\* What keeps an issued invoice from being voided.
SettledInFull(i) == Paid(LivePayments(i)) >= invoice[i].total
HasMoney(i) == LivePayments(i) # {}

BalanceIgnoringLedger(i) == invoice[i].total
Balance(i) == LET owed == invoice[i].total - Paid(LivePayments(i))
              IN  IF invoice[i].status = "ISSUED" /\ owed > 0 THEN owed ELSE 0

-----------------------------------------------------------------------------
\* services.draft_invoice.  The visits are locked before the claim is read, so
\* the whole of it is one step; a locked door the organization does not charge
\* for gets no line, and an invoice with no lines is refused.
DraftInvoice(i, selected) ==
    LET billed == {j \in selected : j \in NoAccess => Charge[j] > 0}
    IN  /\ invoice[i].status = "NEW"
        /\ selected \cap Claimed = {}
        /\ billed # {}
        /\ invoice' = [invoice EXCEPT ![i].status = "DRAFT"]
        /\ lines' = [lines EXCEPT ![i] =
                        [s \in Slots |-> IF s \in billed THEN Charge[s] ELSE NoLine]]
        /\ UNCHANGED <<next_number, payment, session, req>>

-----------------------------------------------------------------------------
\* The first half of a handler.

Reading(r, op, i, ls, p) ==
    /\ req[r] = Idle
    /\ op \in Handlers
    /\ req' = [req EXCEPT ![r] = [op |-> op, on |-> i, row |-> invoice[i],
                                  seen |-> ls, pay |-> p]]
    /\ UNCHANGED <<invoice, lines, next_number, payment, session>>

\* get_object() and the check made on the instance.  issue_invoice and
\* void_invoice make theirs under the lock instead.  The invoice viewset
\* prefetches the lines, and issue_invoice totals the prefetched ones.
ReadInvoice(r, op, i) ==
    /\ op \in AllHandlers \ {"void_payment", "card_payment"}
    /\ Visible(i)
    /\ op \in DraftOnly => invoice[i].status = "DRAFT"
    /\ op = "record_payment" => invoice[i].status = "ISSUED"
    /\ Reading(r, op, i,
               IF op \in {"issue", "edit_line", "remove_line", "reprice"}
               THEN lines[i] ELSE NoLines,
               NoPayment)

\* PaymentViewSet.void: a provider's payment is not voided by hand.
ReadPayment(r, p) ==
    /\ p \in HandPayments
    /\ payment[p] # NoPayment
    /\ payment[p].voided_by = Nobody
    /\ Reading(r, "void_payment", payment[p].on, NoLines, p)

\* checkout_session_completed looks the invoice up; a deleted one is a
\* HandlerError, a draft one a ConflictError.
ReadCardPayment(r, p) ==
    /\ p \in Intents
    /\ session[p] # NoSession
    /\ Visible(session[p].on)
    /\ invoice[session[p].on].status # "DRAFT"
    /\ Reading(r, "card_payment", session[p].on, NoLines, p)

-----------------------------------------------------------------------------
\* The second half.  At(r, op) is the request's invoice, about to be written.

At(r, op) == req[r] # Idle /\ req[r].op = op

Finish(r) == req' = [req EXCEPT ![r] = Idle]

\* services._locked_status: what the row says once its lock is held.
StaleStatus(r)  == req[r].row.status
LockedStatus(r) == invoice[req[r].on].status

\* InvoiceSequence, under its lock.
NumberByCount == 1 + Cardinality({i \in Invoices : invoice[i].status = "ISSUED"})
NumberToIssue == next_number

IssueInvoice(r) ==
    LET i == req[r].on
    IN  /\ At(r, "issue")
        /\ Visible(i)
        /\ next_number <= MaxNumber
        /\ LockedStatus(r) = "DRAFT"
        /\ Issuable(req[r].seen)
        /\ invoice' = [invoice EXCEPT ![i].status = "ISSUED",
                                      ![i].number = NumberToIssue,
                                      ![i].total  = Total(req[r].seen)]
        /\ next_number' = next_number + 1
        /\ Finish(r)
        /\ UNCHANGED <<lines, payment, session>>

VoidInvoice(r) ==
    LET i == req[r].on
    IN  /\ At(r, "void")
        /\ Visible(i)
        /\ LockedStatus(r) = "ISSUED"
        /\ ~HasMoney(i)
        /\ invoice' = [invoice EXCEPT ![i].status = "VOID"]
        /\ Finish(r)
        /\ UNCHANGED <<lines, next_number, payment, session>>

\* Invoice.delete writes deleted_at and nothing else, whatever the row now says.
DeleteInvoice(r) ==
    /\ At(r, "delete")
    /\ invoice' = [invoice EXCEPT ![req[r].on].deleted = TRUE]
    /\ Finish(r)
    /\ UNCHANGED <<lines, next_number, payment, session>>

\* InvoiceViewSet.update checks one instance; DRF's update() loads another ...
ReloadForNotes(r) ==
    LET i == req[r].on
    IN  /\ At(r, "notes")
        /\ Visible(i)
        /\ req' = [req EXCEPT ![r].op = "notes_save", ![r].row = invoice[i]]
        /\ UNCHANGED <<invoice, lines, next_number, payment, session>>

\* ... and saves every column of it.
SaveNotes(r) ==
    /\ At(r, "notes_save")
    /\ invoice' = [invoice EXCEPT ![req[r].on] = req[r].row]
    /\ Finish(r)
    /\ UNCHANGED <<lines, next_number, payment, session>>

WriteLine(r, s, amount) ==
    /\ lines' = [lines EXCEPT ![req[r].on][s] = amount]
    /\ Finish(r)
    /\ UNCHANGED <<invoice, next_number, payment, session>>

AddLine(r, amount) ==
    /\ At(r, "add_line")
    /\ lines[req[r].on][Adjustment] = NoLine
    /\ WriteLine(r, Adjustment, amount)

\* Only an adjustment is editable.  The save writes every column, deleted_at
\* included, so a line removed meanwhile comes back.
EditLine(r, amount) ==
    /\ At(r, "edit_line")
    /\ Adjustment \in Present(req[r].seen)
    /\ WriteLine(r, Adjustment, amount)

RemoveLine(r, s) ==
    /\ At(r, "remove_line")
    /\ s \in Present(req[r].seen)
    /\ WriteLine(r, s, NoLine)

\* reprice_line_from_time_worked writes the amount only: a line removed
\* meanwhile stays removed.
RepriceLine(r, j, amount) ==
    /\ At(r, "reprice")
    /\ j \in (Present(req[r].seen) \cap Present(lines[req[r].on]) \cap Jobs) \ NoAccess
    /\ WriteLine(r, j, amount)

WritePayment(r, p, row) ==
    /\ payment' = [payment EXCEPT ![p] = row]
    /\ Finish(r)
    /\ UNCHANGED <<invoice, lines, next_number, session>>

RecordPayment(r, p, amount) ==
    LET i == req[r].on
    IN  /\ At(r, "record_payment")
        /\ p \in HandPayments
        /\ payment[p] = NoPayment
        /\ Visible(i)
        /\ LockedStatus(r) = "ISSUED"
        /\ amount <= Balance(i)
        /\ WritePayment(r, p, [on |-> i, amount |-> amount, voided_by |-> Nobody])

\* void_payment takes no lock: is_void was read off the loaded row.
VoidPayment(r) ==
    LET p == req[r].pay
    IN  /\ At(r, "void_payment")
        /\ WritePayment(r, p, [payment[p] EXCEPT !.voided_by = r])

\* record_provider_payment: no balance check, no lock, idempotent on the
\* reference -- by the lookup, and by the unique constraint when two race.
RecordProviderPayment(r) ==
    LET p == req[r].pay
    IN  /\ At(r, "card_payment")
        /\ payment[p] = NoPayment
        /\ WritePayment(r, p, [on |-> req[r].on, amount |-> session[p].amount,
                               voided_by |-> Nobody])

\* A refusal, or a process that dies: the transaction rolls back.
Abandon(r) ==
    /\ req[r] # Idle
    /\ Finish(r)
    /\ UNCHANGED <<invoice, lines, next_number, payment, session>>

-----------------------------------------------------------------------------
\* connect.create_checkout_session: the page charges the balance of the moment.
OpenCheckout(p, i) ==
    /\ session[p] = NoSession
    /\ Visible(i)
    /\ Balance(i) > 0
    /\ session' = [session EXCEPT ![p] = [on |-> i, amount |-> Balance(i)]]
    /\ UNCHANGED <<invoice, lines, next_number, payment, req>>

\* The webhook handlers: the row is voided, all of the money went back; or it is
\* voided and one for what is left replaces it.  An intent's row here is the live
\* one, so that what changes is its amount.
RefundCard(p) ==
    /\ payment[p] # NoPayment
    /\ payment[p].voided_by = Nobody
    /\ \/ payment' = [payment EXCEPT ![p].voided_by = Provider]
       \/ \E left \in 1 .. payment[p].amount - 1 : payment' = [payment EXCEPT ![p].amount = left]
    /\ UNCHANGED <<invoice, lines, next_number, session, req>>

-----------------------------------------------------------------------------
Init ==
    /\ invoice = [i \in Invoices |-> NoRow]
    /\ lines = [i \in Invoices |-> NoLines]
    /\ next_number = 1
    /\ payment = [p \in Payments |-> NoPayment]
    /\ session = [p \in Intents |-> NoSession]
    /\ req = [r \in Requests |-> Idle]

Read(r) ==
    \/ \E op \in Handlers, i \in Invoices : ReadInvoice(r, op, i)
    \/ \E p \in HandPayments : ReadPayment(r, p)
    \/ \E p \in Intents : ReadCardPayment(r, p)

CommitDocument(r) ==
    \/ IssueInvoice(r)
    \/ VoidInvoice(r)
    \/ DeleteInvoice(r)
    \/ ReloadForNotes(r)
    \/ SaveNotes(r)

CommitLine(r) ==
    \/ \E a \in Discounts : AddLine(r, a)
    \/ \E a \in Discounts : EditLine(r, a)
    \/ \E s \in Slots : RemoveLine(r, s)
    \/ \E j \in Jobs, a \in Repriced : RepriceLine(r, j, a)

CommitPayment(r) ==
    \/ \E p \in HandPayments, a \in Tendered : RecordPayment(r, p, a)
    \/ VoidPayment(r)
    \/ RecordProviderPayment(r)

Next ==
    \/ \E i \in Invoices, selected \in SUBSET Jobs : DraftInvoice(i, selected)
    \/ \E r \in Requests : Read(r) \/ CommitDocument(r) \/ CommitLine(r)
                                   \/ CommitPayment(r) \/ Abandon(r)
    \/ \E p \in Intents : RefundCard(p) \/ \E i \in Invoices : OpenCheckout(p, i)

Spec == Init /\ [][Next]_vars

-----------------------------------------------------------------------------
\* Every variable holds what its column can hold.
TypeOK ==
    /\ invoice \in [Invoices -> Row]
    /\ lines \in [Invoices -> Lines]
    /\ next_number \in Nat \ {0}
    /\ payment \in [Payments -> Payment \cup {NoPayment}]
    /\ session \in [Intents -> Session \cup {NoSession}]
    /\ req \in [Requests -> Request \cup {Idle}]

\* A visit is claimed by at most one live invoice (draft_invoice: "a job
\* appears on at most one live invoice"), however many are drafting,
\* discarding and voiding at once.
VisitBilledOnce ==
    \A i, k \in Invoices : i # k /\ Live(i) /\ Live(k) => Claims(i) \cap Claims(k) = {}

\* No two invoices ever carry one number, deleted ones included.
NumberNamesOneInvoice ==
    \A i, k \in Invoices :
        i # k /\ invoice[i].number # 0 => invoice[i].number # invoice[k].number

\* ADR-026: the sequence has no gap.  Every number handed out is on a document.
NumbersDense ==
    \A n \in 1 .. next_number - 1 : \E i \in Invoices : invoice[i].number = n

\* Money a person recorded and nobody voided points at an issued invoice,
\* never at a draft or a void one (void_invoice: "money must never point at a
\* void document").
HandMoneyOnIssued ==
    \A p \in HandPayments :
        payment[p] # NoPayment /\ payment[p].voided_by = Nobody
            => invoice[payment[p].on].status = "ISSUED"

\* Payments recorded by hand alone never exceed the total (overpaid_cents:
\* "Only a provider can bring this about").
HandMoneyFits ==
    \A i \in Invoices :
        invoice[i].status = "ISSUED"
            => Paid(LivePayments(i) \cap HandPayments) <= invoice[i].total

\* What an issued or void invoice says is what its lines come to.
LinesMatchSnapshot ==
    \A i \in Invoices :
        invoice[i].status \in {"ISSUED", "VOID"} => invoice[i].total = Total(lines[i])

\* Invoice.delete: "An issued invoice cannot be deleted."
IssuedNeverDeleted ==
    \A i \in Invoices : invoice[i].deleted => invoice[i].status = "DRAFT"

\* ADR-026: nothing issued is edited.  Once issued, the number and the total
\* stay, and the only move left is to VOID.
Frozen(i) ==
    invoice[i].status \in {"ISSUED", "VOID"} =>
        /\ invoice'[i].number = invoice[i].number
        /\ invoice'[i].total = invoice[i].total
        /\ \/ invoice'[i].status = invoice[i].status
           \/ invoice'[i].status = "VOID"

DocumentFrozen == [][\A i \in Invoices : Frozen(i)]_invoice
=============================================================================
