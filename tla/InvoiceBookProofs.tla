-------------------------- MODULE InvoiceBookProofs --------------------------
(***************************************************************************)
(* An issued invoice is not deleted, its total is that of its lines, and   *)
(* the rows keep InvoiceBook's promise, if what a handler relies on is     *)
(* still so when it writes.  It is for every handler with one request at a *)
(* time, and for any number of requests whose handlers check under a lock. *)
(***************************************************************************)
EXTENDS InvoicingSafetyProofs, InvoicingRefinement, SequenceTheorems

OneRequest == \A r, q \in Requests : r = q

StillTrue(r) ==
    req[r] # Idle =>
        /\ req[r].op \in DraftOnly \cup {"notes_save"} => invoice[req[r].on].status = "DRAFT"
        /\ req[r].op = "notes_save" => req[r].row = invoice[req[r].on]
        /\ req[r].op = "issue" => /\ invoice[req[r].on].status # "NEW"
                                  /\ req[r].seen = lines[req[r].on]

Checked == /\ \A r \in Requests : StillTrue(r)
           /\ IssuedNeverDeleted
           /\ LinesMatchSnapshot

LEMMA CheckedStep ==
    ASSUME OneRequest, Typed, Checked, [Next]_vars
    PROVE  Checked'
<1>0. /\ invoice \in [Invoices -> Row] /\ lines \in [Invoices -> Lines]
      /\ req \in [Requests -> Request \cup {Idle}]
      /\ \A r \in Requests : StillTrue(r)
      /\ IssuedNeverDeleted /\ LinesMatchSnapshot
    BY DEF Typed, TypeOK, Checked
<1>held. ASSUME NEW r \in Requests, req[r] # Idle
         PROVE  req[r] \in Request /\ req[r].on \in Invoices
    BY <1>0, <1>held DEF Request
<1>ends. ASSUME NEW r \in Requests, Finish(r)
         PROVE  \A q \in Requests : StillTrue(q)'
    <2>1. \A q \in Requests : req'[q] = Idle
        BY <1>0, <1>ends DEF Finish, OneRequest
    <2> QED
        BY <2>1 DEF StillTrue
<1>rows. ASSUME \A i \in Invoices :
                   /\ invoice'[i].deleted => invoice'[i].status = "DRAFT"
                   /\ invoice'[i].status \in {"ISSUED", "VOID"} => invoice'[i].total = Total(lines'[i])
         PROVE  IssuedNeverDeleted' /\ LinesMatchSnapshot'
    BY <1>rows DEF IssuedNeverDeleted, LinesMatchSnapshot
<1>same. ASSUME UNCHANGED <<invoice, lines>>
         PROVE  IssuedNeverDeleted' /\ LinesMatchSnapshot'
    BY <1>0, <1>same DEF IssuedNeverDeleted, LinesMatchSnapshot
<1>1. ASSUME NEW i \in Invoices, NEW selected \in SUBSET Jobs, DraftInvoice(i, selected)
      PROVE  Checked'
    <2>1. /\ invoice[i].status = "NEW" /\ req' = req
          /\ invoice'[i].status = "DRAFT"
          /\ \A k \in Invoices \ {i} : invoice'[k] = invoice[k] /\ lines'[k] = lines[k]
        BY <1>0, <1>1 DEF DraftInvoice, Row
    <2>2. ASSUME NEW r \in Requests PROVE StillTrue(r)'
        <3>1. CASE req[r] = Idle
            BY <2>1, <3>1 DEF StillTrue
        <3>2. CASE req[r] # Idle /\ req[r].on \in Invoices \ {i}
            BY <1>0, <2>1, <3>2 DEF StillTrue
        <3>3. CASE req[r] # Idle /\ req[r].on = i
            <4>1. req[r].op \notin DraftOnly \cup {"notes_save", "issue"}
                BY <1>0, <2>1, <3>3 DEF StillTrue
            <4> QED
                BY <2>1, <4>1 DEF StillTrue
        <3> QED
            BY <1>held, <3>1, <3>2, <3>3
    <2>3. IssuedNeverDeleted' /\ LinesMatchSnapshot'
        BY <1>0, <1>rows, <2>1 DEF IssuedNeverDeleted, LinesMatchSnapshot
    <2> QED
        BY <2>2, <2>3 DEF Checked
<1>2. ASSUME NEW r \in Requests, Read(r) PROVE Checked'
    <2>0. "notes_save" \notin Handlers /\ DraftOnly \subseteq AllHandlers
        BY InvoicingAssumption DEF AllHandlers, DraftOnly
    <2>1. PICK op, i, ls, p :
             /\ op \in Handlers /\ i \in Invoices
             /\ Reading(r, op, i, ls, p)
             /\ op \in DraftOnly => invoice[i].status = "DRAFT"
             /\ op = "issue" => invoice[i].status # "NEW" /\ ls = lines[i]
        <3>1. ASSUME NEW op \in Handlers, NEW i \in Invoices, ReadInvoice(r, op, i)
              PROVE  \E ls, p : /\ Reading(r, op, i, ls, p)
                                /\ op \in DraftOnly => invoice[i].status = "DRAFT"
                                /\ op = "issue" => invoice[i].status # "NEW" /\ ls = lines[i]
            BY <3>1 DEF ReadInvoice, Visible
        <3>2. ASSUME NEW p \in HandPayments, ReadPayment(r, p)
              PROVE  /\ Reading(r, "void_payment", payment[p].on, NoLines, p)
                     /\ payment[p].on \in Invoices /\ "void_payment" \notin DraftOnly
                     /\ "void_payment" \in Handlers
            BY <3>2 DEF ReadPayment, Reading, Typed, TypeOK, Payment, Payments, DraftOnly
        <3>3. ASSUME NEW p \in Intents, ReadCardPayment(r, p)
              PROVE  /\ Reading(r, "card_payment", session[p].on, NoLines, p)
                     /\ session[p].on \in Invoices /\ "card_payment" \notin DraftOnly
                     /\ "card_payment" \in Handlers
            BY <3>3 DEF ReadCardPayment, Reading, Typed, TypeOK, Session, DraftOnly
        <3> QED
            BY <1>2, <3>1, <3>2, <3>3 DEF Read
    <2>2. PICK q : q = [op |-> op, on |-> i, row |-> invoice[i], seen |-> ls, pay |-> p]
        OBVIOUS
    <2>3. /\ req' = [req EXCEPT ![r] = q] /\ UNCHANGED <<invoice, lines>>
          /\ q.op = op /\ q.on = i /\ q.row = invoice[i] /\ q.seen = ls
        BY <2>1, <2>2 DEF Reading
    <2>4. \A o \in Requests : req'[o] = q
        BY <1>0, <2>3 DEF OneRequest
    <2>5. \A o \in Requests : StillTrue(o)'
        BY <2>0, <2>1, <2>3, <2>4 DEF StillTrue
    <2> QED
        BY <1>same, <2>3, <2>5 DEF Checked
<1>3. ASSUME NEW r \in Requests, IssueInvoice(r) PROVE Checked'
    <2>1. PICK i \in Invoices : i = req[r].on
        BY <1>3, <1>held DEF IssueInvoice, At
    <2>2. /\ req[r] # Idle /\ req[r].op = "issue" /\ Finish(r) /\ Visible(i) /\ lines' = lines
          /\ invoice' = [invoice EXCEPT ![i].status = "ISSUED", ![i].number = NumberToIssue,
                                        ![i].total  = Total(req[r].seen)]
        BY <1>3, <2>1 DEF IssueInvoice, At
    <2>3. req[r].seen = lines[i] /\ ~invoice[i].deleted
        BY <1>0, <2>1, <2>2 DEF StillTrue, Visible
    <2>4. PICK total : total = Total(lines[i])
        OBVIOUS
    <2>5. /\ ~invoice'[i].deleted /\ invoice'[i].total = total
          /\ \A k \in Invoices \ {i} : invoice'[k] = invoice[k]
        BY <1>0, <2>2, <2>3, <2>4 DEF Row
    <2>6. IssuedNeverDeleted' /\ LinesMatchSnapshot'
        BY <1>0, <1>rows, <2>2, <2>4, <2>5 DEF IssuedNeverDeleted, LinesMatchSnapshot
    <2> QED
        BY <1>ends, <2>2, <2>6 DEF Checked
<1>4. ASSUME NEW r \in Requests, VoidInvoice(r) PROVE Checked'
    <2>1. PICK i \in Invoices : i = req[r].on
        BY <1>4, <1>held DEF VoidInvoice, At
    <2>2. /\ Finish(r) /\ Visible(i) /\ lines' = lines /\ invoice[i].status = "ISSUED"
          /\ invoice' = [invoice EXCEPT ![i].status = "VOID"]
        BY <1>4, <2>1 DEF VoidInvoice, LockedStatus
    <2>3. /\ ~invoice'[i].deleted /\ invoice'[i].total = invoice[i].total
          /\ \A k \in Invoices \ {i} : invoice'[k] = invoice[k]
        BY <1>0, <2>2 DEF Row, Visible
    <2>4. IssuedNeverDeleted' /\ LinesMatchSnapshot'
        BY <1>0, <1>rows, <2>2, <2>3 DEF IssuedNeverDeleted, LinesMatchSnapshot
    <2> QED
        BY <1>ends, <2>2, <2>4 DEF Checked
<1>5. ASSUME NEW r \in Requests, DeleteInvoice(r) PROVE Checked'
    <2>1. PICK i \in Invoices : i = req[r].on
        BY <1>5, <1>held DEF DeleteInvoice, At
    <2>2. /\ req[r] # Idle /\ req[r].op = "delete" /\ Finish(r) /\ lines' = lines
          /\ invoice' = [invoice EXCEPT ![i].deleted = TRUE]
        BY <1>5, <2>1 DEF DeleteInvoice, At
    <2>3. invoice[i].status = "DRAFT"
        BY <1>0, <2>1, <2>2 DEF StillTrue, DraftOnly
    <2>4. /\ invoice'[i].status = "DRAFT"
          /\ \A k \in Invoices \ {i} : invoice'[k] = invoice[k]
        BY <1>0, <2>2, <2>3 DEF Row
    <2>5. IssuedNeverDeleted' /\ LinesMatchSnapshot'
        BY <1>0, <1>rows, <2>2, <2>4 DEF IssuedNeverDeleted, LinesMatchSnapshot
    <2> QED
        BY <1>ends, <2>2, <2>5 DEF Checked
<1>6. ASSUME NEW r \in Requests, ReloadForNotes(r) PROVE Checked'
    <2>1. PICK i \in Invoices : i = req[r].on
        BY <1>6, <1>held DEF ReloadForNotes, At
    <2>2. PICK q : q = [req[r] EXCEPT !.op = "notes_save", !.row = invoice[i]]
        OBVIOUS
    <2>3. /\ req[r] # Idle /\ req[r].op = "notes" /\ req' = [req EXCEPT ![r] = q]
          /\ UNCHANGED <<invoice, lines>>
        BY <1>0, <1>6, <2>1, <2>2 DEF ReloadForNotes, At
    <2>4. q.op = "notes_save" /\ q.on = i /\ q.row = invoice[i]
        BY <1>held, <2>1, <2>2, <2>3 DEF Request
    <2>5. invoice[i].status = "DRAFT"
        BY <1>0, <2>1, <2>3 DEF StillTrue, DraftOnly
    <2>6. \A o \in Requests : req'[o] = q
        BY <1>0, <2>3 DEF OneRequest
    <2>7. \A o \in Requests : StillTrue(o)'
        BY <2>3, <2>4, <2>5, <2>6 DEF StillTrue
    <2> QED
        BY <1>same, <2>3, <2>7 DEF Checked
<1>7. ASSUME NEW r \in Requests, SaveNotes(r) PROVE Checked'
    <2>1. /\ req[r] # Idle /\ req[r].op = "notes_save" /\ Finish(r) /\ lines' = lines
          /\ invoice' = [invoice EXCEPT ![req[r].on] = req[r].row]
        BY <1>7 DEF SaveNotes, At
    <2>2. req[r].row = invoice[req[r].on]
        BY <1>0, <2>1 DEF StillTrue
    <2>3. invoice' = invoice
        BY <1>0, <1>held, <2>1, <2>2
    <2> QED
        BY <1>same, <1>ends, <2>1, <2>3 DEF Checked
<1>8. ASSUME NEW r \in Requests, CommitLine(r) PROVE Checked'
    <2>1. PICK i \in Invoices : i = req[r].on
        BY <1>8, <1>held DEF CommitLine, AddLine, EditLine, RemoveLine, RepriceLine, At
    <2>2. /\ req[r] # Idle /\ req[r].op \in DraftOnly /\ Finish(r) /\ invoice' = invoice
          /\ \A k \in Invoices \ {i} : lines'[k] = lines[k]
        BY <1>0, <1>8, <2>1
        DEF CommitLine, AddLine, EditLine, RemoveLine, RepriceLine, WriteLine, At, DraftOnly
    <2>3. invoice[i].status = "DRAFT"
        BY <1>0, <2>1, <2>2 DEF StillTrue
    <2>4. IssuedNeverDeleted' /\ LinesMatchSnapshot'
        BY <1>0, <1>rows, <2>2, <2>3 DEF IssuedNeverDeleted, LinesMatchSnapshot
    <2> QED
        BY <1>ends, <2>2, <2>4 DEF Checked
<1>9. ASSUME NEW r \in Requests, CommitPayment(r) \/ Abandon(r) PROVE Checked'
    <2>1. Finish(r) /\ UNCHANGED <<invoice, lines>>
        BY <1>9 DEF Abandon, CommitPayment, RecordPayment, VoidPayment, RecordProviderPayment,
                    WritePayment
    <2> QED
        BY <1>same, <1>ends, <2>1 DEF Checked
<1>10. ASSUME UNCHANGED <<invoice, lines, req>> PROVE Checked'
    BY <1>0, <1>10, <1>same DEF Checked, StillTrue
<1>11. ASSUME NEW p \in Intents, RefundCard(p) \/ \E i \in Invoices : OpenCheckout(p, i)
       PROVE  Checked'
    BY <1>10, <1>11 DEF RefundCard, OpenCheckout
<1>12. CASE UNCHANGED vars
    BY <1>10, <1>12 DEF vars
<1> QED
    BY <1>1, <1>2, <1>3, <1>4, <1>5, <1>6, <1>7, <1>8, <1>9, <1>11, <1>12
    DEF Next, CommitDocument

-----------------------------------------------------------------------------
(* Any number of requests, if none of them judges a draft before its lock:  *)
(* to issue, to void and to enter money is to check what is relied on once  *)
(* the lock is held.                                                        *)

UnderLocks == Handlers \cap DraftOnly = {}

LEMMA LockedStep ==
    ASSUME UnderLocks, Typed, Checked, [Next]_vars
    PROVE  Checked'
<1>0. /\ invoice \in [Invoices -> Row] /\ lines \in [Invoices -> Lines]
      /\ req \in [Requests -> Request \cup {Idle}]
      /\ \A r \in Requests : StillTrue(r)
      /\ IssuedNeverDeleted /\ LinesMatchSnapshot
    BY DEF Typed, TypeOK, Checked
<1>patch. "notes" \notin Handlers /\ "notes_save" \notin Handlers
    BY InvoicingAssumption DEF UnderLocks, DraftOnly, AllHandlers
<1>now. \A r \in Requests : req[r] # Idle => req[r].op \notin DraftOnly \cup {"notes_save"}
    BY <1>patch DEF UnderLocks, Typed, ReadsHold
<1>next. \A r \in Requests : req'[r] # Idle => req'[r].op \notin DraftOnly \cup {"notes_save"}
    <2>1. ReadsHold'
        BY TypedStep DEF Typed
    <2> QED
        BY <1>patch, <2>1 DEF UnderLocks, ReadsHold
<1>held. ASSUME NEW r \in Requests, req[r] # Idle PROVE req[r].on \in Invoices
    BY <1>0, <1>held DEF Request
\* What is still held is still true: nothing writes the lines it has seen.
<1>reqs. ASSUME \A r \in Requests : req'[r] \in {req[r], Idle},
                \A i \in Invoices : invoice[i].status # "NEW" =>
                    invoice'[i].status # "NEW" /\ lines'[i] = lines[i]
         PROVE  \A r \in Requests : StillTrue(r)'
    BY <1>0, <1>now, <1>held, <1>reqs DEF StillTrue
<1>rows. ASSUME \A i \in Invoices :
                   /\ invoice'[i].deleted => invoice'[i].status = "DRAFT"
                   /\ invoice'[i].status \in {"ISSUED", "VOID"} => invoice'[i].total = Total(lines'[i])
         PROVE  IssuedNeverDeleted' /\ LinesMatchSnapshot'
    BY <1>rows DEF IssuedNeverDeleted, LinesMatchSnapshot
<1>same. ASSUME UNCHANGED <<invoice, lines>>
         PROVE  IssuedNeverDeleted' /\ LinesMatchSnapshot'
    BY <1>0, <1>same DEF IssuedNeverDeleted, LinesMatchSnapshot
<1>1. ASSUME NEW i \in Invoices, NEW selected \in SUBSET Jobs, DraftInvoice(i, selected)
      PROVE  Checked'
    <2>1. /\ invoice[i].status = "NEW" /\ req' = req
          /\ invoice'[i].status = "DRAFT"
          /\ \A k \in Invoices \ {i} : invoice'[k] = invoice[k] /\ lines'[k] = lines[k]
        BY <1>0, <1>1 DEF DraftInvoice, Row
    <2>2. IssuedNeverDeleted' /\ LinesMatchSnapshot'
        BY <1>0, <1>rows, <2>1 DEF IssuedNeverDeleted, LinesMatchSnapshot
    <2>3. \A r \in Requests : StillTrue(r)'
        BY <1>reqs, <2>1
    <2> QED
        BY <2>2, <2>3 DEF Checked
<1>2. ASSUME NEW r \in Requests, Read(r) PROVE Checked'
    <2>1. PICK op, i, ls, p :
             /\ Reading(r, op, i, ls, p)
             /\ op = "issue" => i \in Invoices /\ invoice[i].status # "NEW" /\ ls = lines[i]
        BY <1>2 DEF Read, ReadInvoice, ReadPayment, ReadCardPayment, Visible
    <2>2. PICK q : q = [op |-> op, on |-> i, row |-> invoice[i], seen |-> ls, pay |-> p]
        OBVIOUS
    <2>3. /\ req' = [req EXCEPT ![r] = q] /\ UNCHANGED <<invoice, lines>>
          /\ q.op = op /\ q.on = i /\ q.seen = ls
        BY <2>1, <2>2 DEF Reading
    <2>4. StillTrue(r)'
        BY <1>0, <1>next, <2>1, <2>3 DEF StillTrue
    <2>5. \A o \in Requests \ {r} : StillTrue(o)'
        BY <1>0, <2>3 DEF StillTrue
    <2> QED
        BY <1>same, <2>3, <2>4, <2>5 DEF Checked
<1>3. ASSUME NEW r \in Requests, IssueInvoice(r) PROVE Checked'
    <2>1. PICK i \in Invoices : i = req[r].on
        BY <1>3, <1>held DEF IssueInvoice, At
    <2>2. /\ req[r] # Idle /\ req[r].op = "issue" /\ Finish(r) /\ Visible(i) /\ lines' = lines
          /\ invoice' = [invoice EXCEPT ![i].status = "ISSUED", ![i].number = NumberToIssue,
                                        ![i].total  = Total(req[r].seen)]
        BY <1>3, <2>1 DEF IssueInvoice, At
    <2>3. req[r].seen = lines[i] /\ ~invoice[i].deleted
        BY <1>0, <2>1, <2>2 DEF StillTrue, Visible
    <2>4. PICK total : total = Total(lines[i])
        OBVIOUS
    <2>5. /\ ~invoice'[i].deleted /\ invoice'[i].total = total /\ invoice'[i].status = "ISSUED"
          /\ \A k \in Invoices \ {i} : invoice'[k] = invoice[k]
        BY <1>0, <2>2, <2>3, <2>4 DEF Row
    <2>6. IssuedNeverDeleted' /\ LinesMatchSnapshot'
        BY <1>0, <1>rows, <2>2, <2>4, <2>5 DEF IssuedNeverDeleted, LinesMatchSnapshot
    <2>7. \A q \in Requests : StillTrue(q)'
        BY <1>0, <1>reqs, <2>2, <2>5 DEF Finish
    <2> QED
        BY <2>6, <2>7 DEF Checked
<1>4. ASSUME NEW r \in Requests, VoidInvoice(r) PROVE Checked'
    <2>1. PICK i \in Invoices : i = req[r].on
        BY <1>4, <1>held DEF VoidInvoice, At
    <2>2. /\ Finish(r) /\ Visible(i) /\ lines' = lines /\ invoice[i].status = "ISSUED"
          /\ invoice' = [invoice EXCEPT ![i].status = "VOID"]
        BY <1>4, <2>1 DEF VoidInvoice, LockedStatus
    <2>3. /\ ~invoice'[i].deleted /\ invoice'[i].total = invoice[i].total
          /\ invoice'[i].status = "VOID"
          /\ \A k \in Invoices \ {i} : invoice'[k] = invoice[k]
        BY <1>0, <2>2 DEF Row, Visible
    <2>4. IssuedNeverDeleted' /\ LinesMatchSnapshot'
        BY <1>0, <1>rows, <2>2, <2>3 DEF IssuedNeverDeleted, LinesMatchSnapshot
    <2>5. \A q \in Requests : StillTrue(q)'
        BY <1>0, <1>reqs, <2>2, <2>3 DEF Finish
    <2> QED
        BY <2>4, <2>5 DEF Checked
<1>5. ASSUME NEW r \in Requests
      PROVE  ~(DeleteInvoice(r) \/ ReloadForNotes(r) \/ SaveNotes(r) \/ CommitLine(r))
    BY <1>now DEF DeleteInvoice, ReloadForNotes, SaveNotes, CommitLine, AddLine, EditLine,
                  RemoveLine, RepriceLine, At, DraftOnly
<1>6. ASSUME NEW r \in Requests, CommitPayment(r) \/ Abandon(r) PROVE Checked'
    <2>1. Finish(r) /\ UNCHANGED <<invoice, lines>>
        BY <1>6 DEF Abandon, CommitPayment, RecordPayment, VoidPayment, RecordProviderPayment,
                    WritePayment
    <2>2. \A q \in Requests : StillTrue(q)'
        BY <1>0, <1>reqs, <2>1 DEF Finish
    <2> QED
        BY <1>same, <2>1, <2>2 DEF Checked
<1>7. ASSUME UNCHANGED <<invoice, lines, req>> PROVE Checked'
    BY <1>0, <1>7, <1>same DEF Checked, StillTrue
<1>8. ASSUME NEW p \in Intents, RefundCard(p) \/ \E i \in Invoices : OpenCheckout(p, i)
      PROVE  Checked'
    BY <1>7, <1>8 DEF RefundCard, OpenCheckout
<1>9. CASE UNCHANGED vars
    BY <1>7, <1>9 DEF vars
<1> QED
    BY <1>1, <1>2, <1>3, <1>4, <1>5, <1>6, <1>8, <1>9 DEF Next, CommitDocument

-----------------------------------------------------------------------------
\* Drafts are judged one at a time, or nobody judges one.
DraftsAlone == OneRequest \/ UnderLocks

LEMMA AlwaysChecked == ASSUME DraftsAlone PROVE Spec => []Checked
<1>1. Init => Checked
    BY DEF Init, Checked, StillTrue, IssuedNeverDeleted, LinesMatchSnapshot, NoRow
<1>2. Typed /\ Checked /\ [Next]_vars => Checked'
    BY CheckedStep, LockedStep DEF DraftsAlone
<1> QED
    BY <1>1, <1>2, AlwaysTyped, PTL DEF Spec

\* Nothing issued is ever deleted, with one request at a time and any handler,
\* or with any number of requests that only issue, void and enter money.
THEOREM IssuedIsNeverDeleted == ASSUME DraftsAlone PROVE Spec => []IssuedNeverDeleted
<1>1. Checked => IssuedNeverDeleted
    BY DEF Checked
<1> QED
    BY <1>1, AlwaysChecked, PTL

\* Under the same hypothesis, an issued or void invoice says what its lines
\* come to: the prefetched lines that issue totals are the lines on file.
THEOREM SnapshotIsItsLines == ASSUME DraftsAlone PROVE Spec => []LinesMatchSnapshot
<1>1. Checked => LinesMatchSnapshot
    BY DEF Checked
<1> QED
    BY <1>1, AlwaysChecked, PTL

-----------------------------------------------------------------------------
(* The rows keep the promise of InvoiceBook.                                *)

BookInv == Typed /\ Checked /\ VisitBilledOnce /\ NumbersInOrder /\ NumbersKeptApart

\* A PATCH alone in flight saves the row it loaded.
LEMMA AloneRevertsNothing ==
    ASSUME Typed, Checked
    PROVE  NothingReverted
<1> SUFFICES ASSUME NEW r \in Requests, SaveNotes(r) PROVE invoice' = invoice
    BY DEF NothingReverted
<1>1. /\ req[r] # Idle /\ req[r].op = "notes_save" /\ req[r].on \in Invoices
      /\ invoice' = [invoice EXCEPT ![req[r].on] = req[r].row]
    BY DEF SaveNotes, At, Typed, TypeOK, Request
<1>2. req[r].row = invoice[req[r].on] /\ invoice \in [Invoices -> Row]
    BY <1>1 DEF Checked, StillTrue, Typed, TypeOK
<1> QED
    BY <1>1, <1>2

LEMMA AlwaysBookInv == ASSUME DraftsAlone PROVE Spec => []BookInv
<1>1. Init => VisitBilledOnce /\ NumbersInOrder /\ NumbersKeptApart
    BY DEF Init, VisitBilledOnce, Live, Visible, NoRow, NumbersInOrder, NumbersDense, Unnumbered,
           NumbersKeptApart, NumberNamesOneInvoice, Holding
<1>2. /\ Typed /\ Checked /\ VisitBilledOnce /\ NumbersInOrder /\ NumbersKeptApart
      /\ [Next]_vars
      => VisitBilledOnce' /\ NumbersInOrder' /\ NumbersKeptApart'
    BY AloneRevertsNothing, BilledOnceStep, NumbersInOrderStep, NumbersStep
<1> QED
    BY <1>1, <1>2, AlwaysTyped, AlwaysChecked, PTL DEF Spec, BookInv

\* A visit held by one invoice at most is on that one, or on none.
LEMMA TheOneHolder ==
    ASSUME NEW S \in SUBSET Invoices, \A i, k \in S : i = k
    PROVE  /\ TheOne(S) \in Invoices \cup {NoInvoice}
           /\ \A i \in Invoices : TheOne(S) = i <=> i \in S
           /\ TheOne(S) = NoInvoice <=> S = {}
BY BookAssumption DEF TheOne

LEMMA VisitsAreOnTheirHolder ==
    ASSUME VisitBilledOnce, NEW j \in Jobs
    PROVE  /\ Holders(j) \in SUBSET Invoices
           /\ \A i, k \in Holders(j) : i = k
<1> USE DEF Holders, VisitBilledOnce
<1> HIDE DEF Live, Claims
<1> QED
    OBVIOUS

\* The register once one more invoice is numbered.
LEMMA RegisterGrows ==
    ASSUME BookInv, NEW i \in Invoices, Unnumbered(i), next_number' = next_number + 1,
           invoice'[i].number = next_number,
           \A k \in Invoices \ {i} : invoice'[k] = invoice[k]
    PROVE  Register' = Append(Register, i)
<1> DEFINE S == Invoices \cup {NoInvoice}
           After(n) == {k \in Invoices : invoice'[k].number = n}
<1>0. next_number \in Nat \ {0} /\ \A k \in Invoices : invoice[k].number \in Nat
    BY DEF BookInv, Typed, TypeOK, Row
<1>1. invoice[i].number = 0 /\ \A k \in Invoices : invoice[k].number < next_number
    BY DEF BookInv, NumbersInOrder, NumbersKeptApart
<1>2. \A n \in 1 .. next_number - 1 : After(n) = Numbered(n)
    BY <1>0, <1>1 DEF Numbered
<1>3. After(next_number) = {i}
    <2>1. \A k \in Invoices : invoice'[k].number = next_number <=> k = i
        BY <1>0, <1>1
    <2> QED
        BY <2>1
<1>4. TheOne({i}) = i
    BY DEF TheOne
<1>5. \A T \in SUBSET Invoices : TheOne(T) \in S
    BY DEF TheOne
<1>6. \A n : Numbered(n) \in SUBSET Invoices
    BY DEF Numbered
<1>7. Register \in [1 .. next_number - 1 -> S]
    BY <1>5, <1>6 DEF Register
<1>8. Register \in Seq(S) /\ Len(Register) = next_number - 1
    <2>1. next_number - 1 \in Nat
        BY <1>0
    <2>2. Register \in Seq(S)
        BY <1>7, <2>1, SeqDef
    <2>3. DOMAIN Register = 1 .. next_number - 1 /\ DOMAIN Register = 1 .. Len(Register)
          /\ Len(Register) \in Nat
        BY <1>7, <2>2, LenProperties
    <2> QED
        BY <2>1, <2>2, <2>3
<1> DEFINE longer == Append(Register, i)
<1>9. /\ longer \in Seq(S) /\ Len(longer) = next_number
      /\ \A n \in 1 .. next_number - 1 : longer[n] = Register[n]
      /\ longer[next_number] = i
    BY <1>0, <1>8, AppendProperties
<1>10. longer \in [1 .. next_number -> S]
    BY <1>9, LenProperties
<1> HIDE DEF longer, S
<1>11. Register' = [n \in 1 .. next_number |-> TheOne(After(n))]
    BY <1>0 DEF Register, Numbered, TheOne
<1> HIDE DEF After
<1>12. ASSUME NEW n \in 1 .. next_number PROVE TheOne(After(n)) = longer[n]
    <2>1. CASE n = next_number
        BY <1>3, <1>4, <1>9, <2>1
    <2>2. CASE n \in 1 .. next_number - 1
        <3>1. Register[n] = TheOne(Numbered(n))
            BY <2>2 DEF Register
        <3> QED
            BY <1>2, <1>9, <2>2, <3>1
    <2> QED
        BY <1>0, <1>12, <2>1, <2>2
<1>13. Register' = longer
    BY <1>10, <1>11, <1>12
<1> QED
    BY <1>13 DEF longer

\* A step that numbers nothing.
LEMMA RegisterStays ==
    ASSUME next_number' = next_number,
           \A i \in Invoices : invoice'[i].number = invoice[i].number
    PROVE  Register' = Register
<1>1. \A n : Numbered(n)' = Numbered(n)
    BY DEF Numbered
<1>2. Register' = [n \in 1 .. next_number' - 1 |-> TheOne(Numbered(n)')]
    BY DEF Register, Numbered, TheOne
<1> QED
    BY <1>1, <1>2 DEF Register

\* What is known of each visit, before and after a step.
LEMMA WhereVisitsAre ==
    ASSUME BookInv, NEW j \in Jobs
    PROVE  /\ BilledOn[j] \in Invoices \cup {NoInvoice}
           /\ \A i \in Invoices : BilledOn[j] = i <=> i \in Holders(j)
           /\ BilledOn[j] = NoInvoice <=> Holders(j) = {}
<1>1. BilledOn[j] = TheOne(Holders(j))
    BY DEF BilledOn
<1> QED
    BY <1>1, VisitsAreOnTheirHolder, TheOneHolder DEF BookInv

\* One invoice that gives its visits back.
LEMMA VisitsGivenBack ==
    ASSUME BookInv, NEW i \in Invoices, \A j \in Jobs : Holders(j)' = Holders(j) \ {i}
    PROVE  BilledOn' = Book!Released(i)
<1>1. ASSUME NEW j \in Jobs
      PROVE  TheOne(Holders(j)') = IF BilledOn[j] = i THEN NoInvoice ELSE BilledOn[j]
    <2>1. CASE i \in Holders(j)
        <3>1. Holders(j)' = {}
            BY <2>1, VisitsAreOnTheirHolder DEF BookInv
        <3> QED
            BY <2>1, <3>1, WhereVisitsAre DEF TheOne
    <2>2. CASE i \notin Holders(j)
        <3>1. Holders(j)' = Holders(j)
            BY <2>2
        <3>2. BilledOn[j] = TheOne(Holders(j)) /\ BilledOn[j] # i
            BY <2>2, WhereVisitsAre DEF BilledOn
        <3> QED
            BY <3>1, <3>2
    <2> QED
        BY <2>1, <2>2
<1>2. BilledOn' = [j \in Jobs |-> TheOne(Holders(j)')]
    BY DEF BilledOn, TheOne
<1> QED
    BY <1>1, <1>2 DEF Book!Released

\* A step that moves no invoice and no visit.
LEMMA BookStays ==
    ASSUME Standings' = Standings,
           \A j \in Jobs : Holders(j)' = Holders(j),
           Register' = Register
    PROVE  UNCHANGED Book!bookVars
<1>1. BilledOn' = [j \in Jobs |-> TheOne(Holders(j)')]
    BY DEF BilledOn, TheOne
<1>2. BilledOn' = BilledOn
    BY <1>1 DEF BilledOn
<1> QED
    BY <1>2 DEF Book!bookVars

\* One invoice that moves on.
LEMMA OneMoves ==
    ASSUME NEW i \in Invoices, \A k \in Invoices \ {i} : invoice'[k] = invoice[k]
    PROVE  Standings' = [Standings EXCEPT ![i] = StandingOf(invoice'[i])]
<1>1. Standings' = [k \in Invoices |-> StandingOf(invoice'[k])]
    BY DEF Standings, StandingOf
<1> QED
    BY <1>1 DEF Standings

LEMMA Standing ==
    ASSUME NEW row \in Row
    PROVE  /\ row.deleted => StandingOf(row) = "discarded"
           /\ ~row.deleted /\ row.status = "NEW" => StandingOf(row) = "none"
           /\ ~row.deleted /\ row.status = "DRAFT" => StandingOf(row) = "draft"
           /\ ~row.deleted /\ row.status = "ISSUED" => StandingOf(row) = "issued"
           /\ ~row.deleted /\ row.status = "VOID" => StandingOf(row) = "void"
BY DEF StandingOf, Row

\* A step that moves one invoice on and writes no line.
LEMMA HoldersOfTheMoved ==
    ASSUME lines' = lines, NEW i \in Invoices,
           \A k \in Invoices \ {i} : invoice'[k] = invoice[k],
           NEW j \in Jobs
    PROVE  /\ (Live(i)' <=> Live(i)) => Holders(j)' = Holders(j)
           /\ ~Live(i)' => Holders(j)' = Holders(j) \ {i}
<1>1. \A k \in Invoices : Claims(k)' = Claims(k)
    BY DEF Claims, Present
<1>2. \A k \in Invoices \ {i} : Live(k)' <=> Live(k)
    BY DEF Live, Visible
<1> HIDE DEF Live, Claims
<1> QED
    BY <1>1, <1>2 DEF Holders

LEMMA DraftIsDrafted ==
    ASSUME BookInv, NEW i \in Invoices, NEW selected \in SUBSET Jobs, DraftInvoice(i, selected)
    PROVE  Book!BookNext
<1>0. invoice \in [Invoices -> Row] /\ lines \in [Invoices -> Lines]
    BY DEF BookInv, Typed, TypeOK
<1>1. invoice[i].status = "NEW" /\ ~invoice[i].deleted
    BY <1>0 DEF DraftInvoice, BookInv, Checked, IssuedNeverDeleted
<1>2. /\ invoice'[i] = [invoice[i] EXCEPT !.status = "DRAFT"]
      /\ \A k \in Invoices \ {i} : invoice'[k] = invoice[k] /\ lines'[k] = lines[k]
      /\ next_number' = next_number
    BY <1>0 DEF DraftInvoice
<1>3. /\ invoice'[i] \in Row /\ invoice'[i].status = "DRAFT" /\ ~invoice'[i].deleted
      /\ invoice'[i].number = invoice[i].number
    BY <1>0, <1>1, <1>2 DEF Row, Status
<1>4. PICK visits \in SUBSET selected :
         /\ visits # {}
         /\ lines'[i] = [s \in Slots |-> IF s \in visits THEN Charge[s] ELSE NoLine]
    BY <1>0 DEF DraftInvoice
<1>5. Claims(i)' = visits
    <2>1. \A j \in Jobs : Charge[j] # NoLine /\ j \in Slots
        BY InvoicingAssumption, CentsAssumption DEF Slots
    <2> QED
        BY <1>4, <2>1 DEF Claims, Present
<1>6. ~Live(i) /\ Live(i)'
    BY <1>1, <1>3 DEF Live, Visible
<1>7. \A k \in Invoices \ {i} : (Live(k)' <=> Live(k)) /\ Claims(k)' = Claims(k)
    BY <1>2 DEF Live, Visible, Claims, Present
<1>8. ASSUME NEW j \in visits PROVE Holders(j) = {} /\ Holders(j)' = {i}
    <2>1. \A k \in Invoices : Live(k) => j \notin Claims(k)
        BY DEF DraftInvoice, Claimed
    <2> HIDE DEF Live, Claims
    <2> QED
        BY <1>5, <1>6, <1>7, <2>1 DEF Holders
<1>9. ASSUME NEW j \in Jobs \ visits PROVE Holders(j)' = Holders(j)
    <2> HIDE DEF Live, Claims
    <2> QED
        BY <1>5, <1>6, <1>7 DEF Holders
<1>10. Standings[i] = "none" /\ Standings' = [Standings EXCEPT ![i] = "draft"]
    <2>1. StandingOf(invoice[i]) = "none" /\ StandingOf(invoice'[i]) = "draft"
        BY <1>0, <1>1, <1>3, Standing
    <2> QED
        BY <1>2, <2>1, OneMoves DEF Standings
<1>11. \A j \in visits : BilledOn[j] = NoInvoice
    BY <1>8, WhereVisitsAre
<1>12. BilledOn' = [j \in Jobs |-> IF j \in visits THEN i ELSE BilledOn[j]]
    <2>1. BilledOn' = [j \in Jobs |-> TheOne(Holders(j)')]
        BY DEF BilledOn, TheOne
    <2>2. TheOne({i}) = i
        BY DEF TheOne
    <2>3. \A j \in Jobs : TheOne(Holders(j)') = IF j \in visits THEN i ELSE BilledOn[j]
        BY <1>8, <1>9, <2>2 DEF BilledOn
    <2> QED
        BY <2>1, <2>3
<1>13. Register' = Register
    BY <1>2, <1>3, RegisterStays
<1>14. Book!Draft(i, visits)
    BY <1>4, <1>10, <1>11, <1>12, <1>13 DEF Book!Draft
<1>15. visits \in SUBSET Jobs
    OBVIOUS
<1> QED
    BY <1>14, <1>15 DEF Book!BookNext

LEMMA IssueIsIssued ==
    ASSUME BookInv, NEW r \in Requests, IssueInvoice(r)
    PROVE  Book!BookNext
<1>0. invoice \in [Invoices -> Row] /\ next_number \in Nat
    BY DEF BookInv, Typed, TypeOK
<1>1. PICK i \in Invoices : i = req[r].on
    BY DEF IssueInvoice, At, BookInv, Typed, TypeOK, Request
<1>2. PICK total : total = Total(req[r].seen)
    OBVIOUS
<1>3. /\ invoice[i].status = "DRAFT" /\ ~invoice[i].deleted
      /\ next_number' = next_number + 1 /\ lines' = lines
      /\ invoice' = [invoice EXCEPT ![i].status = "ISSUED", ![i].number = next_number,
                                    ![i].total = total]
    BY <1>1, <1>2 DEF IssueInvoice, LockedStatus, Visible, NumberToIssue
<1>4. /\ invoice'[i].status = "ISSUED" /\ ~invoice'[i].deleted
      /\ invoice'[i].number = next_number
      /\ \A k \in Invoices \ {i} : invoice'[k] = invoice[k]
    BY <1>0, <1>3 DEF Row
<1>5. Standings[i] = "draft" /\ Standings' = [Standings EXCEPT ![i] = "issued"]
    <2>1. StandingOf(invoice[i]) = "draft" /\ StandingOf(invoice'[i]) = "issued"
        BY <1>3, <1>4 DEF StandingOf
    <2> QED
        BY <1>4, <2>1, OneMoves DEF Standings
<1>6. \A j \in Jobs : Holders(j)' = Holders(j)
    <2>1. Live(i)' <=> Live(i)
        BY <1>3, <1>4 DEF Live, Visible
    <2> QED
        BY <1>3, <1>4, <2>1, HoldersOfTheMoved
<1>7. BilledOn' = BilledOn
    <2>1. BilledOn' = [j \in Jobs |-> TheOne(Holders(j)')]
        BY DEF BilledOn, TheOne
    <2> QED
        BY <1>6, <2>1 DEF BilledOn
<1>8. Register' = Append(Register, i)
    <2>1. Unnumbered(i)
        BY <1>3 DEF Unnumbered
    <2> QED
        BY <1>3, <1>4, <2>1, RegisterGrows
<1>9. Book!Issue(i)
    BY <1>5, <1>7, <1>8 DEF Book!Issue
<1> QED
    BY <1>9 DEF Book!BookNext

LEMMA VoidIsVoided ==
    ASSUME BookInv, NEW r \in Requests, VoidInvoice(r)
    PROVE  Book!BookNext
<1>0. invoice \in [Invoices -> Row]
    BY DEF BookInv, Typed, TypeOK
<1>1. PICK i \in Invoices : i = req[r].on
    BY DEF VoidInvoice, At, BookInv, Typed, TypeOK, Request
<1>2. /\ invoice[i].status = "ISSUED" /\ ~invoice[i].deleted
      /\ next_number' = next_number /\ lines' = lines
      /\ invoice' = [invoice EXCEPT ![i].status = "VOID"]
    BY <1>1 DEF VoidInvoice, LockedStatus, Visible
<1>3. /\ invoice'[i].status = "VOID" /\ ~invoice'[i].deleted
      /\ invoice'[i].number = invoice[i].number
      /\ \A k \in Invoices \ {i} : invoice'[k] = invoice[k]
    BY <1>0, <1>2 DEF Row
<1>4. Standings[i] = "issued" /\ Standings' = [Standings EXCEPT ![i] = "void"]
    <2>1. StandingOf(invoice[i]) = "issued" /\ StandingOf(invoice'[i]) = "void"
        BY <1>2, <1>3 DEF StandingOf
    <2> QED
        BY <1>3, <2>1, OneMoves DEF Standings
<1>5. BilledOn' = Book!Released(i)
    <2>1. ~Live(i)'
        BY <1>3 DEF Live
    <2> QED
        BY <1>2, <1>3, <2>1, HoldersOfTheMoved, VisitsGivenBack
<1>6. Register' = Register
    BY <1>2, <1>3, RegisterStays
<1>7. Book!Void(i)
    BY <1>4, <1>5, <1>6 DEF Book!Void
<1> QED
    BY <1>7 DEF Book!BookNext

LEMMA DeleteIsDiscarded ==
    ASSUME BookInv, NEW r \in Requests, DeleteInvoice(r)
    PROVE  Book!BookNext \/ UNCHANGED Book!bookVars
<1>0. invoice \in [Invoices -> Row]
    BY DEF BookInv, Typed, TypeOK
<1>1. PICK i \in Invoices : i = req[r].on
    BY DEF DeleteInvoice, At, BookInv, Typed, TypeOK, Request
<1>2. /\ invoice[i].status = "DRAFT"
      /\ next_number' = next_number /\ lines' = lines
      /\ invoice' = [invoice EXCEPT ![i].deleted = TRUE]
    BY <1>1 DEF DeleteInvoice, At, BookInv, Checked, StillTrue, DraftOnly
<1>3. /\ invoice'[i].status = "DRAFT" /\ invoice'[i].deleted
      /\ invoice'[i].number = invoice[i].number
      /\ \A k \in Invoices \ {i} : invoice'[k] = invoice[k]
    BY <1>0, <1>2 DEF Row
<1>4. Standings' = [Standings EXCEPT ![i] = "discarded"]
    <2>1. StandingOf(invoice'[i]) = "discarded"
        BY <1>3 DEF StandingOf
    <2> QED
        BY <1>3, <2>1, OneMoves
<1>5. Register' = Register
    BY <1>2, <1>3, RegisterStays
<1>6. ~Live(i)'
    BY <1>3 DEF Live, Visible
<1>7. CASE invoice[i].deleted
    <2>1. Standings[i] = "discarded"
        BY <1>7 DEF Standings, StandingOf
    <2>2. Standings' = Standings
        BY <1>4, <2>1 DEF Standings
    <2>3. ~Live(i)
        BY <1>7 DEF Live, Visible
    <2> QED
        BY <1>2, <1>3, <1>5, <1>6, <2>2, <2>3, HoldersOfTheMoved, BookStays
<1>8. CASE ~invoice[i].deleted
    <2>1. Standings[i] = "draft"
        BY <1>2, <1>8 DEF Standings, StandingOf
    <2>2. BilledOn' = Book!Released(i)
        BY <1>2, <1>3, <1>6, HoldersOfTheMoved, VisitsGivenBack
    <2>3. Book!Discard(i)
        BY <1>4, <1>5, <2>1, <2>2 DEF Book!Discard
    <2> QED
        BY <2>3 DEF Book!BookNext
<1> QED
    BY <1>7, <1>8

\* A step that leaves every document as it is, and on each the visits it has.
LEMMA DocumentsStay ==
    ASSUME invoice' = invoice, next_number' = next_number,
           \A i \in Invoices : Live(i) => Claims(i)' = Claims(i)
    PROVE  UNCHANGED Book!bookVars
<1>1. \A i \in Invoices : Live(i)' <=> Live(i)
    BY DEF Live, Visible
<1>2. Standings' = Standings
    BY DEF Standings, StandingOf
<1>3. \A j \in Jobs : Holders(j)' = Holders(j)
    <2> HIDE DEF Live, Claims
    <2> QED
        BY <1>1 DEF Holders
<1>4. Register' = Register
    BY RegisterStays
<1> QED
    BY <1>2, <1>3, <1>4, BookStays

LEMMA LineIsStruck ==
    ASSUME BookInv, NEW r \in Requests, CommitLine(r)
    PROVE  Book!BookNext \/ UNCHANGED Book!bookVars
<1>0. lines \in [Invoices -> Lines] /\ invoice' = invoice /\ next_number' = next_number
    BY DocumentsAlone DEF BookInv, Typed, TypeOK
<1>1. PICK i \in Invoices : i = req[r].on
    BY DEF CommitLine, AddLine, EditLine, RemoveLine, RepriceLine, At, BookInv, Typed, TypeOK,
           Request
<1>2. ASSUME NEW s \in Slots, NEW a \in Int \cup {NoLine}, WriteLine(r, s, a)
      PROVE  /\ \A k \in Invoices \ {i} : Claims(k)' = Claims(k)
             /\ a = NoLine => Claims(i)' = Claims(i) \ {s}
             /\ a # NoLine => Claims(i)' = Claims(i) \cup ({s} \cap Jobs)
    <2>1. /\ \A k \in Invoices \ {i} : lines'[k] = lines[k]
          /\ lines'[i] = [lines[i] EXCEPT ![s] = a]
        BY <1>0, <1>1, <1>2 DEF WriteLine
    <2> QED
        BY <1>0, <2>1 DEF Claims, Present, Lines
<1>3. Adjustment \in Slots /\ Adjustment \notin Jobs /\ Jobs \subseteq Slots
      /\ Discounts \subseteq Int /\ Repriced \subseteq Int /\ NoLine \notin Int
    BY InvoicingAssumption, CentsAssumption DEF Slots
<1>4. ASSUME NEW a \in Discounts, AddLine(r, a) \/ EditLine(r, a)
      PROVE  UNCHANGED Book!bookVars
    <2>1. WriteLine(r, Adjustment, a)
        BY <1>4 DEF AddLine, EditLine
    <2> QED
        BY <1>0, <1>2, <1>3, <2>1, DocumentsStay
<1>5. ASSUME NEW j \in Jobs, NEW a \in Repriced, RepriceLine(r, j, a)
      PROVE  UNCHANGED Book!bookVars
    <2>1. WriteLine(r, j, a) /\ j \in Claims(i)
        BY <1>1, <1>5 DEF RepriceLine, Claims
    <2> QED
        BY <1>0, <1>2, <1>3, <2>1, DocumentsStay
<1>6. ASSUME NEW s \in Slots, RemoveLine(r, s)
      PROVE  Book!BookNext \/ UNCHANGED Book!bookVars
    <2>1. /\ \A k \in Invoices \ {i} : Claims(k)' = Claims(k)
          /\ Claims(i)' = Claims(i) \ {s}
        BY <1>2, <1>6 DEF RemoveLine
    <2>2. CASE ~Live(i) \/ s \notin Claims(i)
        BY <1>0, <2>1, <2>2, DocumentsStay
    <2>3. CASE Live(i) /\ s \in Claims(i)
        <3>1. s \in Jobs /\ i \in Holders(s)
            BY <2>3 DEF Holders, Claims
        <3>2. Holders(s) = {i}
            BY <3>1, VisitsAreOnTheirHolder DEF BookInv
        <3>3. \A k \in Invoices : Live(k)' <=> Live(k)
            BY <1>0 DEF Live, Visible
        <3>4. Holders(s)' = {} /\ \A j \in Jobs \ {s} : Holders(j)' = Holders(j)
            <4> HIDE DEF Live, Claims
            <4> QED
                BY <2>1, <3>2, <3>3 DEF Holders
        <3>5. BilledOn' = [BilledOn EXCEPT ![s] = NoInvoice]
            <4>1. BilledOn' = [j \in Jobs |-> TheOne(Holders(j)')]
                BY DEF BilledOn, TheOne
            <4>2. TheOne({}) = NoInvoice
                BY DEF TheOne
            <4> QED
                BY <3>1, <3>4, <4>1, <4>2 DEF BilledOn
        <3>6. BilledOn[s] = i
            BY <3>1, WhereVisitsAre
        <3>7. Standings[i] = "draft"
            <4>1. invoice[i].status = "DRAFT"
                BY <1>1, <1>6 DEF RemoveLine, At, BookInv, Checked, StillTrue, DraftOnly
            <4> QED
                BY <2>3, <4>1 DEF Standings, StandingOf, Live, Visible
        <3>8. Standings' = Standings
            BY <1>0 DEF Standings, StandingOf
        <3>9. Register' = Register
            BY <1>0, RegisterStays
        <3>10. Book!Strike(i, s)
            BY <3>5, <3>6, <3>7, <3>8, <3>9 DEF Book!Strike
        <3> QED
            BY <3>1, <3>10 DEF Book!BookNext
    <2> QED
        BY <2>2, <2>3
<1> QED
    BY <1>4, <1>5, <1>6 DEF CommitLine

LEMMA BookStep ==
    ASSUME BookInv, [Next]_vars
    PROVE  [Book!BookNext]_(Book!bookVars)
<1>1. CASE UNCHANGED <<invoice, lines, next_number>>
    <2>1. \A i \in Invoices : Claims(i)' = Claims(i)
        BY <1>1 DEF Claims, Present
    <2> QED
        BY <1>1, <2>1, DocumentsStay
<1>2. ASSUME NEW r \in Requests, ReloadForNotes(r) \/ SaveNotes(r)
      PROVE  UNCHANGED <<invoice, lines, next_number>>
    <2>1. NothingReverted
        BY AloneRevertsNothing DEF BookInv
    <2> QED
        BY <1>2, <2>1, PatchesAlone
<1>3. ASSUME NEW r \in Requests, Read(r) \/ CommitPayment(r) \/ Abandon(r)
      PROVE  UNCHANGED <<invoice, lines, next_number>>
    BY <1>3 DEF Read, ReadInvoice, ReadPayment, ReadCardPayment, Reading, Abandon,
                CommitPayment, RecordPayment, VoidPayment, RecordProviderPayment, WritePayment
<1>4. ASSUME NEW p \in Intents, RefundCard(p) \/ \E i \in Invoices : OpenCheckout(p, i)
      PROVE  UNCHANGED <<invoice, lines, next_number>>
    BY <1>4 DEF RefundCard, OpenCheckout
<1>5. CASE UNCHANGED vars
    BY <1>1, <1>5 DEF vars
<1> QED
    BY <1>1, <1>2, <1>3, <1>4, <1>5, DraftIsDrafted, IssueIsIssued, VoidIsVoided,
       DeleteIsDiscarded, LineIsStruck
    DEF Next, CommitDocument

LEMMA BookOpens == Init => Book!BookInit
<1> SUFFICES ASSUME Init PROVE Book!BookInit
    OBVIOUS
<1>1. Standings = [i \in Invoices |-> "none"]
    BY DEF Init, NoRow, Standings, StandingOf
<1>2. \A j \in Jobs : Holders(j) = {}
    BY DEF Init, NoRow, Holders, Live, Visible
<1>3. BilledOn = [j \in Jobs |-> NoInvoice]
    BY <1>2 DEF BilledOn, TheOne
<1>4. Register = <<>>
    BY DEF Init, Register
<1> QED
    BY <1>1, <1>3, <1>4 DEF Book!BookInit

\* The service does nothing that the book does not allow: a visit is billed
\* once, a draft is struck, discarded or issued, and an issued invoice can only
\* be voided.  So it is for one request at a time, and for any number of them
\* that draft, issue, void and enter money.
THEOREM BookIsKept == ASSUME DraftsAlone PROVE Spec => KeepsTheBook
<1>1. BookInv /\ [Next]_vars => [Book!BookNext]_(Book!bookVars)
    BY BookStep
<1> QED
    BY <1>1, BookOpens, AlwaysBookInv, PTL DEF Spec, KeepsTheBook, Book!BookSpec
=============================================================================
