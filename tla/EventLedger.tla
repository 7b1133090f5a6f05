----------------------------- MODULE EventLedger -----------------------------
(***************************************************************************)
(* What Stripe tells a tenant, and what the ledger makes of it:            *)
(* billing/webhook.py and the Celery task of billing/tasks.py, for the     *)
(* events of one PaymentIntent.  The handlers of different PaymentIntents  *)
(* touch no common row.                                                    *)
(*                                                                         *)
(* Stripe delivers an event at least once, in any order, and an operator   *)
(* may press Resend at any time.  A task is acknowledged after it ran, so  *)
(* a worker that dies gives it back, unless the broker forgets it.  Each   *)
(* handler runs at READ COMMITTED and locks nothing: it reads the live     *)
(* payments in one step and commits in a later one.                        *)
(***************************************************************************)
EXTENDS Integers, FiniteSets

CONSTANTS
    Charged,     \* what the customer's card was charged, in cents
    Events,      \* the events Stripe sends of it
    Workers,     \* Celery's worker processes
    MaxTries,    \* retries of a task: 3
    MaxFaults,   \* bound on the workers, handlers and messages that fail
    Free

Paid      == [kind |-> "paid", refunded |-> 0]       \* checkout.session.completed
Settling  == [kind |-> "settling", refunded |-> 0]   \* the same, not yet "paid"
Lost      == [kind |-> "lost", refunded |-> 0]       \* charge.dispute.closed, lost
Unhandled == [kind |-> "unhandled", refunded |-> 0]  \* a type with no handler
Refund(n) == [kind |-> "refund", refunded |-> n]     \* charge.refunded, cumulative

\* References of payments: 0 for pi_x itself, n for pi_x:refunded-n.
References == 0 .. Charged

VARIABLES
    event,     \* the StripeEvent rows: status, whether an organization owns it, age
    payment,   \* the Payment row under each reference
    queue,     \* messages for process_stripe_event; two alike count as one
    work,      \* what each worker is doing
    sweeping,  \* the rows the sweep under way has read and not dealt with
    faults

vars == <<event, payment, queue, work, sweeping, faults>>

-----------------------------------------------------------------------------
Ages == {"fresh", "stale", "old"}   \* under ten minutes, under an hour, over
Row  == [status : {"ABSENT", "RECEIVED", "PROCESSED", "FAILED", "IGNORED"},
         owned : BOOLEAN, age : Ages]
Message == [of : Events, tries : 0 .. MaxTries]
Job     == [task : Message, step : {"taken", "begun", "loaded", "applied"},
            saw : SUBSET References]

ASSUME LedgerAssumption ==
    /\ Charged \in Nat \ {0}
    /\ Events \subseteq {Paid, Settling, Lost, Unhandled} \cup {Refund(n) : n \in 1 .. Charged}
    /\ MaxTries \in Nat /\ MaxFaults \in Nat
    /\ Free \notin Job

Live == {k \in References : payment[k] = "live"}

ToDo(e)  == event[e].status \in {"RECEIVED", "FAILED"}

Enqueued(e) == queue \cup {[of |-> e, tries |-> 0]}

Finish(e, status) == event' = [event EXCEPT ![e].status = status]

\* A fault happens: nothing else is said about what the code then does.
Fault == faults < MaxFaults /\ faults' = faults + 1

-----------------------------------------------------------------------------
\* receive and _redeliver.  A delivery at the wrong endpoint finds no owner.

ReceiveNew(e, owned) ==
    LET status == IF owned /\ e # Unhandled THEN "RECEIVED" ELSE "IGNORED"
    IN  /\ event[e].status = "ABSENT"
        /\ event' = [event EXCEPT ![e] = [status |-> status, owned |-> owned, age |-> "fresh"]]
        /\ queue' = IF status = "RECEIVED" THEN Enqueued(e) ELSE queue
        /\ UNCHANGED <<payment, work, sweeping, faults>>

\* The row commits, and the process dies before it reaches the broker.
ReceiveUnsent(e) ==
    /\ event[e].status = "ABSENT"
    /\ e # Unhandled
    /\ Fault
    /\ event' = [event EXCEPT ![e] = [status |-> "RECEIVED", owned |-> TRUE, age |-> "fresh"]]
    /\ UNCHANGED <<payment, queue, work, sweeping>>

\* The right endpoint takes over a row the other one ledgered unowned.
TakeOver(e) ==
    /\ event[e].status = "IGNORED"
    /\ ~event[e].owned
    /\ e # Unhandled
    /\ event' = [event EXCEPT ![e].status = "RECEIVED", ![e].owned = TRUE]
    /\ queue' = Enqueued(e)
    /\ UNCHANGED <<payment, work, sweeping, faults>>

Redeliver(e) ==
    /\ event[e].owned
    /\ ToDo(e)
    /\ queue' = Enqueued(e)
    /\ UNCHANGED <<event, payment, work, sweeping, faults>>

-----------------------------------------------------------------------------
\* process, in a worker.

Working(w, step) == work[w] # Free /\ work[w].step = step
Of(w)            == work[w].task.of

Take(w, m) ==
    /\ work[w] = Free
    /\ m \in queue
    /\ queue' = queue \ {m}
    /\ work' = [work EXCEPT ![w] = [task |-> m, step |-> "taken", saw |-> {}]]
    /\ UNCHANGED <<event, payment, sweeping, faults>>

\* The row's status, read without a lock; anything else is a replay.
Begin(w) ==
    /\ Working(w, "taken")
    /\ work' = IF ToDo(Of(w)) THEN [work EXCEPT ![w].step = "begun"]
                              ELSE [work EXCEPT ![w] = Free]
    /\ UNCHANGED <<event, payment, queue, sweeping, faults>>

\* _stripe_payments_for, read without a lock.
Load(w) ==
    /\ Working(w, "begun")
    /\ work' = [work EXCEPT ![w].step = "loaded", ![w].saw = Live]
    /\ UNCHANGED <<event, payment, queue, sweeping, faults>>

Voided(pay, saw) == [k \in References |-> IF k \in saw THEN "void" ELSE pay[k]]

\* record_provider_payment: idempotent on the reference, live or void.
RecordedIfNotLive(pay, k) == [pay EXCEPT ![k] = "live"]
Recorded(pay, k) == IF pay[k] = "none" THEN [pay EXCEPT ![k] = "live"] ELSE pay

\* charge_refunded: nothing to reverse, or no more than is applied already --
\* otherwise the live rows are voided, and what is left is a row of its own.
AfterRefund(n, saw) ==
    IF n < Charged THEN Recorded(Voided(payment, saw), n) ELSE Voided(payment, saw)
RefundedWhateverIsApplied(n, saw) == saw # {}
Refunded(n, saw) == saw # {} /\ \A k \in saw : n > k

\* A checkout that is still settling has paid nothing, and nothing is written.
Applied(e, saw) ==
    CASE e.kind = "paid" -> Recorded(payment, 0)
      [] e.kind = "lost" -> Voided(payment, saw)
      [] e.kind = "refund" /\ Refunded(e.refunded, saw) -> AfterRefund(e.refunded, saw)
      [] OTHER -> payment

\* The handler and the PROCESSED mark share a transaction.
Commit(w) ==
    /\ Working(w, "loaded")
    /\ payment' = Applied(Of(w), work[w].saw)
    /\ Finish(Of(w), "PROCESSED")
    /\ work' = [work EXCEPT ![w].step = "applied"]
    /\ UNCHANGED <<queue, sweeping, faults>>

\* The acknowledgement, after the task ran.
Acknowledge(w) ==
    /\ Working(w, "applied")
    /\ work' = [work EXCEPT ![w] = Free]
    /\ UNCHANGED <<event, payment, queue, sweeping, faults>>

\* The handler raises: its writes are rolled back, FAILED is written outside
\* the transaction whatever the row now says, and the task is retried.
RetriesLeftOrLast(m) == m.tries <= MaxTries
RetriesLeft(m) == m.tries < MaxTries
MarkAlways  == "PROCESSED"
MarkOnError == "FAILED"
Fail(w) ==
    LET m == work[w].task
    IN  /\ Working(w, "begun") \/ Working(w, "loaded")
        /\ Fault
        /\ Finish(m.of, MarkOnError)
        /\ queue' = IF RetriesLeft(m)
                    THEN queue \cup {[m EXCEPT !.tries = m.tries + 1]} ELSE queue
        /\ work' = [work EXCEPT ![w] = Free]
        /\ UNCHANGED <<payment, sweeping>>

\* The process dies and the message goes back on the queue, or the machine
\* goes and the broker forgets it.
Die(w) ==
    /\ work[w] # Free
    /\ Fault
    /\ queue' \in {queue, queue \cup {work[w].task}}
    /\ work' = [work EXCEPT ![w] = Free]
    /\ UNCHANGED <<event, payment, sweeping>>

-----------------------------------------------------------------------------
\* sweep, from beat: one query, then row by row on what it returned.

StaleYetYoung(e) == event[e].status = "RECEIVED" /\ event[e].owned /\ event[e].age = "stale"
Stale(e) == event[e].status = "RECEIVED" /\ event[e].owned /\ event[e].age # "fresh"

Sweep ==
    /\ sweeping = {}
    /\ \E e \in Events : Stale(e)
    /\ sweeping' = {[of |-> e, age |-> event[e].age] : e \in {x \in Events : Stale(x)}}
    /\ UNCHANGED <<event, payment, queue, work, faults>>

SweepRow(s) ==
    /\ s \in sweeping
    /\ IF s.age = "old" THEN Finish(s.of, "FAILED") /\ UNCHANGED queue
                        ELSE queue' = Enqueued(s.of) /\ UNCHANGED event
    /\ sweeping' = sweeping \ {s}
    /\ UNCHANGED <<payment, work, faults>>

SweepDies ==
    /\ sweeping # {}
    /\ Fault
    /\ sweeping' = {}
    /\ UNCHANGED <<event, payment, queue, work>>

GrowOld(e) ==
    /\ event[e].status # "ABSENT"
    /\ \/ event[e].age = "fresh" /\ event' = [event EXCEPT ![e].age = "stale"]
       \/ event[e].age = "stale" /\ event' = [event EXCEPT ![e].age = "old"]
    /\ UNCHANGED <<payment, queue, work, sweeping, faults>>

-----------------------------------------------------------------------------
Init ==
    /\ event = [e \in Events |-> [status |-> "ABSENT", owned |-> FALSE, age |-> "fresh"]]
    /\ payment = [k \in References |-> "none"]
    /\ queue = {}
    /\ work = [w \in Workers |-> Free]
    /\ sweeping = {}
    /\ faults = 0

Receive(e) == (\E owned \in BOOLEAN : ReceiveNew(e, owned)) \/ ReceiveUnsent(e)
              \/ TakeOver(e) \/ Redeliver(e)

Process(w) == Begin(w) \/ Load(w) \/ Commit(w) \/ Acknowledge(w)

Next ==
    \/ \E e \in Events : Receive(e) \/ GrowOld(e)
    \/ \E w \in Workers : Process(w) \/ Fail(w) \/ Die(w) \/ \E m \in Message : Take(w, m)
    \/ Sweep \/ SweepDies
    \/ \E s \in [of : Events, age : Ages] : SweepRow(s)

Spec == Init /\ [][Next]_vars

\* Time passes and beat runs the sweep to its end.  Of the workers nothing is
\* asked: an event no worker ever takes must still come to somebody's notice.
Fairness ==
    /\ \A e \in Events : WF_vars(GrowOld(e))
    /\ WF_vars(Sweep)
    /\ \A s \in [of : Events, age : Ages] : WF_vars(SweepRow(s))

FairSpec == Spec /\ Fairness

-----------------------------------------------------------------------------
\* Every row holds what its columns can hold.
TypeOK ==
    /\ event \in [Events -> Row]
    /\ payment \in [References -> {"none", "live", "void"}]
    /\ queue \subseteq Message
    /\ work \in [Workers -> Job \cup {Free}]
    /\ sweeping \subseteq [of : Events, age : Ages]
    /\ faults \in 0 .. MaxFaults

\* process: the handler and the PROCESSED mark share a transaction, so a
\* checkout event marked PROCESSED has written its payment, however often it
\* failed, was given back or was delivered again before.
PaidMeansRecorded == Paid \in Events /\ event[Paid].status = "PROCESSED" => payment[0] # "none"

\* record_provider_payment returns a void row as it is: no replay, by any
\* number of workers, brings back money that was refunded or lost.
VoidIsForever ==
    [][\A k \in References : payment[k] = "void" => payment'[k] = "void"]_payment

\* charge_refunded: what counts is the latest refund applied, in whatever
\* order and however often Stripe tells of them.
LatestRefundStands ==
    \A k \in Live : \A n \in References : payment[n] # "none" => n <= k

\* charge_refunded: a straggler must not "put money back on the invoice that
\* has already left".
Held == {c \in Live \X (1 .. Charged) : c[2] <= Charged - c[1]}
MoneyNeverReturns ==
    [][payment[0] # "none" => Cardinality(Held') <= Cardinality(Held)]_payment

\* ADR-024, the ledger as the queue of record: an event an organization owns
\* is applied, or ends in the queue of a person.
EventsResolve ==
    \A e \in Events : event[e].status = "RECEIVED" ~> event[e].status \in {"PROCESSED", "FAILED"}
=============================================================================
