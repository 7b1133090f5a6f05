# A verification of pink glove's core

pink glove is a back office for cleaning companies: customers, a schedule of
recurring visits, invoices and payments, several companies (tenants) in one
database. This directory holds TLA+ models of the parts where a mistake costs
somebody money or a visit, the TLC configurations that check them on small
instances, and proofs, checked by TLAPS, that the most important properties
hold for every size.

Paths below are relative to `src/app/`. The map in `PROJECT.json` names, for
every definition, the lines it stands for.

## The system

The API is Django REST Framework over PostgreSQL at READ COMMITTED. Requests
are **not** wrapped in a transaction (`ATOMIC_REQUESTS` is off): a viewset
loads a row in one statement, outside any transaction, and a service opens its
own transaction later. Gunicorn runs two processes of two threads. Celery runs
two worker processes and one beat; the broker is Redis. So every handler races
every other one, and the question at each line is *which read does this write
rely on, and does a lock cover both?*

| Component | State | Operations | What makes it hard | What makes it correct |
|---|---|---|---|---|
| Invoices, lines, ledger (`billing/services.py`, `views.py`, `models.py`) | invoice, line, payment and sequence rows | draft, issue, void, discard, edit notes, lines, record and void payments | checks made on rows loaded before the lock | a visit is billed once; numbers are dense and unique; issued is frozen; money never rests on a void document |
| Stripe event ledger (`billing/webhook.py`, `tasks.py`) | one row per event, the tasks, the payments it writes | receive, redeliver, process, retry, sweep | duplicates, reordering, crashes, lost messages, two workers | applied once in effect; refunds never come back; nothing is forgotten |
| Recurring plans and jobs (`scheduling/`) | plan, jobs, assignments, time entries | create and edit a plan, materialize, regenerate, reschedule, status, clock, assign, delete | two-step regeneration, a daily task beside people | one visit per occurrence; work and touched visits are kept; the horizon is filled |
| Connect and Checkout (`billing/connect.py`) | account columns, Stripe's sessions | onboard, re-read the account, open a page to pay | the page outlives the balance it charges | the account columns end up Stripe's |
| Platform subscription and coverage (`billing/subscription.py`, `organizations/services.py`) | subscription columns, `is_active`, the stamp of a deactivation for billing | subscribe, re-read, adopt an id, apply coverage, daily pass, settings PATCH, admin's form | three steps: load, ask Stripe, save; webhooks late and out of order | a tenant that paid is active, one a person switched off stays off, the id on file is the live one |
| Sign-in (`users/`, `two_factor/`) | magic links, codes, attempt counts, devices, sessions | request and redeem a link, password, challenge, resend, verify, log in and out | parallel requests on one token; sessions replaced under a request | a token opens one session; guesses are limited; the office always clears a code |
| Access reveals (`audit/`, `customers/views.py`) | reveal rows, verdicts, reviews | reveal, evaluate, re-run, review | two reviewers; an hourly task over a schedule that moves | a review is final, a verdict is that of the finished day, every reveal gets one |
| Catalogue and quoting (`catalog/`) | services and prices | quote | decimals | arithmetic |
| Customers, organizations | one row each | create, read, update, delete | settings and billing columns share a row | parts of coverage and of reveals |
| Tenancy and soft delete (`base/`, `app/middleware/`) | `deleted_at`, the tenant of a request | filter, delete | the default manager hides rows, the constraint does not | parts of the other components |
| Web interface (`src/ui`) | a session store | draws what the server publishes | – | – |

They interact like this. A finished job (`scheduling`) becomes a line of an
invoice (`billing`). Checkout (`connect`) opens a page at Stripe for an
invoice's balance; Stripe answers with events (`webhook`), which write
payments through the same services as people do. Platform events feed the
subscription columns, which `apply_coverage` turns into `is_active`, which the
permission classes read on every request. A job's crew (`scheduling`) decides
whether a cleaner may reveal an access code, and its window how the reveal is
judged (`audit`). Beat runs `materialize`, `sweep`, `enforce` and `evaluate` for
every tenant.

## The modules

### `Cents`
Sums of money over a finite set, counted cent by cent so that the library's
theorems on cardinality speak of them. `InvoicingProofs` begins with the lemmas on
adding, dropping and keeping a summand.

### `Invoicing`
One customer's finished visits, their invoices, lines, numbers and payments.

| Variable | Code |
|---|---|
| `invoice` | `Invoice`: status, `deleted_at`, number, `total_cents` |
| `lines` | the live `InvoiceLine` rows: one per visit, one adjustment |
| `next_number` | `InvoiceSequence.next_number` |
| `payment` | `Payment`, by hand or under a PaymentIntent's reference |
| `session` | Checkout pages open at Stripe |
| `req` | what each request in flight has read |

Every handler but `draft_invoice` is two steps. `ReadInvoice`, `ReadPayment` and
`ReadCardPayment` are `get_object()` with the check made on the instance: the
row, and for `issue` and the line handlers the prefetched lines, are kept in
`req`. The second step is the service's transaction: it re-reads what the code
re-reads under its row lock (`LockedStatus`, `next_number`, `Balance`,
`LivePayments`) and takes the rest from `req`. It is one step because the locks
it holds make it so. `Abandon` is a refusal or a dying process. A PATCH of notes
takes three steps, because `update()` loads the row twice and saves all of it
(`ReloadForNotes`, `SaveNotes`). `draft_invoice` locks the visits before it reads
the claim, so it is one step. `RefundCard` is a refund, of all or of part, or a lost dispute as the
ledger sees it; how it gets there is `EventLedger`. There each partial refund writes a row
under a reference of its own; here an intent has one row, the live one, and a partial
refund lowers its amount. `Taxed` are the lines whose `is_taxable` is set.

### `InvoiceBook`
What billing promises, with no requests, locks or amounts: a visit is on one
live invoice, a draft is a working paper, a number is spent once and in order,
an issued invoice can only be voided and gives its visits back.
`InvoicingRefinement` maps `Invoicing` to it: the standing of an invoice from status and
`deleted_at`, `billedOn` from the live lines, the register from the numbers.

### `EventLedger`
The events of one PaymentIntent. `event` is the `StripeEvent` row, `payment`
the live or void row under each reference (`pi_x` is 0, `pi_x:refunded-n` is
n), `queue` the messages, `work` what each worker process is doing, `sweeping`
the rows a sweep has read and not dealt with. `process` is taken apart into the
points where another process can come between: the status read (`Begin`), the
live payments read (`Load`), the transaction (`Commit`), the acknowledgement
(`Acknowledge`). `Fail` is a handler that raises, `Die` a process that dies and
gives its message back, or does not; `ReceiveUnsent` a row committed and never
queued; `SweepDies` a sweep that stops half way.

### `ChargeAccount`
What the ledger promises of one charge: once it is on the books, what is kept of it
is what the worst loss heard of since then leaves, in whatever order and however
often each is told. `EventLedgerRefinement` maps `EventLedger` to it: `Kept` is what the
live payment leaves, and `heard`, a history variable, the refunds and disputes whose
handler has committed since the payment was recorded (`HeardSpec`).

### `Schedule`
One plan and the jobs of its customer. `plan`, `job`, `clock` (each person's time
entries on each job), `crew` (live assignments), `req` (requests in flight) and
`today`. An occurrence is the day it is planned for; a job keeps it in
`occurrence` wherever it is moved (`start`). A regeneration is three steps, as in
the code at READ COMMITTED: read the untouched jobs (`FindUntouched`), soft-delete
them and look the existing occurrences up (`FindMissing`), insert, assign the
crew and commit (`Build`, or `Refuse` when the foreign key does). Between the
delete and the commit the rows are locked (`Unlocked`). The edit of a plan is a
save and a refresh (`SavePlan`, `RefreshPlan`), each a transaction of its own,
before any of it. Job actions judge the row they loaded.

### `Coverage`
One tenant and its own subscription to pink glove.

| Variable | Code |
|---|---|
| `organization` | the columns of `Organization` that billing reads or writes |
| `stripe` | what Stripe holds under each subscription id, in the order they are started |
| `now` | the day; a period, the grace and the trial are counted in days |
| `req` | each handler in flight: the instance it loaded and how far it is |

`stripe` is external: `Subscribe`, `Renew`, `CollectLate` and `Cancel` are what the
owner and the card do there, and `NextDay` waits for Stripe to renew what ends
today. The repository's side is `StartCheckout`, which is one step because it
locks the row before it reads it, and five handlers in three steps each: `Load...`
takes the row as it is, `AskStripe` reads the subscription and mirrors it on the
instance in memory, and `SaveAnswer`, `SaveCoverage`, `CommitEvent` or `SaveRow` write
it, each the columns its `update_fields` names, `SaveRow` all of them. A webhook
saves its three changes in one transaction; if it adopts an id it holds the row's
lock from there (`Unlocked`). The daily task goes on with what is on file when
Stripe does not answer (`DoWithout`). `Covering` is `apply_coverage`, which decides
on the instance in memory and writes two columns over whatever the row says
(`ApplyCoverage`). `Alone` lists the handlers that run with nothing else in flight:
it is how a run says which races it leaves out.

### `SignIn`
Browsers, users and what a session needs. `code`, `link`, `device` and `account` are
rows; `session` is what the cookie of each browser names; `req` is a request and
the session it loaded. Each conditional UPDATE is a step (`ClaimLink`, `CountGuess`,
`RightGuess`), and so is what comes between: the read that found the token good
(`LoadLink`, `LoadCode`), the role asked again (`AdmitCustomer`), the comparison
(`WrongGuess`, `Failed`: the count is read back after it is raised, so another's
guess can make this one look the last), the save of the session with the response
(`SavePending`, `DropPending`, `Login`). A session is saved whole, as its request
loaded and changed it (`SaveSession`): over what others saved to the same row since;
to nothing, if the row is gone; under a new key, if the browser had none, and then the
browser keeps whichever of two it is told of last (`Displaces`). `Login` flushes the
session of another user and cycles an anonymous one, and what other requests had loaded
of it then carries the key `Lost`; one's own session keeps its row and key, and a request
whose own was lost opens nothing. A cycled session keeps its number among `Keys`, since
nobody can use the old key any more. `judged`, `entered` and `sent_to` are history
variables: guesses compared with a code, sessions a token opened, the browser a code
was sent for.

### `FrontDoor`
What signing in promises, with no requests, cookies or clocks: a token is sent to one
user, is spent once and opens one session, for that user; a code takes so many
guesses and works in the browser it was asked for in; nobody acts for the office, or
counts as verified, without having cleared a code sent to them there. Sessions are
saved whole, so a browser may also go back to one it was given before (`Return`), as
long as some request holds it (`held`), and to nobody else's. `SignInRefinement`
maps `SignIn` to it: a link is spent when its row says so, a code when it is consumed,
`tries` is `judged`, who acts in a browser is what its session says, and it holds that
and what its requests have loaded of rows that are still there.

### `AccessAudit`
One location: its jobs (`job`), the reveals of its codes (`reveal`), the requests to
reveal and to review (`req`) and the runs of `evaluate_access_reveals` (`task`).
`MayReveal` is the permission, `FindVisit` the later lookup of the visit, `RecordReveal`
the row. `StartPass` and `Rerun` read the reveals with their jobs and judge them;
`SaveVerdict` saves one row, `TaskDies` leaves the rest. `EditJob` moves, ends or
restaffs a visit, `Switch` turns the organization off and on; a superuser acts for it
even then (`MayAct`). Time is counted in hours of days of `HoursPerDay`, so that the end
of a day is a step like any other.

Two things people may do make a verdict wrong, and the code stops neither. An admin may
run a day again before it is over (`audit/tasks.py:65` takes any date): its reveals are
then marked judged, the hourly pass skips them for good, and a visit moved that evening
is not judged again. And the schedule of a day may be edited once it is over: only
another re-run sees it. `EarlyDays` and `LateDays` say on which days these are done. They
are sets of days, any sets, so that every behaviour of the code is one of the model's
for some choice of them, and what is promised of the other days is promised whatever is
done to these.

### `AuditTrail`
What the trail promises, with no handlers, tasks or clocks: an entry is written once,
gets one verdict that is never taken back unless it is provisional, and is closed once,
by somebody else than whoever it is about unless that is the owner. `AuditRefinement`
maps the rows of `AccessAudit` to it. Provisional are the verdicts of `EarlyDays` and
`LateDays`; any other that is saved again must be the same one.

## What is checked

Every passing run:

| Run | Question | Instance |
|---|---|---|
| `invoicing_serial` | one request at a time, does every operation keep the book? | 2 invoices, 2 visits (one a locked door), 1 hand payment, 1 card |
| `invoicing_races` | two requests and Stripe on the same invoices: are documents, numbers and money kept? | 2 invoices over 1 visit, 2 hand payments of 1 or 3 cents, 1 card; no PATCH of notes and no line edits |
| `ledger_one_worker` | refunds told in any order: is what is kept of the charge the same? | a charge of 3, two partial refunds, 1 worker, 1 retry, 1 fault |
| `ledger_workers` | payment and lost dispute at once, crashes, lost messages: is money kept out, and every event dealt with? (`FairSpec`) | 2 workers, 2 faults, no retry |
| `schedule_serial` | one request at a time, every operation but `delete_plan` and the daily task | 2 jobs, 1 occurrence, 3 days, one person |
| `schedule_horizon` | the daily task beside another request that materializes, regenerates, reschedules or deletes: one visit per occurrence, and always one? (`FairSpec`) | 3 jobs, 2 occurrences, 2 days |
| `coverage` | every handler, one at a time, between any steps of Stripe's: does the rule keep its promises? (`FairSpec`) | 2 subscriptions one after the other, 3 days, periods, grace and trial of 1 day; the form edits `is_active` and the stamp |
| `coverage_races` | a refresh, a webhook and the daily task at once: does who paid come back? (`FairSpec`) | 2 requests, 1 subscription, 3 days |
| `sign_in` | two requests of one browser race for links, codes and sessions | 2 users (one of the office), 1 browser, 2 codes of 2 guesses, 1 link, 1 device, 1 change |
| `access_audit` | reveals, reviews, the pass and a re-run at once over a schedule that moves: do the rows stay a trail? (`FairSpec`) | 1 cleaner, 2 of the office, 1 job, 1 reveal, 2 requests, 2 tasks, 3 days of which the second may be judged early |

The safety properties, by what they say:

* **`VisitBilledOnce`**, **`KeepsTheBook`**: a visit is on at most one live invoice,
  and every step of the service is a step of `InvoiceBook`.
* **`NumberNamesOneInvoice`**, **`NumbersDense`**, **`DocumentFrozen`**,
  **`LinesMatchSnapshot`**, **`IssuedNeverDeleted`**: ADR-026.
* **`HandMoneyOnIssued`**, **`HandMoneyFits`**: money people enter points at an issued
  invoice and never exceeds it. Card money may (the page outlives the balance),
  and `overpaid_cents` says so.
* **`LatestRefundStands`**, **`MoneyNeverReturns`**, **`VoidIsForever`**,
  **`PaidMeansRecorded`**: what the ledger makes of Stripe's events.
  **`KeepsTheCharge`**: with one worker, every step of it is a step of `ChargeAccount`.
* **`OneJobPerOccurrence`**, **`WorkIsKept`**, **`TouchedIsKept`**: ADR-020.
* **`HandStands`**: only a person's form ends a deactivation by hand, whatever
  Stripe says. **`LiveIdStays`**: no event takes the id of a live subscription off
  the row. **`OnlyMoneyExtends`**: the stored date moves forward only to the end of a
  period that was paid for. **`NobodyGoesDarkUntold`**: two rules over the same
  columns, the notice and the switch, never disagree so that a tenant is
  switched off with no warning. All of ADR-028.
* **`GuessesLimited`**, **`TokenOpensOneSession`**: however many requests race.
  **`OfficeAlwaysChallenged`**: a session that acts for the office, or is marked
  verified, belongs to a user who cleared a code sent for a request of that
  browser. ADR-008.
* **`TrailStands`**: a review is final and the record made at the door is never
  rewritten. **`VerdictOfTheDay`**: of a day whose schedule is not edited once it is over
  (not in `LateDays`; where it is, the corrective re-run is the code's answer), a verdict
  dated after the day is that of the schedule as the day ended, and every verdict is
  dated so unless an admin had the day judged early (`EarlyDays`). A verdict frozen early
  is in the run: the property says of it only that a re-run once the day is over puts it
  right, whatever older run saves beside it. Asked of a day in `EarlyDays` as of the others,
  it fails: a reveal is made, the day is run again, the visit is moved. ADR-016 and ADR-017.
  **`KeepsTheTrail`**: every step is a step of `AuditTrail`. It adds to the two before it
  that a verdict of any other day stands once given, however often it is judged again,
  and that an entry is closed by who may close it, judged on the reveal as it was
  loaded and not as it is when the review commits.

Liveness: **`EventsResolve`** (a row an organization owns never stays RECEIVED)
assumes that time passes and that beat runs the sweep to its end. Nothing is
assumed of the workers: that is the promise of ADR-024, that a lost message costs
ten minutes and a hopeless one ends with a person. **`HorizonFilled`** assumes
that the daily task runs (weak fairness of its load) and that it is not killed
every time, nor for ever kept from its lookup or its insert by another's locks
(strong fairness of those two steps). **`PaidComesBack`** (a tenant switched off for
billing whose payment Stripe has taken is switched on) and **`LapseTakesEffect`** (one
nobody pays for goes dark once the grace is over) assume that a request in flight
ends, one way or another; that the daily task is run again and again, is not
killed every time and gets an answer from Stripe some of the times; and that
Stripe sends a webhook until one is answered. **`EveryRevealJudged`** assumes that
beat runs the hourly pass, that a task goes on or dies, and that it does not die
before the same row for ever; and it asks nothing where an organization stays
switched off (`[]<>active`), because the pass skips it.

### Disagreements between the code and what it says

Each of these runs ends in a counterexample to something the code, a comment
or a decision record states. Both are sequences of ordinary requests and events.

| Run | What happens |
|---|---|
| `patch_rebills` | the PATCH of a draft's notes saves every column of a row read before the invoice was issued and voided: the visit is on two live invoices (`billing/views.py:104`) |
| `stale_event_darkens` | of two cancelled subscriptions, a late event about the first is adopted and puts back its date: the tenant is switched off before the day it paid through (`billing/webhook.py:587`) |

The first pattern, a decision on a row loaded without a lock, has many faces. They
are in the models too, and one change to a configuration (two requests, or the
handlers named) shows each:

* the PATCH beside `issue` also breaks `NumbersDense` (the number handed out is on no
  document); a line handler beside `issue` breaks `LinesMatchSnapshot`, because
  `assert_draft` judges an invoice loaded without a lock (`billing/views.py:216`);
  `delete` beside `issue` breaks `IssuedNeverDeleted` (`billing/models.py:121`);
* two workers on two refunds of one charge leave two live replacements, and break
  `LatestRefundStands` (`billing/webhook.py:468`);
* `regenerate` beside `clock_in` deletes a visit somebody clocked in to (`WorkIsKept`,
  `scheduling/services.py:260`), and so does `destroy` (`scheduling/views.py:275`);
  `patch` beside `regenerate` breaks `TouchedIsKept`; an edit of a plan can be saved
  and never reconciled, and a retry does not repair it (`scheduling/views.py:114`);
  of two materializations the loser rolls back with an IntegrityError
  (`scheduling/services.py:207`);
* two webhooks at once, the first to load and the last to commit, break `LiveIdStays`:
  each finds no live id on the row in its memory; and two first webhooks break
  `OnlyMoneyExtends`. A daily pass that loaded the tenant before a person switched it
  off saves the stamp over it, and the tenant comes back with the next payment:
  `HandStands` fails if the form is not in `Alone`;
* two requests void one payment and the second overwrites who did
  (`billing/services.py:709`); the sweep marks FAILED a row a worker processed since
  it was read (`billing/webhook.py:333`); two transitions are judged on one loaded
  status (`scheduling/services.py:360`);
* a cleaner's reveal can have no job: the permission looks the visit up, it is moved,
  and the record looks it up again (`audit/services.py:71`; `audit/models.py:61`,
  `audit/services.py:54` and `audit/tasks.py:98` say it cannot);
* two parallel resends save their pending codes in the other order, and the answer to
  a failed last guess deletes the pending code a resend has just put there
  (`two_factor/views.py`): the user asks again, and nothing is let in.

Met while reading, and not stated by any property: `available_actions` offers SUBSCRIBE
to a tenant a person switched off, which `start_checkout` refuses
(`organizations/services.py:118`, `billing/subscription.py:78`). The admin's help text says
that clearing the stamp keeps a tenant on that is still uncovered; the daily task
does not look at the stamp of an active tenant (`organizations/admin.py:81`). "Created
on the first call and never again" (`billing/subscription.py:64`, `billing/connect.py:135`)
does not survive a second call to Stripe that fails: the saved id rolls back with
the transaction. The daily task repairs a lost webhook (`billing/tasks.py:137`) but not
a lost first one, because there is no subscription id to read yet. Two Checkout
pages opened one after the other can both be paid. Re-running a day that is not
over freezes its verdicts until it is run again (`EarlyDays`), and a slow hourly pass can save its older verdict over
that of a corrective re-run.

### Bounds, and why they are enough

The races here are between two handlers on one row: two requests and one or two
rows show every order of their steps. Two invoices let a visit be billed, freed by
a discard, a void or a struck line, and billed again. `MaxNumber` is at least the
number of invoices, so it never stops an issue that would have happened. Amounts
are a few cents, enough for a part payment, an exact one and one too many;
`TaxPercent` is 50 so that rounding half up occurs. A charge of 3 cents has two
partial refunds and room for a third; where the question is only live or void, 1
cent is enough. Two faults let a message be lost and the sweep that would find it
die. Three jobs let an occurrence's visit be deleted and made again, twice for
one occurrence; when fewer are left than a run may create, `HorizonFilled` asks
nothing (`JobsRunOut`). `Horizon` and `LastDay` leave room for an occurrence
today, one tomorrow, one beyond the window and one that ages out. `MaxFaults`,
`MaxTries`, `LastDay`, `MaxNumber`, `Jobs` and `Invoices` are the bounds on what
would otherwise grow. In `Coverage`, three days of one-day periods let a trial end, a
subscription start, lapse, be collected late and be cancelled, and another one
start; the second subscription is what a stale event needs. In `SignIn`, `Changes`
bounds what befalls the rows from outside: each of an expiry, a promotion, a
deactivation, a logout, a dropped request or a session displaced by another is enough for
one interleaving with the two requests; two guesses are the least that two requests can
exceed; three `Keys` are one for the browser and one for each request. The account that
changes is the one that is not always of the office (`Changing`), and it is a customer's,
the office's or a cleaner's (`Held`): a customer who `is_staff` is refused the link and
asked for no code, which is what a trusted cleaner gets. The theorems hold for any `Held` and `Changing`. In
`AccessAudit`, a day is one hour and `LastHour` the third day: a plain day ends and then
one that may have been judged early, and each is judged, re-run and reviewed once over;
`RoomForOneMore` keeps a request from waiting for a row that will never be free. With one
hour to a day a reveal bound to no visit gets the same verdict at any hour, and only the
visits' windows tell verdicts apart. Symmetry is used only where no liveness property is
checked.

Every run says `CHECK_DEADLOCK FALSE`, because every instance can be used up: all
invoices drafted, all jobs created, all days gone, all events processed, all codes
spent. Nothing else stops: a request in flight may end, or be abandoned as long as
`Changes` allows.

An event with no handler is IGNORED on arrival and never enters the queue, and a checkout
that is still settling is PROCESSED and writes nothing: no run sends either, and the
theorems about the ledger hold with both.

## What is proved

Each theorem holds for every value of the constants, under the assumptions
named in the component's module (`InvoicingAssumption`, `LedgerAssumption`,
`BookAssumption`, `AccountAssumption`, `ScheduleAssumption`, `CentsAssumption`, `CoverageAssumption`, `SignInAssumption`,
`AccessAuditAssumption`), which TLC evaluates on every run.

* **`InvoicingProofs`**: `TypeCorrect`, for any handlers; `NumbersUnique`. The
  invariant behind the second also says that no number on a row, or in the row a
  request is about to save, has reached `next_number`, and that a number in such a
  stale row can only be that invoice's own: the reverting PATCH may lose a number,
  never duplicate it.
* **`InvoicingSafetyProofs`**, for any set of handlers without the PATCH of notes
  (`NoPatch`): `IssuedIsFrozen`, `VisitsBilledOnce`, `SequenceHasNoGap`. With the
  PATCH they are false, which is what `patch_rebills` shows of the second.
* In the same module and under the same assumption, `HandMoneyStays` and
  `HandMoneyNeverOverpays`. The strengthening relates what is paid by hand to the
  frozen total through the sums of `Cents`: a payment commits under the invoice's lock
  with an amount within `Balance`, and card money only shrinks the balance.
* **`InvoiceBookProofs`**: `IssuedIsNeverDeleted`, `SnapshotIsItsLines`, and `BookIsKept`, the
  refinement: initial rows are an empty book and every step is a move of `InvoiceBook`
  or a stutter. They assume `DraftsAlone`: one request at a time and any handlers, the
  PATCH included; or any number of requests, none of which is a handler that judges
  the draft it loaded without a lock (`DraftOnly`: discard, notes and the line
  handlers) - so drafting, issuing, voiding and entering money may race as they like.
  The invariant says that what a handler found when it loaded the invoice is still so
  when it writes, which is what a lock taken before the check would give the others
  too. The step lemmas of `InvoicingSafetyProofs` ask only that no PATCH put an old row
  back (`NothingReverted`): `NoPatch` gives that for any number of requests, and one
  request at a time gives it with the PATCH, so both modules use the same lemmas.
* **`EventLedgerProofs`**: `LedgerTypeCorrect`, `PaidIsRecorded`, `VoidStaysVoid`
  for any number of workers; `LatestStands` assumes one (`OneWorker`): with two it is
  false, as said above. Its invariant says that what the worker loaded is still what
  is live. From it follows `RefundsOnlyShrink`: the cents kept after a step inject into
  those kept before it, unless the step records the payment. `ChargeIsKept` is the
  refinement of `ChargeAccount`, for one worker: its invariant adds that what is kept
  is what the worst loss heard leaves, and hearing of one more leaves the lesser of
  the two. `MemoryIsFree` says that the history variable forbids the ledger nothing.
* **`ScheduleProofs`**: `ScheduleTypeCorrect` and `OneVisitForEachOccurrence`, for any
  requests and handlers. The invariant is the unique constraint made explicit:
  two regenerations never hold one row, and what one is about to rebuild is not
  what another job already stands for. `WorkedVisitsStay` and `OnlyAPersonDeletes` assume one
  request at a time beside the nightly task, which may run at any moment
  (`OneBesideTheTask`): it only adds visits, so what a handler saw of a visit is still so
  when it saves or deletes it.
* **`CoverageProofs`**: `CoverageTypeCorrect` and `NobodyDarkUntold`, for any handlers at
  once. `RepeatChangesNothing`: an answer of Stripe's that is heard again the same day
  changes no column, whether it comes by a repeated webhook or a second refresh; the
  date worked out for an unpaid period reads the stored date, and is its own answer.
  `HandIsKept` assumes that the admin's form is in `Alone` and lets everything else
  race: its invariant is that every other handler in flight agrees with the row on
  whether a person switched the tenant off, and the coverage rule cannot change that
  on either. `LiveIdKept` assumes that a webhook is in `Alone`: the rows in flight agree
  with the one on file on the id; a status on any of them that is not live is
  Stripe's last word, since nothing cancelled comes back; so what a webhook replaces
  is dead at Stripe too, at the moment it asks and at the moment it commits.
  `MoneyExtends` assumes the same and says that only money moves the stored date
  forward. Not every date on file was paid for, since the first the row hears of a
  subscription may be a renewal Stripe is still collecting; so its invariant is that
  whatever is in flight agrees with the row up to dates that money backs, and that no
  row says more of its subscription than the start of the period being collected or
  the end of one that was paid: asking again then gives the same date, or money.
* **`SignInProofs`**: `SignInTypeCorrect`; `GuessesAreLimited` (the guesses
  compared with a code and the requests about to compare one are together at most
  the attempts counted on its row);
  `TokensOpenOneSession` (a token that has opened a session, or is about to, is
  consumed, and one request at most is about to); `OfficeIsChallenged`, whose invariant
  follows the evidence from the request that cleared the code to the session it
  writes: what it saw of its browser's session is borne out by a code sent to that
  browser, and so is what it will write there. `DoorIsKept` is the refinement of
  `FrontDoor`, for any users, browsers and tokens and any requests at once: its invariant
  `DoorInv` joins those three and says besides that a request acts for the user its link
  was sent to, and that a code sent to nobody went to no browser; and no step gives a
  request a session but its browser's own, which is why a browser goes back to nothing
  it was not given. No run
  checks it, because it would make `sign_in` half as long again: adding
  `PROPERTY KeepsTheDoor` to `sign_in.cfg` does, in a few minutes, and it holds.
* **`AccessAuditProofs`**: `AccessTypeCorrect`, `TrailIsFinal`, `VerdictsAreOfTheDay`. The
  last rests on this: a verdict a task has still to save, or has saved, is dated by the
  task's start; if that is after the day of the reveal the day was over then, and the
  visit it is judged by is not moved any more; and if it is not, the day is one an
  admin had judged early. `TrailIsKept` is the refinement of `AuditTrail`: of a day in
  neither set a verdict saved over a verdict is the same one, and whoever is about to
  close an entry may, because who looked never changes once it is recorded. Both hold
  for any `EarlyDays` and `LateDays`, so nothing is assumed of what people do.

These assumptions are not conveniences of the proofs. Without `DraftsAlone`, the stale
delete of an invoice another request issued is no move of the book; with two requests
beside the task, a visit clocked in to since it was looked at is deleted; and with
two workers, two refunds of one charge leave two replacements live.

Only model-checked: what needs fairness, which is `HorizonFilled`, `EventsResolve`,
`PaidComesBack`, `LapseTakesEffect` and `EveryRevealJudged`.

## What is not modelled, and why

* Money arithmetic beyond the total and its tax (quotes, fees, minimum charges):
  decimals of one request, to be checked as operators.
* The RRULE expansion, time zones: a rule is the set of days it expands to.
* Notes, photos, e-mails, addresses, tips, fees: no property depends on them.
* In `Coverage`, a webhook whose subscription names another customer than the one it
  came for (the code adopts its id and mirrors nothing: "a belt to that brace"), and a
  subscription with no items, so no end of a period: Stripe sends neither, since an event
  finds its tenant by the customer, which a subscription keeps for good.
* The order of the locks inside one transaction: the steps take them all at once.
* Two Stripe PaymentIntents at once in `EventLedger`: their handlers share no row.
* Connect onboarding and `refresh_account`: columns no other handler decides on, in the
  shape of `Coverage`'s mirror. The application fee is arithmetic.
* `start_checkout`'s two calls to Stripe, and a failure between them.
* Throttles, the hashing of tokens, the cookie's own expiry: a token is a model value
  and expires at any time.
* The rest of customers and organizations, which saves one row at a time; the
  catalogue, health, settings, the demonstration data, the web interface.

## The plan

1. *(done)* Invoices and the ledger; Stripe's events; the schedule.
2. *(done)* Coverage, sign-in, access reveals, and their theorems; abstract
   specifications of invoices, a charge, sign-in and the trail, proved to be implemented.
3. Visits and bills together: a job that is completed, billed, reopened, regenerated
   or deleted, and billed again. Composes `Schedule` and `Invoicing`.
4. Money as operators: totals, half-up rounding, the application fee, the no-access
   fee, a quote, against reference definitions.
