------------------------------ MODULE Coverage ------------------------------
(***************************************************************************)
(* One tenant's own subscription to pink glove (ADR-028): what Stripe      *)
(* holds, the columns that mirror it, and is_active, which the coverage    *)
(* rule moves.  billing/subscription.py, organizations/services.py, the    *)
(* platform half of billing/webhook.py, the daily task of billing/tasks.py *)
(* and the two handlers that save a whole Organization: the PATCH of its   *)
(* settings and the admin's form.                                          *)
(*                                                                         *)
(* A handler loads the row in one step, asks Stripe in another and saves   *)
(* in a third; only the webhook's handler has a transaction, and that      *)
(* locks the row no earlier than its first save.                           *)
(***************************************************************************)
EXTENDS Naturals

CONSTANTS
    Requests,    \* requests and tasks in flight at once
    Handlers,    \* which handlers run
    Alone,       \* those of them that run with nothing else in flight
    Edits,       \* the columns people edit in the admin
    Subs,        \* Stripe subscriptions and the Checkout pages that start them, in order
    NoSub,       \* 0, the empty stripe_subscription_id or stripe_customer_id
    Period,      \* days Stripe bills for at a time
    GraceDays,   \* PLATFORM_GRACE_DAYS
    TrialDays,   \* PLATFORM_TRIAL_DAYS
    NoticeDays,  \* TRIAL_NOTICE_DAYS
    LastDay      \* bound on the calendar

Kinds == {"refresh", "webhook", "daily", "patch", "admin"}

ASSUME CoverageAssumption ==
    /\ Handlers \subseteq Kinds /\ Alone \subseteq Kinds
    /\ Subs \subseteq Nat \ {NoSub}
    /\ Period \in Nat \ {0} /\ GraceDays \in Nat /\ TrialDays \in Nat /\ NoticeDays \in Nat
    /\ LastDay \in Nat \ {0}

VARIABLES
    organization,   \* the Organization row
    stripe,         \* what Stripe holds under each subscription
    now,            \* the day
    req             \* what each handler in flight has in memory

vars == <<organization, stripe, now, req>>

-----------------------------------------------------------------------------
Created == 1
NoDate  == 0
Date    == 1 .. LastDay + Period + TrialDays

\* A Stripe-run trial ("trialing") reads like a paid "active": one stands for both.
Live(status) == status \in {"active", "past_due"}

Organization ==
    [is_active : BOOLEAN,
     for_billing : BOOLEAN,          \* deactivated_for_billing_at is set
     exempt : BOOLEAN,
     trial_ends_at : Date \cup {NoDate},
     customer : Subs \cup {NoSub},   \* named by the page that had it created
     subscription : Subs \cup {NoSub},
     status : {"", "active", "past_due", "canceled"},
     paid_through : Date \cup {NoDate}]

Subscription ==
    [status : {"unborn", "page", "active", "past_due", "canceled"},
     customer : Subs \cup {NoSub},
     period_end : Date \cup {NoDate},
     paid : BOOLEAN,                 \* the latest invoice is
     paid_to : Date \cup {NoDate}]   \* the end of the last period paid for

Request ==
    [kind : Kinds, phase : {"loaded", "asked", "adopted", "saved", "last"},
     row : Organization, names : Subs \cup {NoSub}]

Idle == [kind |-> "none"]

InFlight(r, k, p) == req[r] # Idle /\ req[r].kind \in k /\ req[r].phase = p

\* Held by a webhook's transaction since it saved the id it adopted.
Unlocked(r) == \A q \in Requests \ {r} : ~InFlight(q, {"webhook"}, "adopted")

-----------------------------------------------------------------------------
\* organizations/services.py: the one rule, of a row and a moment.

CoveredUntil(o) ==
    LET dates == {Created, o.trial_ends_at, o.paid_through}
    IN  CHOOSE d \in dates : \A e \in dates : e <= d

GraceOverADayLater(o) == ~o.exempt /\ now > CoveredUntil(o) + GraceDays
GraceOver(o) == ~o.exempt /\ now >= CoveredUntil(o) + GraceDays
Covered(o)   == o.exempt \/ CoveredUntil(o) > now

ByHand(o) == ~o.is_active /\ ~o.for_billing

\* billing_state, and how loudly billing_notice says it to the staff: a sentence
\* for information about an end to come counts as quiet.
CoveredByTrial(o) == o.trial_ends_at # NoDate /\ o.trial_ends_at >= o.paid_through

StateByStatus(o) ==
    CASE ~o.is_active -> "deactivated"
      [] o.is_active /\ o.exempt -> "exempt"
      [] o.is_active /\ ~o.exempt /\ o.status \in {"active", "past_due"} -> o.status
      [] OTHER -> IF CoveredUntil(o) <= now THEN "lapsed"
                  ELSE IF CoveredByTrial(o) THEN "trial" ELSE "active"

BillingState(o) ==
    CASE ~o.is_active -> "deactivated"
      [] o.is_active /\ o.exempt -> "exempt"
      [] o.is_active /\ ~o.exempt /\ o.status = "past_due" -> "past_due"
      [] OTHER -> IF CoveredUntil(o) <= now THEN "lapsed"
                  ELSE IF o.status # "active" /\ CoveredByTrial(o) THEN "trial" ELSE "active"

Notice(o) ==
    LET state == BillingState(o)
    IN  CASE state = "deactivated" -> "error"
          [] state = "trial" -> IF CoveredUntil(o) > now + NoticeDays THEN "quiet" ELSE "warning"
          [] state \in {"past_due", "lapsed"} -> "warning"
          [] state \in {"exempt", "active"} -> "quiet"

CoveringAnyOff(o) ==
    CASE o.is_active /\ GraceOver(o) ->
            [o EXCEPT !.is_active = FALSE, !.for_billing = TRUE]
      [] ~o.is_active /\ Covered(o) ->
            [o EXCEPT !.is_active = TRUE, !.for_billing = FALSE]
      [] OTHER -> o

Covering(o) ==
    CASE o.is_active /\ GraceOver(o) ->
            [o EXCEPT !.is_active = FALSE, !.for_billing = TRUE]
      [] ~o.is_active /\ o.for_billing /\ Covered(o) ->
            [o EXCEPT !.is_active = TRUE, !.for_billing = FALSE]
      [] OTHER -> o

\* What apply_coverage writes over the row `to`, deciding on the one in memory.
ApplyCoverage(o, to) ==
    IF Covering(o) = o THEN to
    ELSE [to EXCEPT !.is_active = Covering(o).is_active,
                    !.for_billing = Covering(o).for_billing]

\* subscription.paid_through
PaidThroughPeriodStart(s, stored) ==
    IF s.paid THEN s.period_end ELSE s.period_end - Period

PaidThrough(s, stored) ==
    LET start == s.period_end - Period
    IN  IF s.paid THEN s.period_end
        ELSE IF stored # NoDate /\ stored < start THEN stored ELSE start

Mirrored(o, s) ==
    [o EXCEPT !.status = s.status, !.paid_through = PaidThrough(s, o.paid_through)]

SaveMirror(o, to) == [to EXCEPT !.status = o.status, !.paid_through = o.paid_through]

-----------------------------------------------------------------------------
\* Stripe, and the owner at Stripe.  Checkout starts a subscription paid.

At(s, status, paid, end) ==
    stripe' = [stripe EXCEPT ![s].status = status, ![s].paid = paid, ![s].period_end = end,
                             ![s].paid_to = IF paid THEN end ELSE @]

Subscribe(s) ==
    /\ stripe[s].status = "page"
    /\ At(s, "active", TRUE, now + Period)
    /\ UNCHANGED <<organization, now, req>>

Renew(s) ==
    /\ Live(stripe[s].status) /\ stripe[s].period_end = now
    /\ \E paid \in BOOLEAN :
          At(s, IF paid THEN "active" ELSE "past_due", paid, now + Period)
    /\ UNCHANGED <<organization, now, req>>

CollectLate(s) ==
    /\ stripe[s].status = "past_due"
    /\ At(s, "active", TRUE, stripe[s].period_end)
    /\ UNCHANGED <<organization, now, req>>

Cancel(s) ==
    /\ Live(stripe[s].status)
    /\ At(s, "canceled", stripe[s].paid, stripe[s].period_end)
    /\ UNCHANGED <<organization, now, req>>

\* Stripe renews, or fails to, on the day the period ends.
NextDay ==
    /\ now < LastDay
    /\ \A s \in Subs : Live(stripe[s].status) => stripe[s].period_end > now
    /\ now' = now + 1
    /\ UNCHANGED <<organization, stripe, req>>

-----------------------------------------------------------------------------
\* start_checkout, under the row's lock from its first read.  A page expires
\* unused or starts a subscription.
StartCheckout(s) ==
    LET o == organization
        customer == IF o.customer = NoSub THEN s ELSE o.customer
    IN  /\ \A r \in Requests : Unlocked(r)
        /\ stripe[s].status = "unborn" /\ \A t \in Subs : t < s => stripe[t].status # "unborn"
        /\ ~o.exempt /\ ~ByHand(o) /\ ~Live(o.status)
        /\ organization' = [o EXCEPT !.customer = customer]
        /\ stripe' = [stripe EXCEPT ![s].status = "page", ![s].customer = customer]
        /\ UNCHANGED <<now, req>>

-----------------------------------------------------------------------------
\* The handlers load the row.

Load(r, k, row, names) ==
    /\ k \in Handlers /\ req[r] = Idle
    /\ \A q \in Requests : req[q] # Idle => k \notin Alone /\ req[q].kind \notin Alone
    /\ req' = [req EXCEPT ![r] = [kind |-> k, phase |-> "loaded", row |-> row, names |-> names]]
    /\ UNCHANGED <<organization, stripe, now>>

LoadRefresh(r) == Load(r, "refresh", organization, NoSub)

\* The daily pass takes inactive organizations too.
LoadDailyIfActive(r) == organization.is_active /\ Load(r, "daily", organization, NoSub)

LoadDaily(r) == Load(r, "daily", organization, NoSub)

LoadEventOfPage(r, s) ==
    /\ stripe[s].status # "unborn"
    /\ organization.customer = stripe[s].customer
    /\ Load(r, "webhook", organization, s)

\* An event finds its tenant by its customer; it may come at any time after
\* the subscription exists, late, again or out of order.
LoadEvent(r, s) ==
    /\ stripe[s].status \notin {"unborn", "page"}
    /\ organization.customer = stripe[s].customer
    /\ Load(r, "webhook", organization, s)

\* A deactivated tenant's settings are read-only, but not to a superuser.
LoadPatch(r) ==
    /\ \E superuser \in BOOLEAN : organization.is_active \/ superuser
    /\ Load(r, "patch", organization, NoSub)

\* The admin's form posts the columns a person may edit, as it was filled in.
MayEdit(column, values, as_is) == IF column \in Edits THEN values ELSE {as_is}
LoadAdmin(r) ==
    LET o == organization
    IN  \E active  \in MayEdit("is_active", BOOLEAN, o.is_active),
           exempt  \in MayEdit("billing_exempt", BOOLEAN, o.exempt),
           trial   \in MayEdit("trial_ends_at", {o.trial_ends_at, now + TrialDays}, o.trial_ends_at),
           stamped \in MayEdit("deactivated_for_billing_at", {o.for_billing, FALSE}, o.for_billing) :
              Load(r, "admin",
                   [o EXCEPT !.is_active = active, !.exempt = exempt,
                             !.trial_ends_at = trial, !.for_billing = stamped],
                   NoSub)

-----------------------------------------------------------------------------
\* Then they ask Stripe.

AdoptsTheLatestNamed(r) == req[r].kind = "webhook" /\ req[r].names # req[r].row.subscription

\* platform_subscription_changed: the event's subscription is the tenant's,
\* if the tenant has none or has one that is no longer live.
Adopts(r) ==
    LET o == req[r].row
    IN  /\ req[r].kind = "webhook" /\ req[r].names # o.subscription
        /\ ~(o.subscription # NoSub /\ Live(o.status))

Adopting(r) ==
    IF Adopts(r) THEN [req[r].row EXCEPT !.subscription = req[r].names] ELSE req[r].row

AskStripe(r) ==
    LET o == Adopting(r)
        s == o.subscription
    IN  /\ InFlight(r, {"refresh", "webhook", "daily"}, "loaded")
        /\ s # NoSub /\ stripe[s].customer = o.customer
        /\ Adopts(r) => Unlocked(r)
        /\ req' = [req EXCEPT ![r].row = Mirrored(o, stripe[s]),
                              ![r].phase = IF Adopts(r) THEN "adopted" ELSE "asked"]
        /\ UNCHANGED <<organization, stripe, now>>

\* The daily task goes on without an answer: no subscription to read, one of
\* another customer, or Stripe is unreachable.
DoWithout(r) ==
    /\ InFlight(r, {"daily"}, "loaded")
    /\ req' = [req EXCEPT ![r].phase = "last"]
    /\ UNCHANGED <<organization, stripe, now>>

-----------------------------------------------------------------------------
\* And save.

SaveAnswer(r) ==
    /\ InFlight(r, {"refresh", "daily"}, "asked") /\ Unlocked(r)
    /\ organization' = SaveMirror(req[r].row, organization)
    /\ req' = [req EXCEPT ![r].phase = "saved"]
    /\ UNCHANGED <<stripe, now>>

\* refresh_subscription ends with apply_coverage; the daily task calls it once more.
SaveCoverage(r) ==
    /\ \/ InFlight(r, {"refresh", "daily"}, "saved")
       \/ InFlight(r, {"daily"}, "last")
    /\ Unlocked(r)
    /\ organization' = ApplyCoverage(req[r].row, organization)
    /\ req' = [req EXCEPT ![r] =
                  IF InFlight(r, {"daily"}, "saved")
                  THEN [req[r] EXCEPT !.row = Covering(req[r].row), !.phase = "last"]
                  ELSE Idle]
    /\ UNCHANGED <<stripe, now>>

\* The webhook's saves are one transaction.
CommitEvent(r) ==
    LET o == req[r].row
        adopted == IF req[r].phase = "adopted"
                   THEN [organization EXCEPT !.subscription = o.subscription]
                   ELSE organization
    IN  /\ InFlight(r, {"webhook"}, "asked") \/ InFlight(r, {"webhook"}, "adopted")
        /\ Unlocked(r)
        /\ organization' = ApplyCoverage(o, SaveMirror(o, adopted))
        /\ req' = [req EXCEPT ![r] = Idle]
        /\ UNCHANGED <<stripe, now>>

\* The PATCH and the admin's form save every column they loaded.
SaveRow(r) ==
    /\ InFlight(r, {"patch", "admin"}, "loaded") /\ Unlocked(r)
    /\ organization' = req[r].row
    /\ req' = [req EXCEPT ![r] = Idle]
    /\ UNCHANGED <<stripe, now>>

\* A refusal, a 503 of Stripe's or a process that dies; a transaction rolls back.
Abandon(r) ==
    /\ req[r] # Idle
    /\ req' = [req EXCEPT ![r] = Idle]
    /\ UNCHANGED <<organization, stripe, now>>

-----------------------------------------------------------------------------
\* Organization.save stamps the trial on creation.
Init ==
    /\ organization = [is_active |-> TRUE, for_billing |-> FALSE, exempt |-> FALSE,
                       trial_ends_at |-> Created + TrialDays, customer |-> NoSub,
                       subscription |-> NoSub, status |-> "", paid_through |-> NoDate]
    /\ stripe = [s \in Subs |-> [status |-> "unborn", customer |-> NoSub,
                                 period_end |-> NoDate, paid |-> FALSE, paid_to |-> NoDate]]
    /\ now = Created
    /\ req = [r \in Requests |-> Idle]

AtStripe(s) == Subscribe(s) \/ Renew(s) \/ CollectLate(s) \/ Cancel(s)

Begin(r) == LoadRefresh(r) \/ LoadDaily(r) \/ LoadPatch(r) \/ LoadAdmin(r)

Continue(r) == \/ AskStripe(r) \/ DoWithout(r) \/ SaveAnswer(r) \/ SaveCoverage(r)
               \/ CommitEvent(r) \/ SaveRow(r)

Next ==
    \/ \E s \in Subs : AtStripe(s) \/ StartCheckout(s) \/ \E r \in Requests : LoadEvent(r, s)
    \/ \E r \in Requests : Begin(r) \/ Continue(r) \/ Abandon(r)
    \/ NextDay

Spec == Init /\ [][Next]_vars

\* A request in flight ends, one way or another.  The daily task runs again
\* and again; Stripe answers it some of the times, and it is not killed every
\* time; nor is a webhook, which Stripe sends again until it is answered.
IsDaily(r) == req[r] # Idle /\ req[r].kind = "daily"
Fairness ==
    /\ \A r \in Requests : WF_vars(Continue(r) \/ Abandon(r))
    /\ SF_vars(\E r \in Requests : LoadDaily(r))
    /\ SF_vars(\E r \in Requests : IsDaily(r) /\ AskStripe(r))
    /\ SF_vars(\E r \in Requests : DoWithout(r))
    /\ SF_vars(\E r \in Requests : IsDaily(r) /\ SaveAnswer(r))
    /\ SF_vars(\E r \in Requests : IsDaily(r) /\ SaveCoverage(r))
    /\ SF_vars(\E r \in Requests : CommitEvent(r))

FairSpec == Spec /\ Fairness

-----------------------------------------------------------------------------
\* Every variable holds what its columns can hold.
TypeOK ==
    /\ organization \in Organization
    /\ stripe \in [Subs -> Subscription]
    /\ now \in 1 .. LastDay
    /\ req \in [Requests -> Request \cup {Idle}]

\* apply_coverage: a tenant "switched off by a person [...] is never touched --
\* whatever Stripe says".  Only a person's form ends it.
HandStands ==
    [][ByHand(organization) /\ ~ByHand(organization')
          => \E r \in Requests : InFlight(r, {"admin"}, "loaded")]_vars

\* platform_subscription_changed: "a stale event about the old one must not
\* steal the id back from the live one".
IsLive(s) == s # NoSub /\ Live(stripe[s].status)
LiveIdStays ==
    [][IsLive(organization.subscription) => IsLive(organization'.subscription)]_organization

\* subscription.paid_through: only money moves the stored date forward, to
\* the end of a period some subscription of the tenant's was paid for.
OnlyMoneyExtends ==
    [][LET was == organization.paid_through
           is  == organization'.paid_through
       IN  was # NoDate /\ was < is => \E s \in Subs : is <= stripe[s].paid_to]_organization

\* billing_notice and apply_coverage are two rules over the same columns: the
\* one never switches off a tenant whose staff the other told nothing.
NobodyGoesDarkUntold ==
    organization.is_active /\ Notice(organization) = "quiet" => Covering(organization).is_active

\* billing_state: "cancelled, but what was paid for is still theirs".  A
\* tenant whose row says it is paid for is not switched off for billing.
PaidIsTheirs ==
    [][organization.is_active /\ ~organization'.is_active /\ organization'.for_billing
          => organization.paid_through <= now]_organization

\* ADR-028: a payment Stripe has taken brings back a tenant billing switched
\* off, however late the webhook: the daily task re-reads the subscription.
PaidButDark ==
    LET s == organization.subscription
    IN  /\ ~organization.is_active /\ organization.for_billing
        /\ s # NoSub /\ stripe[s].customer = organization.customer
        /\ stripe[s].paid_to > now
PaidComesBack == []<>~PaidButDark

\* ADR-028: and one that nobody paid for goes dark once the grace is over,
\* counted from the last period paid for, or from the start of the one Stripe
\* is collecting when that is all the row ever heard of it.
FreeRide ==
    LET o == organization
    IN  /\ o.is_active /\ ~o.exempt
        /\ now >= o.trial_ends_at + GraceDays
        /\ \A s \in Subs : /\ now >= stripe[s].paid_to + GraceDays
                           /\ now + Period >= stripe[s].period_end + GraceDays
LapseTakesEffect == []<>~FreeRide
=============================================================================
