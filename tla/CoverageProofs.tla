--------------------------- MODULE CoverageProofs ---------------------------
(***************************************************************************)
(* Theorems about Coverage, for any subscriptions, periods, requests and   *)
(* handlers: the rows; the tenant a person switched off, when the admin's  *)
(* form runs alone; and the id of a live subscription and the date on      *)
(* file, when a webhook does.                                              *)
(***************************************************************************)
EXTENDS Coverage, TLAPS

Born(s) == stripe[s].status \notin {"unborn", "page"}

\* Only subscriptions that Stripe has started are on file or asked about, and
\* they run for one period at least.
Started ==
    /\ \A s \in Subs : Born(s) => stripe[s].period_end > Period
    /\ organization.subscription # NoSub => Born(organization.subscription)
    /\ \A r \in Requests : req[r] # Idle =>
          /\ req[r].row.subscription # NoSub => Born(req[r].row.subscription)
          /\ req[r].names # NoSub => Born(req[r].names)

Typed == TypeOK /\ Started

LEMMA BusyIsRequest ==
    ASSUME TypeOK, NEW r \in Requests, req[r] # Idle
    PROVE  req[r] \in Request
BY DEF TypeOK

LEMMA TypeInit == Init => Typed
<1> SUFFICES ASSUME Init PROVE Typed
    OBVIOUS
<1>0. Period \in Nat \ {0} /\ TrialDays \in Nat /\ LastDay \in Nat \ {0}
    BY CoverageAssumption
<1>1. Created + TrialDays \in Date /\ now \in 1 .. LastDay
    <2>1. Created + TrialDays \in Date
        BY <1>0 DEF Date, Created
    <2>2. now = 1
        BY DEF Init, Created
    <2>3. 1 \in 1 .. LastDay
        BY <1>0
    <2> QED
        BY <2>1, <2>2, <2>3
<1>2. organization \in Organization
    BY <1>1 DEF Init, Organization, NoDate
<1>3. stripe \in [Subs -> Subscription] /\ req \in [Requests -> Request \cup {Idle}]
    BY DEF Init, Subscription, NoDate
<1>4. Started
    BY DEF Init, Started, Born
<1> QED
    BY <1>1, <1>2, <1>3, <1>4 DEF Typed, TypeOK

-----------------------------------------------------------------------------
(* What a step does to Stripe's side: nothing starts but from its page, and *)
(* nothing cancelled comes back.                                            *)

Onwards ==
    /\ stripe' \in [Subs -> Subscription]
    /\ \A s \in Subs : /\ Born(s) => Born(s)'
                       /\ Born(s)' => stripe'[s].period_end > Period
                       /\ stripe[s].status = "canceled" => stripe'[s].status = "canceled"

LEMMA AtMoves ==
    ASSUME Typed, NEW s \in Subs, NEW status \in {"active", "past_due", "canceled"},
           NEW paid \in BOOLEAN, NEW end \in Date, end > Period,
           At(s, status, paid, end), stripe[s].status # "canceled"
    PROVE  Onwards
<1>0. stripe \in [Subs -> Subscription] /\ stripe[s] \in Subscription
    BY DEF Typed, TypeOK
<1>1. PICK row : row = [stripe[s] EXCEPT !.status = status, !.paid = paid, !.period_end = end,
                                         !.paid_to = IF paid THEN end ELSE stripe[s].paid_to]
    OBVIOUS
<1>2. stripe' = [stripe EXCEPT ![s] = row]
    BY <1>0, <1>1 DEF At
<1>3. row \in Subscription /\ row.status = status /\ row.period_end = end
    BY <1>0, <1>1 DEF Subscription
<1> QED
    BY <1>0, <1>2, <1>3 DEF Onwards, Born, Typed, Started

LEMMA StripeMoves == Typed /\ [Next]_vars => Onwards
<1> SUFFICES ASSUME Typed, [Next]_vars PROVE Onwards
    OBVIOUS
<1>0. /\ stripe \in [Subs -> Subscription] /\ now \in Nat \ {0} /\ now <= LastDay
      /\ Period \in Nat \ {0} /\ TrialDays \in Nat /\ LastDay \in Nat
    BY CoverageAssumption DEF Typed, TypeOK
<1>same. ASSUME UNCHANGED stripe PROVE Onwards
    BY <1>0, <1>same DEF Onwards, Typed, Started, Born
<1>next. now + Period \in Date /\ now + Period > Period
    BY <1>0 DEF Date
<1>old. ASSUME NEW s \in Subs, Born(s) PROVE stripe[s].period_end \in Date /\ stripe[s].period_end > Period
    BY <1>0, <1>old DEF Typed, Started, Subscription, NoDate
<1>subscribe. ASSUME NEW s \in Subs, Subscribe(s) PROVE Onwards
    BY <1>next, <1>subscribe, AtMoves DEF Subscribe
<1>renew. ASSUME NEW s \in Subs, Renew(s) PROVE Onwards
    BY <1>next, <1>renew, AtMoves DEF Renew, Live
<1>collect. ASSUME NEW s \in Subs, CollectLate(s) PROVE Onwards
    BY <1>old, <1>collect, AtMoves DEF CollectLate, Born
<1>cancel. ASSUME NEW s \in Subs, Cancel(s) PROVE Onwards
    <2>1. stripe[s].paid \in BOOLEAN
        BY <1>0 DEF Subscription
    <2> QED
        BY <1>old, <1>cancel, <2>1, AtMoves DEF Cancel, Live, Born
<1>checkout. ASSUME NEW s \in Subs, StartCheckout(s) PROVE Onwards
    <2>1. PICK customer \in Subs \cup {NoSub} :
             stripe' = [stripe EXCEPT ![s].status = "page", ![s].customer = customer]
        BY <1>checkout DEF StartCheckout, Typed, TypeOK, Organization
    <2>2. PICK row : row = [stripe[s] EXCEPT !.status = "page", !.customer = customer]
        OBVIOUS
    <2>3. row \in Subscription /\ row.status = "page"
        BY <1>0, <2>2 DEF Subscription
    <2>4. stripe' = [stripe EXCEPT ![s] = row]
        BY <1>0, <2>1, <2>2
    <2>5. stripe[s].status = "unborn"
        BY <1>checkout DEF StartCheckout
    <2> QED
        BY <1>0, <2>3, <2>4, <2>5 DEF Onwards, Born, Typed, Started
<1> QED
    BY <1>same, <1>subscribe, <1>renew, <1>collect, <1>cancel, <1>checkout
    DEF Next, AtStripe, Begin, Continue, vars, NextDay, LoadRefresh, LoadDaily, LoadEvent, LoadPatch,
        LoadAdmin, Load, AskStripe, DoWithout, SaveAnswer, SaveCoverage, CommitEvent, SaveRow, Abandon

-----------------------------------------------------------------------------
(* The coverage rule and the mirror keep a row well typed, and each writes  *)
(* its own columns.                                                         *)

LEMMA CoveringTyped ==
    ASSUME NEW o \in Organization
    PROVE  /\ Covering(o) \in Organization
           /\ Covering(o).subscription = o.subscription
           /\ Covering(o).status = o.status
           /\ Covering(o).paid_through = o.paid_through
           /\ ByHand(Covering(o)) <=> ByHand(o)
           /\ Covering(o) # o => ~ByHand(Covering(o))
BY DEF Covering, Organization, ByHand

LEMMA ApplyTyped ==
    ASSUME NEW o \in Organization, NEW to \in Organization
    PROVE  /\ ApplyCoverage(o, to) \in Organization
           /\ ApplyCoverage(o, to).subscription = to.subscription
           /\ ApplyCoverage(o, to).status = to.status
           /\ ApplyCoverage(o, to).paid_through = to.paid_through
           /\ (ByHand(o) <=> ByHand(to)) => (ByHand(ApplyCoverage(o, to)) <=> ByHand(to))
<1>1. CASE Covering(o) = o
    BY <1>1 DEF ApplyCoverage
<1>2. CASE Covering(o) # o
    <2>1. Covering(o) \in Organization /\ ~ByHand(Covering(o)) /\ ~ByHand(o)
        BY <1>2, CoveringTyped
    <2>2. ApplyCoverage(o, to) = [to EXCEPT !.is_active = Covering(o).is_active,
                                            !.for_billing = Covering(o).for_billing]
        BY <1>2 DEF ApplyCoverage
    <2>3. PICK c \in Organization : c = Covering(o)
        BY <2>1
    <2>4. PICK row : row = [to EXCEPT !.is_active = c.is_active, !.for_billing = c.for_billing]
        OBVIOUS
    <2>5. /\ row \in Organization /\ row.subscription = to.subscription /\ row.status = to.status
          /\ row.paid_through = to.paid_through /\ row.is_active = c.is_active /\ row.for_billing = c.for_billing
        BY <2>4 DEF Organization
    <2>6. ApplyCoverage(o, to) = row /\ ~ByHand(row)
        BY <2>1, <2>2, <2>3, <2>4, <2>5 DEF ByHand
    <2> QED
        BY <2>1, <2>5, <2>6
<1> QED
    BY <1>1, <1>2

LEMMA MirroredTyped ==
    ASSUME NEW o \in Organization, NEW s \in Subscription,
           s.status \notin {"unborn", "page"}, s.period_end > Period
    PROVE  /\ Mirrored(o, s) \in Organization
           /\ Mirrored(o, s).subscription = o.subscription
           /\ Mirrored(o, s).status = s.status
           /\ Mirrored(o, s).paid_through = PaidThrough(s, o.paid_through)
           /\ ByHand(Mirrored(o, s)) <=> ByHand(o)
<1>0. Period \in Nat \ {0} /\ TrialDays \in Nat /\ LastDay \in Nat
    BY CoverageAssumption
<1>1. s.period_end \in Date /\ o.paid_through \in Date \cup {NoDate}
    <2>1. s.period_end \in Date \cup {NoDate}
        BY DEF Subscription
    <2>2. s.period_end # NoDate
        BY <1>0 DEF NoDate
    <2> QED
        BY <2>1, <2>2 DEF Organization
<1>2. s.period_end - Period \in Date
    BY <1>0, <1>1 DEF Date
<1>3. PaidThrough(s, o.paid_through) \in Date \cup {NoDate}
    BY <1>1, <1>2 DEF PaidThrough
<1>4. s.status \in {"", "active", "past_due", "canceled"}
    BY DEF Subscription
<1> QED
    BY <1>3, <1>4 DEF Mirrored, Organization, ByHand

LEMMA SaveMirrorTyped ==
    ASSUME NEW o \in Organization, NEW to \in Organization
    PROVE  /\ SaveMirror(o, to) \in Organization
           /\ SaveMirror(o, to).subscription = to.subscription
           /\ SaveMirror(o, to).status = o.status
           /\ SaveMirror(o, to).paid_through = o.paid_through
           /\ ByHand(SaveMirror(o, to)) <=> ByHand(to)
BY DEF SaveMirror, Organization, ByHand

-----------------------------------------------------------------------------
(* What every step does to the row and to what is in flight.                *)

Sound(o) == o \in Organization /\ (o.subscription # NoSub => Born(o.subscription))

SoundReq(q) ==
    /\ q \in Request \cup {Idle}
    /\ q # Idle => Sound(q.row) /\ (q.names # NoSub => Born(q.names))

LEMMA TypedSounds ==
    ASSUME Typed
    PROVE  Sound(organization) /\ \A r \in Requests : SoundReq(req[r])
<1>1. Sound(organization)
    BY DEF Typed, TypeOK, Started, Sound
<1>2. ASSUME NEW r \in Requests, req[r] # Idle PROVE SoundReq(req[r])
    <2>1. req[r] \in Request
        BY <1>2, BusyIsRequest DEF Typed
    <2>2. req[r].row \in Organization
        BY <2>1 DEF Request
    <2> QED
        BY <1>2, <2>1, <2>2 DEF Typed, Started, Sound, SoundReq
<1>3. ASSUME NEW r \in Requests, req[r] = Idle PROVE SoundReq(req[r])
    BY <1>3 DEF SoundReq
<1> QED
    BY <1>1, <1>2, <1>3

\* The row and the requests after a step, against what Stripe held before it.
RowsMove ==
    /\ Sound(organization')
    /\ req' \in [Requests -> Request \cup {Idle}]
    /\ \A r \in Requests : SoundReq(req'[r])

LEMMA OneMoves ==
    ASSUME Typed, NEW r \in Requests, NEW q, SoundReq(q), req' = [req EXCEPT ![r] = q],
           Sound(organization')
    PROVE  RowsMove
<1>1. req \in [Requests -> Request \cup {Idle}] /\ q \in Request \cup {Idle}
    BY DEF Typed, TypeOK, SoundReq
<1>2. req' \in [Requests -> Request \cup {Idle}] /\ req'[r] = q
    BY <1>1
<1>3. ASSUME NEW p \in Requests PROVE SoundReq(req'[p])
    <2>1. CASE p = r
        BY <1>2, <2>1
    <2>2. CASE p # r
        BY <1>1, <2>2, TypedSounds
    <2> QED
        BY <2>1, <2>2
<1> QED
    BY <1>2, <1>3 DEF RowsMove

LEMMA NobodyMoves ==
    ASSUME Typed, UNCHANGED req, Sound(organization')
    PROVE  RowsMove
BY TypedSounds DEF RowsMove, Typed, TypeOK

LEMMA IdleSound == SoundReq(Idle)
BY DEF SoundReq

LEMMA LoadMoves ==
    ASSUME Typed, NEW r \in Requests, NEW k \in Kinds, NEW row, Sound(row),
           NEW names \in Subs \cup {NoSub}, names # NoSub => Born(names), Load(r, k, row, names)
    PROVE  RowsMove
<1>1. PICK q : q = [kind |-> k, phase |-> "loaded", row |-> row, names |-> names]
    OBVIOUS
<1>2. SoundReq(q)
    BY <1>1 DEF SoundReq, Sound, Request
<1>3. req' = [req EXCEPT ![r] = q] /\ Sound(organization')
    BY <1>1, TypedSounds DEF Load, Sound
<1> QED
    BY <1>2, <1>3, OneMoves

LEMMA BeginMoves ==
    ASSUME Typed, NEW r \in Requests, Begin(r)
    PROVE  RowsMove
<1>0. Sound(organization) /\ organization \in Organization
    BY TypedSounds DEF Sound
<1>1. CASE LoadRefresh(r)
    BY <1>0, <1>1, LoadMoves DEF LoadRefresh, Kinds
<1>2. CASE LoadDaily(r)
    BY <1>0, <1>2, LoadMoves DEF LoadDaily, Kinds
<1>3. CASE LoadPatch(r)
    BY <1>0, <1>3, LoadMoves DEF LoadPatch, Kinds
<1>4. CASE LoadAdmin(r)
    <2>0. Period \in Nat \ {0} /\ TrialDays \in Nat /\ LastDay \in Nat \ {0} /\ now \in 1 .. LastDay
        BY CoverageAssumption DEF Typed, TypeOK
    <2>1. now + TrialDays \in Date
        BY <2>0 DEF Date
    <2>2. organization.trial_ends_at \in Date \cup {NoDate} /\ organization.is_active \in BOOLEAN
          /\ organization.exempt \in BOOLEAN /\ organization.for_billing \in BOOLEAN
        BY <1>0 DEF Organization
    <2>3. PICK active  \in MayEdit("is_active", BOOLEAN, organization.is_active),
               exempt  \in MayEdit("billing_exempt", BOOLEAN, organization.exempt),
               trial   \in MayEdit("trial_ends_at", {organization.trial_ends_at, now + TrialDays},
                                   organization.trial_ends_at),
               stamped \in MayEdit("deactivated_for_billing_at", {organization.for_billing, FALSE},
                                   organization.for_billing) :
                 Load(r, "admin",
                      [organization EXCEPT !.is_active = active, !.exempt = exempt,
                                           !.trial_ends_at = trial, !.for_billing = stamped],
                      NoSub)
        BY <1>4, Zenon DEF LoadAdmin
    <2>typed. /\ active \in BOOLEAN /\ exempt \in BOOLEAN /\ stamped \in BOOLEAN
              /\ trial \in Date \cup {NoDate}
        BY <2>1, <2>2 DEF MayEdit
    <2>4. PICK row : row = [organization EXCEPT !.is_active = active, !.exempt = exempt,
                                                !.trial_ends_at = trial, !.for_billing = stamped]
        OBVIOUS
    <2>5. row \in Organization /\ row.subscription = organization.subscription
        BY <1>0, <2>4, <2>typed DEF Organization
    <2>6. Sound(row) /\ Load(r, "admin", row, NoSub)
        BY <1>0, <2>3, <2>4, <2>5 DEF Sound
    <2> QED
        BY <2>6, LoadMoves DEF Kinds
<1> QED
    BY <1>1, <1>2, <1>3, <1>4 DEF Begin

\* An answer: the row is mirrored from the subscription it names, or from the
\* one the event names if it adopts that one.
Answered(r, q) ==
    /\ q \in Request /\ Sound(q.row) /\ (q.names # NoSub => Born(q.names))
    /\ q.kind = req[r].kind
    /\ ByHand(q.row) <=> ByHand(req[r].row)
    /\ q.phase = IF Adopts(r) THEN "adopted" ELSE "asked"
    /\ ~Adopts(r) => q.row.subscription = req[r].row.subscription
    /\ q.row.subscription \in Subs /\ q.row.status = stripe[q.row.subscription].status
    /\ q.row.paid_through = PaidThrough(stripe[q.row.subscription], req[r].row.paid_through)

LEMMA AskAnswers ==
    ASSUME Typed, NEW r \in Requests, AskStripe(r)
    PROVE  /\ req' = [req EXCEPT ![r] = req'[r]] /\ Answered(r, req'[r])
           /\ UNCHANGED <<organization, stripe, now>>
<1>0. req[r] # Idle /\ req \in [Requests -> Request \cup {Idle}]
      /\ UNCHANGED <<organization, stripe, now>>
    BY DEF AskStripe, InFlight, Typed, TypeOK
<1>1. /\ req[r] \in Request /\ Sound(req[r].row) /\ (req[r].names # NoSub => Born(req[r].names))
      /\ req[r].row \in Organization /\ req[r].names \in Subs \cup {NoSub}
    BY <1>0, TypedSounds DEF SoundReq, Sound, Request
<1>2. PICK o : o = Adopting(r)
    OBVIOUS
<1>3. /\ o \in Organization /\ Sound(o) /\ (ByHand(o) <=> ByHand(req[r].row))
      /\ ~Adopts(r) => o.subscription = req[r].row.subscription
      /\ o.paid_through = req[r].row.paid_through
    <2>1. CASE Adopts(r)
        <3>1. o = [req[r].row EXCEPT !.subscription = req[r].names]
            BY <1>2, <2>1 DEF Adopting
        <3>2. o \in Organization /\ o.subscription = req[r].names
              /\ o.paid_through = req[r].row.paid_through
              /\ o.is_active = req[r].row.is_active /\ o.for_billing = req[r].row.for_billing
            BY <1>1, <3>1 DEF Organization
        <3> QED
            BY <1>1, <2>1, <3>2 DEF Sound, ByHand
    <2>2. CASE ~Adopts(r)
        BY <1>1, <1>2, <2>2 DEF Adopting
    <2> QED
        BY <2>1, <2>2
<1>4. PICK s : s = o.subscription
    OBVIOUS
<1>5. s \in Subs /\ Born(s)
    BY <1>2, <1>3, <1>4 DEF AskStripe, Sound, Organization
<1>6. stripe[s] \in Subscription /\ stripe[s].status \notin {"unborn", "page"}
      /\ stripe[s].period_end > Period
    BY <1>5 DEF Typed, TypeOK, Started, Born
<1>7. PICK m : m = Mirrored(o, stripe[s])
    OBVIOUS
<1>8. /\ m \in Organization /\ m.subscription = s /\ m.status = stripe[s].status
      /\ m.paid_through = PaidThrough(stripe[s], o.paid_through) /\ (ByHand(m) <=> ByHand(o))
    BY <1>3, <1>4, <1>6, <1>7, MirroredTyped
<1>9. PICK phase \in {"asked", "adopted"} : phase = IF Adopts(r) THEN "adopted" ELSE "asked"
    OBVIOUS
<1>10. PICK q : q = [req[r] EXCEPT !.row = m, !.phase = phase]
    OBVIOUS
<1>11. /\ q \in Request /\ q.row = m /\ q.names = req[r].names /\ q.kind = req[r].kind
       /\ q.phase = phase
    BY <1>1, <1>8, <1>10 DEF Request
<1>12. req' = [req EXCEPT ![r] = q]
    BY <1>0, <1>2, <1>4, <1>7, <1>9, <1>10 DEF AskStripe
<1>13. Answered(r, q)
    BY <1>1, <1>3, <1>4, <1>5, <1>8, <1>9, <1>11 DEF Answered, Sound
<1> QED
    BY <1>0, <1>12, <1>13

LEMMA ContinueMoves ==
    ASSUME Typed, NEW r \in Requests, Continue(r)
    PROVE  RowsMove
<1>0. /\ req \in [Requests -> Request \cup {Idle}]
      /\ Sound(organization) /\ organization \in Organization
    BY TypedSounds DEF Typed, TypeOK, Sound
<1>busy. ASSUME req[r] # Idle
         PROVE  /\ req[r] \in Request /\ Sound(req[r].row) /\ req[r].row \in Organization
                /\ (req[r].names # NoSub => Born(req[r].names))
    BY <1>busy, TypedSounds DEF SoundReq, Sound
<1>1. CASE AskStripe(r)
    <2>1. SoundReq(req'[r]) /\ Sound(organization')
        BY <1>0, <1>1, AskAnswers DEF SoundReq, Answered
    <2> QED
        BY <1>1, <2>1, AskAnswers, OneMoves
<1>2. CASE DoWithout(r)
    <2>1. PICK q : q = [req[r] EXCEPT !.phase = "last"]
        OBVIOUS
    <2>2. req[r] # Idle
        BY <1>2 DEF DoWithout, InFlight
    <2>3. q \in Request /\ q.row = req[r].row /\ q.names = req[r].names
        BY <1>busy, <2>1, <2>2 DEF Request
    <2>4. req' = [req EXCEPT ![r] = q] /\ Sound(organization')
        BY <1>0, <1>2, <2>1 DEF DoWithout
    <2> QED
        BY <1>busy, <2>2, <2>3, <2>4, OneMoves DEF SoundReq
<1>3. CASE SaveAnswer(r)
    <2>1. PICK q : q = [req[r] EXCEPT !.phase = "saved"]
        OBVIOUS
    <2>2. req[r] # Idle
        BY <1>3 DEF SaveAnswer, InFlight
    <2>3. q \in Request /\ q.row = req[r].row /\ q.names = req[r].names
        BY <1>busy, <2>1, <2>2 DEF Request
    <2>4. req' = [req EXCEPT ![r] = q] /\ organization' = SaveMirror(req[r].row, organization)
        BY <1>0, <1>3, <2>1 DEF SaveAnswer
    <2>5. Sound(organization')
        BY <1>0, <1>busy, <2>2, <2>4, SaveMirrorTyped DEF Sound
    <2> QED
        BY <1>busy, <2>2, <2>3, <2>4, <2>5, OneMoves DEF SoundReq
<1>4. CASE SaveCoverage(r)
    <2>1. req[r] # Idle /\ organization' = ApplyCoverage(req[r].row, organization)
        BY <1>4 DEF SaveCoverage, InFlight
    <2>2. Sound(organization')
        BY <1>0, <1>busy, <2>1, ApplyTyped DEF Sound
    <2>3. PICK c : c = Covering(req[r].row)
        OBVIOUS
    <2>4. c \in Organization /\ c.subscription = req[r].row.subscription
        BY <1>busy, <2>1, <2>3, CoveringTyped
    <2>5. PICK q : q = [req[r] EXCEPT !.row = c, !.phase = "last"]
        OBVIOUS
    <2>6. q \in Request /\ q.row = c /\ q.names = req[r].names
        BY <1>busy, <2>1, <2>4, <2>5 DEF Request
    <2>7. SoundReq(q)
        BY <1>busy, <2>1, <2>4, <2>6 DEF SoundReq, Sound
    <2>8. req' = [req EXCEPT ![r] = q] \/ req' = [req EXCEPT ![r] = Idle]
        BY <1>0, <1>4, <2>3, <2>5 DEF SaveCoverage
    <2> QED
        BY <2>2, <2>7, <2>8, IdleSound, OneMoves
<1>5. CASE CommitEvent(r)
    <2>1. req[r] # Idle /\ req' = [req EXCEPT ![r] = Idle]
        BY <1>5 DEF CommitEvent, InFlight
    <2>2. PICK a : a = IF req[r].phase = "adopted"
                       THEN [organization EXCEPT !.subscription = req[r].row.subscription]
                       ELSE organization
        OBVIOUS
    <2>3. Sound(a) /\ a \in Organization
        BY <1>0, <1>busy, <2>1, <2>2 DEF Sound, Organization
    <2>4. organization' = ApplyCoverage(req[r].row, SaveMirror(req[r].row, a))
        BY <1>5, <2>2 DEF CommitEvent
    <2>5. Sound(organization')
        BY <1>busy, <2>1, <2>3, <2>4, SaveMirrorTyped, ApplyTyped DEF Sound
    <2> QED
        BY <2>1, <2>5, IdleSound, OneMoves
<1>6. CASE SaveRow(r)
    <2>1. /\ req[r] # Idle /\ req' = [req EXCEPT ![r] = Idle] /\ organization' = req[r].row
        BY <1>6 DEF SaveRow, InFlight
    <2> QED
        BY <1>busy, <2>1, IdleSound, OneMoves
<1> QED
    BY <1>1, <1>2, <1>3, <1>4, <1>5, <1>6 DEF Continue

LEMMA CheckoutKeeps ==
    ASSUME Typed, NEW s \in Subs, StartCheckout(s)
    PROVE  /\ Sound(organization') /\ UNCHANGED <<now, req>>
           /\ organization'.subscription = organization.subscription
           /\ organization'.status = organization.status
           /\ organization'.paid_through = organization.paid_through
           /\ ~ByHand(organization) /\ ~ByHand(organization')
<1>0. Sound(organization) /\ organization \in Organization
    BY TypedSounds DEF Sound
<1>1. PICK customer \in Subs \cup {NoSub} :
         organization' = [organization EXCEPT !.customer = customer]
    BY <1>0 DEF StartCheckout, Organization
<1>2. ~ByHand(organization) /\ UNCHANGED <<now, req>>
    BY DEF StartCheckout
<1> QED
    BY <1>0, <1>1, <1>2 DEF Sound, Organization, ByHand

LEMMA AllMove == Typed /\ [Next]_vars => RowsMove /\ now' \in 1 .. LastDay
<1> SUFFICES ASSUME Typed, [Next]_vars PROVE RowsMove /\ now' \in 1 .. LastDay
    OBVIOUS
<1>0. /\ Sound(organization) /\ now \in 1 .. LastDay /\ LastDay \in Nat
    BY TypedSounds, CoverageAssumption DEF Typed, TypeOK
<1>same. ASSUME UNCHANGED <<organization, req>>, now' = now PROVE RowsMove /\ now' \in 1 .. LastDay
    BY <1>0, <1>same, NobodyMoves
<1>1. CASE UNCHANGED vars
    BY <1>1, <1>same DEF vars
<1>2. ASSUME NEW s \in Subs, AtStripe(s) PROVE RowsMove /\ now' \in 1 .. LastDay
    BY <1>2, <1>same DEF AtStripe, Subscribe, Renew, CollectLate, Cancel
<1>3. ASSUME NEW s \in Subs, StartCheckout(s) PROVE RowsMove /\ now' \in 1 .. LastDay
    BY <1>0, <1>3, CheckoutKeeps, NobodyMoves
<1>4. ASSUME NEW s \in Subs, NEW r \in Requests, LoadEvent(r, s)
      PROVE  RowsMove /\ now' \in 1 .. LastDay
    <2>1. Born(s) /\ Load(r, "webhook", organization, s)
        BY <1>4 DEF LoadEvent, Born
    <2> QED
        BY <1>0, <2>1, LoadMoves DEF Kinds, Load
<1>5. ASSUME NEW r \in Requests, Begin(r) PROVE RowsMove /\ now' \in 1 .. LastDay
    <2>1. now' = now
        BY <1>5 DEF Begin, LoadRefresh, LoadDaily, LoadPatch, LoadAdmin, Load
    <2> QED
        BY <1>0, <1>5, <2>1, BeginMoves
<1>6. ASSUME NEW r \in Requests, Continue(r) PROVE RowsMove /\ now' \in 1 .. LastDay
    <2>1. now' = now
        BY <1>6 DEF Continue, AskStripe, DoWithout, SaveAnswer, SaveCoverage, CommitEvent, SaveRow
    <2> QED
        BY <1>0, <1>6, <2>1, ContinueMoves
<1>7. ASSUME NEW r \in Requests, Abandon(r) PROVE RowsMove /\ now' \in 1 .. LastDay
    BY <1>0, <1>7, IdleSound, OneMoves DEF Abandon
<1>8. CASE NextDay
    <2>1. RowsMove
        BY <1>0, <1>8, NobodyMoves DEF NextDay
    <2>2. now' \in 1 .. LastDay
        BY <1>0, <1>8 DEF NextDay
    <2> QED
        BY <2>1, <2>2
<1> QED
    BY <1>1, <1>2, <1>3, <1>4, <1>5, <1>6, <1>7, <1>8 DEF Next

LEMMA TypeNext == Typed /\ [Next]_vars => Typed'
<1> SUFFICES ASSUME Typed, [Next]_vars PROVE Typed'
    OBVIOUS
<1>1. Onwards /\ RowsMove /\ now' \in 1 .. LastDay
    BY StripeMoves, AllMove
<1>2. TypeOK'
    BY <1>1 DEF TypeOK, Onwards, RowsMove, Sound
<1>3. ASSUME NEW s \in Subs, Born(s)' PROVE stripe'[s].period_end > Period
    BY <1>1, <1>3 DEF Onwards
<1>4. ASSUME organization'.subscription # NoSub PROVE Born(organization.subscription)'
    <2>1. organization'.subscription \in Subs
        BY <1>1, <1>4 DEF RowsMove, Sound, Organization
    <2>2. PICK s \in Subs : s = organization'.subscription
        BY <2>1
    <2>3. Born(s)
        BY <1>1, <1>4, <2>2 DEF RowsMove, Sound
    <2>4. Born(s)'
        BY <1>1, <2>3 DEF Onwards
    <2> QED
        BY <2>2, <2>4 DEF Born
<1>5. ASSUME NEW r \in Requests, req'[r] # Idle
      PROVE  /\ req'[r].row.subscription # NoSub => Born(req[r].row.subscription)'
             /\ req'[r].names # NoSub => Born(req[r].names)'
    <2>1. SoundReq(req'[r])
        BY <1>1 DEF RowsMove
    <2>2. /\ req'[r].row.subscription \in Subs \cup {NoSub}
          /\ req'[r].names \in Subs \cup {NoSub}
        BY <1>5, <2>1 DEF SoundReq, Sound, Organization, Request
    <2>3. PICK s : s = req'[r].row.subscription
        OBVIOUS
    <2>4. PICK t : t = req'[r].names
        OBVIOUS
    <2>5. s # NoSub => Born(s)
        BY <1>5, <2>1, <2>3 DEF SoundReq, Sound
    <2>6. t # NoSub => Born(t)
        BY <1>5, <2>1, <2>4 DEF SoundReq
    <2>7. (s # NoSub => Born(s)') /\ (t # NoSub => Born(t)')
        BY <1>1, <2>2, <2>3, <2>4, <2>5, <2>6 DEF Onwards
    <2> QED
        BY <2>3, <2>4, <2>7 DEF Born
<1> QED
    BY <1>2, <1>3, <1>4, <1>5 DEF Typed, Started

LEMMA TypedAlways == Spec => []Typed
<1> QED
    BY TypeInit, TypeNext, PTL DEF Spec

\* Whatever people, Stripe and the daily task do, every row holds what its
\* columns can hold.
THEOREM CoverageTypeCorrect == Spec => []TypeOK
<1>1. Typed => TypeOK
    BY DEF Typed
<1> QED
    BY <1>1, TypedAlways, PTL

-----------------------------------------------------------------------------
(* The notice and the switch.                                               *)

LEMMA CoveredIsADay ==
    ASSUME NEW o \in Organization
    PROVE  CoveredUntil(o) \in Nat
<1>0. Period \in Nat /\ TrialDays \in Nat /\ LastDay \in Nat
    BY CoverageAssumption
<1>1. o.trial_ends_at \in Nat /\ o.paid_through \in Nat
    <2>1. Date \subseteq Nat
        <3>1. PICK n \in Nat : n = LastDay + Period + TrialDays
            BY <1>0
        <3>2. Date = 1 .. n
            BY <3>1 DEF Date
        <3> QED
            BY <3>2
    <2>2. o.trial_ends_at \in Date \cup {0} /\ o.paid_through \in Date \cup {0}
        BY DEF Organization, NoDate
    <2>3. ASSUME NEW d \in Date \cup {0} PROVE d \in Nat
        BY <2>1
    <2> QED
        BY <2>2, <2>3
<1>2. \E d \in {Created, o.trial_ends_at, o.paid_through} :
         \A e \in {Created, o.trial_ends_at, o.paid_through} : e <= d
    <2>1. \A a, b, c \in Nat : \E d \in {a, b, c} : a <= d /\ b <= d /\ c <= d
        OBVIOUS
    <2>2. Created \in Nat
        BY DEF Created
    <2> QED
        BY <1>1, <2>1, <2>2
<1> QED
    BY <1>1, <1>2 DEF CoveredUntil, Created

\* A tenant about to be switched off has passed the end of its cover, and
\* billing_notice has a warning for each way of being there.
LEMMA WarnedFirst == TypeOK => NobodyGoesDarkUntold
<1> SUFFICES ASSUME TypeOK, organization.is_active, ~Covering(organization).is_active
             PROVE  Notice(organization) # "quiet"
    BY DEF NobodyGoesDarkUntold
<1>0. /\ organization \in Organization /\ now \in Nat /\ GraceDays \in Nat
      /\ CoveredUntil(organization) \in Nat
    BY CoverageAssumption, CoveredIsADay DEF TypeOK
<1>1. GraceOver(organization)
    BY DEF Covering
<1>2. ~organization.exempt /\ CoveredUntil(organization) <= now
    BY <1>0, <1>1 DEF GraceOver
<1>3. BillingState(organization) \in {"past_due", "lapsed"}
    BY <1>2 DEF BillingState
<1> QED
    BY <1>3 DEF Notice

\* Nobody is switched off whose staff billing_notice told nothing.
THEOREM NobodyDarkUntold == Spec => []NobodyGoesDarkUntold
<1> QED
    BY CoverageTypeCorrect, WarnedFirst, PTL

-----------------------------------------------------------------------------
(* The tenant a person switched off.  As long as the admin's form has the   *)
(* tenant to itself, every other handler in flight knows it.                *)

Exclusive(k) ==
    \A r, q \in Requests :
        req[r] # Idle /\ req[r].kind = k /\ q # r => req[q] = Idle

HandKnown ==
    \A r \in Requests :
        req[r] # Idle /\ req[r].kind # "admin" => (ByHand(req[r].row) <=> ByHand(organization))

HandInv == Typed /\ Exclusive("admin") /\ HandKnown

\* A handler in flight keeps its kind, and only Load puts another there.
LEMMA ExclusiveStays ==
    ASSUME Typed, NEW k \in Alone, Exclusive(k), [Next]_vars
    PROVE  Exclusive(k)'
<1>0. k \in Kinds /\ req \in [Requests -> Request \cup {Idle}]
    BY CoverageAssumption DEF Typed, TypeOK
<1>same. ASSUME UNCHANGED req PROVE Exclusive(k)'
    BY <1>same DEF Exclusive
<1>step. ASSUME NEW r \in Requests, NEW x, req' = [req EXCEPT ![r] = x],
                x = Idle \/ (req[r] # Idle /\ x.kind = req[r].kind)
         PROVE  Exclusive(k)'
    <2>1. req'[r] = x /\ \A q \in Requests \ {r} : req'[q] = req[q]
        BY <1>0, <1>step
    <2> QED
        BY <1>step, <2>1 DEF Exclusive
<1>load. ASSUME NEW r \in Requests, NEW j, NEW row, NEW names, Load(r, j, row, names)
         PROVE  Exclusive(k)'
    <2>1. PICK q : q = [kind |-> j, phase |-> "loaded", row |-> row, names |-> names]
        OBVIOUS
    <2>2. req' = [req EXCEPT ![r] = q] /\ q.kind = j
        BY <1>load, <2>1 DEF Load
    <2>3. \A p \in Requests : req[p] # Idle => j # k /\ req[p].kind # k
        BY <1>load DEF Load
    <2>4. req'[r] = q /\ \A p \in Requests \ {r} : req'[p] = req[p]
        BY <1>0, <2>2
    <2> QED
        BY <2>2, <2>3, <2>4 DEF Exclusive
<1>1. CASE UNCHANGED vars
    BY <1>1, <1>same DEF vars
<1>2. ASSUME NEW s \in Subs, AtStripe(s) \/ StartCheckout(s) PROVE Exclusive(k)'
    BY <1>2, <1>same, CheckoutKeeps DEF AtStripe, Subscribe, Renew, CollectLate, Cancel
<1>3. ASSUME NEW s \in Subs, NEW r \in Requests, LoadEvent(r, s) PROVE Exclusive(k)'
    BY <1>3, <1>load DEF LoadEvent
<1>4. ASSUME NEW r \in Requests, Begin(r) PROVE Exclusive(k)'
    <2>1. PICK j, row, names : Load(r, j, row, names)
        BY <1>4 DEF Begin, LoadRefresh, LoadDaily, LoadPatch, LoadAdmin
    <2> QED
        BY <1>load, <2>1
<1>5. ASSUME NEW r \in Requests, Continue(r) PROVE Exclusive(k)'
    <2>0. req[r] # Idle /\ req[r] \in Request
        BY <1>5, BusyIsRequest
        DEF Continue, AskStripe, DoWithout, SaveAnswer, SaveCoverage, CommitEvent, SaveRow,
            InFlight, Typed
    <2>1. CASE AskStripe(r)
        <3>1. req' = [req EXCEPT ![r] = req'[r]] /\ req'[r].kind = req[r].kind
            BY <2>1, AskAnswers DEF Answered
        <3>2. PICK x : x = req'[r]
            OBVIOUS
        <3> QED
            BY <1>step, <2>0, <3>1, <3>2
    <2>2. CASE DoWithout(r) \/ SaveAnswer(r)
        <3>1. PICK phase \in {"last", "saved"} : req' = [req EXCEPT ![r].phase = phase]
            BY <2>2 DEF DoWithout, SaveAnswer
        <3>2. PICK x : x = [req[r] EXCEPT !.phase = phase]
            OBVIOUS
        <3>3. x.kind = req[r].kind /\ req' = [req EXCEPT ![r] = x]
            BY <1>0, <2>0, <3>1, <3>2 DEF Request
        <3> QED
            BY <1>step, <2>0, <3>3
    <2>3. CASE SaveCoverage(r)
        <3>1. PICK x : x = [req[r] EXCEPT !.row = Covering(req[r].row), !.phase = "last"]
            OBVIOUS
        <3>2. x.kind = req[r].kind
            BY <2>0, <3>1 DEF Request
        <3>3. req' = [req EXCEPT ![r] = x] \/ req' = [req EXCEPT ![r] = Idle]
            BY <2>3, <3>1 DEF SaveCoverage
        <3> QED
            BY <1>step, <2>0, <3>2, <3>3
    <2>4. CASE CommitEvent(r) \/ SaveRow(r)
        BY <1>step, <2>4 DEF CommitEvent, SaveRow
    <2> QED
        BY <1>5, <2>1, <2>2, <2>3, <2>4 DEF Continue
<1>6. ASSUME NEW r \in Requests, Abandon(r) PROVE Exclusive(k)'
    BY <1>6, <1>step DEF Abandon
<1>7. CASE NextDay
    BY <1>7, <1>same DEF NextDay
<1> QED
    BY <1>1, <1>2, <1>3, <1>4, <1>5, <1>6, <1>7 DEF Next

HandMove ==
    ByHand(organization) /\ ~ByHand(organization')
        => \E r \in Requests : InFlight(r, {"admin"}, "loaded")

LEMMA HandNext == "admin" \in Alone /\ HandInv /\ [Next]_vars => HandInv' /\ HandMove
<1> SUFFICES ASSUME "admin" \in Alone, HandInv, [Next]_vars PROVE HandKnown' /\ HandMove
    BY TypeNext, ExclusiveStays DEF HandInv
<1>0. /\ Typed /\ Exclusive("admin") /\ HandKnown
      /\ req \in [Requests -> Request \cup {Idle}] /\ organization \in Organization
    BY DEF HandInv, Typed, TypeOK
<1>same. ASSUME UNCHANGED req, ByHand(organization') <=> ByHand(organization)
         PROVE  HandKnown' /\ HandMove
    BY <1>0, <1>same DEF HandKnown, HandMove, ByHand
<1>step. ASSUME NEW r \in Requests, NEW x, req' = [req EXCEPT ![r] = x],
                x # Idle /\ x.kind # "admin" => (ByHand(x.row) <=> ByHand(organization)),
                ByHand(organization') <=> ByHand(organization)
         PROVE  HandKnown' /\ HandMove
    <2>1. req'[r] = x /\ \A q \in Requests \ {r} : req'[q] = req[q]
        BY <1>0, <1>step
    <2>2. ASSUME NEW q \in Requests, req'[q] # Idle, req'[q].kind # "admin"
          PROVE  ByHand(req'[q].row) <=> ByHand(organization')
        <3>1. CASE q = r
            BY <1>step, <2>1, <2>2, <3>1
        <3>2. CASE q # r
            BY <1>0, <1>step, <2>1, <2>2, <3>2 DEF HandKnown
        <3> QED
            BY <3>1, <3>2
    <2> QED
        BY <1>step, <2>2 DEF HandKnown, HandMove, ByHand
<1>load. ASSUME NEW r \in Requests, NEW j, NEW row, NEW names, Load(r, j, row, names),
                j = "admin" \/ row = organization
         PROVE  HandKnown' /\ HandMove
    <2>1. PICK q : q = [kind |-> j, phase |-> "loaded", row |-> row, names |-> names]
        OBVIOUS
    <2>2. req' = [req EXCEPT ![r] = q] /\ q.kind = j /\ q.row = row /\ UNCHANGED organization
        BY <1>load, <2>1 DEF Load
    <2> QED
        BY <1>load, <1>step, <2>2
<1>1. CASE UNCHANGED vars
    BY <1>1, <1>same DEF vars
<1>2. ASSUME NEW s \in Subs, AtStripe(s) \/ StartCheckout(s) PROVE HandKnown' /\ HandMove
    BY <1>0, <1>2, <1>same, CheckoutKeeps DEF AtStripe, Subscribe, Renew, CollectLate, Cancel
<1>3. ASSUME NEW s \in Subs, NEW r \in Requests, LoadEvent(r, s) PROVE HandKnown' /\ HandMove
    BY <1>3, <1>load DEF LoadEvent
<1>4. ASSUME NEW r \in Requests, Begin(r) PROVE HandKnown' /\ HandMove
    <2>1. PICK j, row, names : Load(r, j, row, names) /\ (j = "admin" \/ row = organization)
        BY <1>4 DEF Begin, LoadRefresh, LoadDaily, LoadPatch, LoadAdmin
    <2> QED
        BY <1>load, <2>1
<1>5. ASSUME NEW r \in Requests, Continue(r) PROVE HandKnown' /\ HandMove
    <2>0. /\ req[r] # Idle /\ req[r] \in Request /\ req[r].row \in Organization
          /\ req[r].kind # "admin" => (ByHand(req[r].row) <=> ByHand(organization))
        <3>1. req[r] # Idle
            BY <1>5 DEF Continue, AskStripe, DoWithout, SaveAnswer, SaveCoverage, CommitEvent, SaveRow,
                        InFlight
        <3> QED
            BY <1>0, <3>1, BusyIsRequest, TypedSounds DEF Typed, HandKnown, Request
    <2>1. CASE AskStripe(r)
        <3>1. /\ req' = [req EXCEPT ![r] = req'[r]] /\ req'[r].kind = req[r].kind
              /\ ByHand(req'[r].row) <=> ByHand(req[r].row)
              /\ UNCHANGED organization
            BY <1>0, <2>1, AskAnswers DEF Answered
        <3>2. PICK x : x = req'[r]
            OBVIOUS
        <3> QED
            BY <1>step, <2>0, <3>1, <3>2
    <2>2. CASE DoWithout(r) \/ SaveAnswer(r)
        <3>1. PICK phase \in {"last", "saved"} : req' = [req EXCEPT ![r].phase = phase]
            BY <2>2 DEF DoWithout, SaveAnswer
        <3>2. PICK x : x = [req[r] EXCEPT !.phase = phase]
            OBVIOUS
        <3>3. x.kind = req[r].kind /\ x.row = req[r].row /\ req' = [req EXCEPT ![r] = x]
            BY <1>0, <2>0, <3>1, <3>2 DEF Request
        <3>4. ByHand(organization') <=> ByHand(organization)
            BY <1>0, <2>0, <2>2, SaveMirrorTyped DEF DoWithout, SaveAnswer
        <3> QED
            BY <1>step, <2>0, <3>3, <3>4
    <2>3. CASE SaveCoverage(r)
        <3>1. PICK c : c = Covering(req[r].row)
            OBVIOUS
        <3>2. c \in Organization /\ (ByHand(c) <=> ByHand(req[r].row))
            BY <2>0, <3>1, CoveringTyped
        <3>3. PICK x : x = [req[r] EXCEPT !.row = c, !.phase = "last"]
            OBVIOUS
        <3>4. x.kind = req[r].kind /\ x.row = c
            BY <2>0, <3>2, <3>3 DEF Request
        <3>5. req' = [req EXCEPT ![r] = x] \/ req' = [req EXCEPT ![r] = Idle]
            BY <2>3, <3>1, <3>3 DEF SaveCoverage
        <3>6. req[r].kind \in {"refresh", "daily"}
            BY <2>3 DEF SaveCoverage, InFlight
        <3>7. ByHand(organization') <=> ByHand(organization)
            BY <1>0, <2>0, <2>3, <3>6, ApplyTyped DEF SaveCoverage
        <3> QED
            BY <1>step, <2>0, <3>2, <3>4, <3>5, <3>6, <3>7
    <2>4. CASE CommitEvent(r)
        <3>1. req[r].kind = "webhook" /\ req' = [req EXCEPT ![r] = Idle]
            BY <2>4 DEF CommitEvent, InFlight
        <3>2. PICK a : a = IF req[r].phase = "adopted"
                           THEN [organization EXCEPT !.subscription = req[r].row.subscription]
                           ELSE organization
            OBVIOUS
        <3>3. a \in Organization /\ (ByHand(a) <=> ByHand(organization))
            BY <1>0, <2>0, <3>2 DEF Organization, ByHand
        <3>4. organization' = ApplyCoverage(req[r].row, SaveMirror(req[r].row, a))
            BY <2>4, <3>2 DEF CommitEvent
        <3>5. PICK m : m = SaveMirror(req[r].row, a)
            OBVIOUS
        <3>6. m \in Organization /\ (ByHand(m) <=> ByHand(organization))
            BY <2>0, <3>3, <3>5, SaveMirrorTyped
        <3>7. ByHand(ApplyCoverage(req[r].row, m)) <=> ByHand(m)
            BY <2>0, <3>1, <3>6, ApplyTyped
        <3>8. ByHand(organization') <=> ByHand(organization)
            BY <3>4, <3>5, <3>6, <3>7
        <3> QED
            BY <1>step, <3>1, <3>8
    <2>5. CASE SaveRow(r)
        <3>1. /\ req' = [req EXCEPT ![r] = Idle] /\ organization' = req[r].row
              /\ req[r].phase = "loaded" /\ req[r].kind \in {"patch", "admin"}
            BY <2>5 DEF SaveRow, InFlight
        <3>2. CASE req[r].kind = "patch"
            BY <1>step, <2>0, <3>1, <3>2
        <3>3. CASE req[r].kind = "admin"
            <4>1. \A q \in Requests : req'[q] = Idle
                BY <1>0, <2>0, <3>1, <3>3 DEF Exclusive
            <4>2. InFlight(r, {"admin"}, "loaded")
                BY <2>0, <3>1, <3>3 DEF InFlight
            <4> QED
                BY <4>1, <4>2 DEF HandKnown, HandMove
        <3> QED
            BY <3>1, <3>2, <3>3
    <2> QED
        BY <1>5, <2>1, <2>2, <2>3, <2>4, <2>5 DEF Continue
<1>6. ASSUME NEW r \in Requests, Abandon(r) PROVE HandKnown' /\ HandMove
    BY <1>6, <1>step DEF Abandon
<1>7. CASE NextDay
    BY <1>7, <1>same DEF NextDay
<1> QED
    BY <1>1, <1>2, <1>3, <1>4, <1>5, <1>6, <1>7 DEF Next

\* When nothing runs beside the admin's form, no step but that form's ends a
\* deactivation by hand: no answer of Stripe's, no PATCH, no daily task.
THEOREM HandIsKept ==
    ASSUME "admin" \in Alone
    PROVE  Spec => HandStands
<1>1. Init => HandInv
    BY TypeInit DEF Init, HandInv, Exclusive, HandKnown
<1>2. HandInv /\ [Next]_vars => HandInv'
    BY HandNext
<1>3. HandInv /\ [Next]_vars
        => [ByHand(organization) /\ ~ByHand(organization')
              => \E r \in Requests : InFlight(r, {"admin"}, "loaded")]_vars
    BY HandNext DEF HandMove
<1> QED
    BY <1>1, <1>2, <1>3, PTL DEF Spec, HandStands

-----------------------------------------------------------------------------
(* The id of a live subscription.  As long as a webhook has the tenant to   *)
(* itself, what every other handler loaded still is the subscription on     *)
(* file, and a status that is not live is Stripe's last word on it.         *)

Told(o) == o.subscription # NoSub => Live(o.status) \/ stripe[o.subscription].status = "canceled"

ToldReq(q) ==
    q # Idle => /\ Told(q.row)
                /\ q.phase # "adopted" => q.row.subscription = organization.subscription
                /\ q.phase = "adopted" => q.kind = "webhook" /\ ~IsLive(organization.subscription)

IdKnown == Told(organization) /\ \A r \in Requests : ToldReq(req[r])

IdInv == Typed /\ Exclusive("webhook") /\ IdKnown

\* What is known of the row and of the requests, against what Stripe held.
IdMove ==
    /\ Told(organization')
    /\ \A r \in Requests :
          req'[r] # Idle =>
            /\ Told(req'[r].row)
            /\ req'[r].phase # "adopted" => req'[r].row.subscription = organization'.subscription
            /\ req'[r].phase = "adopted" => /\ req'[r].kind = "webhook"
                                            /\ ~IsLive(organization'.subscription)
    /\ IsLive(organization.subscription) => IsLive(organization'.subscription)

\* Nothing cancelled comes back, so it is known of what Stripe holds next too.
LEMMA IdCarries ==
    ASSUME Typed, [Next]_vars, IdMove
    PROVE  IdKnown'
<1>0. Onwards /\ RowsMove
    BY StripeMoves, AllMove
<1>told. ASSUME NEW o, Sound(o), Told(o), NEW s, s = o.subscription
         PROVE  s # NoSub => Live(o.status) \/ stripe'[s].status = "canceled"
    <2>1. s \in Subs \cup {NoSub}
        BY <1>told DEF Sound, Organization
    <2> QED
        BY <1>0, <1>told, <2>1 DEF Told, Onwards
<1>dark. ASSUME NEW s \in Subs \cup {NoSub}, s # NoSub => Born(s), ~IsLive(s)
         PROVE  s = NoSub \/ ~Live(stripe'[s].status)
    <2>1. CASE s = NoSub
        BY <2>1
    <2>2. CASE s # NoSub
        <3>1. s \in Subs /\ stripe[s] \in Subscription /\ stripe[s].status \notin {"unborn", "page"}
              /\ ~Live(stripe[s].status)
            BY <1>dark, <2>2 DEF Typed, TypeOK, Born, IsLive
        <3>2. stripe[s].status = "canceled"
            BY <3>1 DEF Subscription, Live
        <3>3. stripe'[s].status = "canceled"
            BY <1>0, <3>1, <3>2 DEF Onwards
        <3> QED
            BY <3>3 DEF Live
    <2> QED
        BY <2>1, <2>2
<1>1. Told(organization)'
    <2>1. PICK o : o = organization'
        OBVIOUS
    <2>2. Sound(o) /\ Told(o)
        BY <1>0, <2>1 DEF RowsMove, IdMove
    <2> QED
        BY <1>told, <2>1, <2>2 DEF Told
<1>2. ASSUME NEW r \in Requests PROVE ToldReq(req[r])'
    <2>1. CASE req'[r] = Idle
        BY <2>1 DEF ToldReq, Idle
    <2>2. CASE req'[r] # Idle
        <3>1. PICK q : q = req'[r]
            OBVIOUS
        <3>2. PICK s : s = organization'.subscription
            OBVIOUS
        <3>3. Sound(q.row) /\ Told(q.row) /\ q # Idle
            BY <1>0, <2>2, <3>1 DEF RowsMove, IdMove, SoundReq
        <3>4. /\ q.phase # "adopted" => q.row.subscription = s
              /\ q.phase = "adopted" => q.kind = "webhook" /\ ~IsLive(s)
            BY <2>2, <3>1, <3>2 DEF IdMove
        <3>5. s \in Subs \cup {NoSub} /\ (s # NoSub => Born(s))
            BY <1>0, <3>2 DEF RowsMove, Sound, Organization
        <3>6. /\ q.row.subscription # NoSub
                    => Live(q.row.status) \/ stripe'[q.row.subscription].status = "canceled"
              /\ q.phase = "adopted" => s = NoSub \/ ~Live(stripe'[s].status)
            BY <1>told, <1>dark, <3>3, <3>4, <3>5
        <3> QED
            BY <3>1, <3>2, <3>4, <3>6 DEF ToldReq, Told, IsLive, Idle
    <2> QED
        BY <2>1, <2>2
<1> QED
    BY <1>1, <1>2 DEF IdKnown

LEMMA IdMoves ==
    ASSUME IdInv, [Next]_vars
    PROVE  IdMove
<1>0. /\ Typed /\ Exclusive("webhook") /\ Told(organization)
      /\ \A r \in Requests : ToldReq(req[r])
      /\ req \in [Requests -> Request \cup {Idle}] /\ organization \in Organization
      /\ Sound(organization)
    BY TypedSounds DEF IdInv, IdKnown, Typed, TypeOK
<1>same. ASSUME UNCHANGED req, organization'.subscription = organization.subscription,
                Told(organization')
         PROVE  IdMove
    BY <1>0, <1>same DEF IdMove, ToldReq
<1>step. ASSUME NEW r \in Requests, NEW x, req' = [req EXCEPT ![r] = x],
                organization'.subscription = organization.subscription, Told(organization'),
                ToldReq(x)
         PROVE  IdMove
    <2>1. req'[r] = x /\ \A q \in Requests \ {r} : req'[q] = req[q]
        BY <1>0, <1>step
    <2>2. ASSUME NEW q \in Requests PROVE ToldReq(req'[q])
        <3>1. CASE q = r
            BY <1>step, <2>1, <3>1
        <3>2. CASE q # r
            BY <1>0, <2>1, <3>2
        <3> QED
            BY <3>1, <3>2
    <2> QED
        BY <1>step, <2>2 DEF IdMove, ToldReq
<1>load. ASSUME NEW r \in Requests, NEW j, NEW row, NEW names, Load(r, j, row, names),
                row.subscription = organization.subscription, row.status = organization.status
         PROVE  IdMove
    <2>1. PICK q : q = [kind |-> j, phase |-> "loaded", row |-> row, names |-> names]
        OBVIOUS
    <2>2. req' = [req EXCEPT ![r] = q] /\ q.phase = "loaded" /\ q.row = row /\ UNCHANGED organization
        BY <1>load, <2>1 DEF Load
    <2>3. ToldReq(q)
        BY <1>0, <1>load, <2>2 DEF ToldReq, Told
    <2> QED
        BY <1>0, <1>step, <2>2, <2>3
<1>1. CASE UNCHANGED vars
    BY <1>0, <1>1, <1>same DEF vars
<1>2. ASSUME NEW s \in Subs, AtStripe(s) PROVE IdMove
    BY <1>0, <1>2, <1>same DEF AtStripe, Subscribe, Renew, CollectLate, Cancel
<1>3. ASSUME NEW s \in Subs, StartCheckout(s) PROVE IdMove
    <2>1. /\ UNCHANGED req /\ organization'.subscription = organization.subscription
          /\ organization'.status = organization.status
        BY <1>0, <1>3, CheckoutKeeps
    <2> QED
        BY <1>0, <1>same, <2>1 DEF Told
<1>4. ASSUME NEW s \in Subs, NEW r \in Requests, LoadEvent(r, s) PROVE IdMove
    BY <1>4, <1>load DEF LoadEvent
<1>5. ASSUME NEW r \in Requests, Begin(r) PROVE IdMove
    <2>1. CASE LoadRefresh(r) \/ LoadDaily(r) \/ LoadPatch(r)
        BY <1>load, <2>1 DEF LoadRefresh, LoadDaily, LoadPatch
    <2>2. CASE LoadAdmin(r)
        <3>1. PICK active, exempt, trial, stamped :
                 Load(r, "admin",
                      [organization EXCEPT !.is_active = active, !.exempt = exempt,
                                           !.trial_ends_at = trial, !.for_billing = stamped],
                      NoSub)
            BY <2>2, Zenon DEF LoadAdmin
        <3>2. PICK row : row = [organization EXCEPT !.is_active = active, !.exempt = exempt,
                                                    !.trial_ends_at = trial, !.for_billing = stamped]
            OBVIOUS
        <3>3. /\ row.subscription = organization.subscription /\ row.status = organization.status
              /\ Load(r, "admin", row, NoSub)
            BY <1>0, <3>1, <3>2 DEF Organization
        <3> QED
            BY <1>load, <3>3
    <2> QED
        BY <1>5, <2>1, <2>2 DEF Begin
<1>6. ASSUME NEW r \in Requests, Continue(r) PROVE IdMove
    <2>0. /\ req[r] # Idle /\ req[r] \in Request /\ req[r].row \in Organization
          /\ Told(req[r].row) /\ Sound(req[r].row)
          /\ req[r].phase # "adopted" => req[r].row.subscription = organization.subscription
          /\ req[r].phase = "adopted" => req[r].kind = "webhook" /\ ~IsLive(organization.subscription)
        <3>1. req[r] # Idle
            BY <1>6 DEF Continue, AskStripe, DoWithout, SaveAnswer, SaveCoverage, CommitEvent, SaveRow,
                        InFlight
        <3> QED
            BY <1>0, <3>1, BusyIsRequest, TypedSounds DEF ToldReq, Request, SoundReq
    <2>1. CASE AskStripe(r)
        <3>1. PICK x : x = req'[r]
            OBVIOUS
        <3>2. req' = [req EXCEPT ![r] = x] /\ Answered(r, x) /\ UNCHANGED organization
            BY <1>0, <2>1, <3>1, AskAnswers
        <3>3. req[r].phase = "loaded"
            BY <2>1 DEF AskStripe, InFlight
        <3>4. stripe[x.row.subscription] \in Subscription /\ Born(x.row.subscription)
              /\ x.row.status = stripe[x.row.subscription].status
            <4>1. x.row.subscription \in Subs /\ x.row.subscription # NoSub
                BY <3>2, CoverageAssumption DEF Answered
            <4> QED
                BY <1>0, <3>2, <4>1 DEF Answered, Sound, Typed, TypeOK
        <3>5. Told(x.row)
            BY <3>4 DEF Told, Live, Born, Subscription
        <3>6. CASE Adopts(r)
            <4>1. req[r].kind = "webhook" /\ ~IsLive(organization.subscription)
                BY <2>0, <3>3, <3>6 DEF Adopts, Told, IsLive, Live
            <4>2. ToldReq(x)
                BY <3>2, <3>5, <3>6, <4>1 DEF ToldReq, Answered
            <4> QED
                BY <1>0, <1>step, <3>2, <4>2
        <3>7. CASE ~Adopts(r)
            <4>1. ToldReq(x)
                BY <2>0, <3>2, <3>3, <3>5, <3>7 DEF ToldReq, Answered
            <4> QED
                BY <1>0, <1>step, <3>2, <4>1
        <3> QED
            BY <3>6, <3>7
    <2>2. CASE DoWithout(r)
        <3>1. PICK x : x = [req[r] EXCEPT !.phase = "last"]
            OBVIOUS
        <3>2. x.phase = "last" /\ x.row = req[r].row /\ req[r].phase = "loaded"
              /\ req' = [req EXCEPT ![r] = x] /\ UNCHANGED organization
            BY <1>0, <2>0, <2>2, <3>1 DEF Request, DoWithout, InFlight
        <3>3. ToldReq(x)
            BY <2>0, <3>2 DEF ToldReq
        <3> QED
            BY <1>0, <1>step, <3>2, <3>3
    <2>3. CASE SaveAnswer(r)
        <3>1. PICK x : x = [req[r] EXCEPT !.phase = "saved"]
            OBVIOUS
        <3>2. x.phase = "saved" /\ x.row = req[r].row /\ req[r].phase = "asked"
              /\ req' = [req EXCEPT ![r] = x]
              /\ organization' = SaveMirror(req[r].row, organization)
            BY <1>0, <2>0, <2>3, <3>1 DEF Request, SaveAnswer, InFlight
        <3>3. ToldReq(x)
            BY <2>0, <3>2 DEF ToldReq
        <3>4. organization'.subscription = organization.subscription
              /\ organization'.status = req[r].row.status
            BY <1>0, <2>0, <3>2, SaveMirrorTyped
        <3>5. Told(organization')
            BY <2>0, <3>2, <3>4 DEF Told
        <3> QED
            BY <1>step, <3>2, <3>3, <3>4, <3>5
    <2>4. CASE SaveCoverage(r)
        <3>1. PICK c : c = Covering(req[r].row)
            OBVIOUS
        <3>2. /\ c \in Organization /\ c.subscription = req[r].row.subscription
              /\ c.status = req[r].row.status
            BY <2>0, <3>1, CoveringTyped
        <3>3. PICK x : x = [req[r] EXCEPT !.row = c, !.phase = "last"]
            OBVIOUS
        <3>4. x.phase = "last" /\ x.row = c /\ req[r].phase # "adopted"
            BY <2>0, <2>4, <3>2, <3>3 DEF Request, SaveCoverage, InFlight
        <3>5. ToldReq(x)
            BY <2>0, <3>2, <3>4 DEF ToldReq, Told
        <3>6. req' = [req EXCEPT ![r] = x] \/ req' = [req EXCEPT ![r] = Idle]
            BY <2>4, <3>1, <3>3 DEF SaveCoverage
        <3>7. organization'.subscription = organization.subscription
              /\ organization'.status = organization.status
            BY <1>0, <2>0, <2>4, ApplyTyped DEF SaveCoverage
        <3>8. Told(organization') /\ ToldReq(Idle)
            BY <1>0, <3>7 DEF Told, ToldReq
        <3> QED
            BY <1>step, <3>5, <3>6, <3>7, <3>8
    <2>5. CASE CommitEvent(r)
        <3>1. req[r].kind = "webhook" /\ req' = [req EXCEPT ![r] = Idle]
            BY <2>5 DEF CommitEvent, InFlight
        <3>2. PICK a : a = IF req[r].phase = "adopted"
                           THEN [organization EXCEPT !.subscription = req[r].row.subscription]
                           ELSE organization
            OBVIOUS
        <3>3. a \in Organization /\ a.subscription = req[r].row.subscription
            BY <1>0, <2>0, <3>2 DEF Organization
        <3>4. organization' = ApplyCoverage(req[r].row, SaveMirror(req[r].row, a))
            BY <2>5, <3>2 DEF CommitEvent
        <3>5. PICK m : m = SaveMirror(req[r].row, a)
            OBVIOUS
        <3>6. /\ m \in Organization /\ m.subscription = req[r].row.subscription
              /\ m.status = req[r].row.status
            BY <2>0, <3>3, <3>5, SaveMirrorTyped
        <3>7. /\ organization'.subscription = req[r].row.subscription
              /\ organization'.status = req[r].row.status
            BY <2>0, <3>4, <3>5, <3>6, ApplyTyped
        <3>8. Told(organization')
            BY <2>0, <3>7 DEF Told
        <3>9. IsLive(organization.subscription) => IsLive(organization'.subscription)
            BY <2>0, <3>7
        <3>10. \A q \in Requests : req'[q] = Idle
            BY <1>0, <2>0, <3>1 DEF Exclusive
        <3> QED
            BY <3>8, <3>9, <3>10 DEF IdMove
    <2>6. CASE SaveRow(r)
        <3>1. req' = [req EXCEPT ![r] = Idle] /\ organization' = req[r].row /\ req[r].phase = "loaded"
            BY <2>6 DEF SaveRow, InFlight
        <3>2. ToldReq(Idle) /\ organization'.subscription = organization.subscription
              /\ Told(organization')
            BY <2>0, <3>1 DEF ToldReq
        <3> QED
            BY <1>step, <3>1, <3>2
    <2> QED
        BY <1>6, <2>1, <2>2, <2>3, <2>4, <2>5, <2>6 DEF Continue
<1>7. ASSUME NEW r \in Requests, Abandon(r) PROVE IdMove
    <2>1. ToldReq(Idle)
        BY DEF ToldReq
    <2> QED
        BY <1>0, <1>7, <1>step, <2>1 DEF Abandon
<1>8. CASE NextDay
    BY <1>0, <1>8, <1>same DEF NextDay
<1> QED
    BY <1>1, <1>2, <1>3, <1>4, <1>5, <1>6, <1>7, <1>8 DEF Next

\* When nothing runs beside a webhook, no event about an old subscription takes
\* the place of a live one, whatever order events and answers come in.
THEOREM LiveIdKept ==
    ASSUME "webhook" \in Alone
    PROVE  Spec => LiveIdStays
<1>1. Init => IdInv
    <2> SUFFICES ASSUME Init PROVE Exclusive("webhook") /\ IdKnown
        BY TypeInit DEF IdInv
    <2>1. organization.subscription = NoSub /\ \A r \in Requests : req[r] = Idle
        BY DEF Init
    <2> QED
        BY <2>1 DEF Exclusive, IdKnown, Told, ToldReq
<1>2. IdInv /\ [Next]_vars => IdInv'
    BY TypeNext, ExclusiveStays, IdMoves, IdCarries DEF IdInv
<1>3. IdInv /\ [Next]_vars
        => [IsLive(organization.subscription) => IsLive(organization'.subscription)]_organization
    BY IdMoves DEF IdMove
<1> QED
    BY <1>1, <1>2, <1>3, PTL DEF Spec, LiveIdStays

-----------------------------------------------------------------------------
(* The date.  Some of what is on file was never paid for: the first the row *)
(* may hear of a subscription is a renewal Stripe is still collecting.  So  *)
(* the invariant is that what is in flight agrees with the row, up to dates *)
(* that money backs, and that the row says no more of its subscription than *)
(* the start of the period Stripe collects, or the end of one it was paid.  *)

Backed(d) == d # NoDate /\ \E s \in Subs : d <= stripe[s].paid_to

\* What Stripe holds of money.
BookKept(s) ==
    /\ stripe[s].paid_to <= stripe[s].period_end
    /\ stripe[s].paid => stripe[s].paid_to = stripe[s].period_end
    /\ ~Born(s) => stripe[s].period_end = NoDate

Counted(o) ==
    LET s == o.subscription
    IN  s # NoSub => /\ o.paid_through # NoDate
                     /\ \/ o.paid_through + Period <= stripe[s].period_end
                        \/ o.paid_through <= stripe[s].paid_to

Agree(d, e) == d = e \/ (Backed(d) /\ Backed(e))

\* A request against the date on file.
Dated(q, d) ==
    q # Idle =>
        /\ Counted(q.row)
        /\ q.phase # "adopted" => Agree(q.row.paid_through, d)
        /\ q.phase = "adopted" => d = NoDate \/ q.row.paid_through <= d \/ Backed(q.row.paid_through)

DateInv ==
    /\ IdInv
    /\ \A s \in Subs : BookKept(s)
    /\ Counted(organization)
    /\ \A r \in Requests : Dated(req[r], organization.paid_through)

\* The row and the requests after a step, against what Stripe held before it.
DateMove ==
    /\ Counted(organization')
    /\ \A r \in Requests : Dated(req'[r], organization'.paid_through)
    /\ LET was == organization.paid_through
           is  == organization'.paid_through
       IN  was # NoDate /\ was < is => Backed(is)

LEMMA DatesAreDays ==
    /\ \A o \in Organization : o.paid_through \in Nat
    /\ \A s \in Subscription : s.paid_to \in Nat /\ s.period_end \in Nat /\ s.paid \in BOOLEAN
    /\ Period \in Nat \ {0} /\ NoDate \in Nat
<1>0. Period \in Nat \ {0} /\ TrialDays \in Nat /\ LastDay \in Nat
    BY CoverageAssumption
<1>1. ASSUME NEW d \in Date \cup {NoDate} PROVE d \in Nat
    BY <1>0, <1>1 DEF Date, NoDate
<1> QED
    BY <1>0, <1>1 DEF Organization, Subscription, NoDate

\* Stripe's periods and payments only move forward.
Grows ==
    \A s \in Subs : /\ BookKept(s)'
                    /\ stripe[s].paid_to <= stripe'[s].paid_to
                    /\ stripe[s].period_end <= stripe'[s].period_end

LEMMA AtGrows ==
    ASSUME Typed, \A s \in Subs : BookKept(s),
           NEW s \in Subs, NEW status \in {"active", "past_due", "canceled"},
           NEW paid \in BOOLEAN, NEW end \in Date, stripe[s].period_end <= end,
           At(s, status, paid, end)
    PROVE  Grows
<1>0. stripe \in [Subs -> Subscription] /\ stripe[s] \in Subscription /\ end \in Nat
      /\ \A t \in Subs : stripe[t].paid_to \in Nat /\ stripe[t].period_end \in Nat
    BY DatesAreDays, CoverageAssumption DEF Typed, TypeOK, Date
<1>1. PICK row : row = [stripe[s] EXCEPT !.status = status, !.paid = paid, !.period_end = end,
                                         !.paid_to = IF paid THEN end ELSE stripe[s].paid_to]
    OBVIOUS
<1>2. stripe' = [stripe EXCEPT ![s] = row]
    BY <1>0, <1>1 DEF At
<1>3. /\ row.status = status /\ row.period_end = end /\ row.paid = paid
      /\ row.paid_to = IF paid THEN end ELSE stripe[s].paid_to
    BY <1>0, <1>1 DEF Subscription
<1>4. stripe[s].paid_to <= row.paid_to /\ row.paid_to <= end
    BY <1>0, <1>3 DEF BookKept
<1>5. stripe'[s] = row /\ \A t \in Subs \ {s} : stripe'[t] = stripe[t]
    BY <1>0, <1>2
<1> QED
    BY <1>0, <1>3, <1>4, <1>5 DEF Grows, BookKept, Born

LEMMA StripeGrows ==
    ASSUME Typed, \A s \in Subs : BookKept(s), [Next]_vars
    PROVE  Grows
<1>0. /\ stripe \in [Subs -> Subscription] /\ now \in Nat \ {0} /\ now <= LastDay
      /\ Period \in Nat \ {0} /\ TrialDays \in Nat /\ LastDay \in Nat
      /\ \A s \in Subs : stripe[s].paid_to \in Nat /\ stripe[s].period_end \in Nat
    BY DatesAreDays, CoverageAssumption DEF Typed, TypeOK
<1>same. ASSUME UNCHANGED stripe PROVE Grows
    BY <1>0, <1>same DEF Grows, BookKept, Born
<1>next. now + Period \in Date /\ NoDate <= now + Period /\ now <= now + Period
    BY <1>0 DEF Date, NoDate
<1>old. ASSUME NEW s \in Subs, Born(s)
        PROVE  stripe[s].period_end \in Date /\ stripe[s].paid \in BOOLEAN
    BY <1>0, <1>old DEF Typed, Started, Subscription, NoDate
<1>subscribe. ASSUME NEW s \in Subs, Subscribe(s) PROVE Grows
    BY <1>next, <1>subscribe, AtGrows DEF Subscribe, BookKept, Born
<1>renew. ASSUME NEW s \in Subs, Renew(s) PROVE Grows
    BY <1>next, <1>renew, AtGrows DEF Renew
<1>collect. ASSUME NEW s \in Subs, CollectLate(s) PROVE Grows
    <2>1. Born(s) /\ stripe[s].period_end <= stripe[s].period_end
        BY <1>0, <1>collect DEF CollectLate, Born
    <2> QED
        BY <1>old, <1>collect, <2>1, AtGrows DEF CollectLate
<1>cancel. ASSUME NEW s \in Subs, Cancel(s) PROVE Grows
    <2>1. /\ Born(s) /\ At(s, "canceled", stripe[s].paid, stripe[s].period_end)
          /\ stripe[s].period_end <= stripe[s].period_end
        BY <1>0, <1>cancel DEF Cancel, Live, Born
    <2> QED
        BY <1>old, <2>1, AtGrows
<1>checkout. ASSUME NEW s \in Subs, StartCheckout(s) PROVE Grows
    <2>1. PICK customer :
             stripe' = [stripe EXCEPT ![s].status = "page", ![s].customer = customer]
        BY <1>checkout DEF StartCheckout
    <2>2. PICK row : row = [stripe[s] EXCEPT !.status = "page", !.customer = customer]
        OBVIOUS
    <2>3. /\ row.status = "page" /\ row.period_end = stripe[s].period_end
          /\ row.paid = stripe[s].paid /\ row.paid_to = stripe[s].paid_to
        BY <1>0, <2>2 DEF Subscription
    <2>4. stripe' = [stripe EXCEPT ![s] = row]
        BY <1>0, <2>1, <2>2
    <2>5. stripe[s].status = "unborn"
        BY <1>checkout DEF StartCheckout
    <2>6. stripe'[s] = row /\ \A t \in Subs \ {s} : stripe'[t] = stripe[t]
        BY <1>0, <2>4
    <2> QED
        BY <1>0, <2>3, <2>5, <2>6 DEF Grows, BookKept, Born
<1> QED
    BY <1>same, <1>subscribe, <1>renew, <1>collect, <1>cancel, <1>checkout
    DEF Next, AtStripe, Begin, Continue, vars, NextDay, LoadRefresh, LoadDaily, LoadEvent, LoadPatch,
        LoadAdmin, Load, AskStripe, DoWithout, SaveAnswer, SaveCoverage, CommitEvent, SaveRow, Abandon

\* What is known of the row and of the requests stays known as Stripe goes on.
LEMMA DateCarries ==
    ASSUME DateInv, [Next]_vars, DateMove
    PROVE  /\ \A s \in Subs : BookKept(s)'
           /\ Counted(organization)'
           /\ \A r \in Requests : Dated(req[r], organization.paid_through)'
<1>0. Typed /\ (\A s \in Subs : BookKept(s)) /\ Grows /\ RowsMove /\ Onwards
    BY StripeGrows, StripeMoves, AllMove DEF DateInv, IdInv
<1>days. /\ \A s \in Subs : /\ stripe[s].paid_to \in Nat /\ stripe[s].period_end \in Nat
                            /\ stripe'[s].paid_to \in Nat /\ stripe'[s].period_end \in Nat
         /\ Period \in Nat
    BY <1>0, DatesAreDays DEF Typed, TypeOK, Onwards
<1>backed. ASSUME NEW d \in Nat, Backed(d)
           PROVE  d # NoDate /\ \E s \in Subs : d <= stripe'[s].paid_to
    BY <1>0, <1>days, <1>backed DEF Backed, Grows
<1>counted. ASSUME NEW o, Sound(o), Counted(o), NEW s, s = o.subscription, s # NoSub
            PROVE  /\ o.paid_through # NoDate
                   /\ \/ o.paid_through + Period <= stripe'[s].period_end
                      \/ o.paid_through <= stripe'[s].paid_to
    <2>1. o.paid_through \in Nat /\ s \in Subs
        BY <1>counted, DatesAreDays DEF Sound, Organization
    <2>2. /\ stripe[s].paid_to <= stripe'[s].paid_to
          /\ stripe[s].period_end <= stripe'[s].period_end
        BY <1>0, <2>1 DEF Grows
    <2> QED
        BY <1>days, <1>counted, <2>1, <2>2 DEF Counted
<1>1. \A s \in Subs : BookKept(s)'
    BY <1>0 DEF Grows
<1>2. Counted(organization)'
    <2>1. PICK o : o = organization'
        OBVIOUS
    <2>2. Sound(o) /\ Counted(o)
        BY <1>0, <2>1 DEF RowsMove, DateMove
    <2> QED
        BY <1>counted, <2>1, <2>2 DEF Counted
<1>3. ASSUME NEW r \in Requests PROVE Dated(req[r], organization.paid_through)'
    <2>1. CASE req'[r] = Idle
        BY <2>1 DEF Dated, Idle
    <2>2. CASE req'[r] # Idle
        <3>1. PICK q : q = req'[r]
            OBVIOUS
        <3>2. PICK d : d = organization'.paid_through
            OBVIOUS
        <3>3. PICK e : e = q.row.paid_through
            OBVIOUS
        <3>4. Sound(q.row) /\ Dated(q, d) /\ q # Idle /\ d \in Nat /\ e \in Nat
            BY <1>0, <2>2, <3>1, <3>2, <3>3, DatesAreDays DEF RowsMove, DateMove, SoundReq, Sound
        <3>5. Counted(req[r].row)'
            <4>1. PICK o : o = q.row
                OBVIOUS
            <4>2. Sound(o) /\ Counted(o) /\ o = req'[r].row
                BY <3>1, <3>4, <4>1 DEF Dated
            <4> QED
                BY <1>counted, <4>2 DEF Counted
        <3>6. /\ q.phase # "adopted" =>
                    \/ e = d
                    \/ /\ e # NoDate /\ \E s \in Subs : e <= stripe'[s].paid_to
                       /\ d # NoDate /\ \E s \in Subs : d <= stripe'[s].paid_to
              /\ q.phase = "adopted" =>
                    d = NoDate \/ e <= d \/ (e # NoDate /\ \E s \in Subs : e <= stripe'[s].paid_to)
            BY <1>backed, <3>3, <3>4 DEF Dated, Agree
        <3> QED
            BY <3>1, <3>2, <3>3, <3>5, <3>6 DEF Dated, Agree, Backed
    <2> QED
        BY <2>1, <2>2
<1> QED
    BY <1>1, <1>2, <1>3

\* subscription.paid_through: money, or a date that is not later than before.
LEMMA PaidThroughHolds ==
    ASSUME Typed, NEW s \in Subs, BookKept(s), Born(s), NEW stored \in Nat
    PROVE  LET d == PaidThrough(stripe[s], stored)
           IN  /\ d \in Nat /\ d # NoDate
               /\ d + Period <= stripe[s].period_end \/ d <= stripe[s].paid_to
               /\ d <= stripe[s].paid_to \/ stored = NoDate \/ d <= stored
               /\ (stored # NoDate /\ (stored + Period <= stripe[s].period_end
                                       \/ stored <= stripe[s].paid_to))
                     => d = stored \/ (d <= stripe[s].paid_to /\ stored <= stripe[s].paid_to)
<1>1. PICK end \in Nat : end = stripe[s].period_end
    BY DatesAreDays DEF Typed, TypeOK
<1>2. PICK to \in Nat : to = stripe[s].paid_to
    BY DatesAreDays DEF Typed, TypeOK
<1>3. /\ Period \in Nat /\ end > Period /\ stripe[s].paid \in BOOLEAN
      /\ stripe[s].paid => to = end
    BY <1>1, <1>2, DatesAreDays DEF Typed, TypeOK, Started, BookKept
<1>4. PICK start \in Nat : start + Period = end /\ start = end - Period /\ start > 0
    BY <1>3
<1>5. CASE stripe[s].paid
    BY <1>1, <1>2, <1>3, <1>4, <1>5 DEF PaidThrough, NoDate
<1>6. CASE ~stripe[s].paid
    <2>1. PaidThrough(stripe[s], stored) = IF stored # 0 /\ stored < start THEN stored ELSE start
        BY <1>1, <1>4, <1>6 DEF PaidThrough, NoDate
    <2>2. CASE stored # 0 /\ stored < start
        BY <1>1, <1>2, <1>3, <1>4, <2>1, <2>2 DEF NoDate
    <2>3. CASE ~(stored # 0 /\ stored < start)
        BY <1>1, <1>2, <1>3, <1>4, <2>1, <2>3 DEF NoDate
    <2> QED
        BY <2>2, <2>3
<1> QED
    BY <1>3, <1>5, <1>6

\* One who agrees with the row has the others agree with what it saves.
LEMMA AgreeTurns ==
    ASSUME NEW d, NEW e, NEW f, Agree(d, f), Agree(e, f)
    PROVE  Agree(d, e)
BY DEF Agree

LEMMA DateMoves ==
    ASSUME DateInv, [Next]_vars
    PROVE  DateMove
<1>0. /\ Typed /\ Exclusive("webhook") /\ (\A s \in Subs : BookKept(s))
      /\ \A r \in Requests : ToldReq(req[r]) /\ Dated(req[r], organization.paid_through)
      /\ req \in [Requests -> Request \cup {Idle}] /\ organization \in Organization
      /\ Counted(organization) /\ organization.paid_through \in Nat
    BY DatesAreDays DEF DateInv, IdInv, IdKnown, Typed, TypeOK
<1>same. ASSUME UNCHANGED req, organization'.paid_through = organization.paid_through,
                organization'.subscription = organization.subscription
         PROVE  DateMove
    BY <1>0, <1>same DEF DateMove, Counted
<1>step. ASSUME NEW r \in Requests, NEW x, req' = [req EXCEPT ![r] = x],
                organization'.paid_through = organization.paid_through,
                organization'.subscription = organization.subscription,
                Dated(x, organization.paid_through)
         PROVE  DateMove
    <2>1. req'[r] = x /\ \A q \in Requests \ {r} : req'[q] = req[q]
        BY <1>0, <1>step
    <2>2. ASSUME NEW q \in Requests PROVE Dated(req'[q], organization.paid_through)
        <3>1. CASE q = r
            BY <1>step, <2>1, <3>1
        <3>2. CASE q # r
            BY <1>0, <2>1, <3>2
        <3> QED
            BY <3>1, <3>2
    <2> QED
        BY <1>0, <1>step, <2>2 DEF DateMove, Counted
<1>load. ASSUME NEW r \in Requests, NEW j, NEW row, NEW names, Load(r, j, row, names),
                row.subscription = organization.subscription,
                row.paid_through = organization.paid_through
         PROVE  DateMove
    <2>1. PICK q : q = [kind |-> j, phase |-> "loaded", row |-> row, names |-> names]
        OBVIOUS
    <2>2. req' = [req EXCEPT ![r] = q] /\ q.phase = "loaded" /\ q.row = row /\ UNCHANGED organization
        BY <1>load, <2>1 DEF Load
    <2>3. Dated(q, organization.paid_through)
        BY <1>0, <1>load, <2>2 DEF Dated, Counted, Agree
    <2> QED
        BY <1>step, <2>2, <2>3
<1>quiet. Dated(Idle, organization.paid_through)
    BY DEF Dated
<1>1. CASE UNCHANGED vars
    BY <1>1, <1>same DEF vars
<1>2. ASSUME NEW s \in Subs, AtStripe(s) PROVE DateMove
    BY <1>2, <1>same DEF AtStripe, Subscribe, Renew, CollectLate, Cancel
<1>3. ASSUME NEW s \in Subs, StartCheckout(s) PROVE DateMove
    BY <1>0, <1>3, <1>same, CheckoutKeeps
<1>4. ASSUME NEW s \in Subs, NEW r \in Requests, LoadEvent(r, s) PROVE DateMove
    BY <1>4, <1>load DEF LoadEvent
<1>5. ASSUME NEW r \in Requests, Begin(r) PROVE DateMove
    <2>1. CASE LoadRefresh(r) \/ LoadDaily(r) \/ LoadPatch(r)
        BY <1>load, <2>1 DEF LoadRefresh, LoadDaily, LoadPatch
    <2>2. CASE LoadAdmin(r)
        <3>1. PICK active, exempt, trial, stamped :
                 Load(r, "admin",
                      [organization EXCEPT !.is_active = active, !.exempt = exempt,
                                           !.trial_ends_at = trial, !.for_billing = stamped],
                      NoSub)
            BY <2>2, Zenon DEF LoadAdmin
        <3>2. PICK row : row = [organization EXCEPT !.is_active = active, !.exempt = exempt,
                                                    !.trial_ends_at = trial, !.for_billing = stamped]
            OBVIOUS
        <3>3. /\ row.subscription = organization.subscription
              /\ row.paid_through = organization.paid_through
              /\ Load(r, "admin", row, NoSub)
            BY <1>0, <3>1, <3>2 DEF Organization
        <3> QED
            BY <1>load, <3>3
    <2> QED
        BY <1>5, <2>1, <2>2 DEF Begin
<1>6. ASSUME NEW r \in Requests, Continue(r) PROVE DateMove
    <2>0. /\ req[r] # Idle /\ req[r] \in Request /\ req[r].row \in Organization
          /\ Dated(req[r], organization.paid_through) /\ Counted(req[r].row)
          /\ req[r].phase # "adopted" => req[r].row.subscription = organization.subscription
          /\ organization.paid_through \in Nat /\ req[r].row.paid_through \in Nat
        <3>1. req[r] # Idle
            BY <1>6 DEF Continue, AskStripe, DoWithout, SaveAnswer, SaveCoverage, CommitEvent, SaveRow,
                        InFlight
        <3>2. req[r] \in Request /\ Dated(req[r], organization.paid_through)
            BY <1>0, <3>1, BusyIsRequest DEF Typed
        <3> QED
            BY <1>0, <3>1, <3>2, DatesAreDays DEF ToldReq, Request, Dated
    \* A save of the date in memory, by a handler that names the row's subscription.
    <2>save. ASSUME NEW x, req' = [req EXCEPT ![r] = x], req[r].phase # "adopted",
                    organization'.subscription = organization.subscription,
                    organization'.paid_through = req[r].row.paid_through,
                    x = Idle \/ (x.phase # "adopted" /\ x.row = req[r].row)
             PROVE  DateMove
        <3>1. Counted(organization')
            BY <2>0, <2>save DEF Counted
        <3>2. Agree(req[r].row.paid_through, organization.paid_through)
            BY <2>0, <2>save DEF Dated
        <3>3. ASSUME NEW q \in Requests, req'[q] # Idle
              PROVE  Dated(req'[q], req[r].row.paid_through)
            <4>1. CASE q = r
                <5>1. req'[q] = x /\ x.phase # "adopted" /\ x.row = req[r].row
                    BY <1>0, <2>save, <3>3, <4>1
                <5> QED
                    BY <2>0, <5>1 DEF Dated, Agree
            <4>2. CASE q # r
                <5>1. req'[q] = req[q] /\ req[q] # Idle /\ req[q].phase # "adopted"
                    <6>1. req'[q] = req[q] /\ req[q] # Idle
                        BY <1>0, <2>save, <3>3, <4>2
                    <6>2. req[q].phase = "adopted" => req[q].kind = "webhook"
                        BY <1>0, <6>1 DEF ToldReq
                    <6> QED
                        BY <1>0, <2>0, <4>2, <6>1, <6>2 DEF Exclusive
                <5>2. Counted(req[q].row) /\ Agree(req[q].row.paid_through, organization.paid_through)
                    BY <1>0, <5>1 DEF Dated
                <5> QED
                    BY <3>2, <5>1, <5>2, AgreeTurns DEF Dated
            <4> QED
                BY <4>1, <4>2
        <3>4. organization.paid_through < organization'.paid_through => Backed(organization'.paid_through)
            BY <2>0, <2>save, <3>2 DEF Agree
        <3>5. \A q \in Requests : Dated(req'[q], organization'.paid_through)
            BY <2>save, <3>3 DEF Dated
        <3> QED
            BY <3>1, <3>4, <3>5 DEF DateMove
    <2>1. CASE AskStripe(r)
        <3>1. PICK x : x = req'[r]
            OBVIOUS
        <3>2. req' = [req EXCEPT ![r] = x] /\ Answered(r, x) /\ UNCHANGED organization
            BY <1>0, <2>1, <3>1, AskAnswers
        <3>3. req[r].phase = "loaded"
            BY <2>1 DEF AskStripe, InFlight
        <3>4. PICK s \in Subs : s = x.row.subscription
            BY <3>2 DEF Answered
        <3>5. Born(s) /\ BookKept(s)
            BY <1>0, <3>2, <3>4, CoverageAssumption DEF Answered, Sound
        <3>6. PICK d : d = x.row.paid_through
            OBVIOUS
        <3>7. PICK stored \in Nat : stored = req[r].row.paid_through
            BY <2>0
        <3>8. d = PaidThrough(stripe[s], stored)
            BY <3>2, <3>4, <3>6, <3>7 DEF Answered
        <3>9. /\ d \in Nat /\ d # NoDate
              /\ d + Period <= stripe[s].period_end \/ d <= stripe[s].paid_to
              /\ d <= stripe[s].paid_to \/ stored = NoDate \/ d <= stored
              /\ (stored # NoDate /\ (stored + Period <= stripe[s].period_end
                                      \/ stored <= stripe[s].paid_to))
                    => d = stored \/ (d <= stripe[s].paid_to /\ stored <= stripe[s].paid_to)
            BY <1>0, <3>5, <3>8, PaidThroughHolds
        <3>10. Counted(x.row)
            BY <3>4, <3>6, <3>9 DEF Counted
        <3>11. Agree(stored, organization.paid_through)
            BY <2>0, <3>3, <3>7 DEF Dated
        <3>12. CASE Adopts(r)
            <4>1. organization.paid_through = NoDate \/ d <= organization.paid_through \/ Backed(d)
                <5>1. CASE stored = organization.paid_through
                    BY <3>9, <5>1 DEF Backed
                <5>2. CASE Backed(stored)
                    <6>1. PICK t \in Subs : stored <= stripe[t].paid_to
                        BY <5>2 DEF Backed
                    <6>2. stripe[t].paid_to \in Nat /\ stripe[s].paid_to \in Nat
                        BY <1>0, DatesAreDays DEF Typed, TypeOK
                    <6>3. d <= stripe[s].paid_to \/ d <= stripe[t].paid_to
                        BY <3>7, <3>9, <5>2, <6>1, <6>2 DEF Backed
                    <6> QED
                        BY <3>9, <6>3 DEF Backed
                <5> QED
                    BY <3>11, <5>1, <5>2 DEF Agree
            <4>2. Dated(x, organization.paid_through)
                BY <3>2, <3>6, <3>10, <3>12, <4>1 DEF Dated, Answered
            <4> QED
                BY <1>step, <3>2, <4>2
        <3>13. CASE ~Adopts(r)
            <4>1. stored # NoDate /\ (stored + Period <= stripe[s].period_end
                                      \/ stored <= stripe[s].paid_to)
                BY <2>0, <3>2, <3>4, <3>7, <3>13, CoverageAssumption DEF Answered, Counted
            <4>2. Agree(stored, organization.paid_through) /\ Agree(d, stored)
                BY <3>9, <3>11, <4>1 DEF Agree, Backed
            <4>3. Agree(d, organization.paid_through)
                BY <4>2 DEF Agree
            <4>4. Dated(x, organization.paid_through)
                BY <3>2, <3>6, <3>10, <3>13, <4>3 DEF Dated, Answered
            <4> QED
                BY <1>step, <3>2, <4>4
        <3> QED
            BY <3>12, <3>13
    <2>2. CASE DoWithout(r)
        <3>1. PICK x : x = [req[r] EXCEPT !.phase = "last"]
            OBVIOUS
        <3>2. x.phase = "last" /\ x.row = req[r].row /\ req[r].phase = "loaded"
              /\ req' = [req EXCEPT ![r] = x] /\ UNCHANGED organization
            BY <1>0, <2>0, <2>2, <3>1 DEF Request, DoWithout, InFlight
        <3>3. Dated(x, organization.paid_through)
            BY <2>0, <3>2 DEF Dated
        <3> QED
            BY <1>step, <3>2, <3>3
    <2>3. CASE SaveAnswer(r)
        <3>1. PICK x : x = [req[r] EXCEPT !.phase = "saved"]
            OBVIOUS
        <3>2. x.phase = "saved" /\ x.row = req[r].row /\ req[r].phase = "asked"
              /\ req' = [req EXCEPT ![r] = x]
              /\ organization' = SaveMirror(req[r].row, organization)
            BY <1>0, <2>0, <2>3, <3>1 DEF Request, SaveAnswer, InFlight
        <3>3. organization'.subscription = organization.subscription
              /\ organization'.paid_through = req[r].row.paid_through
            BY <1>0, <2>0, <3>2, SaveMirrorTyped
        <3> QED
            BY <2>save, <3>2, <3>3
    <2>4. CASE SaveCoverage(r)
        <3>1. PICK c : c = Covering(req[r].row)
            OBVIOUS
        <3>2. /\ c \in Organization /\ c.subscription = req[r].row.subscription
              /\ c.paid_through = req[r].row.paid_through
            BY <2>0, <3>1, CoveringTyped
        <3>3. PICK x : x = [req[r] EXCEPT !.row = c, !.phase = "last"]
            OBVIOUS
        <3>4. x.phase = "last" /\ x.row = c /\ req[r].phase # "adopted"
            BY <2>0, <2>4, <3>2, <3>3 DEF Request, SaveCoverage, InFlight
        <3>5. Dated(x, organization.paid_through)
            BY <2>0, <3>2, <3>4 DEF Dated, Counted
        <3>6. req' = [req EXCEPT ![r] = x] \/ req' = [req EXCEPT ![r] = Idle]
            BY <2>4, <3>1, <3>3 DEF SaveCoverage
        <3>7. organization'.subscription = organization.subscription
              /\ organization'.paid_through = organization.paid_through
            BY <1>0, <2>0, <2>4, ApplyTyped DEF SaveCoverage
        <3> QED
            BY <1>quiet, <1>step, <3>5, <3>6, <3>7
    <2>5. CASE CommitEvent(r)
        <3>1. req[r].kind = "webhook" /\ req' = [req EXCEPT ![r] = Idle]
            BY <2>5 DEF CommitEvent, InFlight
        <3>2. PICK a : a = IF req[r].phase = "adopted"
                           THEN [organization EXCEPT !.subscription = req[r].row.subscription]
                           ELSE organization
            OBVIOUS
        <3>3. a \in Organization /\ a.subscription = req[r].row.subscription
            BY <1>0, <2>0, <3>2 DEF Organization
        <3>4. organization' = ApplyCoverage(req[r].row, SaveMirror(req[r].row, a))
            BY <2>5, <3>2 DEF CommitEvent
        <3>5. PICK m : m = SaveMirror(req[r].row, a)
            OBVIOUS
        <3>6. /\ m \in Organization /\ m.subscription = req[r].row.subscription
              /\ m.paid_through = req[r].row.paid_through
            BY <2>0, <3>3, <3>5, SaveMirrorTyped
        <3>7. /\ organization'.subscription = req[r].row.subscription
              /\ organization'.paid_through = req[r].row.paid_through
            BY <2>0, <3>4, <3>5, <3>6, ApplyTyped
        <3>8. Counted(organization')
            BY <2>0, <3>7 DEF Counted
        <3>9. \A q \in Requests : req'[q] = Idle
            BY <1>0, <2>0, <3>1 DEF Exclusive
        <3>10. organization.paid_through # NoDate /\ organization.paid_through < organization'.paid_through
                  => Backed(organization'.paid_through)
            BY <2>0, <3>7 DEF Dated, Agree
        <3> QED
            BY <3>8, <3>9, <3>10 DEF DateMove, Dated
    <2>6. CASE SaveRow(r)
        <3>1. req' = [req EXCEPT ![r] = Idle] /\ organization' = req[r].row /\ req[r].phase = "loaded"
            BY <2>6 DEF SaveRow, InFlight
        <3> QED
            BY <2>0, <2>save, <3>1
    <2> QED
        BY <1>6, <2>1, <2>2, <2>3, <2>4, <2>5, <2>6 DEF Continue
<1>7. ASSUME NEW r \in Requests, Abandon(r) PROVE DateMove
    BY <1>0, <1>7, <1>quiet, <1>step DEF Abandon
<1>8. CASE NextDay
    BY <1>0, <1>8, <1>same DEF NextDay
<1> QED
    BY <1>1, <1>2, <1>3, <1>4, <1>5, <1>6, <1>7, <1>8 DEF Next

\* When nothing runs beside a webhook, only money moves the stored date
\* forward: no refresh, PATCH, form or daily task, however many race, writes a
\* later one that Stripe was not paid for.
THEOREM MoneyExtends ==
    ASSUME "webhook" \in Alone
    PROVE  Spec => OnlyMoneyExtends
<1>1. Init => DateInv
    <2> SUFFICES ASSUME Init PROVE DateInv
        OBVIOUS
    <2>1. /\ organization.subscription = NoSub /\ (\A r \in Requests : req[r] = Idle)
          /\ \A s \in Subs : /\ stripe[s].paid_to = NoDate /\ stripe[s].period_end = NoDate
                             /\ ~stripe[s].paid
        BY DEF Init
    <2>2. IdInv
        BY <2>1, TypeInit DEF IdInv, Exclusive, IdKnown, Told, ToldReq
    <2> QED
        BY <2>1, <2>2, DatesAreDays DEF DateInv, BookKept, Counted, Dated, NoDate
<1>2. IdInv /\ [Next]_vars => IdInv'
    BY TypeNext, ExclusiveStays, IdMoves, IdCarries DEF IdInv
<1>3. DateInv /\ [Next]_vars => DateInv'
    BY <1>2, DateMoves, DateCarries DEF DateInv
<1>4. DateInv /\ [Next]_vars
        => [LET was == organization.paid_through
                is  == organization'.paid_through
            IN  was # NoDate /\ was < is => \E s \in Subs : is <= stripe[s].paid_to]_organization
    BY DateMoves DEF DateMove, Backed
<1> QED
    BY <1>1, <1>3, <1>4, PTL DEF Spec, OnlyMoneyExtends

-----------------------------------------------------------------------------
(* Told twice.  Stripe repeats its webhooks, and a refresh, a PATCH and the *)
(* daily task may all ask on one day.                                       *)

LEMMA AnsweredTwice ==
    ASSUME NEW o \in Organization, NEW c \in Organization, NEW s \in Subscription,
           s.status \notin {"unborn", "page"}, s.period_end > Period,
           c.status = s.status, c.paid_through = PaidThrough(s, o.paid_through)
    PROVE  Mirrored(c, s) = c
<1>0. Period \in Nat \ {0} /\ TrialDays \in Nat /\ LastDay \in Nat
    BY CoverageAssumption
<1>1. s.period_end \in Nat /\ o.paid_through \in Nat
    <2>1. PICK n \in Nat : n = LastDay + Period + TrialDays
        BY <1>0
    <2>2. Date = 1 .. n
        BY <2>1 DEF Date
    <2>3. s.period_end \in Date \cup {0} /\ o.paid_through \in Date \cup {0}
        BY DEF Subscription, Organization, NoDate
    <2> QED
        BY <2>2, <2>3
<1>2. PaidThrough(s, c.paid_through) = c.paid_through
    BY <1>0, <1>1 DEF PaidThrough, NoDate
<1> QED
    BY <1>2 DEF Mirrored, Organization

\* One decision of the rule is all it takes on a day: what it has switched off it
\* does not switch on again, nor the other way.
LEMMA DecidedTwice ==
    ASSUME NEW o \in Organization, now \in Nat
    PROVE  Covering(Covering(o)) = Covering(o)
<1>0. GraceDays \in Nat
    BY CoverageAssumption
<1>1. PICK c \in Organization : c = Covering(o)
    BY CoveringTyped
<1>2. c.exempt = o.exempt /\ c.trial_ends_at = o.trial_ends_at /\ c.paid_through = o.paid_through
    BY <1>1 DEF Covering, Organization
<1>3. CoveredUntil(c) = CoveredUntil(o)
    BY <1>2 DEF CoveredUntil
<1>4. (GraceOver(c) <=> GraceOver(o)) /\ (Covered(c) <=> Covered(o))
    BY <1>2, <1>3 DEF GraceOver, Covered
<1>5. ~(Covered(o) /\ GraceOver(o))
    BY <1>0, CoveredIsADay DEF Covered, GraceOver
<1>6. Covering(c) = c
    <2>1. CASE o.is_active /\ GraceOver(o)
        <3>1. c = [o EXCEPT !.is_active = FALSE, !.for_billing = TRUE]
            BY <1>1, <2>1 DEF Covering
        <3>2. ~c.is_active
            BY <3>1 DEF Organization
        <3> QED
            BY <1>4, <1>5, <2>1, <3>2 DEF Covering
    <2>2. CASE ~o.is_active /\ o.for_billing /\ Covered(o)
        <3>1. c = [o EXCEPT !.is_active = TRUE, !.for_billing = FALSE]
            BY <1>1, <2>2 DEF Covering
        <3>2. c.is_active
            BY <3>1 DEF Organization
        <3> QED
            BY <1>4, <1>5, <2>2, <3>2 DEF Covering
    <2>3. CASE ~(o.is_active /\ GraceOver(o)) /\ ~(~o.is_active /\ o.for_billing /\ Covered(o))
        BY <1>1, <2>3 DEF Covering
    <2> QED
        BY <2>1, <2>2, <2>3
<1> QED
    BY <1>1, <1>6

\* Hearing the same from Stripe again on the same day changes nothing: the date is
\* the one already on file, although an unpaid period's is worked out from what is
\* stored, and the rule that reads it decides nothing new.
THEOREM RepeatChangesNothing ==
    ASSUME NEW o \in Organization, NEW s \in Subscription,
           s.status \notin {"unborn", "page"}, s.period_end > Period, now \in Nat
    PROVE  LET once == Covering(Mirrored(o, s)) IN Covering(Mirrored(once, s)) = once
<1>1. PICK m \in Organization : m = Mirrored(o, s)
    BY MirroredTyped
<1>2. PICK c \in Organization : c = Covering(m)
    BY CoveringTyped
<1>3. c.status = s.status /\ c.paid_through = PaidThrough(s, o.paid_through)
    BY <1>1, <1>2, MirroredTyped, CoveringTyped
<1>4. Mirrored(c, s) = c
    BY <1>3, AnsweredTwice
<1>5. Covering(c) = c
    BY <1>2, DecidedTwice
<1> QED
    BY <1>1, <1>2, <1>4, <1>5
=============================================================================
