----------------------------- MODULE AccessAudit -----------------------------
(***************************************************************************)
(* Reveals of a location's access codes, the end-of-day pass that judges   *)
(* them against the schedule, and their review (ADR-016, ADR-017).         *)
(* customers/views.py, scheduling/permissions.py, audit/*.py.              *)
(*                                                                         *)
(* One location of one organization.  A handler reads in one step and      *)
(* writes in a later one; a task reads its reveals with their jobs, then   *)
(* saves one row at a time.  Time is counted in hours of HoursPerDay.      *)
(***************************************************************************)
EXTENDS Naturals, FiniteSets

CONSTANTS
    Cleaners, Office, Owners,   \* who may reveal; Office: dispatchers and above
    Reviewers,                  \* those of the Office who read the trail: admins
    Superusers,                 \* owners everywhere, of an organization switched off too
    Jobs, Reveals, Requests, Tasks,
    HoursPerDay, OpenHours,     \* of the local day; business_hours, inclusive
    Starts,                     \* the hours a visit may be put at
    Length,                     \* a visit takes so many hours
    Before, After,              \* reveal_buffer_before_minutes, _after_minutes
    AssignmentWindow,           \* ASSIGNMENT_WINDOW
    EarlyDays,                  \* days an admin has judged before they are over
    LateDays,                   \* days whose schedule is still edited once they are
    LastHour,                   \* bound on the clock
    None

People == Cleaners \cup Office

ASSUME AccessAuditAssumption ==
    /\ Cleaners \cap Office = {} /\ Superusers \subseteq Owners
    /\ Owners \subseteq Reviewers /\ Reviewers \subseteq Office
    /\ HoursPerDay \in Nat \ {0} /\ OpenHours \subseteq 0 .. HoursPerDay - 1
    /\ Length \in Nat /\ Before \in Nat /\ After \in Nat /\ AssignmentWindow \in Nat
    /\ LastHour \in Nat /\ Starts \subseteq 0 .. LastHour
    /\ None \notin People \cup Jobs \cup Nat

VARIABLES
    now,
    active,   \* Organization.is_active
    job,      \* the Job rows at this location
    reveal,   \* the AccessReveal rows
    req,      \* what each handler in flight has in memory
    task      \* and each run of evaluate_access_reveals

vars == <<now, active, job, reveal, req, task>>

-----------------------------------------------------------------------------
Hours == 0 .. LastHour
Day(h) == h \div HoursPerDay
Today  == Day(now)
Days   == 0 .. Day(LastHour)

Job == [start : Starts, open : BOOLEAN, assigned : SUBSET Cleaners]

Unmade == [by |-> None]
Reveal ==
    [by : People, job : Jobs \cup {None}, made : Hours,
     evaluated_at : Days \cup {None},     \* the day of it
     flagged : BOOLEAN, reviewed_by : Reviewers \cup {None}]

\* The rows a task has still to save, its verdicts on the jobs it read, and the
\* day it read them.
Run == [flag : [Reveals -> BOOLEAN], todo : SUBSET Reveals, at : Days]
Resting == [flag |-> [v \in Reveals |-> FALSE], todo |-> {}, at |-> 0]

Request == [kind : {"reveal", "record", "review"}, by : People, of : Reveals \cup Jobs \cup {None}]
Idle == [kind |-> "none"]

Made(v)   == reveal[v].by # None
Judged(v) == Made(v) /\ reveal[v].evaluated_at # None

-----------------------------------------------------------------------------
\* scheduling/permissions.py, audit/services.py

Near(j) == job[j].start <= now + AssignmentWindow
           /\ now <= job[j].start + Length + AssignmentWindow

OpenJobs    == {j \in Jobs : job[j].open /\ Near(j)}
OwnJobs(p)  == {j \in OpenJobs : p \in job[j].assigned}

IsAssigned(p) == OwnJobs(p) # {}

Distance(j) == IF job[j].start > now THEN job[j].start - now ELSE now - job[j].start

\* The visits a reveal by p may be bound to: a cleaner's nearest; the one the
\* office named, or the only one there is if it named none.
NearestJobs(p) == {j \in OwnJobs(p) : \A k \in OwnJobs(p) : Distance(j) <= Distance(k)}
SoleOpenJob    == IF \E j \in Jobs : OpenJobs = {j} THEN OpenJobs ELSE {None}

RevealJobs(p) ==
    IF p \in Office THEN Jobs \cup SoleOpenJob
    ELSE IF NearestJobs(p) = {} THEN {None} ELSE NearestJobs(p)

\* _judge
OutsideJobWindow(made, start)  == made + Before < start \/ made > start + Length + After
OutsideBusinessHours(made)     == made % HoursPerDay \notin OpenHours

Judge(v) ==
    IF reveal[v].job # None
    THEN OutsideJobWindow(reveal[v].made, job[reveal[v].job].start)
    ELSE OutsideBusinessHours(reveal[v].made)

-----------------------------------------------------------------------------
\* reveal_access: who may is asked first, then the visit is looked up, then the
\* row is written.

MayAct(p) == active \/ p \in Superusers

\* Bound: a reveal in flight has its row to write.
RoomForOneMore ==
    Cardinality({r \in Requests : req[r].kind \in {"reveal", "record"}})
        < Cardinality({v \in Reveals : ~Made(v)})

MayReveal(r, p) ==
    /\ req[r] = Idle /\ RoomForOneMore
    /\ MayAct(p)
    /\ p \in Office \/ IsAssigned(p)
    /\ req' = [req EXCEPT ![r] = [kind |-> "reveal", by |-> p, of |-> None]]
    /\ UNCHANGED <<now, active, job, reveal, task>>

FindVisit(r) ==
    /\ req[r].kind = "reveal"
    /\ \E j \in RevealJobs(req[r].by) :
          req' = [req EXCEPT ![r] = [kind |-> "record", by |-> req[r].by, of |-> j]]
    /\ UNCHANGED <<now, active, job, reveal, task>>

RecordReveal(r, v) ==
    /\ req[r].kind = "record" /\ ~Made(v)
    /\ reveal' = [reveal EXCEPT ![v] =
                     [by |-> req[r].by, job |-> req[r].of, made |-> now,
                      evaluated_at |-> None, flagged |-> FALSE, reviewed_by |-> None]]
    /\ req' = [req EXCEPT ![r] = Idle]
    /\ UNCHANGED <<now, active, job, task>>

-----------------------------------------------------------------------------
\* AccessRevealViewSet.review, mark_reviewed.

AnyoneMayReview(p, v) == Made(v)

\* "Someone else has to review your own reveal": a one-person office has no
\* one else to ask.
MayReview(p, v) == Made(v) /\ (reveal[v].by = p => p \in Owners)

LoadReview(r, p, v) ==
    /\ req[r] = Idle /\ MayAct(p)
    /\ MayReview(p, v)
    /\ req' = [req EXCEPT ![r] = [kind |-> "review", by |-> p, of |-> v]]
    /\ UNCHANGED <<now, active, job, reveal, task>>

OpenWhenRead(v) == Made(v)
StillOpen(v) == reveal[v].reviewed_by = None

MarkReviewed(r) ==
    LET v == req[r].of
    IN  /\ req[r].kind = "review"
        /\ reveal' = IF StillOpen(v) THEN [reveal EXCEPT ![v].reviewed_by = req[r].by] ELSE reveal
        /\ req' = [req EXCEPT ![r] = Idle]
        /\ UNCHANGED <<now, active, job, task>>

-----------------------------------------------------------------------------
\* evaluate_access_reveals

Start(t, todo) ==
    /\ task[t] = Resting /\ todo # {} /\ active
    /\ task' = [task EXCEPT ![t] = [flag |-> [v \in Reveals |-> Made(v) /\ Judge(v)],
                                    todo |-> todo, at |-> Today]]
    /\ UNCHANGED <<now, active, job, reveal, req>>

\* The hourly pass: what is not judged yet, of local days that are over.
Over(v) == Day(reveal[v].made) < Today

PendingAnyDay(v)   == Made(v) /\ ~Judged(v)
PendingLongOver(v) == Made(v) /\ ~Judged(v) /\ Day(reveal[v].made) + 1 < Today
Pending(v)         == Made(v) /\ ~Judged(v) /\ Over(v)

StartPass(t) == Start(t, {v \in Reveals : Pending(v)})

\* An admin runs one day again, judged or not.  Nothing in the code asks that it
\* be over: EarlyDays says of which days it was run before.
Rerun(t, d) ==
    /\ d = Today => d \in EarlyDays
    /\ Start(t, {v \in Reveals : Made(v) /\ Day(reveal[v].made) = d})

SaveVerdict(t, v) ==
    LET rest == task[t].todo \ {v}
    IN  /\ v \in task[t].todo
        /\ reveal' = [reveal EXCEPT ![v].evaluated_at = task[t].at, ![v].flagged = task[t].flag[v]]
        /\ task' = [task EXCEPT ![t] = IF rest = {} THEN Resting ELSE [task[t] EXCEPT !.todo = rest]]
        /\ UNCHANGED <<now, active, job, req>>

TaskDies(t) ==
    /\ task[t] # Resting
    /\ task' = [task EXCEPT ![t] = Resting]
    /\ UNCHANGED <<now, active, job, reveal, req>>

-----------------------------------------------------------------------------
\* The schedule changes under them, the clock goes on, and the organization is
\* switched off and on.

\* The days that are over a reveal of it was made on.
Closed(j) == {Day(reveal[v].made) : v \in {u \in Reveals : Made(u) /\ reveal[u].job = j /\ Over(u)}}

EditJob(j, row) ==
    /\ row # job[j]
    /\ row.start # job[j].start => Closed(j) \subseteq LateDays
    /\ job' = [job EXCEPT ![j] = row]
    /\ UNCHANGED <<now, active, reveal, req, task>>

NextHour ==
    /\ now < LastHour
    /\ now' = now + 1
    /\ UNCHANGED <<active, job, reveal, req, task>>

Switch ==
    /\ active' = ~active
    /\ UNCHANGED <<now, job, reveal, req, task>>

-----------------------------------------------------------------------------
Init ==
    /\ now = 0 /\ active = TRUE
    /\ job \in [Jobs -> {row \in Job : row.open}]
    /\ reveal = [v \in Reveals |-> Unmade]
    /\ req = [r \in Requests |-> Idle]
    /\ task = [t \in Tasks |-> Resting]

RevealStep(r) == (\E p \in People : MayReveal(r, p)) \/ FindVisit(r)
                 \/ (\E v \in Reveals : RecordReveal(r, v))
AnyonesReview(r) ==
    (\E p \in People, v \in Reveals : LoadReview(r, p, v)) \/ MarkReviewed(r)
ReviewStep(r) ==
    (\E p \in Reviewers, v \in Reveals : LoadReview(r, p, v)) \/ MarkReviewed(r)
TaskStep(t) ==
    \/ StartPass(t) \/ (\E d \in 0 .. Today : Rerun(t, d))
    \/ (\E v \in Reveals : SaveVerdict(t, v)) \/ TaskDies(t)

Next ==
    \/ \E r \in Requests : RevealStep(r) \/ ReviewStep(r)
    \/ \E t \in Tasks : TaskStep(t)
    \/ \E j \in Jobs, row \in Job : EditJob(j, row)
    \/ NextHour \/ Switch

Spec == Init /\ [][Next]_vars

\* The beat runs the pass every hour, and a worker does not die every time.
Fairness ==
    /\ SF_vars(\E t \in Tasks : StartPass(t))
    /\ \A t \in Tasks : WF_vars(TaskDies(t) \/ \E v \in Reveals : SaveVerdict(t, v))
    /\ \A v \in Reveals : SF_vars(\E t \in Tasks : SaveVerdict(t, v))

FairSpec == Spec /\ Fairness

-----------------------------------------------------------------------------
\* Every row holds what its columns can hold.
TypeOK ==
    /\ now \in Hours /\ active \in BOOLEAN
    /\ job \in [Jobs -> Job]
    /\ reveal \in [Reveals -> Reveal \cup {Unmade}]
    /\ req \in [Requests -> Request \cup {Idle}]
    /\ task \in [Tasks -> Run]

\* mark_reviewed, AccessReveal: "a review is final", and what was recorded at
\* the door is never rewritten, by two reviewers at once or by the pass.
TrailStands ==
    [][\A v \in Reveals :
          Made(v) => /\ reveal'[v].by = reveal[v].by
                     /\ reveal'[v].job = reveal[v].job
                     /\ reveal'[v].made = reveal[v].made
                     /\ reveal[v].reviewed_by # None
                          => reveal'[v].reviewed_by = reveal[v].reviewed_by]_reveal

\* ADR-016: a reveal is judged "as the schedule finally stood that day".  Its
\* verdict is dated after the day, unless somebody had the day judged early; and
\* a verdict that is dated after the day is that of the schedule as it finally
\* stood, whatever was judged before and whichever task saved last -- when the
\* schedule of that day is not edited once it is over.
JudgedOnceOver(v) == reveal[v].evaluated_at > Day(reveal[v].made)

VerdictOfTheDay ==
    \A v \in Reveals :
        Judged(v) /\ Day(reveal[v].made) \notin LateDays =>
            /\ Day(reveal[v].made) \in EarlyDays \/ JudgedOnceOver(v)
            /\ JudgedOnceOver(v) => reveal[v].flagged = Judge(v)

\* evaluate_access_reveals: no reveal of a day that is over stays unjudged,
\* whatever dies, however often the organization is off when the hour comes.
EveryRevealJudged ==
    \A v \in Reveals : []<>active => (Made(v) /\ Over(v) ~> Judged(v))
=============================================================================
