------------------------------ MODULE Schedule ------------------------------
(***************************************************************************)
(* One recurring plan and the visits of its customer: scheduling/services  *)
(* with the viewsets and the daily task that call it.                      *)
(*                                                                         *)
(* No handler locks the job it works on.  A request LOADS a row, outside   *)
(* any transaction, checks what it loaded, and saves in a later step: all  *)
(* columns of a PATCHed job, the named columns of any other.  A            *)
(* regeneration reads the jobs nobody touched, then the occurrences it     *)
(* lacks, then deletes and inserts; a concurrent writer may come between.  *)
(*                                                                         *)
(* Time is counted in days: an occurrence is the day it is planned for,    *)
(* and today's has begun.                                                  *)
(***************************************************************************)
EXTENDS Integers, FiniteSets, Functions

CONSTANTS
    Jobs,         \* primary keys: at most this many visits are created
    LastDay,      \* bound on the days that pass
    Horizon,      \* MATERIALIZATION_HORIZON: 56 days
    Rules,        \* what a plan's rule may expand to, each a set of days
    Cleaners, Dispatcher,
    DefaultCrew,  \* the plan's default_assignees
    Requests,     \* requests and tasks in flight at once
    Handlers,     \* the operations they carry out
    Beat,         \* the worker among them that runs only the daily task
    NoJob, Idle

Staff == Cleaners \cup {Dispatcher}
Days  == 1 .. LastDay + Horizon
AdHoc == 0   \* the occurrence of a visit no plan asked for

PlanHandlers == {"materialize", "regenerate", "edit_plan", "delete_plan"}
CrewHandlers == {"status", "clock_in", "clock_out"}
JobHandlers  == CrewHandlers \cup {"assign", "unassign", "patch", "destroy"}
OtherHandlers == {"create", "correct_time"}   \* done in one step

VARIABLES
    today,
    plan,    \* the RecurringPlan row
    job,     \* the Job rows
    clock,   \* each person's time on each job: none, open, closed
    crew,    \* each job's live assignments
    req      \* what each request in flight has read

vars == <<today, plan, job, clock, crew, req>>

-----------------------------------------------------------------------------
Status == {"SCHEDULED", "EN_ROUTE", "IN_PROGRESS", "COMPLETE", "CANCELLED", "NO_ACCESS"}
Terminal == {"COMPLETE", "CANCELLED", "NO_ACCESS"}

\* scheduling.enums.ALLOWED_TRANSITIONS.
Machine == ({"SCHEDULED"} \X {"EN_ROUTE", "IN_PROGRESS", "CANCELLED", "NO_ACCESS"})
           \cup ({"EN_ROUTE"} \X {"IN_PROGRESS", "SCHEDULED", "CANCELLED", "NO_ACCESS"})
           \cup ({"IN_PROGRESS"} \X {"COMPLETE", "NO_ACCESS"})
           \cup (Terminal \X {"SCHEDULED"})

Plan    == [rule : Rules, active : BOOLEAN, deleted : BOOLEAN]
Job     == [occurrence : Days \cup {AdHoc}, start : Days, status : Status,
            deleted : BOOLEAN]
Request == [doing   : PlanHandlers \cup JobHandlers \cup {"saved", "drop", "build"},
            who     : Staff,
            on      : Jobs \cup {NoJob},
            row     : Job \cup {NoJob},
            seen    : Plan,
            gone    : SUBSET Jobs,
            missing : SUBSET Days]

ASSUME ScheduleAssumption ==
    /\ LastDay \in Nat \ {0} /\ Horizon \in Nat
    /\ Rules \subseteq SUBSET Days
    /\ Dispatcher \notin Cleaners /\ DefaultCrew \subseteq Staff
    /\ Handlers \subseteq PlanHandlers \cup JobHandlers \cup OtherHandlers
    /\ NoJob \notin Jobs \cup Job
    /\ Idle \notin Request

LiveJobs == {k \in Jobs : job[k] # NoJob /\ ~job[k].deleted}
Worked(k) == \E u \in Staff : clock[k][u] # "none"

\* The plan's occurrences that a job among S stands for, wherever it was moved.
Occurrences(S) == {job[k].occurrence : k \in S} \ {AdHoc}

\* _untouched_future_jobs.
UntouchedOrWorked(k) == /\ job[k].occurrence # AdHoc
                        /\ job[k].start > today
                        /\ job[k].status = "SCHEDULED"
                        /\ job[k].start = job[k].occurrence
UntouchedOrMoved(k) == /\ job[k].occurrence # AdHoc
                       /\ job[k].start > today
                       /\ job[k].status = "SCHEDULED"
                       /\ ~Worked(k)
Untouched(k) == /\ job[k].occurrence # AdHoc
                /\ job[k].start > today
                /\ job[k].status = "SCHEDULED"
                /\ job[k].start = job[k].occurrence
                /\ ~Worked(k)

\* materialize_plan's window, both ends inclusive.
Window(p) == {d \in p.rule : today <= d /\ d <= today + Horizon}

\* next_statuses: only a dispatcher reopens or cancels.
NextStatuses(from, who) ==
    {to \in Status : /\ <<from, to>> \in Machine
                     /\ who = Dispatcher \/ (from \notin Terminal /\ to # "CANCELLED")}

-----------------------------------------------------------------------------
\* get_object(): what the request goes on to check and save.

Loading(r, op, who, k) ==
    /\ req[r] = Idle
    /\ op \in Handlers
    /\ r = Beat => op = "materialize"
    /\ req' = [req EXCEPT ![r] =
                  [doing |-> op, who |-> who, on |-> k,
                   row |-> IF k = NoJob THEN NoJob ELSE job[k],
                   seen |-> plan, gone |-> {}, missing |-> {}]]
    /\ UNCHANGED <<today, plan, job, clock, crew>>

\* The daily task takes active plans; the endpoint finds out later.
LoadPlan(r, op) ==
    /\ op \in PlanHandlers
    /\ ~plan.deleted
    /\ Loading(r, op, Dispatcher, NoJob)

\* A cleaner acts on the jobs they are on.  Recorded time is prefetched with
\* the job, so destroy's refusal is decided here.
LoadJob(r, op, who, k) ==
    /\ op \in JobHandlers
    /\ k \in LiveJobs
    /\ who = Dispatcher \/ (op \in CrewHandlers /\ who \in crew[k])
    /\ op = "destroy" => ~Worked(k)
    /\ Loading(r, op, who, k)

At(r, doing) == req[r] # Idle /\ req[r].doing = doing

\* A regeneration holds the rows it deleted until it commits: whoever would
\* write one waits.
Unlocked(k) == \A q \in Requests : At(q, "build") => k \notin req[q].gone

Finish(r) == req' = [req EXCEPT ![r] = Idle]

-----------------------------------------------------------------------------
\* RecurringPlanViewSet.update: every column saved; then a refresh; and jobs
\* are reconciled only if the refreshed plan differs from the one loaded.

SavePlan(r, rule, active) ==
    /\ At(r, "edit_plan")
    /\ plan' = [req[r].seen EXCEPT !.rule = rule, !.active = active]
    /\ req' = [req EXCEPT ![r].doing = "saved"]
    /\ UNCHANGED <<today, job, clock, crew>>

RefreshPlan(r) ==
    LET before == req[r].seen
    IN  /\ At(r, "saved")
        /\ req' = IF <<plan.rule, plan.active>> # <<before.rule, before.active>>
                  THEN [req EXCEPT ![r].doing = "regenerate", ![r].seen = plan]
                  ELSE [req EXCEPT ![r] = Idle]
        /\ UNCHANGED <<today, plan, job, clock, crew>>

\* The rows only: the plan's jobs stay on the board.
DeletePlan(r) ==
    /\ At(r, "delete_plan")
    /\ plan' = [plan EXCEPT !.deleted = TRUE]
    /\ Finish(r)
    /\ UNCHANGED <<today, job, clock, crew>>

-----------------------------------------------------------------------------
\* regenerate_plan and materialize_plan.

FindUntouched(r) ==
    /\ At(r, "regenerate")
    /\ req' = [req EXCEPT ![r].doing = "drop",
                          ![r].gone = {k \in LiveJobs : Untouched(k)}]
    /\ UNCHANGED <<today, plan, job, clock, crew>>

\* materialize_plan's lookup: live rows only (ADR-021).
DeletedToo(r) == Occurrences({k \in Jobs : job[k] # NoJob})
Existing(r)   == Occurrences(LiveJobs \ req[r].gone)

\* The soft delete, of the live rows among them, and then the lookup.  A plan
\* seen inactive is dropped and not rebuilt.
FindMissing(r) ==
    LET due     == IF req[r].seen.active THEN Window(req[r].seen) ELSE {}
        dropped == req[r].gone \cap LiveJobs
    IN  /\ At(r, "materialize") \/ At(r, "drop")
        /\ \A k \in dropped : Unlocked(k)
        /\ req' = [req EXCEPT ![r].doing = "build",
                              ![r].gone = dropped,
                              ![r].missing = due \ Existing(r)]
        /\ UNCHANGED <<today, plan, job, clock, crew>>

\* What the unique constraint refuses: an occurrence somebody else has filled.
NoClash(r) == {}
Clash(r) == req[r].missing \cap Occurrences(LiveJobs \ req[r].gone)

VisitAsPlanned(d, occurrence) ==
    [occurrence |-> occurrence, start |-> occurrence, status |-> "SCHEDULED", deleted |-> FALSE]
Visit(d, occurrence) ==
    [occurrence |-> occurrence, start |-> d, status |-> "SCHEDULED", deleted |-> FALSE]

\* bulk_create with ignore_conflicts, the standing crew, and the commit.
\* A row the insert skipped is assigned its crew all the same, and the foreign
\* key then refuses the whole transaction: it commits only without a clash, or
\* without a crew.
Refuse(r) ==
    /\ At(r, "build")
    /\ Clash(r) # {} /\ DefaultCrew # {}
    /\ Finish(r)
    /\ UNCHANGED <<today, plan, job, clock, crew>>

Build(r) ==
    LET filled == req[r].missing \ Clash(r)
    IN  /\ At(r, "build")
        /\ Clash(r) = {} \/ DefaultCrew = {}
        /\ \E made \in SUBSET {k \in Jobs : job[k] = NoJob} :
           \E day \in Bijection(made, filled) :
              /\ job' = [k \in Jobs |-> IF k \in made THEN Visit(day[k], day[k])
                                        ELSE IF k \in req[r].gone THEN [job[k] EXCEPT !.deleted = TRUE]
                                        ELSE job[k]]
              /\ crew' = [k \in Jobs |-> IF k \in made THEN DefaultCrew ELSE crew[k]]
        /\ Finish(r)
        /\ UNCHANGED <<today, plan, clock>>

-----------------------------------------------------------------------------
\* The job actions.  The row they judge is the row they loaded.

\* transition_job: saves the status alone.
SetStatus(r, to) ==
    /\ At(r, "status")
    /\ Unlocked(req[r].on)
    /\ to \in NextStatuses(req[r].row.status, req[r].who)
    /\ job' = [job EXCEPT ![req[r].on].status = to]
    /\ Finish(r)
    /\ UNCHANGED <<today, plan, clock, crew>>

\* clock_in: one open entry for each person and job, read fresh and enforced
\* by a unique constraint.
ClockIn(r) ==
    LET k == req[r].on
        u == req[r].who
    IN  /\ At(r, "clock_in")
        /\ Unlocked(k) \/ req[r].row.status = "IN_PROGRESS"
        /\ req[r].row.status \notin Terminal
        /\ clock[k][u] # "open"
        /\ clock' = [clock EXCEPT ![k][u] = "open"]
        /\ job' = IF req[r].row.status \in {"SCHEDULED", "EN_ROUTE"}
                  THEN [job EXCEPT ![k].status = "IN_PROGRESS"] ELSE job
        /\ Finish(r)
        /\ UNCHANGED <<today, plan, crew>>

ClockOut(r) ==
    LET k == req[r].on
        u == req[r].who
    IN  /\ At(r, "clock_out")
        /\ clock[k][u] = "open"
        /\ clock' = [clock EXCEPT ![k][u] = "closed"]
        /\ Finish(r)
        /\ UNCHANGED <<today, plan, job, crew>>

AssignUser(r, u) ==
    /\ At(r, "assign")
    /\ req[r].row.status \notin Terminal
    /\ crew' = [crew EXCEPT ![req[r].on] = @ \cup {u}]
    /\ Finish(r)
    /\ UNCHANGED <<today, plan, job, clock>>

UnassignUser(r, u) ==
    /\ At(r, "unassign")
    /\ crew' = [crew EXCEPT ![req[r].on] = @ \ {u}]
    /\ Finish(r)
    /\ UNCHANGED <<today, plan, job, clock>>

\* A PATCH saves every column of the row it loaded, status and deleted_at
\* included; the unique constraint may refuse the row its place back.
PatchJob(r, start) ==
    LET k == req[r].on
        row == req[r].row
    IN  /\ At(r, "patch")
        /\ Unlocked(k)
        /\ row.occurrence \notin Occurrences(LiveJobs \ {k})
        /\ job' = [job EXCEPT ![k] = [row EXCEPT !.start = start]]
        /\ Finish(r)
        /\ UNCHANGED <<today, plan, clock, crew>>

DestroyJob(r) ==
    /\ At(r, "destroy")
    /\ Unlocked(req[r].on)
    /\ job' = [job EXCEPT ![req[r].on].deleted = TRUE]
    /\ Finish(r)
    /\ UNCHANGED <<today, plan, clock, crew>>

\* A refusal, or a process that dies: the transaction under way rolls back,
\* and what earlier ones committed stays.
Abandon(r) ==
    /\ req[r] # Idle
    /\ Finish(r)
    /\ UNCHANGED <<today, plan, job, clock, crew>>

-----------------------------------------------------------------------------
\* JobViewSet.create: a visit no plan asked for.
CreateJob(k, start) ==
    /\ "create" \in Handlers
    /\ job[k] = NoJob
    /\ job' = [job EXCEPT ![k] = Visit(start, AdHoc)]
    /\ UNCHANGED <<today, plan, clock, crew, req>>

\* TimeEntryViewSet: a dispatcher corrects an entry, and may clear or set its
\* end.
CorrectTime(k, u) ==
    /\ "correct_time" \in Handlers
    /\ clock[k][u] # "none"
    /\ clock' = [clock EXCEPT ![k][u] = IF @ = "open" THEN "closed" ELSE "open"]
    /\ UNCHANGED <<today, plan, job, crew, req>>

NewDay ==
    /\ today < LastDay
    /\ today' = today + 1
    /\ UNCHANGED <<plan, job, clock, crew, req>>

-----------------------------------------------------------------------------
Init ==
    /\ today = 1
    /\ plan \in [rule : Rules, active : {TRUE}, deleted : {FALSE}]
    /\ job = [k \in Jobs |-> NoJob]
    /\ clock = [k \in Jobs |-> [u \in Staff |-> "none"]]
    /\ crew = [k \in Jobs |-> {}]
    /\ req = [r \in Requests |-> Idle]

Load(r) ==
    \/ \E op \in PlanHandlers : LoadPlan(r, op)
    \/ \E op \in JobHandlers, who \in Staff, k \in Jobs : LoadJob(r, op, who, k)

PlanStep(r) ==
    \/ \E rule \in Rules, active \in BOOLEAN : SavePlan(r, rule, active)
    \/ RefreshPlan(r)
    \/ DeletePlan(r)
    \/ FindUntouched(r)
    \/ FindMissing(r)
    \/ Refuse(r)
    \/ Build(r)

JobStep(r) ==
    \/ \E to \in Status : SetStatus(r, to)
    \/ ClockIn(r)
    \/ ClockOut(r)
    \/ \E u \in Staff : AssignUser(r, u) \/ UnassignUser(r, u)
    \/ \E d \in Days : PatchJob(r, d)
    \/ DestroyJob(r)

Next ==
    \/ \E r \in Requests : Load(r) \/ PlanStep(r) \/ JobStep(r) \/ Abandon(r)
    \/ \E k \in Jobs, d \in Days : CreateJob(k, d)
    \/ \E k \in Jobs, u \in Staff : CorrectTime(k, u)
    \/ NewDay

Spec == Init /\ [][Next]_vars

\* The daily task runs again and again, and is not killed every time it does.
Fairness ==
    /\ WF_vars(LoadPlan(Beat, "materialize"))
    /\ SF_vars(FindMissing(Beat))
    /\ SF_vars(Refuse(Beat) \/ Build(Beat))

FairSpec == Spec /\ Fairness

-----------------------------------------------------------------------------
\* Every variable holds what its columns can hold.
TypeOK ==
    /\ today \in 1 .. LastDay
    /\ plan \in Plan
    /\ job \in [Jobs -> Job \cup {NoJob}]
    /\ clock \in [Jobs -> [Staff -> {"none", "open", "closed"}]]
    /\ crew \in [Jobs -> SUBSET Staff]
    /\ req \in [Requests -> Request \cup {Idle}]

\* ADR-020: the customer never gets two visits for one occurrence of the plan,
\* wherever either was moved, and whatever runs at once.
OneJobPerOccurrence ==
    \A k, l \in LiveJobs :
        k # l /\ job[k].occurrence # AdHoc => job[k].occurrence # job[l].occurrence

\* JobViewSet.perform_destroy and regenerate_plan: "a job somebody worked is
\* history" and is never deleted.
WorkIsKept == \A k \in Jobs : Worked(k) => k \in LiveJobs

\* regenerate_plan: a job rescheduled, started, worked or cancelled "is kept
\* exactly as it is": only a person deletes it.
Touched(k) == \/ job[k].occurrence = AdHoc
              \/ job[k].start # job[k].occurrence
              \/ job[k].status # "SCHEDULED"
              \/ Worked(k)
ByHand(k) == \E r \in Requests : At(r, "destroy") /\ req[r].on = k /\ req'[r] = Idle
TouchedIsKept ==
    [][\A k \in LiveJobs : job'[k].deleted /\ Touched(k) => ByHand(k)]_vars

\* ADR-012: the daily task fills the horizon: an occurrence the plan asks for
\* gets its visit, unless the plan stops asking or the day passes.
JobsRunOut ==   \* the bound on Jobs: fewer left than a run may create
    \E rule \in Rules : Cardinality({k \in Jobs : job[k] = NoJob}) < Cardinality(rule)
Asked(d) == ~plan.deleted /\ plan.active /\ d \in Window(plan)
HorizonFilled ==
    \A d \in Days :
        Asked(d) ~> \/ ~Asked(d)
                   \/ d \in Occurrences(LiveJobs)
                   \/ JobsRunOut
=============================================================================
