--------------------------- MODULE ScheduleProofs ---------------------------
(***************************************************************************)
(* Theorems about Schedule, for any number of requests running any of the  *)
(* handlers, any rules, crew and horizon; the last two, for one request at *)
(* a time beside the daily task: worked and touched visits are what a race *)
(* can lose.                                                               *)
(***************************************************************************)
EXTENDS Schedule, TLAPS

\* What a request holds is a job that was really there: a row, once created,
\* is never removed.
Held(r) == req[r] # Idle =>
    /\ \A k \in req[r].gone : job[k] # NoJob
    /\ req[r].doing \in JobHandlers =>
         req[r].on \in Jobs /\ req[r].row \in Job /\ job[req[r].on] # NoJob

Typed == TypeOK /\ \A r \in Requests : Held(r)

-----------------------------------------------------------------------------
LEMMA NoJobIsNoRow == NoJob \notin Jobs /\ NoJob \notin Job
BY ScheduleAssumption

LEMMA IdleIsNoRequest == Idle \notin Request
BY ScheduleAssumption

\* A visit just made is a row.
LEMMA VisitIsAJob ==
    ASSUME NEW d \in Days, NEW o \in Days \cup {AdHoc}
    PROVE  Visit(d, o) \in Job /\ Visit(d, o) # NoJob
<1>1. Visit(d, o) \in Job
    BY DEF Visit, Job, Status
<1> QED
    BY <1>1, NoJobIsNoRow

\* Marking a row deleted, or giving it a status or a start, leaves a row.
LEMMA RowStaysARow ==
    ASSUME NEW row \in Job
    PROVE  /\ [row EXCEPT !.deleted = TRUE] \in Job
           /\ \A s \in Status : [row EXCEPT !.status = s] \in Job
           /\ \A d \in Days : [row EXCEPT !.start = d] \in Job
BY DEF Job

\* The rows a step writes.
JobTyped(j) == /\ j \in [Jobs -> Job \cup {NoJob}]
               /\ \A k \in Jobs : job[k] # NoJob => j[k] # NoJob

\* A write to one live row.
LEMMA OneRowWritten ==
    ASSUME job \in [Jobs -> Job \cup {NoJob}], NEW k \in Jobs, NEW row \in Job
    PROVE  JobTyped([job EXCEPT ![k] = row])
BY NoJobIsNoRow DEF JobTyped

\* A request that only frees its slot leaves the others as they were.
LEMMA OthersHeld ==
    ASSUME Typed, NEW r \in Requests, req' = [req EXCEPT ![r] = Idle], JobTyped(job')
    PROVE  /\ req' \in [Requests -> Request \cup {Idle}]
           /\ \A q \in Requests : Held(q)'
<1>1. req' \in [Requests -> Request \cup {Idle}]
    BY DEF Typed, TypeOK
<1>2. ASSUME NEW q \in Requests
      PROVE  Held(q)'
    <2>1. CASE q = r
        BY <2>1 DEF Held, Typed, TypeOK
    <2>2. CASE q # r
        <3>1. req'[q] = req[q]
            BY <2>2 DEF Typed, TypeOK
        <3>2. Held(q) /\ (req[q] # Idle => req[q] \in Request)
            BY DEF Typed, TypeOK
        <3> QED
            BY <3>1, <3>2 DEF Held, JobTyped, Request
    <2> QED
        BY <2>1, <2>2
<1> QED
    BY <1>1, <1>2

LEMMA RowsKept ==
    ASSUME job \in [Jobs -> Job \cup {NoJob}], UNCHANGED job
    PROVE  JobTyped(job')
BY DEF JobTyped

-----------------------------------------------------------------------------
\* Build's rows: new visits where there was no row, and the dropped ones.
LEMMA BuiltRows ==
    ASSUME Typed, NEW r \in Requests, At(r, "build"),
           NEW filled \in SUBSET Days,
           NEW made \in SUBSET {k \in Jobs : job[k] = NoJob},
           NEW day \in [made -> filled],
           job' = [k \in Jobs |-> IF k \in made THEN Visit(day[k], day[k])
                                   ELSE IF k \in req[r].gone THEN [job[k] EXCEPT !.deleted = TRUE]
                                   ELSE job[k]]
    PROVE  JobTyped(job')
<1>1. ASSUME NEW k \in Jobs
      PROVE  job'[k] \in Job \cup {NoJob} /\ (job[k] # NoJob => job'[k] # NoJob)
    <2>1. CASE k \in made
        <3>1. day[k] \in Days
            BY <2>1
        <3>2. job'[k] = Visit(day[k], day[k])
            BY <2>1
        <3> QED
            BY <3>1, <3>2, VisitIsAJob, <2>1
    <2>2. CASE k \notin made /\ k \in req[r].gone
        <3>1. job[k] \in Job
            BY <2>2 DEF Typed, TypeOK, Held, At
        <3> QED
            BY <2>2, <3>1, RowStaysARow, NoJobIsNoRow
    <2>3. CASE k \notin made /\ k \notin req[r].gone
        BY <2>3 DEF Typed, TypeOK
    <2> QED
        BY <2>1, <2>2, <2>3
<1> QED
    BY <1>1 DEF JobTyped

-----------------------------------------------------------------------------
\* The step of a request that goes on, with another record in its slot.
LEMMA NextRecordHeld ==
    ASSUME Typed, NEW r \in Requests, NEW q \in Request, req' = [req EXCEPT ![r] = q],
           UNCHANGED <<today, job, clock, crew>>, plan' \in Plan,
           \A k \in q.gone : job[k] # NoJob,
           q.doing \in JobHandlers => q.on \in Jobs /\ q.row \in Job /\ job[q.on] # NoJob
    PROVE  Typed'
<1>1. TypeOK'
    BY DEF Typed, TypeOK
<1>2. ASSUME NEW p \in Requests
      PROVE  Held(p)'
    <2>1. CASE p = r
        <3>1. req'[p] = q
            BY <2>1 DEF Typed, TypeOK
        <3> QED
            BY <3>1 DEF Held
    <2>2. CASE p # r
        <3>1. req'[p] = req[p] /\ Held(p)
            BY <2>2 DEF Typed, TypeOK
        <3> QED
            BY <3>1 DEF Held
    <2> QED
        BY <2>1, <2>2
<1> QED
    BY <1>1, <1>2 DEF Typed

\* A handler that ends.
LEMMA EndsTyped ==
    ASSUME Typed, NEW r \in Requests, Finish(r), JobTyped(job'),
           today' \in 1 .. LastDay, plan' \in Plan,
           clock' \in [Jobs -> [Staff -> {"none", "open", "closed"}]],
           crew' \in [Jobs -> SUBSET Staff]
    PROVE  Typed'
<1>1. /\ req' \in [Requests -> Request \cup {Idle}]
      /\ \A q \in Requests : Held(q)'
    BY OthersHeld DEF Finish
<1> QED
    BY <1>1 DEF Typed, TypeOK, JobTyped

LEMMA LoadTyped ==
    ASSUME Typed, NEW r \in Requests, Load(r)
    PROVE  Typed'
<1>1. ASSUME NEW op \in PlanHandlers, LoadPlan(r, op)
      PROVE  Typed'
    <2> DEFINE q == [doing |-> op, who |-> Dispatcher, on |-> NoJob, row |-> NoJob,
                     seen |-> plan, gone |-> {}, missing |-> {}]
    <2>1. q \in Request /\ op \notin JobHandlers
        BY DEF Typed, TypeOK, Request, PlanHandlers, JobHandlers, CrewHandlers, Staff
    <2>2. req' = [req EXCEPT ![r] = q] /\ UNCHANGED <<today, plan, job, clock, crew>>
        BY <1>1 DEF LoadPlan, Loading
    <2>3. plan' \in Plan /\ q.gone = {} /\ q.doing = op
        BY <2>2 DEF Typed, TypeOK
    <2> HIDE DEF q
    <2> QED
        BY <2>1, <2>2, <2>3, NextRecordHeld
<1>2. ASSUME NEW op \in JobHandlers, NEW who \in Staff, NEW k \in Jobs, LoadJob(r, op, who, k)
      PROVE  Typed'
    <2> DEFINE q == [doing |-> op, who |-> who, on |-> k, row |-> job[k],
                     seen |-> plan, gone |-> {}, missing |-> {}]
    <2>1. job[k] \in Job /\ job[k] # NoJob /\ k # NoJob
        BY <1>2, NoJobIsNoRow DEF LoadJob, LiveJobs, Typed, TypeOK
    <2>2. q \in Request
        BY <2>1 DEF Typed, TypeOK, Request
    <2>3. req' = [req EXCEPT ![r] = q] /\ UNCHANGED <<today, plan, job, clock, crew>>
        BY <1>2, <2>1 DEF LoadJob, Loading
    <2>4. plan' \in Plan /\ q.gone = {} /\ q.on = k /\ q.row = job[k]
        BY <2>3 DEF Typed, TypeOK
    <2> HIDE DEF q
    <2> QED
        BY <2>1, <2>2, <2>3, <2>4, NextRecordHeld
<1> QED
    BY <1>1, <1>2 DEF Load

LEMMA PlanStepTyped ==
    ASSUME Typed, NEW r \in Requests, PlanStep(r)
    PROVE  Typed'
<1> DEFINE old == req[r]
<1>0. ASSUME req[r] # Idle
      PROVE  req[r] \in Request /\ Held(r)
    BY <1>0 DEF Typed, TypeOK
<1>k. plan \in Plan /\ JobTyped(job) /\ today \in 1 .. LastDay
      /\ clock \in [Jobs -> [Staff -> {"none", "open", "closed"}]]
      /\ crew \in [Jobs -> SUBSET Staff]
    BY DEF Typed, TypeOK, JobTyped
<1>1. ASSUME NEW rule \in Rules, NEW active \in BOOLEAN, SavePlan(r, rule, active)
      PROVE  Typed'
    <2> DEFINE q == [old EXCEPT !.doing = "saved"]
    <2>1. q \in Request /\ q.doing \notin JobHandlers /\ q.gone = old.gone
        BY <1>1, <1>0 DEF SavePlan, At, Request, JobHandlers, CrewHandlers
    <2>2. req' = [req EXCEPT ![r] = q] /\ UNCHANGED <<today, job, clock, crew>>
        BY <1>1 DEF SavePlan, Typed, TypeOK
    <2>3. plan' \in Plan
        BY <1>1, <1>0 DEF SavePlan, At, Request, Plan
    <2>4. \A k \in q.gone : job[k] # NoJob
        BY <2>1, <1>0, <1>1 DEF Held, SavePlan, At
    <2> HIDE DEF q
    <2> QED
        BY <2>1, <2>2, <2>3, <2>4, NextRecordHeld
<1>2. ASSUME RefreshPlan(r)
      PROVE  Typed'
    <2>1. CASE Finish(r)
        BY <1>2, <1>k, <2>1, RowsKept, EndsTyped DEF RefreshPlan, JobTyped
    <2>2. CASE ~Finish(r)
        <3> DEFINE q == [old EXCEPT !.doing = "regenerate", !.seen = plan]
        <3>1. q \in Request /\ q.doing \notin JobHandlers /\ q.gone = old.gone
            BY <1>2, <1>0, <1>k DEF RefreshPlan, At, Request, JobHandlers, CrewHandlers, PlanHandlers
        <3>2. req' = [req EXCEPT ![r] = q] /\ UNCHANGED <<today, plan, job, clock, crew>>
            BY <1>2, <2>2 DEF RefreshPlan, Finish, Typed, TypeOK
        <3>3. plan' \in Plan
            BY <3>2, <1>k
        <3>4. \A k \in q.gone : job[k] # NoJob
            BY <3>1, <1>0, <1>2 DEF Held, RefreshPlan, At
        <3> HIDE DEF q
        <3> QED
            BY <3>1, <3>2, <3>3, <3>4, NextRecordHeld
    <2> QED
        BY <2>1, <2>2
<1>3. ASSUME DeletePlan(r)
      PROVE  Typed'
    <2>1. plan' \in Plan
        BY <1>3, <1>k DEF DeletePlan, Plan
    <2> QED
        BY <1>3, <1>k, <2>1, RowsKept, EndsTyped DEF DeletePlan, JobTyped
<1>4. ASSUME FindUntouched(r)
      PROVE  Typed'
    <2> DEFINE left == {k \in LiveJobs : Untouched(k)}
               q == [old EXCEPT !.doing = "drop", !.gone = left]
    <2>1. left \in SUBSET Jobs /\ \A k \in left : job[k] # NoJob
        BY DEF LiveJobs
    <2>2. req' = [req EXCEPT ![r] = q] /\ UNCHANGED <<today, plan, job, clock, crew>>
        BY <1>4 DEF FindUntouched, Typed, TypeOK
    <2> HIDE DEF left
    <2>3. q \in Request /\ q.doing \notin JobHandlers /\ q.gone = left
        BY <1>4, <1>0, <2>1 DEF FindUntouched, At, Request, JobHandlers, CrewHandlers
    <2> HIDE DEF q
    <2> QED
        BY <1>k, <2>1, <2>2, <2>3, NextRecordHeld
<1>5. ASSUME FindMissing(r)
      PROVE  Typed'
    <2> DEFINE due == IF old.seen.active THEN Window(old.seen) ELSE {}
               lacking == due \ Existing(r)
               dropped == old.gone \cap LiveJobs
               q == [old EXCEPT !.doing = "build", !.gone = dropped, !.missing = lacking]
    <2>0. old \in Request /\ old.seen.rule \in SUBSET Days
        BY <1>5, <1>0, ScheduleAssumption DEF FindMissing, At, Request, Plan
    <2>1. lacking \in SUBSET Days
        BY <2>0 DEF Window
    <2>2. req' = [req EXCEPT ![r] = q] /\ UNCHANGED <<today, plan, job, clock, crew>>
        BY <1>5 DEF FindMissing, Typed, TypeOK
    <2>d. dropped \in SUBSET old.gone /\ dropped \in SUBSET Jobs
        BY <2>0 DEF Request
    <2> HIDE DEF lacking, dropped
    <2>3. q \in Request /\ q.doing \notin JobHandlers /\ q.gone = dropped
        BY <2>0, <2>1, <2>d DEF Request, JobHandlers, CrewHandlers
    <2>4. \A k \in q.gone : job[k] # NoJob
        BY <2>3, <2>d, <1>0, <1>5 DEF Held, FindMissing, At
    <2> HIDE DEF q
    <2> QED
        BY <1>k, <2>2, <2>3, <2>4, NextRecordHeld
<1>6. ASSUME Refuse(r)
      PROVE  Typed'
    BY <1>6, <1>k, RowsKept, EndsTyped DEF Refuse, JobTyped
<1>7. ASSUME Build(r)
      PROVE  Typed'
    <2>1. req[r].missing \in SUBSET Days
        BY <1>7, <1>0 DEF Build, At, Request
    <2>2. PICK made \in SUBSET {k \in Jobs : job[k] = NoJob} :
          \E day \in Bijection(made, req[r].missing \ Clash(r)) :
             /\ job' = [k \in Jobs |-> IF k \in made THEN Visit(day[k], day[k])
                           ELSE IF k \in req[r].gone THEN [job[k] EXCEPT !.deleted = TRUE]
                           ELSE job[k]]
             /\ crew' = [k \in Jobs |-> IF k \in made THEN DefaultCrew ELSE crew[k]]
        BY <1>7 DEF Build
    <2>3. PICK day \in [made -> req[r].missing \ Clash(r)] :
             /\ job' = [k \in Jobs |-> IF k \in made THEN Visit(day[k], day[k])
                           ELSE IF k \in req[r].gone THEN [job[k] EXCEPT !.deleted = TRUE]
                           ELSE job[k]]
        BY <2>2 DEF Bijection, Injection
    <2>4. JobTyped(job')
        <3> DEFINE filled == req[r].missing \ Clash(r)
        <3>1. filled \in SUBSET Days /\ day \in [made -> filled]
            BY <2>1
        <3>2. At(r, "build")
            BY <1>7 DEF Build
        <3> HIDE DEF filled
        <3> QED
            BY <2>3, <3>1, <3>2, BuiltRows, SMTT(60)
    <2>5. crew' \in [Jobs -> SUBSET Staff]
        BY <2>2, <1>k, ScheduleAssumption
    <2> QED
        BY <1>7, <1>k, <2>4, <2>5, EndsTyped DEF Build
<1> QED
    BY <1>1, <1>2, <1>3, <1>4, <1>5, <1>6, <1>7 DEF PlanStep

LEMMA JobStepTyped ==
    ASSUME Typed, NEW r \in Requests, JobStep(r)
    PROVE  Typed'
<1>k. /\ plan \in Plan /\ today \in 1 .. LastDay /\ JobTyped(job)
      /\ job \in [Jobs -> Job \cup {NoJob}]
      /\ clock \in [Jobs -> [Staff -> {"none", "open", "closed"}]]
      /\ crew \in [Jobs -> SUBSET Staff]
    BY DEF Typed, TypeOK, JobTyped
<1>h. ASSUME NEW op \in JobHandlers, At(r, op)
      PROVE  /\ req[r].on \in Jobs /\ req[r].row \in Job /\ req[r].who \in Staff
             /\ job[req[r].on] \in Job
    BY <1>h, <1>k DEF Typed, TypeOK, Held, At, Request
<1>1. ASSUME NEW to \in Status, SetStatus(r, to)
      PROVE  Typed'
    <2>1. At(r, "status") /\ "status" \in JobHandlers
        BY <1>1 DEF SetStatus, JobHandlers, CrewHandlers
    <2>2. [job[req[r].on] EXCEPT !.status = to] \in Job
        BY <2>1, <1>h, RowStaysARow
    <2>3. job' = [job EXCEPT ![req[r].on] = [job[req[r].on] EXCEPT !.status = to]]
        BY <1>1 DEF SetStatus
    <2>4. JobTyped(job')
        BY <2>1, <2>2, <2>3, <1>h, <1>k, OneRowWritten
    <2> QED
        BY <1>1, <1>k, <2>4, EndsTyped DEF SetStatus
<1>2. ASSUME ClockIn(r)
      PROVE  Typed'
    <2> DEFINE k == req[r].on
               u == req[r].who
    <2>1. At(r, "clock_in") /\ "clock_in" \in JobHandlers
        BY <1>2 DEF ClockIn, JobHandlers, CrewHandlers
    <2>2. k \in Jobs /\ u \in Staff /\ job[k] \in Job
        BY <2>1, <1>h
    <2>3. [job[k] EXCEPT !.status = "IN_PROGRESS"] \in Job
        BY <2>2, RowStaysARow DEF Status
    <2>4. \/ job' = [job EXCEPT ![k] = [job[k] EXCEPT !.status = "IN_PROGRESS"]]
          \/ job' = job
        BY <1>2 DEF ClockIn
    <2>5. JobTyped(job')
        BY <2>2, <2>3, <2>4, <1>k, OneRowWritten
    <2>6. clock' \in [Jobs -> [Staff -> {"none", "open", "closed"}]]
        BY <1>2, <1>k, <2>2 DEF ClockIn
    <2> QED
        BY <1>2, <1>k, <2>5, <2>6, EndsTyped DEF ClockIn
<1>3. ASSUME ClockOut(r)
      PROVE  Typed'
    <2>1. At(r, "clock_out") /\ "clock_out" \in JobHandlers
        BY <1>3 DEF ClockOut, JobHandlers, CrewHandlers
    <2>2. clock' \in [Jobs -> [Staff -> {"none", "open", "closed"}]]
        BY <1>3, <1>k, <2>1, <1>h DEF ClockOut
    <2> QED
        BY <1>3, <1>k, <2>2, RowsKept, EndsTyped DEF ClockOut, JobTyped
<1>4. ASSUME NEW u \in Staff, AssignUser(r, u) \/ UnassignUser(r, u)
      PROVE  Typed'
    <2>1. crew' \in [Jobs -> SUBSET Staff]
        BY <1>4, <1>k DEF AssignUser, UnassignUser
    <2> QED
        BY <1>4, <1>k, <2>1, RowsKept, EndsTyped DEF AssignUser, UnassignUser, JobTyped
<1>5. ASSUME NEW d \in Days, PatchJob(r, d)
      PROVE  Typed'
    <2>1. At(r, "patch") /\ "patch" \in JobHandlers
        BY <1>5 DEF PatchJob, JobHandlers
    <2>2. [req[r].row EXCEPT !.start = d] \in Job
        BY <2>1, <1>h, RowStaysARow
    <2>3. JobTyped(job')
        BY <1>5, <2>1, <2>2, <1>h, <1>k, OneRowWritten DEF PatchJob
    <2> QED
        BY <1>5, <1>k, <2>3, EndsTyped DEF PatchJob
<1>6. ASSUME DestroyJob(r)
      PROVE  Typed'
    <2>1. At(r, "destroy") /\ "destroy" \in JobHandlers
        BY <1>6 DEF DestroyJob, JobHandlers
    <2>2. [job[req[r].on] EXCEPT !.deleted = TRUE] \in Job
        BY <2>1, <1>h, RowStaysARow
    <2>3. job' = [job EXCEPT ![req[r].on] = [job[req[r].on] EXCEPT !.deleted = TRUE]]
        BY <1>6 DEF DestroyJob
    <2>4. JobTyped(job')
        BY <2>1, <2>2, <2>3, <1>h, <1>k, OneRowWritten
    <2> QED
        BY <1>6, <1>k, <2>4, EndsTyped DEF DestroyJob
<1> QED
    BY <1>1, <1>2, <1>3, <1>4, <1>5, <1>6 DEF JobStep

\* What happens to the rows outside a request leaves every request's record.
LEMMA RequestsAlone ==
    ASSUME Typed, UNCHANGED req, JobTyped(job'), today' \in 1 .. LastDay, plan' \in Plan,
           clock' \in [Jobs -> [Staff -> {"none", "open", "closed"}]],
           crew' \in [Jobs -> SUBSET Staff]
    PROVE  Typed'
<1>1. TypeOK'
    BY DEF Typed, TypeOK, JobTyped
<1>2. ASSUME NEW q \in Requests
      PROVE  Held(q)'
    BY DEF Typed, TypeOK, Held, JobTyped, Request
<1> QED
    BY <1>1, <1>2 DEF Typed

LEMMA TypedStep ==
    ASSUME Typed, [Next]_vars
    PROVE  Typed'
<1>k. /\ plan \in Plan /\ today \in 1 .. LastDay /\ JobTyped(job)
      /\ job \in [Jobs -> Job \cup {NoJob}]
      /\ clock \in [Jobs -> [Staff -> {"none", "open", "closed"}]]
      /\ crew \in [Jobs -> SUBSET Staff]
    BY DEF Typed, TypeOK, JobTyped
<1>1. ASSUME NEW r \in Requests, Load(r) \/ PlanStep(r) \/ JobStep(r)
      PROVE  Typed'
    BY <1>1, LoadTyped, PlanStepTyped, JobStepTyped
<1>2. ASSUME NEW r \in Requests, Abandon(r)
      PROVE  Typed'
    BY <1>2, <1>k, RowsKept, EndsTyped DEF Abandon, JobTyped
<1>3. ASSUME NEW k \in Jobs, NEW d \in Days, CreateJob(k, d)
      PROVE  Typed'
    <2>1. Visit(d, AdHoc) \in Job
        BY VisitIsAJob
    <2>2. JobTyped(job')
        BY <1>3, <1>k, <2>1, OneRowWritten DEF CreateJob
    <2> QED
        BY <1>3, <1>k, <2>2, RequestsAlone DEF CreateJob
<1>4. ASSUME NEW k \in Jobs, NEW u \in Staff, CorrectTime(k, u)
      PROVE  Typed'
    <2>1. clock' \in [Jobs -> [Staff -> {"none", "open", "closed"}]]
        BY <1>4, <1>k DEF CorrectTime
    <2> QED
        BY <1>4, <1>k, <2>1, RequestsAlone DEF CorrectTime, JobTyped
<1>5. ASSUME NewDay
      PROVE  Typed'
    <2>1. today' \in 1 .. LastDay
        BY <1>5, <1>k, ScheduleAssumption DEF NewDay
    <2> QED
        BY <1>5, <1>k, <2>1, RequestsAlone DEF NewDay, JobTyped
<1>6. CASE UNCHANGED vars
    BY <1>6, <1>k, RequestsAlone DEF vars, JobTyped
<1> QED
    BY <1>1, <1>2, <1>3, <1>4, <1>5, <1>6 DEF Next

LEMMA TypedInit == Init => Typed
<1> SUFFICES ASSUME Init PROVE Typed
    OBVIOUS
<1>1. today \in 1 .. LastDay
    BY ScheduleAssumption DEF Init
<1>2. plan \in Plan
    BY DEF Init, Plan
<1>3. TypeOK
    BY <1>1, <1>2 DEF Init, TypeOK
<1> QED
    BY <1>3 DEF Init, Typed, Held

\* Every variable holds what its columns can hold.
THEOREM ScheduleTypeCorrect == Spec => []TypeOK
<1>1. Typed => TypeOK
    BY DEF Typed
<1> QED
    BY <1>1, TypedInit, TypedStep, PTL DEF Spec

-----------------------------------------------------------------------------
\* One visit for each occurrence: each live row is either one that was live
\* at the same occurrence, or alone there.
Stays(k) == k \in LiveJobs /\ k \in LiveJobs' /\ job'[k].occurrence = job[k].occurrence

LEMMA AloneOrAsBefore ==
    ASSUME OneJobPerOccurrence,
           \A k \in LiveJobs' :
              \/ Stays(k)
              \/ job'[k].occurrence = AdHoc
              \/ \A l \in LiveJobs' : l # k => job'[l].occurrence # job'[k].occurrence
    PROVE  OneJobPerOccurrence'
BY DEF OneJobPerOccurrence, Stays

\* A step that changes no row's occurrence and revives no row.
LEMMA NobodyRevived ==
    ASSUME OneJobPerOccurrence, \A k \in LiveJobs' : Stays(k)
    PROVE  OneJobPerOccurrence'
BY AloneOrAsBefore

LEMMA BuildKeepsOccurrences ==
    ASSUME Typed, OneJobPerOccurrence, NEW r \in Requests, Build(r)
    PROVE  OneJobPerOccurrence'
<1> DEFINE filled == req[r].missing \ Clash(r)
           gone == req[r].gone
<1>1. PICK made \in SUBSET {k \in Jobs : job[k] = NoJob} :
      \E day \in Bijection(made, filled) :
         job' = [k \in Jobs |-> IF k \in made THEN Visit(day[k], day[k])
                   ELSE IF k \in gone THEN [job[k] EXCEPT !.deleted = TRUE]
                   ELSE job[k]]
    BY DEF Build
<1>2. PICK day \in [made -> filled] :
         /\ IsInjective(day)
         /\ job' = [k \in Jobs |-> IF k \in made THEN Visit(day[k], day[k])
                   ELSE IF k \in gone THEN [job[k] EXCEPT !.deleted = TRUE]
                   ELSE job[k]]
    BY <1>1 DEF Bijection, Injection
<1>3. filled \cap Occurrences(LiveJobs \ gone) = {}
    BY DEF Clash
<1> HIDE DEF filled
<1>4. \A k \in gone : job[k] \in Job
    BY DEF Build, At, Typed, TypeOK, Held, Request
<1> HIDE DEF gone
<1>5. \A k \in made : k \in Jobs /\ job'[k].occurrence = day[k] /\ day[k] \in filled
    BY <1>2 DEF Visit
<1>6. \A k \in LiveJobs' \ made : k \in LiveJobs \ gone /\ job'[k] = job[k]
    <2> SUFFICES ASSUME NEW k \in LiveJobs' \ made
                 PROVE  k \in LiveJobs \ gone /\ job'[k] = job[k]
        OBVIOUS
    <2>1. k \notin gone
        <3> SUFFICES ASSUME k \in gone PROVE FALSE
            OBVIOUS
        <3>1. job'[k] = [job[k] EXCEPT !.deleted = TRUE] /\ job[k] \in Job
            BY <1>2, <1>4 DEF LiveJobs
        <3>2. job'[k].deleted
            BY <3>1 DEF Job
        <3> QED
            BY <3>2 DEF LiveJobs
    <2>2. job'[k] = job[k]
        BY <1>2, <2>1 DEF LiveJobs
    <2> QED
        BY <2>1, <2>2 DEF LiveJobs
<1>7. ASSUME NEW k \in LiveJobs', k \in made, NEW l \in LiveJobs', l # k,
             job'[k].occurrence # AdHoc
      PROVE  job'[l].occurrence # job'[k].occurrence
    <2>1. CASE l \in made
        BY <1>2, <1>5, <1>7, <2>1 DEF IsInjective
    <2>2. CASE l \notin made
        <3>1. l \in LiveJobs \ gone /\ job'[l] = job[l]
            BY <1>6, <2>2
        <3>2. job[l].occurrence # AdHoc => job[l].occurrence \in Occurrences(LiveJobs \ gone)
            BY <3>1 DEF Occurrences
        <3>3. job'[k].occurrence \in filled
            BY <1>5, <1>7
        <3> QED
            BY <3>1, <3>2, <3>3, <1>3, <1>7
    <2> QED
        BY <2>1, <2>2
<1>8. \A k \in LiveJobs' : k \notin made => Stays(k)
    BY <1>6 DEF Stays
<1> QED
    BY <1>7, <1>8, AloneOrAsBefore

LEMMA PatchKeepsOccurrences ==
    ASSUME Typed, OneJobPerOccurrence, NEW r \in Requests, NEW d \in Days, PatchJob(r, d)
    PROVE  OneJobPerOccurrence'
<1> DEFINE k == req[r].on
           row == req[r].row
<1>1. k \in Jobs /\ row \in Job
    BY DEF PatchJob, At, Typed, TypeOK, Held, JobHandlers
<1>2. job' = [job EXCEPT ![k] = [row EXCEPT !.start = d]] /\ job \in [Jobs -> Job \cup {NoJob}]
    BY DEF PatchJob, Typed, TypeOK
<1>3. job'[k].occurrence = row.occurrence /\ \A l \in Jobs : l # k => job'[l] = job[l]
    BY <1>1, <1>2 DEF Job
<1>4. row.occurrence \notin Occurrences(LiveJobs \ {k})
    BY DEF PatchJob
<1> HIDE DEF k, row
<1>5. \A l \in LiveJobs' : l # k => Stays(l) /\ l \in LiveJobs \ {k}
    BY <1>3 DEF LiveJobs, Stays
<1>6. \A l \in LiveJobs' : l # k /\ job'[k].occurrence # AdHoc
                              => job'[l].occurrence # job'[k].occurrence
    BY <1>3, <1>4, <1>5 DEF Occurrences, Stays
<1> QED
    BY <1>5, <1>6, AloneOrAsBefore

LEMMA OccurrenceStep ==
    ASSUME Typed, OneJobPerOccurrence, [Next]_vars
    PROVE  OneJobPerOccurrence'
<1>h. ASSUME NEW r \in Requests, NEW op \in JobHandlers, At(r, op)
      PROVE  req[r].on \in Jobs /\ job[req[r].on] \in Job
    BY <1>h DEF Typed, TypeOK, Held, At
<1>k. job \in [Jobs -> Job \cup {NoJob}]
    BY DEF Typed, TypeOK
<1>1. CASE UNCHANGED job
    BY <1>1, NobodyRevived DEF Stays, LiveJobs
<1>2. ASSUME NEW r \in Requests, NEW to \in Status, SetStatus(r, to)
      PROVE  OneJobPerOccurrence'
    <2> DEFINE k == req[r].on
    <2>1. k \in Jobs /\ job[k] \in Job
        BY <1>2, <1>h DEF SetStatus, JobHandlers, CrewHandlers
    <2>2. job' = [job EXCEPT ![k] = [job[k] EXCEPT !.status = to]]
        BY <1>2 DEF SetStatus
    <2> HIDE DEF k
    <2> QED
        BY <1>k, <2>1, <2>2, NobodyRevived, NoJobIsNoRow DEF Stays, LiveJobs, Job
<1>3. ASSUME NEW r \in Requests, ClockIn(r)
      PROVE  OneJobPerOccurrence'
    <2> DEFINE k == req[r].on
    <2>1. k \in Jobs /\ job[k] \in Job
        BY <1>3, <1>h DEF ClockIn, JobHandlers, CrewHandlers
    <2>2. \/ job' = [job EXCEPT ![k] = [job[k] EXCEPT !.status = "IN_PROGRESS"]]
          \/ job' = job
        BY <1>3 DEF ClockIn
    <2> HIDE DEF k
    <2> QED
        BY <1>k, <2>1, <2>2, NobodyRevived, NoJobIsNoRow DEF Stays, LiveJobs, Job
<1>4. ASSUME NEW r \in Requests, DestroyJob(r)
      PROVE  OneJobPerOccurrence'
    <2> DEFINE k == req[r].on
    <2>1. k \in Jobs /\ job[k] \in Job
        BY <1>4, <1>h DEF DestroyJob, JobHandlers
    <2>2. job' = [job EXCEPT ![k] = [job[k] EXCEPT !.deleted = TRUE]]
        BY <1>4 DEF DestroyJob
    <2> HIDE DEF k
    <2> QED
        BY <1>k, <2>1, <2>2, NobodyRevived, NoJobIsNoRow DEF Stays, LiveJobs, Job
<1>5. ASSUME NEW k \in Jobs, NEW d \in Days, CreateJob(k, d)
      PROVE  OneJobPerOccurrence'
    <2>1. \A l \in LiveJobs' : l # k => Stays(l)
        BY <1>5, <1>k DEF CreateJob, Stays, LiveJobs
    <2>2. job'[k].occurrence = AdHoc
        BY <1>5, <1>k DEF CreateJob, Visit
    <2> QED
        BY <2>1, <2>2, AloneOrAsBefore
<1>6. ASSUME NEW r \in Requests, Load(r) \/ Abandon(r)
      PROVE  UNCHANGED job
    BY <1>6 DEF Load, LoadPlan, LoadJob, Loading, Abandon
<1>7. ASSUME NEW r \in Requests, PlanStep(r)
      PROVE  OneJobPerOccurrence'
    BY <1>7, <1>1, BuildKeepsOccurrences
       DEF PlanStep, SavePlan, RefreshPlan, DeletePlan, FindUntouched, FindMissing, Refuse
<1>8. ASSUME NEW r \in Requests, JobStep(r)
      PROVE  OneJobPerOccurrence'
    BY <1>8, <1>1, <1>2, <1>3, <1>4, PatchKeepsOccurrences
       DEF JobStep, ClockOut, AssignUser, UnassignUser
<1> QED
    BY <1>1, <1>5, <1>6, <1>7, <1>8 DEF Next, CorrectTime, NewDay, vars

\* ADR-020: the customer never gets two visits for one occurrence of the plan,
\* whatever runs at once.
THEOREM OneVisitForEachOccurrence == Spec => []OneJobPerOccurrence
<1>1. Init => OneJobPerOccurrence
    BY DEF Init, OneJobPerOccurrence, LiveJobs
<1>2. Typed /\ OneJobPerOccurrence /\ [Next]_vars => OneJobPerOccurrence'
    BY OccurrenceStep
<1> QED
    BY <1>1, <1>2, TypedInit, TypedStep, PTL DEF Spec

-----------------------------------------------------------------------------
(* One request at a time beside the daily task.  A request that has checked *)
(* a row, or found it untouched, then writes it as it was found: the task   *)
(* holds no row, and adds visits where there was none.                      *)

OneBesideTheTask == \A r, q \in Requests \ {Beat} : r = q

TaskOnly ==
    Beat \in Requests /\ req[Beat] # Idle =>
        req[Beat].doing \in {"materialize", "build"} /\ req[Beat].gone = {}

StillTrue(r) ==
    req[r] # Idle =>
        /\ req[r].doing \in JobHandlers => req[r].on \in LiveJobs /\ ~req[r].row.deleted
        /\ req[r].doing = "destroy" => ~Worked(req[r].on)
        /\ \A k \in req[r].gone : k \in LiveJobs /\ ~Touched(k)

Kept == WorkIsKept /\ TaskOnly /\ \A r \in Requests : StillTrue(r)

\* What an unchanged board leaves as it is.
LEMMA SameBoard ==
    ASSUME UNCHANGED <<job, clock>>
    PROVE  /\ LiveJobs' = LiveJobs
           /\ \A k : (Touched(k) <=> Touched(k)') /\ (Worked(k) <=> Worked(k)')
BY DEF LiveJobs, Touched, Worked

\* What the task has in flight says nothing of any row.
LEMMA TaskHoldsNothing == TaskOnly => (Beat \in Requests => StillTrue(Beat))
<1>1. \A d \in {"materialize", "build"} : d \notin JobHandlers /\ d # "destroy"
    BY DEF JobHandlers, CrewHandlers
<1> QED
    BY <1>1 DEF TaskOnly, StillTrue

\* A step of a request that leaves what is true of its own record.
LEMMA RequestKeeps ==
    ASSUME OneBesideTheTask, Typed, Kept, NEW r \in Requests \ {Beat}, NEW q,
           req' = [req EXCEPT ![r] = q], StillTrue(r)'
    PROVE  TaskOnly' /\ \A p \in Requests : StillTrue(p)'
<1>1. \A p \in Requests : p = r \/ p = Beat
    BY DEF OneBesideTheTask
<1>2. Beat \in Requests => req'[Beat] = req[Beat]
    BY DEF Typed, TypeOK
<1>3. TaskOnly'
    BY <1>2 DEF Kept, TaskOnly
<1>4. (Beat \in Requests => StillTrue(Beat))'
    BY <1>3, TaskHoldsNothing, PTL
<1> QED
    BY <1>1, <1>3, <1>4

\* A handler that ends leaves no request with anything to write.
LEMMA NothingPending ==
    ASSUME OneBesideTheTask, Typed, Kept, NEW r \in Requests \ {Beat}, Finish(r)
    PROVE  TaskOnly' /\ \A q \in Requests : StillTrue(q)'
<1>1. StillTrue(r)'
    BY DEF Finish, Typed, TypeOK, StillTrue
<1> QED
    BY <1>1, RequestKeeps DEF Finish

\* A step that writes nothing on the board.
LEMMA LoadKeeps ==
    ASSUME OneBesideTheTask, Typed, Kept, NEW r \in Requests \ {Beat}, NEW q,
           req' = [req EXCEPT ![r] = q],
           UNCHANGED <<job, clock>>,
           q.doing \in JobHandlers => q.on \in LiveJobs /\ ~q.row.deleted,
           q.doing = "destroy" => ~Worked(q.on),
           \A k \in q.gone : k \in LiveJobs /\ ~Touched(k)
    PROVE  Kept'
<1>1. req'[r] = q
    BY DEF Typed, TypeOK
<1>2. StillTrue(r)'
    BY <1>1, SameBoard DEF StillTrue
<1>3. WorkIsKept'
    BY SameBoard DEF Kept, WorkIsKept
<1> QED
    BY <1>2, <1>3, RequestKeeps DEF Kept

LEMMA EndKeeps ==
    ASSUME OneBesideTheTask, Typed, Kept, NEW r \in Requests \ {Beat}, Finish(r),
           UNCHANGED <<job, clock>>
    PROVE  Kept'
BY NothingPending, SameBoard DEF Kept, WorkIsKept

\* A step of nobody's request, or of the task's, that adds to the board.
LEMMA GrowthKeeps ==
    ASSUME Typed, Kept, TaskOnly',
           \A r \in Requests \ {Beat} : req'[r] = req[r],
           LiveJobs \subseteq LiveJobs',
           \A k \in Jobs : Worked(k)' <=> Worked(k),
           \A k \in LiveJobs : Touched(k)' => Touched(k)
    PROVE  Kept'
<1>0. LiveJobs \subseteq Jobs /\ WorkIsKept /\ \A r \in Requests : StillTrue(r)
    BY DEF LiveJobs, Kept
<1>1. "destroy" \in JobHandlers
    BY DEF JobHandlers
<1>2. ASSUME NEW r \in Requests \ {Beat} PROVE StillTrue(r)'
    BY <1>0, <1>1, <1>2 DEF StillTrue
<1>3. (Beat \in Requests => StillTrue(Beat))'
    BY TaskHoldsNothing, PTL
<1>4. WorkIsKept'
    BY <1>0 DEF WorkIsKept
<1> QED
    BY <1>2, <1>3, <1>4 DEF Kept

\* Nothing already on the board is written.
LEMMA BoardGrows ==
    ASSUME \A k \in LiveJobs : job'[k] = job[k], UNCHANGED clock
    PROVE  /\ LiveJobs \subseteq LiveJobs'
           /\ \A k \in Jobs : Worked(k)' <=> Worked(k)
           /\ \A k \in LiveJobs : Touched(k)' => Touched(k)
BY DEF LiveJobs, Worked, Touched

LEMMA TaskKeeps ==
    ASSUME Typed, Kept, Beat \in Requests,
           Load(Beat) \/ PlanStep(Beat) \/ JobStep(Beat) \/ Abandon(Beat)
    PROVE  Kept'
<1>0. /\ req \in [Requests -> Request \cup {Idle}] /\ job \in [Jobs -> Job \cup {NoJob}]
      /\ TaskOnly
    BY DEF Typed, TypeOK, Kept
<1>task. ASSUME TaskOnly', NEW q, req' = [req EXCEPT ![Beat] = q],
                \A k \in LiveJobs : job'[k] = job[k], UNCHANGED clock
         PROVE  Kept'
    BY <1>0, <1>task, BoardGrows, GrowthKeeps
<1>ends. ASSUME Finish(Beat), \A k \in LiveJobs : job'[k] = job[k], UNCHANGED clock
         PROVE  Kept'
    <2>1. TaskOnly'
        BY <1>0, <1>ends DEF Finish, TaskOnly
    <2> QED
        BY <1>task, <1>ends, <2>1 DEF Finish
<1>1. ASSUME Load(Beat) PROVE Kept'
    <2>1. PICK op, who, k : Loading(Beat, op, who, k)
        BY <1>1 DEF Load, LoadPlan, LoadJob
    <2>2. PICK q : q = [doing |-> op, who |-> who, on |-> k,
                        row |-> IF k = NoJob THEN NoJob ELSE job[k],
                        seen |-> plan, gone |-> {}, missing |-> {}]
        OBVIOUS
    <2>3. /\ op = "materialize" /\ req' = [req EXCEPT ![Beat] = q] /\ UNCHANGED <<job, clock>>
          /\ q.doing = op /\ q.gone = {}
        BY <2>1, <2>2 DEF Loading
    <2>4. TaskOnly'
        BY <1>0, <2>3 DEF TaskOnly
    <2> QED
        BY <1>task, <2>3, <2>4
<1>2. ASSUME FindMissing(Beat) PROVE Kept'
    <2>1. PICK dropped, missing :
             /\ req' = [req EXCEPT ![Beat].doing = "build", ![Beat].gone = dropped,
                                   ![Beat].missing = missing]
             /\ dropped = req[Beat].gone \cap LiveJobs
        BY <1>2 DEF FindMissing
    <2>2. PICK q : q = [req[Beat] EXCEPT !.doing = "build", !.gone = dropped, !.missing = missing]
        OBVIOUS
    <2>3. req[Beat] # Idle /\ req[Beat] \in Request /\ UNCHANGED <<job, clock>>
        BY <1>0, <1>2 DEF FindMissing, At
    <2>4. q.doing = "build" /\ q.gone = {}
        <3>1. dropped = {}
            BY <1>0, <2>1, <2>3 DEF TaskOnly
        <3> QED
            BY <2>2, <2>3, <3>1 DEF Request
    <2>5. req' = [req EXCEPT ![Beat] = q]
        BY <1>0, <2>1, <2>2
    <2>6. TaskOnly'
        BY <1>0, <2>4, <2>5 DEF TaskOnly
    <2> QED
        BY <1>task, <2>3, <2>5, <2>6
<1>3. ASSUME Build(Beat) PROVE Kept'
    <2>1. /\ req[Beat].gone = {} /\ Finish(Beat) /\ UNCHANGED clock
          /\ \E made \in SUBSET {l \in Jobs : job[l] = NoJob} :
             \E day \in Bijection(made, req[Beat].missing \ Clash(Beat)) :
                job' = [l \in Jobs |-> IF l \in made THEN Visit(day[l], day[l])
                          ELSE IF l \in req[Beat].gone THEN [job[l] EXCEPT !.deleted = TRUE]
                          ELSE job[l]]
        BY <1>0, <1>3 DEF Build, At, TaskOnly
    <2>2. \A k \in LiveJobs : job'[k] = job[k]
        BY <2>1 DEF LiveJobs
    <2> QED
        BY <1>ends, <2>1, <2>2
<1>4. CASE Refuse(Beat) \/ Abandon(Beat)
    BY <1>4, <1>ends DEF Refuse, Abandon
<1>5. \A d \in {"materialize", "build"} :
          d \notin JobHandlers \cup {"edit_plan", "saved", "delete_plan", "regenerate"}
    BY DEF JobHandlers, CrewHandlers
<1>6. ~JobStep(Beat)
    BY <1>0, <1>5 DEF JobStep, SetStatus, ClockIn, ClockOut, AssignUser, UnassignUser, PatchJob,
                      DestroyJob, At, TaskOnly, JobHandlers, CrewHandlers
<1>7. \A rule \in Rules, active \in BOOLEAN : ~SavePlan(Beat, rule, active)
    BY <1>0 DEF SavePlan, At, TaskOnly
<1>8. ~(RefreshPlan(Beat) \/ DeletePlan(Beat) \/ FindUntouched(Beat))
    BY <1>0 DEF RefreshPlan, DeletePlan, FindUntouched, At, TaskOnly
<1> QED
    BY <1>1, <1>2, <1>3, <1>4, <1>6, <1>7, <1>8 DEF PlanStep

\* A regeneration deletes what is still untouched, and nothing else.
LEMMA BuildDeletes ==
    ASSUME Typed, Kept, NEW r \in Requests, Build(r), NEW k \in LiveJobs
    PROVE  k \in LiveJobs' \/ ~Touched(k)
<1>1. PICK made \in SUBSET {l \in Jobs : job[l] = NoJob} :
      \E day \in Bijection(made, req[r].missing \ Clash(r)) :
         job' = [l \in Jobs |-> IF l \in made THEN Visit(day[l], day[l])
                   ELSE IF l \in req[r].gone THEN [job[l] EXCEPT !.deleted = TRUE]
                   ELSE job[l]]
    BY DEF Build
<1>2. k \in Jobs /\ job[k] # NoJob /\ k \notin made
    BY <1>1 DEF LiveJobs
<1>3. CASE k \in req[r].gone
    BY <1>3 DEF Kept, StillTrue, Build, At
<1>4. CASE k \notin req[r].gone
    <2>1. job'[k] = job[k]
        BY <1>1, <1>2, <1>4
    <2> QED
        BY <1>2, <2>1 DEF LiveJobs
<1> QED
    BY <1>3, <1>4

\* Starting, rescheduling or correcting a visit leaves it on the board.
LEMMA JobStepDeletes ==
    ASSUME Typed, Kept, NEW r \in Requests, JobStep(r), NEW k \in LiveJobs
    PROVE  k \in LiveJobs' \/ (DestroyJob(r) /\ req[r].on = k)
<1>0. job \in [Jobs -> Job \cup {NoJob}] /\ job[k] \in Job /\ ~job[k].deleted /\ k \in Jobs
    BY DEF Typed, TypeOK, LiveJobs
<1>row. ASSUME NEW row \in Job, ~row.deleted, job'[k] = row PROVE k \in LiveJobs'
    BY <1>0, <1>row, NoJobIsNoRow DEF LiveJobs
<1>1. CASE job' = job
    BY <1>0, <1>1, <1>row
<1>2. ASSUME NEW to \in Status, SetStatus(r, to) PROVE k \in LiveJobs'
    <2>1. job'[k] = job[k] \/ job'[k] = [job[k] EXCEPT !.status = to]
        BY <1>0, <1>2 DEF SetStatus
    <2>2. [job[k] EXCEPT !.status = to] \in Job /\ ~[job[k] EXCEPT !.status = to].deleted
        BY <1>0 DEF Job
    <2> QED
        BY <1>0, <2>1, <2>2, <1>row
<1>3. ASSUME ClockIn(r) PROVE k \in LiveJobs'
    <2>1. job'[k] = job[k] \/ job'[k] = [job[k] EXCEPT !.status = "IN_PROGRESS"]
        BY <1>0, <1>3 DEF ClockIn
    <2>2. /\ [job[k] EXCEPT !.status = "IN_PROGRESS"] \in Job
          /\ ~[job[k] EXCEPT !.status = "IN_PROGRESS"].deleted
        BY <1>0 DEF Job, Status
    <2> QED
        BY <1>0, <2>1, <2>2, <1>row
<1>4. ASSUME NEW d \in Days, PatchJob(r, d) PROVE k \in LiveJobs'
    <2>1. At(r, "patch") /\ "patch" \in JobHandlers
        BY <1>4 DEF PatchJob, JobHandlers
    <2>2. req[r].row \in Job /\ ~req[r].row.deleted
        BY <2>1 DEF Typed, Held, Kept, StillTrue, At
    <2>3. /\ [req[r].row EXCEPT !.start = d] \in Job
          /\ ~[req[r].row EXCEPT !.start = d].deleted
        BY <2>2 DEF Job
    <2>4. job'[k] = job[k] \/ job'[k] = [req[r].row EXCEPT !.start = d]
        BY <1>0, <1>4 DEF PatchJob
    <2> QED
        BY <1>0, <2>3, <2>4, <1>row
<1>5. ASSUME DestroyJob(r), req[r].on # k PROVE k \in LiveJobs'
    BY <1>0, <1>5, <1>row DEF DestroyJob
<1> QED
    BY <1>1, <1>2, <1>3, <1>4, <1>5 DEF JobStep, ClockOut, AssignUser, UnassignUser

\* Time is first recorded on a visit that is on the board.
LEMMA WorkBegins ==
    ASSUME Typed, Kept, NEW r \in Requests, JobStep(r), NEW k \in Jobs, Worked(k)'
    PROVE  Worked(k) \/ (k \in LiveJobs /\ ~DestroyJob(r))
<1>0. clock \in [Jobs -> [Staff -> {"none", "open", "closed"}]]
    BY DEF Typed, TypeOK
<1>1. CASE clock' = clock
    BY <1>1 DEF Worked
<1>2. CASE ClockIn(r)
    <2>1. At(r, "clock_in") /\ "clock_in" \in JobHandlers
        BY <1>2 DEF ClockIn, JobHandlers, CrewHandlers
    <2>2. req[r].on \in LiveJobs
        BY <2>1 DEF Kept, StillTrue, At
    <2>3. k # req[r].on => clock'[k] = clock[k]
        BY <1>0, <1>2 DEF ClockIn
    <2>4. ~DestroyJob(r)
        BY <2>1 DEF DestroyJob, At
    <2> QED
        BY <2>2, <2>3, <2>4 DEF Worked
<1>3. CASE ClockOut(r)
    <2>1. /\ clock' = [clock EXCEPT ![req[r].on][req[r].who] = "closed"]
          /\ clock[req[r].on][req[r].who] = "open"
        BY <1>3 DEF ClockOut
    <2>2. PICK u \in Staff : clock'[k][u] # "none"
        BY DEF Worked
    <2>3. clock[k][u] # "none"
        BY <1>0, <2>1, <2>2
    <2> QED
        BY <2>3 DEF Worked
<1> QED
    BY <1>1, <1>2, <1>3
    DEF JobStep, SetStatus, AssignUser, UnassignUser, PatchJob, DestroyJob

LEMMA KeptStep ==
    ASSUME OneBesideTheTask, Typed, Kept, [Next]_vars
    PROVE  Kept'
<1>0. /\ job \in [Jobs -> Job \cup {NoJob}]
      /\ clock \in [Jobs -> [Staff -> {"none", "open", "closed"}]]
      /\ req \in [Requests -> Request \cup {Idle}]
      /\ WorkIsKept /\ \A r \in Requests : StillTrue(r)
    BY DEF Typed, TypeOK, Kept
<1>begins. ASSUME NEW r \in Requests \ {Beat}, NEW op, NEW who, NEW k, Loading(r, op, who, k),
                  op \in JobHandlers => k \in LiveJobs /\ k # NoJob /\ ~job[k].deleted,
                  op = "destroy" => ~Worked(k)
           PROVE  Kept'
    <2>1. PICK q : q = [doing |-> op, who |-> who, on |-> k,
                        row |-> IF k = NoJob THEN NoJob ELSE job[k],
                        seen |-> plan, gone |-> {}, missing |-> {}]
        OBVIOUS
    <2>2. req' = [req EXCEPT ![r] = q] /\ UNCHANGED <<job, clock>>
        BY <1>begins, <2>1 DEF Loading
    <2>3. /\ q.doing \in JobHandlers => q.on \in LiveJobs /\ ~q.row.deleted
          /\ q.doing = "destroy" => ~Worked(q.on)
          /\ q.gone = {}
        BY <1>begins, <2>1
    <2> QED
        BY <2>2, <2>3, LoadKeeps
<1>1. ASSUME NEW r \in Requests \ {Beat}, Load(r) PROVE Kept'
    <2>1. ASSUME NEW op \in PlanHandlers, LoadPlan(r, op) PROVE Kept'
        <3>1. op \notin JobHandlers /\ op # "destroy"
            BY DEF PlanHandlers, JobHandlers, CrewHandlers
        <3> QED
            BY <1>begins, <2>1, <3>1 DEF LoadPlan
    <2>2. ASSUME NEW op \in JobHandlers, NEW who \in Staff, NEW k \in Jobs, LoadJob(r, op, who, k)
          PROVE  Kept'
        <3>1. /\ k \in LiveJobs /\ k # NoJob /\ ~job[k].deleted
              /\ op = "destroy" => ~Worked(k)
            BY <2>2, NoJobIsNoRow DEF LoadJob, LiveJobs
        <3> QED
            BY <1>begins, <2>2, <3>1 DEF LoadJob
    <2> QED
        BY <1>1, <2>1, <2>2 DEF Load
<1>2. ASSUME NEW r \in Requests \ {Beat}, PlanStep(r) PROVE Kept'
    <2>0. \A d \in {"saved", "regenerate", "drop", "build"} : d \notin JobHandlers /\ d # "destroy"
        BY DEF JobHandlers, CrewHandlers
    <2>on. ASSUME NEW q \in Request, req' = [req EXCEPT ![r] = q], req[r] # Idle,
                  UNCHANGED <<job, clock>>,
                  q.doing \in {"saved", "regenerate", "drop", "build"},
                  q.gone \subseteq req[r].gone \/ \A k \in q.gone : k \in LiveJobs /\ Untouched(k)
           PROVE  Kept'
        <3>1. \A k \in q.gone : k \in LiveJobs /\ ~Touched(k)
            BY <1>0, <2>on DEF StillTrue, Untouched, Touched
        <3> QED
            BY <2>0, <2>on, <3>1, LoadKeeps
    <2>rec. ASSUME req[r] # Idle PROVE req[r] \in Request
        BY <1>0, <2>rec
    <2>1. ASSUME NEW rule \in Rules, NEW active \in BOOLEAN, SavePlan(r, rule, active) PROVE Kept'
        <3> DEFINE q == [req[r] EXCEPT !.doing = "saved"]
        <3>1. q \in Request /\ q.doing = "saved" /\ q.gone = req[r].gone
            BY <2>1, <2>rec DEF Request, SavePlan, At
        <3>2. req' = [req EXCEPT ![r] = q] /\ req[r] # Idle /\ UNCHANGED <<job, clock>>
            BY <1>0, <2>1 DEF SavePlan, At
        <3> HIDE DEF q
        <3> QED
            BY <2>on, <3>1, <3>2
    <2>2. ASSUME RefreshPlan(r) PROVE Kept'
        <3> DEFINE q == [req[r] EXCEPT !.doing = "regenerate", !.seen = plan]
        <3>1. q \in Request /\ q.doing = "regenerate" /\ q.gone = req[r].gone
            BY <2>2, <2>rec DEF Request, RefreshPlan, At, Typed, TypeOK, PlanHandlers
        <3>2. /\ req[r] # Idle /\ UNCHANGED <<job, clock>>
              /\ req' = [req EXCEPT ![r] = q] \/ Finish(r)
            BY <1>0, <2>2 DEF RefreshPlan, At, Finish
        <3> HIDE DEF q
        <3> QED
            BY <2>on, <3>1, <3>2, EndKeeps
    <2>3. ASSUME FindUntouched(r) PROVE Kept'
        <3>0. PICK gone \in SUBSET Jobs : gone = {k \in LiveJobs : Untouched(k)}
            BY DEF LiveJobs
        <3> DEFINE q == [req[r] EXCEPT !.doing = "drop", !.gone = gone]
        <3>1. q \in Request /\ q.doing = "drop" /\ q.gone = gone
            BY <2>3, <2>rec DEF Request, FindUntouched, At
        <3>2. req' = [req EXCEPT ![r] = q] /\ req[r] # Idle /\ UNCHANGED <<job, clock>>
            BY <1>0, <2>3, <3>0 DEF FindUntouched, At
        <3> HIDE DEF q
        <3> QED
            BY <2>on, <3>0, <3>1, <3>2
    <2>4. ASSUME FindMissing(r) PROVE Kept'
        <3>0. At(r, "drop") \/ At(r, "materialize")
            BY <2>4 DEF FindMissing
        <3>1. PICK dropped \in SUBSET (req[r].gone \cap LiveJobs), missing \in SUBSET Days :
                 req' = [req EXCEPT ![r].doing = "build", ![r].gone = dropped,
                                    ![r].missing = missing]
            <4> DEFINE due == IF req[r].seen.active THEN Window(req[r].seen) ELSE {}
            <4>1. req[r].seen.rule \in SUBSET Days
                BY <2>rec, <3>0, ScheduleAssumption DEF At, Request, Plan
            <4>2. due \in SUBSET Days
                BY <4>1 DEF Window
            <4>3. req' = [req EXCEPT ![r].doing = "build", ![r].gone = req[r].gone \cap LiveJobs,
                                     ![r].missing = due \ Existing(r)]
                BY <2>4 DEF FindMissing
            <4> HIDE DEF due
            <4> QED
                BY <4>2, <4>3
        <3> DEFINE q == [req[r] EXCEPT !.doing = "build", !.gone = dropped, !.missing = missing]
        <3>2. req' = [req EXCEPT ![r] = q] /\ req[r] # Idle /\ UNCHANGED <<job, clock>>
            BY <1>0, <2>4, <3>1 DEF FindMissing, At
        <3>3. q \in Request /\ q.doing = "build" /\ q.gone \subseteq req[r].gone
            BY <2>rec, <3>1, <3>2 DEF Request
        <3> HIDE DEF q
        <3> QED
            BY <2>on, <3>2, <3>3
    <2>5. ASSUME Build(r) PROVE Kept'
        <3>1. \A k \in Jobs : Worked(k)' <=> Worked(k)
            BY <2>5 DEF Build, Worked
        <3>2. \A k \in Jobs : Worked(k) => k \in LiveJobs'
            BY <1>0, <2>5, BuildDeletes DEF WorkIsKept, Touched
        <3> QED
            BY <2>5, <3>1, <3>2, NothingPending DEF Kept, WorkIsKept, Build
    <2> QED
        BY <1>2, <2>1, <2>2, <2>3, <2>4, <2>5, EndKeeps DEF PlanStep, DeletePlan, Refuse
<1>3. ASSUME NEW r \in Requests \ {Beat}, JobStep(r) PROVE Kept'
    <2>1. Finish(r)
        BY <1>3 DEF JobStep, SetStatus, ClockIn, ClockOut, AssignUser, UnassignUser, PatchJob,
                    DestroyJob
    <2>2. ASSUME NEW k \in Jobs, Worked(k)' PROVE k \in LiveJobs'
        <3>1. k \in LiveJobs
            BY <1>0, <1>3, <2>2, WorkBegins DEF WorkIsKept
        <3>2. ~(DestroyJob(r) /\ req[r].on = k)
            <4>1. DestroyJob(r) => ~Worked(req[r].on)
                BY <1>0 DEF DestroyJob, At, StillTrue
            <4> QED
                BY <1>3, <2>2, <4>1, WorkBegins
        <3> QED
            BY <1>3, <3>1, <3>2, JobStepDeletes
    <2> QED
        BY <2>1, <2>2, NothingPending DEF Kept, WorkIsKept
<1>4. ASSUME NEW r \in Requests \ {Beat}, Abandon(r) PROVE Kept'
    BY <1>4, EndKeeps DEF Abandon
<1>5. ASSUME UNCHANGED req, LiveJobs \subseteq LiveJobs',
             \A k \in Jobs : Worked(k)' <=> Worked(k),
             \A k \in LiveJobs : Touched(k)' => Touched(k)
      PROVE  Kept'
    <2>1. TaskOnly'
        BY <1>5 DEF Kept, TaskOnly
    <2> QED
        BY <1>5, <2>1, GrowthKeeps
<1>6. ASSUME NEW k \in Jobs, NEW d \in Days, CreateJob(k, d) PROVE Kept'
    <2>1. UNCHANGED <<req, clock>> /\ \A l \in LiveJobs : job'[l] = job[l]
        BY <1>0, <1>6 DEF CreateJob, LiveJobs
    <2> QED
        BY <1>5, <2>1, BoardGrows
<1>7. ASSUME NEW k \in Jobs, NEW u \in Staff, CorrectTime(k, u) PROVE Kept'
    <2>1. /\ clock[k][u] # "none" /\ UNCHANGED <<job, req>>
          /\ \E time \in {"open", "closed"} : clock' = [clock EXCEPT ![k][u] = time]
        BY <1>0, <1>7 DEF CorrectTime
    <2>2. \A l \in Jobs : Worked(l)' <=> Worked(l)
        BY <1>0, <2>1 DEF Worked
    <2>3. LiveJobs' = LiveJobs /\ LiveJobs \subseteq Jobs
        BY <2>1 DEF LiveJobs
    <2>4. \A l \in LiveJobs : Touched(l)' => Touched(l)
        BY <2>1, <2>2, <2>3 DEF Touched
    <2> QED
        BY <1>5, <2>1, <2>2, <2>3, <2>4
<1>8. CASE UNCHANGED <<job, clock, req>>
    BY <1>5, <1>8, SameBoard
<1>9. ASSUME Beat \in Requests,
             Load(Beat) \/ PlanStep(Beat) \/ JobStep(Beat) \/ Abandon(Beat)
      PROVE  Kept'
    BY <1>9, TaskKeeps
<1> QED
    BY <1>1, <1>2, <1>3, <1>4, <1>6, <1>7, <1>8, <1>9 DEF Next, NewDay, vars

LEMMA AlwaysKept == ASSUME OneBesideTheTask PROVE Spec => [](Typed /\ Kept)
<1>1. Init => Kept
    BY DEF Init, Kept, WorkIsKept, Worked, TaskOnly, StillTrue
<1>2. Typed /\ Kept /\ [Next]_vars => Kept'
    BY KeptStep
<1> QED
    BY <1>1, <1>2, TypedInit, TypedStep, PTL DEF Spec

\* With one request at a time beside the daily task, a visit somebody worked
\* stays on the board: a regeneration and a delete find out about the work
\* before they write.
THEOREM WorkedVisitsStay == ASSUME OneBesideTheTask PROVE Spec => []WorkIsKept
<1>1. Typed /\ Kept => WorkIsKept
    BY DEF Kept
<1> QED
    BY <1>1, AlwaysKept, PTL

\* With one request at a time beside the daily task, only a person deletes a
\* visit that somebody moved, started, worked, cancelled or added by hand.
THEOREM OnlyAPersonDeletes == ASSUME OneBesideTheTask PROVE Spec => TouchedIsKept
<1>1. ASSUME Typed, Kept, [Next]_vars, NEW k \in LiveJobs, job'[k].deleted, Touched(k)
      PROVE  ByHand(k)
    <2>1. k \notin LiveJobs' /\ k \in Jobs /\ job[k] # NoJob /\ ~job[k].deleted
        BY <1>1 DEF LiveJobs
    <2>2. job' # job
        BY <1>1, <2>1
    <2>3. ASSUME NEW r \in Requests, JobStep(r) PROVE ByHand(k)
        <3>1. DestroyJob(r) /\ req[r].on = k
            BY <1>1, <2>1, <2>3, JobStepDeletes
        <3>2. req'[r] = Idle
            BY <1>1, <3>1 DEF DestroyJob, Finish, Typed, TypeOK
        <3> QED
            BY <3>1, <3>2 DEF ByHand, DestroyJob
    <2>4. ASSUME NEW r \in Requests, PlanStep(r) PROVE FALSE
        <3>1. ~Build(r)
            BY <1>1, <2>1, BuildDeletes
        <3>2. job' = job
            BY <2>4, <3>1, Zenon
            DEF PlanStep, SavePlan, RefreshPlan, DeletePlan, FindUntouched, FindMissing, Refuse
        <3> QED
            BY <2>2, <3>2
    <2>5. ASSUME NEW r \in Requests, Load(r) \/ Abandon(r) PROVE FALSE
        BY <2>2, <2>5 DEF Load, LoadPlan, LoadJob, Loading, Abandon
    <2>6. ASSUME NEW l \in Jobs, NEW d \in Days, CreateJob(l, d) PROVE FALSE
        BY <1>1, <2>1, <2>6 DEF CreateJob, Typed, TypeOK
    <2> QED
        BY <1>1, <2>2, <2>3, <2>4, <2>5, <2>6 DEF Next, CorrectTime, NewDay, vars
<1>2. Typed /\ Kept /\ [Next]_vars
        => [\A k \in LiveJobs : job'[k].deleted /\ Touched(k) => ByHand(k)]_vars
    BY <1>1
<1> QED
    BY <1>2, AlwaysKept, PTL DEF Spec, TouchedIsKept
=============================================================================
