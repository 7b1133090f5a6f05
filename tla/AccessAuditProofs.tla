-------------------------- MODULE AccessAuditProofs --------------------------
(***************************************************************************)
(* Theorems about AccessAudit, for any people, visits, reveals and tasks:  *)
(* the trail is final, and its verdicts are those of the day.              *)
(***************************************************************************)
EXTENDS AuditRefinement, TLAPS

\* What a review and a task hold are reveals that were made, and what a reveal is
\* to be bound to is a visit.
HeldAreMade ==
    /\ \A r \in Requests : req[r].kind = "review" =>
          req[r].by \in Reviewers /\ req[r].of \in Reveals /\ Made(req[r].of)
    /\ \A r \in Requests : req[r].kind = "record" => req[r].of \in Jobs \cup {None}
    /\ \A t \in Tasks : \A v \in task[t].todo : Made(v)

Typed == TypeOK /\ HeldAreMade

LEMMA DayIsNat ==
    ASSUME NEW h \in Nat
    PROVE  Day(h) \in Nat
BY AccessAuditAssumption DEF Day

LEMMA DayMonotone ==
    ASSUME NEW h \in Nat, NEW k \in Nat, h <= k
    PROVE  Day(h) <= Day(k)
<1> DEFINE n == HoursPerDay
           p == h \div n
           q == k \div n
<1>1. n \in Nat \ {0}
    BY AccessAuditAssumption
<1>2. /\ p \in Nat /\ q \in Nat
      /\ n * p <= h /\ k < n * q + n
    BY <1>1
<1>3. ASSUME p > q PROVE FALSE
    <2> HIDE DEF n, p, q
    <2>1. PICK d \in Nat : p = q + 1 + d
        <3>1. p - q - 1 \in Nat /\ p = q + 1 + (p - q - 1)
            BY <1>2, <1>3
        <3> QED
            BY <3>1
    <2>2. n * p = n * q + n + n * d
        BY <1>1, <1>2, <2>1
    <2>3. n * d \in Nat /\ n * q \in Nat /\ n * p \in Nat
        BY <1>1, <1>2, <2>1
    <2> QED
        BY <1>1, <1>2, <2>2, <2>3
<1> QED
    BY <1>2, <1>3 DEF Day

LEMMA TodayInDays ==
    ASSUME TypeOK
    PROVE  Today \in Days
<1>1. PICK h \in Nat : h = now /\ h <= LastHour
    BY AccessAuditAssumption DEF TypeOK, Hours
<1>2. Day(h) \in Nat /\ Day(LastHour) \in Nat /\ Day(h) <= Day(LastHour)
    BY <1>1, DayIsNat, DayMonotone, AccessAuditAssumption
<1> QED
    BY <1>1, <1>2 DEF Today, Days

LEMMA MadeIsReveal ==
    ASSUME TypeOK, NEW v \in Reveals, Made(v)
    PROVE  reveal[v] \in Reveal
BY DEF TypeOK, Made, Unmade

LEMMA RestingIsRun == Resting \in Run
<1>1. 0 \in Days
    BY DayIsNat, AccessAuditAssumption DEF Days
<1> QED
    BY <1>1 DEF Run, Resting

LEMMA TypeInit == Init => Typed
<1> SUFFICES ASSUME Init PROVE Typed
    OBVIOUS
<1>1. TypeOK
    BY RestingIsRun, AccessAuditAssumption DEF Init, TypeOK, Hours, Job
<1>2. HeldAreMade
    BY DEF Init, HeldAreMade, Idle, Resting
<1> QED
    BY <1>1, <1>2 DEF Typed

\* A row that was made stays made, and keeps what was recorded at the door.
Kept(v) == /\ reveal'[v] \in Reveal
           /\ reveal'[v].by = reveal[v].by
           /\ reveal'[v].job = reveal[v].job
           /\ reveal'[v].made = reveal[v].made
           /\ reveal[v].reviewed_by # None => reveal'[v].reviewed_by = reveal[v].reviewed_by

LEMMA NewRevealTyped ==
    ASSUME TypeOK, NEW p \in People, NEW j \in Jobs \cup {None}
    PROVE  [by |-> p, job |-> j, made |-> now,
            evaluated_at |-> None, flagged |-> FALSE, reviewed_by |-> None] \in Reveal
BY DEF Reveal, TypeOK

LEMMA VisitFound ==
    ASSUME NEW p, NEW j \in RevealJobs(p)
    PROVE  j \in Jobs \cup {None}
BY DEF RevealJobs, SoleOpenJob, OpenJobs, NearestJobs, OwnJobs

LEMMA TrailStep == Typed /\ [Next]_vars => \A v \in Reveals : Made(v) => Kept(v)
<1> SUFFICES ASSUME Typed, [Next]_vars, NEW v \in Reveals, Made(v) PROVE Kept(v)
    OBVIOUS
<1>0. reveal[v] \in Reveal /\ reveal \in [Reveals -> Reveal \cup {Unmade}]
    BY MadeIsReveal DEF Typed, TypeOK
<1>same. ASSUME UNCHANGED reveal PROVE Kept(v)
    BY <1>0, <1>same DEF Kept
<1>record. ASSUME NEW r \in Requests, NEW u \in Reveals, RecordReveal(r, u) PROVE Kept(v)
    <2>1. u # v
        BY <1>record DEF RecordReveal
    <2>2. reveal'[v] = reveal[v]
        BY <1>0, <1>record, <2>1 DEF RecordReveal
    <2> QED
        BY <1>0, <2>2 DEF Kept
<1>review. ASSUME NEW r \in Requests, MarkReviewed(r) PROVE Kept(v)
    <2>1. CASE ~(req[r].of = v /\ StillOpen(v))
        <3>1. reveal'[v] = reveal[v]
            BY <1>0, <1>review, <2>1 DEF MarkReviewed
        <3> QED
            BY <1>0, <3>1 DEF Kept
    <2>2. CASE req[r].of = v /\ StillOpen(v)
        <3>1. req[r].by \in Reviewers
            BY <1>review DEF MarkReviewed, Typed, HeldAreMade
        <3>2. reveal'[v] = [reveal[v] EXCEPT !.reviewed_by = req[r].by]
            BY <1>0, <1>review, <2>2 DEF MarkReviewed
        <3> QED
            BY <1>0, <2>2, <3>1, <3>2 DEF Kept, Reveal, StillOpen
    <2> QED
        BY <2>1, <2>2
<1>save. ASSUME NEW t \in Tasks, NEW u \in Reveals, SaveVerdict(t, u) PROVE Kept(v)
    <2>1. CASE u # v
        <3>1. reveal'[v] = reveal[v]
            BY <1>0, <1>save, <2>1 DEF SaveVerdict
        <3> QED
            BY <1>0, <3>1 DEF Kept
    <2>2. CASE u = v
        <3>1. task[t].flag[v] \in BOOLEAN /\ task[t].at \in Days
            BY DEF Typed, TypeOK, Run
        <3>2. reveal'[v] = [reveal[v] EXCEPT !.evaluated_at = task[t].at, !.flagged = task[t].flag[v]]
            BY <1>0, <1>save, <2>2 DEF SaveVerdict
        <3> QED
            BY <1>0, <3>1, <3>2 DEF Kept, Reveal
    <2> QED
        BY <2>1, <2>2
<1> QED
    BY <1>same, <1>record, <1>review, <1>save
    DEF Next, RevealStep, ReviewStep, TaskStep, vars, MayReveal, FindVisit, LoadReview, StartPass, Rerun, Start,
        TaskDies, EditJob, NextHour, Switch

LEMMA StartTyped ==
    ASSUME Typed, NEW t \in Tasks, NEW todo \in SUBSET Reveals, \A v \in todo : Made(v), Start(t, todo)
    PROVE  Typed'
<1>1. [flag |-> [v \in Reveals |-> Made(v) /\ Judge(v)], todo |-> todo, at |-> Today] \in Run
    BY TodayInDays DEF Typed, Run, Judge, OutsideJobWindow, OutsideBusinessHours
<1>2. task' \in [Tasks -> Run] /\ task'[t].todo = todo /\ \A s \in Tasks : s # t => task'[s] = task[s]
    BY <1>1 DEF Start, Typed, TypeOK
<1> QED
    BY <1>2 DEF Start, Typed, TypeOK, HeldAreMade, Made

LEMMA TypeStep == Typed /\ [Next]_vars => Typed'
<1> SUFFICES ASSUME Typed, [Next]_vars PROVE Typed'
    OBVIOUS
<1> USE DEF Typed
<1>0. TypeOK /\ HeldAreMade
    OBVIOUS
<1>kept. \A v \in Reveals : Made(v) => Made(v)'
    BY TrailStep DEF Kept, Made
<1>ask. ASSUME NEW r \in Requests, NEW p \in People, MayReveal(r, p) PROVE Typed'
    <2>1. req' \in [Requests -> Request \cup {Idle}] /\ req'[r].kind = "reveal"
          /\ \A q \in Requests : q # r => req'[q] = req[q]
        BY <1>0, <1>ask DEF MayReveal, TypeOK, Request
    <2> QED
        BY <1>0, <1>ask, <2>1 DEF MayReveal, TypeOK, HeldAreMade, Made
<1>find. ASSUME NEW r \in Requests, FindVisit(r) PROVE Typed'
    <2>1. req[r].by \in People
        BY <1>0, <1>find DEF FindVisit, TypeOK, Request, Idle
    <2>2. PICK j \in Jobs \cup {None} :
             req' = [req EXCEPT ![r] = [kind |-> "record", by |-> req[r].by, of |-> j]]
        BY <1>find, VisitFound DEF FindVisit
    <2>3. req' \in [Requests -> Request \cup {Idle}]
          /\ req'[r] = [kind |-> "record", by |-> req[r].by, of |-> j]
          /\ \A q \in Requests : q # r => req'[q] = req[q]
        BY <1>0, <2>1, <2>2 DEF TypeOK, Request
    <2> QED
        BY <1>0, <1>find, <2>3 DEF FindVisit, TypeOK, HeldAreMade, Made
<1>record. ASSUME NEW r \in Requests, NEW v \in Reveals, RecordReveal(r, v) PROVE Typed'
    <2>1. req[r].by \in People /\ req[r].of \in Jobs \cup {None}
        BY <1>0, <1>record DEF RecordReveal, TypeOK, HeldAreMade, Request, Idle
    <2>2. reveal' = [reveal EXCEPT ![v] =
                 [by |-> req[r].by, job |-> req[r].of, made |-> now,
                  evaluated_at |-> None, flagged |-> FALSE, reviewed_by |-> None]]
        BY <1>record DEF RecordReveal
    <2>3. reveal' \in [Reveals -> Reveal \cup {Unmade}]
        BY <1>0, <2>1, <2>2, NewRevealTyped DEF TypeOK
    <2>4. req' \in [Requests -> Request \cup {Idle}] /\ req'[r] = Idle
          /\ \A q \in Requests : q # r => req'[q] = req[q]
        BY <1>0, <1>record DEF RecordReveal, TypeOK
    <2>5. HeldAreMade'
        BY <1>0, <1>kept, <1>record, <2>4 DEF RecordReveal, HeldAreMade, Idle, TypeOK, Run
    <2> QED
        BY <1>0, <1>record, <2>3, <2>4, <2>5 DEF RecordReveal, TypeOK
<1>load. ASSUME NEW r \in Requests, NEW p \in Reviewers, NEW v \in Reveals, LoadReview(r, p, v)
         PROVE  Typed'
    <2>1. [kind |-> "review", by |-> p, of |-> v] \in Request
        BY AccessAuditAssumption DEF Request, People
    <2>2. req' \in [Requests -> Request \cup {Idle}]
          /\ req'[r] = [kind |-> "review", by |-> p, of |-> v]
          /\ \A q \in Requests : q # r => req'[q] = req[q]
        BY <1>0, <1>load, <2>1 DEF LoadReview, TypeOK
    <2> QED
        BY <1>0, <1>load, <2>2 DEF LoadReview, MayReview, TypeOK, HeldAreMade, Made
<1>review. ASSUME NEW r \in Requests, MarkReviewed(r) PROVE Typed'
    <2>1. req[r].of \in Reveals /\ Made(req[r].of)
        BY <1>0, <1>review DEF MarkReviewed, HeldAreMade
    <2>2. reveal' \in [Reveals -> Reveal \cup {Unmade}]
        <3>1. reveal'[req[r].of] \in Reveal
            BY <2>1, TrailStep DEF Kept
        <3>2. reveal' = reveal \/ reveal' = [reveal EXCEPT ![req[r].of] = reveal'[req[r].of]]
            BY <1>0, <1>review, <2>1 DEF MarkReviewed, TypeOK
        <3> QED
            BY <1>0, <3>1, <3>2 DEF TypeOK
    <2>3. req' \in [Requests -> Request \cup {Idle}] /\ req'[r] = Idle
          /\ \A q \in Requests : q # r => req'[q] = req[q]
        BY <1>0, <1>review DEF MarkReviewed, TypeOK
    <2>4. HeldAreMade'
        BY <1>0, <1>kept, <1>review, <2>3 DEF MarkReviewed, HeldAreMade, Idle, TypeOK, Run
    <2> QED
        BY <1>0, <1>review, <2>2, <2>3, <2>4 DEF MarkReviewed, TypeOK
<1>start. ASSUME NEW t \in Tasks, StartPass(t) \/ \E d \in 0 .. Today : Rerun(t, d) PROVE Typed'
    BY <1>start, StartTyped DEF StartPass, Rerun, Pending
<1>save. ASSUME NEW t \in Tasks, NEW v \in Reveals, SaveVerdict(t, v) PROVE Typed'
    <2>1. Made(v)
        BY <1>0, <1>save DEF SaveVerdict, HeldAreMade
    <2>2. reveal' \in [Reveals -> Reveal \cup {Unmade}]
        <3>1. reveal'[v] \in Reveal
            BY <2>1, TrailStep DEF Kept
        <3>2. reveal' = [reveal EXCEPT ![v] = reveal'[v]]
            BY <1>0, <1>save DEF SaveVerdict, TypeOK
        <3> QED
            BY <1>0, <3>1, <3>2 DEF TypeOK
    <2>3. task[t] \in Run /\ Resting \in Run
        BY <1>0, RestingIsRun DEF TypeOK
    <2>4. PICK rest : rest = IF task[t].todo \ {v} = {} THEN Resting
                              ELSE [task[t] EXCEPT !.todo = task[t].todo \ {v}]
        OBVIOUS
    <2>5. task' = [task EXCEPT ![t] = rest]
        BY <1>save, <2>4 DEF SaveVerdict
    <2>6. rest \in Run /\ rest.todo \subseteq task[t].todo
        BY <2>3, <2>4 DEF Run, Resting
    <2>7. task' \in [Tasks -> Run] /\ \A s \in Tasks : task'[s].todo \subseteq task[s].todo
        BY <1>0, <2>5, <2>6 DEF TypeOK
    <2>8. HeldAreMade'
        BY <1>0, <1>kept, <1>save, <2>7 DEF SaveVerdict, HeldAreMade, TypeOK, Run
    <2> QED
        BY <1>0, <1>save, <2>2, <2>7, <2>8 DEF SaveVerdict, TypeOK
<1>dies. ASSUME NEW t \in Tasks, TaskDies(t) PROVE Typed'
    <2>1. Resting \in Run /\ Resting.todo = {}
        BY RestingIsRun DEF Resting
    <2>2. task' \in [Tasks -> Run] /\ task'[t] = Resting /\ \A s \in Tasks : s # t => task'[s] = task[s]
        BY <1>0, <1>dies, <2>1 DEF TaskDies, TypeOK
    <2> QED
        BY <1>0, <1>dies, <2>1, <2>2 DEF TaskDies, TypeOK, HeldAreMade, Made
<1>edit. ASSUME NEW j \in Jobs, NEW row \in Job, EditJob(j, row) PROVE Typed'
    BY <1>0, <1>edit DEF EditJob, TypeOK, HeldAreMade, Made
<1>hour. ASSUME NextHour PROVE Typed'
    BY <1>0, <1>hour, AccessAuditAssumption DEF NextHour, TypeOK, Hours, HeldAreMade, Made
<1>switch. ASSUME Switch PROVE Typed'
    BY <1>0, <1>switch DEF Switch, TypeOK, HeldAreMade, Made
<1>stutter. ASSUME UNCHANGED vars PROVE Typed'
    BY <1>0, <1>stutter DEF vars, TypeOK, HeldAreMade, Made
<1> QED
    BY <1>ask, <1>find, <1>record, <1>load, <1>review, <1>start, <1>save, <1>dies, <1>edit, <1>hour, <1>switch,
       <1>stutter
    DEF Next, RevealStep, ReviewStep, TaskStep

\* Every row, request and task holds what it can hold.
THEOREM AccessTypeCorrect == Spec => []TypeOK
<1>1. Typed => TypeOK
    BY DEF Typed
<1> QED
    BY TypeInit, TypeStep, <1>1, PTL DEF Spec

\* A review is final, and what was recorded at the door is never rewritten.
THEOREM TrailIsFinal == Spec => TrailStands
<1>1. Typed /\ [Next]_vars =>
         [\A v \in Reveals :
             Made(v) => /\ reveal'[v].by = reveal[v].by
                        /\ reveal'[v].job = reveal[v].job
                        /\ reveal'[v].made = reveal[v].made
                        /\ reveal[v].reviewed_by # None
                             => reveal'[v].reviewed_by = reveal[v].reviewed_by]_reveal
    BY TrailStep DEF Kept
<1> QED
    BY TypeInit, TypeStep, <1>1, PTL DEF Spec, TrailStands

-----------------------------------------------------------------------------
(* The verdict of the day.  What has been judged, and what a task is about *)
(* to save, is of a day that is over; and nothing that a verdict rests on  *)
(* changes once the day is over, if the schedule of a closed day does not. *)

RowsStand ==
    \A v \in Reveals : Judged(v) /\ Day(reveal[v].made) \notin LateDays =>
        /\ Day(reveal[v].made) \in EarlyDays \/ reveal[v].evaluated_at > Day(reveal[v].made)
        /\ reveal[v].evaluated_at > Day(reveal[v].made) => Over(v) /\ reveal[v].flagged = Judge(v)

TasksStand ==
    \A t \in Tasks : \A v \in task[t].todo : Day(reveal[v].made) \notin LateDays =>
        /\ Day(reveal[v].made) \in EarlyDays \/ task[t].at > Day(reveal[v].made)
        /\ task[t].at > Day(reveal[v].made) => Over(v) /\ task[t].flag[v] = Judge(v)

VerdictsStand == RowsStand /\ TasksStand

\* A reveal of a day that is over is judged tomorrow as it is today.
LEMMA JudgedAlike ==
    ASSUME Typed, [Next]_vars, NEW v \in Reveals, Made(v), Over(v), Day(reveal[v].made) \notin LateDays
    PROVE  Over(v)' /\ Judge(v)' = Judge(v)
<1>0. /\ reveal[v] \in Reveal /\ reveal'[v].made = reveal[v].made /\ reveal'[v].job = reveal[v].job
    BY MadeIsReveal, TrailStep DEF Typed, Kept
<1>1. PICK h \in Nat : h = now
    BY AccessAuditAssumption DEF Typed, TypeOK, Hours
<1>step. now' = now \/ now' = now + 1
    BY DEF Next, RevealStep, ReviewStep, TaskStep, vars, MayReveal, FindVisit, RecordReveal, LoadReview,
           MarkReviewed, StartPass, Rerun, Start, SaveVerdict, TaskDies, EditJob, NextHour, Switch
<1>then. PICK k \in Nat : k = now' /\ h <= k
    BY <1>1, <1>step
<1>2. Day(now) <= Day(now')
    <2>1. Day(h) <= Day(k)
        BY <1>then, DayMonotone
    <2> QED
        BY <1>1, <1>then, <2>1
<1>3. Day(now) \in Nat /\ Day(now') \in Nat /\ Day(reveal[v].made) \in Nat
    <2>1. PICK m \in Nat : m = reveal[v].made
        BY <1>0, AccessAuditAssumption DEF Reveal, Hours
    <2>2. Day(h) \in Nat /\ Day(k) \in Nat /\ Day(m) \in Nat
        BY DayIsNat
    <2> QED
        BY <1>1, <1>then, <2>1, <2>2
<1>4. Over(v)'
    BY <1>0, <1>2, <1>3 DEF Over, Today
<1>5. reveal[v].job # None => job'[reveal[v].job].start = job[reveal[v].job].start
    <2>1. CASE UNCHANGED job
        BY <2>1
    <2>2. ASSUME NEW j \in Jobs, NEW row \in Job, EditJob(j, row), reveal[v].job # None
          PROVE  job'[reveal[v].job].start = job[reveal[v].job].start
        <3>1. reveal[v].job \in Jobs
            BY <1>0, <2>2 DEF Reveal
        <3>2. CASE j # reveal[v].job
            BY <2>2, <3>1, <3>2 DEF EditJob, Typed, TypeOK
        <3>3. CASE j = reveal[v].job
            <4>1. Day(reveal[v].made) \in Closed(j)
                BY <3>3 DEF Closed
            <4> QED
                BY <2>2, <3>1, <3>3, <4>1 DEF EditJob, Typed, TypeOK
        <3> QED
            BY <3>2, <3>3
    <2> QED
        BY <2>1, <2>2
        DEF Next, RevealStep, ReviewStep, TaskStep, vars, MayReveal, FindVisit, RecordReveal, LoadReview,
            MarkReviewed, StartPass, Rerun, Start, SaveVerdict, TaskDies, NextHour, Switch
<1> QED
    BY <1>0, <1>4, <1>5 DEF Judge

LEMMA VerdictStep == Typed /\ VerdictsStand /\ [Next]_vars => VerdictsStand'
<1> SUFFICES ASSUME Typed, VerdictsStand, [Next]_vars PROVE VerdictsStand'
    OBVIOUS
<1>0. TypeOK /\ HeldAreMade /\ RowsStand /\ TasksStand /\ \A t \in Tasks : task[t] \in Run
    BY DEF Typed, TypeOK, VerdictsStand
<1>alike. \A v \in Reveals : Made(v) => reveal'[v].made = reveal[v].made
    BY TrailStep DEF Kept
<1>stays. \A v \in Reveals : Made(v) /\ Over(v) /\ Day(reveal[v].made) \notin LateDays
                                => Over(v)' /\ Judge(v)' = Judge(v)
    BY JudgedAlike
<1>todo. \A t \in Tasks : \A v \in task[t].todo : v \in Reveals /\ Made(v)
    BY <1>0 DEF HeldAreMade, Run
\* A task that goes on, or rests, still saves what it had to.
<1>goeson. ASSUME \A t \in Tasks : task'[t].todo \subseteq task[t].todo
                      /\ (task'[t].todo # {} => task'[t].flag = task[t].flag /\ task'[t].at = task[t].at)
           PROVE  TasksStand'
    <2> SUFFICES ASSUME NEW t \in Tasks, NEW v \in task'[t].todo, Day(reveal'[v].made) \notin LateDays
                 PROVE  /\ Day(reveal'[v].made) \in EarlyDays \/ task'[t].at > Day(reveal'[v].made)
                        /\ task'[t].at > Day(reveal'[v].made) => Over(v)' /\ task'[t].flag[v] = Judge(v)'
        BY DEF TasksStand
    <2>1. /\ v \in task[t].todo /\ v \in Reveals /\ Made(v)
          /\ task'[t].flag = task[t].flag /\ task'[t].at = task[t].at
        BY <1>goeson, <1>todo
    <2>2. reveal'[v].made = reveal[v].made
        BY <1>alike, <2>1
    <2> QED
        BY <1>0, <1>stays, <2>1, <2>2 DEF TasksStand
<1>kept. ASSUME \A v \in Reveals : Judged(v)' => /\ Judged(v)
                                                 /\ reveal'[v].evaluated_at = reveal[v].evaluated_at
                                                 /\ reveal'[v].flagged = reveal[v].flagged
         PROVE  RowsStand'
    <2> SUFFICES ASSUME NEW v \in Reveals, Judged(v)', Day(reveal'[v].made) \notin LateDays
                 PROVE  /\ Day(reveal'[v].made) \in EarlyDays
                           \/ reveal'[v].evaluated_at > Day(reveal'[v].made)
                        /\ reveal'[v].evaluated_at > Day(reveal'[v].made)
                             => Over(v)' /\ reveal'[v].flagged = Judge(v)'
        BY DEF RowsStand
    <2>1. Judged(v) /\ Made(v) /\ reveal'[v].made = reveal[v].made
        BY <1>alike, <1>kept DEF Judged
    <2> QED
        BY <1>0, <1>stays, <1>kept, <2>1 DEF RowsStand
<1>same. ASSUME UNCHANGED <<reveal, task>> PROVE VerdictsStand'
    BY <1>same, <1>kept, <1>goeson DEF VerdictsStand, Judged, Made
<1>record. ASSUME NEW r \in Requests, NEW u \in Reveals, RecordReveal(r, u) PROVE VerdictsStand'
    <2>1. reveal'[u].evaluated_at = None
        BY <1>0, <1>record DEF RecordReveal, TypeOK
    <2>2. \A v \in Reveals : v # u => reveal'[v] = reveal[v]
        BY <1>0, <1>record DEF RecordReveal, TypeOK
    <2>3. task' = task
        BY <1>record DEF RecordReveal
    <2> QED
        BY <1>kept, <1>goeson, <2>1, <2>2, <2>3 DEF VerdictsStand, Judged, Made
<1>review. ASSUME NEW r \in Requests, MarkReviewed(r) PROVE VerdictsStand'
    <2>1. task' = task
        BY <1>review DEF MarkReviewed
    <2>2. \A v \in Reveals : Made(v) => reveal'[v].evaluated_at = reveal[v].evaluated_at
                                        /\ reveal'[v].flagged = reveal[v].flagged
        <3> SUFFICES ASSUME NEW v \in Reveals, Made(v)
                     PROVE  reveal'[v].evaluated_at = reveal[v].evaluated_at
                            /\ reveal'[v].flagged = reveal[v].flagged
            OBVIOUS
        <3>1. reveal[v] \in Reveal
            BY <1>0, MadeIsReveal
        <3>2. reveal'[v] = reveal[v] \/ reveal'[v] = [reveal[v] EXCEPT !.reviewed_by = req[r].by]
            BY <1>0, <1>review DEF MarkReviewed, TypeOK
        <3> QED
            BY <3>1, <3>2 DEF Reveal
    <2>3. \A v \in Reveals : Made(v)' => Made(v)
        <3> SUFFICES ASSUME NEW v \in Reveals, ~Made(v) PROVE ~Made(v)'
            OBVIOUS
        <3>1. req[r].of # v
            BY <1>0, <1>review DEF MarkReviewed, HeldAreMade
        <3>2. reveal'[v] = reveal[v]
            BY <1>0, <1>review, <3>1 DEF MarkReviewed, TypeOK
        <3> QED
            BY <3>2 DEF Made
    <2> QED
        BY <1>kept, <1>goeson, <2>1, <2>2, <2>3 DEF VerdictsStand, Judged
\* A task is dated after the day of a reveal only if that day is over, and else an
\* admin asked for it early.
<1>start. ASSUME NEW t \in Tasks, NEW todo \in SUBSET Reveals, Start(t, todo),
                 \A v \in todo : Made(v) /\ (Over(v) \/ Day(reveal[v].made) \in EarlyDays)
          PROVE  VerdictsStand'
    <2>1. UNCHANGED <<now, job, reveal>>
        BY <1>start DEF Start
    <2>2. task'[t] = [flag |-> [v \in Reveals |-> Made(v) /\ Judge(v)], todo |-> todo, at |-> Today]
          /\ \A s \in Tasks : s # t => task'[s] = task[s]
        BY <1>0, <1>start DEF Start, TypeOK
    <2>3. \A v \in Reveals : Judge(v)' = Judge(v) /\ Over(v)' = Over(v)
        BY <2>1 DEF Judge, Over, Today
    <2>4. \A v \in todo : task'[t].flag[v] = Judge(v)
        BY <1>start, <2>2 DEF Judge, OutsideJobWindow, OutsideBusinessHours
    <2>5. \A v \in todo : Over(v) <=> Today > Day(reveal[v].made)
        <3> SUFFICES ASSUME NEW v \in todo PROVE Over(v) <=> Today > Day(reveal[v].made)
            OBVIOUS
        <3>1. Today \in Nat /\ Day(reveal[v].made) \in Nat
            <4>1. reveal[v] \in Reveal
                BY <1>0, <1>start, MadeIsReveal
            <4>2. PICK h \in Nat, k \in Nat : h = reveal[v].made /\ k = now
                BY <1>0, <4>1, AccessAuditAssumption DEF Reveal, Hours, TypeOK
            <4>3. Day(h) \in Nat /\ Day(k) \in Nat
                BY DayIsNat
            <4> QED
                BY <4>2, <4>3 DEF Today
        <3> QED
            BY <3>1 DEF Over
    <2>6. TasksStand'
        <3> SUFFICES ASSUME NEW s \in Tasks, NEW v \in task'[s].todo, Day(reveal[v].made) \notin LateDays
                     PROVE  /\ Day(reveal[v].made) \in EarlyDays \/ task'[s].at > Day(reveal[v].made)
                            /\ task'[s].at > Day(reveal[v].made)
                                 => Over(v)' /\ task'[s].flag[v] = Judge(v)'
            BY <2>1 DEF TasksStand
        <3>1. CASE s = t
            BY <1>start, <2>2, <2>3, <2>4, <2>5, <3>1
        <3>2. CASE s # t
            BY <1>0, <1>todo, <2>2, <2>3, <3>2 DEF TasksStand
        <3> QED
            BY <3>1, <3>2
    <2> QED
        BY <1>kept, <2>1, <2>6 DEF VerdictsStand, Judged, Made
<1>starts. ASSUME NEW t \in Tasks, StartPass(t) \/ \E d \in 0 .. Today : Rerun(t, d) PROVE VerdictsStand'
    <2>1. CASE StartPass(t)
        BY <1>start, <2>1 DEF StartPass, Pending
    <2>2. CASE \E d \in 0 .. Today : Rerun(t, d)
        <3>1. PICK d \in 0 .. Today : Rerun(t, d)
            BY <2>2
        <3>2. Today \in Nat
            <4>1. PICK k \in Nat : k = now
                BY <1>0, AccessAuditAssumption DEF Hours, TypeOK
            <4> QED
                BY <4>1, DayIsNat DEF Today
        <3>3. d \in EarlyDays \/ d < Today
            BY <3>1, <3>2 DEF Rerun
        <3> QED
            BY <1>start, <3>1, <3>3 DEF Rerun, Over
    <2> QED
        BY <1>starts, <2>1, <2>2
<1>save. ASSUME NEW t \in Tasks, NEW u \in Reveals, SaveVerdict(t, u) PROVE VerdictsStand'
    <2>1. u \in task[t].todo /\ Made(u) /\ reveal[u] \in Reveal /\ task[t].at \in Days
        BY <1>0, <1>save, <1>todo, MadeIsReveal DEF SaveVerdict, Run
    <2>2. reveal'[u] = [reveal[u] EXCEPT !.evaluated_at = task[t].at, !.flagged = task[t].flag[u]]
          /\ \A v \in Reveals : v # u => reveal'[v] = reveal[v]
        BY <1>0, <1>save DEF SaveVerdict, TypeOK
    <2>3. reveal'[u].evaluated_at = task[t].at /\ reveal'[u].flagged = task[t].flag[u]
          /\ reveal'[u].made = reveal[u].made
        BY <2>1, <2>2 DEF Reveal
    <2>4. RowsStand'
        <3> SUFFICES ASSUME NEW v \in Reveals, Judged(v)', Day(reveal'[v].made) \notin LateDays
                     PROVE  /\ Day(reveal'[v].made) \in EarlyDays
                               \/ reveal'[v].evaluated_at > Day(reveal'[v].made)
                            /\ reveal'[v].evaluated_at > Day(reveal'[v].made)
                                 => Over(v)' /\ reveal'[v].flagged = Judge(v)'
            BY DEF RowsStand
        <3>1. CASE v = u
            BY <1>0, <1>stays, <2>1, <2>3, <3>1 DEF TasksStand
        <3>2. CASE v # u
            <4>1. reveal'[v] = reveal[v] /\ Judged(v) /\ Made(v)
                BY <2>2, <3>2 DEF Judged, Made
            <4> QED
                BY <1>0, <1>stays, <4>1 DEF RowsStand
        <3> QED
            BY <3>1, <3>2
    <2>5. PICK rest : rest = IF task[t].todo \ {u} = {} THEN Resting
                              ELSE [task[t] EXCEPT !.todo = task[t].todo \ {u}]
        OBVIOUS
    <2>6. task' = [task EXCEPT ![t] = rest]
        BY <1>save, <2>5 DEF SaveVerdict
    <2>7. rest.todo \subseteq task[t].todo
          /\ (rest.todo # {} => rest.flag = task[t].flag /\ rest.at = task[t].at)
        BY <1>0, <2>5 DEF Run, Resting
    <2>8. \A s \in Tasks : task'[s].todo \subseteq task[s].todo
              /\ (task'[s].todo # {} => task'[s].flag = task[s].flag /\ task'[s].at = task[s].at)
        BY <1>0, <2>6, <2>7 DEF TypeOK
    <2> QED
        BY <1>goeson, <2>4, <2>8 DEF VerdictsStand
<1>dies. ASSUME NEW t \in Tasks, TaskDies(t) PROVE VerdictsStand'
    <2>1. task'[t] = Resting /\ (\A s \in Tasks : s # t => task'[s] = task[s]) /\ reveal' = reveal
        BY <1>0, <1>dies DEF TaskDies, TypeOK
    <2> QED
        BY <1>kept, <1>goeson, <2>1 DEF VerdictsStand, Resting, Judged, Made
<1> QED
    BY <1>same, <1>record, <1>review, <1>starts, <1>save, <1>dies
    DEF Next, RevealStep, ReviewStep, TaskStep, vars, MayReveal, FindVisit, LoadReview, EditJob, NextHour, Switch

\* A verdict dated after the day of the reveal is that of the schedule as it finally
\* stood, unless the schedule of that day is edited once it is over; and every
\* verdict is dated so, unless an admin had the day judged early.
THEOREM VerdictsAreOfTheDay == Spec => []VerdictOfTheDay
<1>1. Init => VerdictsStand
    BY DEF Init, VerdictsStand, RowsStand, TasksStand, Judged, Made, Unmade, Resting
<1>2. Typed /\ VerdictsStand /\ [Next]_vars => (Typed /\ VerdictsStand)'
    BY TypeStep, VerdictStep
<1>3. VerdictsStand => VerdictOfTheDay
    BY DEF VerdictsStand, RowsStand, VerdictOfTheDay, JudgedOnceOver, Judged, Made
<1> QED
    BY TypeInit, <1>1, <1>2, <1>3, PTL DEF Spec

-----------------------------------------------------------------------------
(* The trail.  Whoever is about to close a reveal may: who looked does not  *)
(* change after the question was asked.                                     *)

ReviewsAllowed == \A r \in Requests : req[r].kind = "review" => MayReview(req[r].by, req[r].of)

LEMMA AllowedStep == Typed /\ ReviewsAllowed /\ [Next]_vars => ReviewsAllowed'
<1> SUFFICES ASSUME Typed, ReviewsAllowed, [Next]_vars PROVE ReviewsAllowed'
    OBVIOUS
<1>0. req \in [Requests -> Request \cup {Idle}] /\ HeldAreMade
    BY DEF Typed, TypeOK
<1>kept. \A v \in Reveals : Made(v) => Made(v)' /\ reveal'[v].by = reveal[v].by
    BY TrailStep DEF Kept, Made
<1>may. \A p : \A v \in Reveals : MayReview(p, v) => MayReview(p, v)'
    BY <1>kept DEF MayReview
<1>same. ASSUME \A r \in Requests : req'[r].kind = "review" => req'[r] = req[r] PROVE ReviewsAllowed'
    <2>1. ASSUME NEW r \in Requests, req'[r].kind = "review"
          PROVE  reveal'[req[r].of].by # None /\ (reveal'[req[r].of].by = req[r].by => req[r].by \in Owners)
        <3>1. PICK p, v : p = req[r].by /\ v = req[r].of
            OBVIOUS
        <3>2. v \in Reveals /\ MayReview(p, v)
            BY <1>0, <1>same, <2>1, <3>1 DEF ReviewsAllowed, HeldAreMade
        <3>3. MayReview(p, v)'
            BY <1>may, <3>2
        <3> QED
            BY <3>1, <3>3 DEF MayReview, Made
    <2>2. \A r \in Requests : req'[r].kind = "review" => req'[r].by = req[r].by /\ req'[r].of = req[r].of
        BY <1>same
    <2> QED
        BY <2>1, <2>2 DEF ReviewsAllowed, MayReview, Made
<1>ask. ASSUME NEW r \in Requests, NEW p \in People, MayReveal(r, p) PROVE ReviewsAllowed'
    BY <1>0, <1>ask, <1>same DEF MayReveal
<1>find. ASSUME NEW r \in Requests, FindVisit(r) PROVE ReviewsAllowed'
    BY <1>0, <1>find, <1>same DEF FindVisit
<1>load. ASSUME NEW r \in Requests, NEW p \in Reviewers, NEW v \in Reveals, LoadReview(r, p, v)
         PROVE  ReviewsAllowed'
    <2>1. req'[r] = [kind |-> "review", by |-> p, of |-> v]
          /\ \A q \in Requests : q # r => req'[q] = req[q]
        BY <1>0, <1>load DEF LoadReview
    <2>2. MayReview(p, v) /\ reveal' = reveal
        BY <1>load DEF LoadReview
    <2> QED
        BY <2>1, <2>2 DEF ReviewsAllowed, MayReview, Made
<1>ends. ASSUME NEW r \in Requests, req' = [req EXCEPT ![r] = Idle] PROVE ReviewsAllowed'
    BY <1>0, <1>ends, <1>same DEF Idle
<1>other. ASSUME req' = req PROVE ReviewsAllowed'
    BY <1>other, <1>same
<1> QED
    BY <1>ask, <1>find, <1>load, <1>ends, <1>other
    DEF Next, RevealStep, ReviewStep, TaskStep, vars, RecordReveal, MarkReviewed, StartPass, Rerun, Start,
        SaveVerdict, TaskDies, EditJob, NextHour, Switch

\* What the trail shows of the rows when one of them is written.
LEMMA OneRow ==
    ASSUME Typed, NEW v \in Reveals, NEW row, reveal' = [reveal EXCEPT ![v] = row]
    PROVE  /\ reveal'[v] = row
           /\ \A u \in Reveals : u # v => /\ reveal'[u] = reveal[u]
                                          /\ Entries'[u] = Entries[u]
                                          /\ Verdicts'[u] = Verdicts[u]
                                          /\ ClosedBy'[u] = ClosedBy[u]
<1>1. reveal'[v] = row /\ \A u \in Reveals : u # v => reveal'[u] = reveal[u]
    BY DEF Typed, TypeOK
<1> QED
    BY <1>1 DEF Entries, Verdicts, ClosedBy, Judged, Made

LEMMA RecordMove ==
    ASSUME Typed, NEW r \in Requests, NEW v \in Reveals, RecordReveal(r, v)
    PROVE  Trail!TrailNext
<1>1. req[r].by \in People /\ req[r].by # None /\ req[r].of \in Jobs \cup {None}
    BY AccessAuditAssumption DEF RecordReveal, Typed, TypeOK, HeldAreMade, Request, Idle, People
<1>2. PICK p \in People, j \in Jobs \cup {None} : p = req[r].by /\ p # None /\ j = req[r].of
    BY <1>1
<1>3. reveal' = [reveal EXCEPT ![v] = [by |-> p, job |-> j, made |-> now,
                                       evaluated_at |-> None, flagged |-> FALSE, reviewed_by |-> None]]
    BY <1>2 DEF RecordReveal
<1>4. now \in Hours
    BY DEF Typed, TypeOK
<1>5. PICK row : row = [by |-> p, job |-> j, made |-> now,
                        evaluated_at |-> None, flagged |-> FALSE, reviewed_by |-> None]
    OBVIOUS
<1>6. /\ row.by = p /\ row.job = j /\ row.made = now
      /\ row.evaluated_at = None /\ row.reviewed_by = None
    BY <1>5
<1>7. reveal'[v] = row /\ ~Made(v)
    BY <1>3, <1>5, OneRow DEF RecordReveal
<1>8. Entries' = [Entries EXCEPT ![v] = [by |-> p, job |-> j, made |-> now]]
    <2>1. Entries'[v] = [by |-> p, job |-> j, made |-> now]
        BY <1>2, <1>6, <1>7 DEF Entries, Made
    <2>2. \A u \in Reveals : u # v => Entries'[u] = Entries[u]
        BY <1>3, OneRow
    <2> QED
        BY <2>1, <2>2 DEF Entries
<1>9. Entries[v] = Trail!Blank
    BY <1>7 DEF Entries, Trail!Blank
<1>10. Verdicts' = Verdicts
    <2>1. Verdicts'[v] = Verdicts[v]
        BY <1>6, <1>7 DEF Verdicts, Judged
    <2>2. \A u \in Reveals : u # v => Verdicts'[u] = Verdicts[u]
        BY <1>3, OneRow
    <2> QED
        BY <2>1, <2>2 DEF Verdicts
<1>11. ClosedBy' = ClosedBy
    <2>1. ClosedBy'[v] = ClosedBy[v]
        BY <1>6, <1>7 DEF ClosedBy
    <2>2. \A u \in Reveals : u # v => ClosedBy'[u] = ClosedBy[u]
        BY <1>3, OneRow
    <2> QED
        BY <2>1, <2>2 DEF ClosedBy
<1>12. Trail!Record(v)
    BY <1>4, <1>8, <1>9, <1>10, <1>11 DEF Trail!Record
<1> QED
    BY <1>12 DEF Trail!TrailNext

LEMMA CloseMove ==
    ASSUME Typed, ReviewsAllowed, NEW r \in Requests, MarkReviewed(r)
    PROVE  Trail!TrailNext \/ UNCHANGED Trail!trailVars
<1>1. PICK v \in Reveals : v = req[r].of /\ Made(v) /\ req[r].by \in Reviewers
    BY DEF MarkReviewed, Typed, HeldAreMade
<1>2. PICK p \in Reviewers : p = req[r].by /\ MayReview(p, v)
    BY <1>1 DEF MarkReviewed, ReviewsAllowed
<1>3. CASE ~StillOpen(v)
    <2>1. reveal' = reveal
        BY <1>1, <1>3 DEF MarkReviewed
    <2> QED
        BY <2>1 DEF Trail!trailVars, Entries, Verdicts, ClosedBy, Judged, Made
<1>4. CASE StillOpen(v)
    <2>1. PICK row : row = [reveal[v] EXCEPT !.reviewed_by = p]
        OBVIOUS
    <2>2. reveal[v] \in Reveal
        BY <1>1, MadeIsReveal DEF Typed
    <2>3. /\ row.by = reveal[v].by /\ row.job = reveal[v].job /\ row.made = reveal[v].made
          /\ row.evaluated_at = reveal[v].evaluated_at /\ row.flagged = reveal[v].flagged
          /\ row.reviewed_by = p
        BY <2>1, <2>2 DEF Reveal
    <2>4. reveal' = [reveal EXCEPT ![v] = row]
        BY <1>1, <1>2, <1>4, <2>1 DEF MarkReviewed
    <2>5. reveal'[v] = row
        BY <2>4, OneRow
    <2>6. Entries' = Entries
        <3>1. Entries'[v] = Entries[v]
            BY <2>3, <2>5 DEF Entries, Made
        <3>2. \A u \in Reveals : u # v => Entries'[u] = Entries[u]
            BY <2>4, OneRow
        <3> QED
            BY <3>1, <3>2 DEF Entries
    <2>7. Verdicts' = Verdicts
        <3>1. Verdicts'[v] = Verdicts[v]
            BY <2>3, <2>5 DEF Verdicts, Judged, Made
        <3>2. \A u \in Reveals : u # v => Verdicts'[u] = Verdicts[u]
            BY <2>4, OneRow
        <3> QED
            BY <3>1, <3>2 DEF Verdicts
    <2>8. ClosedBy' = [ClosedBy EXCEPT ![v] = p]
        <3>1. ClosedBy'[v] = p
            BY <1>1, <2>3, <2>5 DEF ClosedBy, Made
        <3>2. \A u \in Reveals : u # v => ClosedBy'[u] = ClosedBy[u]
            BY <2>4, OneRow
        <3> QED
            BY <3>1, <3>2 DEF ClosedBy
    <2>9. Entries[v] # Trail!Blank /\ Entries[v].by = reveal[v].by /\ ClosedBy[v] = None
        BY <1>1, <1>4 DEF Entries, Trail!Blank, ClosedBy, StillOpen, Made
    <2>10. p # Entries[v].by \/ p \in Owners
        BY <1>2, <2>9 DEF MayReview
    <2>11. Trail!Close(v)
        BY <2>6, <2>7, <2>8, <2>9, <2>10 DEF Trail!Close
    <2> QED
        BY <2>11 DEF Trail!TrailNext
<1> QED
    BY <1>3, <1>4

\* A verdict saved over a verdict is the same one, unless it is provisional.
LEMMA JudgeMove ==
    ASSUME Typed, VerdictsStand, NEW t \in Tasks, NEW v \in Reveals, SaveVerdict(t, v)
    PROVE  Trail!TrailNext \/ UNCHANGED Trail!trailVars
<1>1. v \in task[t].todo /\ Made(v) /\ reveal[v] \in Reveal
    BY MadeIsReveal DEF SaveVerdict, Typed, HeldAreMade
<1>2. PICK f \in BOOLEAN, a \in Days : f = task[t].flag[v] /\ a = task[t].at
    BY DEF Typed, TypeOK, Run
<1>3. PICK row : row = [reveal[v] EXCEPT !.evaluated_at = a, !.flagged = f]
    OBVIOUS
<1>4. /\ row.by = reveal[v].by /\ row.job = reveal[v].job /\ row.made = reveal[v].made
      /\ row.evaluated_at # None /\ row.flagged = f /\ row.reviewed_by = reveal[v].reviewed_by
    <2>1. a # None
        BY AccessAuditAssumption, DayIsNat DEF Days
    <2> QED
        BY <1>1, <1>3, <2>1 DEF Reveal
<1>5. reveal' = [reveal EXCEPT ![v] = row]
    BY <1>2, <1>3 DEF SaveVerdict
<1>6. reveal'[v] = row
    BY <1>5, OneRow
<1>7. Entries' = Entries
    <2>1. Entries'[v] = Entries[v]
        BY <1>4, <1>6 DEF Entries, Made
    <2>2. \A u \in Reveals : u # v => Entries'[u] = Entries[u]
        BY <1>5, OneRow
    <2> QED
        BY <2>1, <2>2 DEF Entries
<1>8. ClosedBy' = ClosedBy
    <2>1. ClosedBy'[v] = ClosedBy[v]
        BY <1>4, <1>6 DEF ClosedBy, Made
    <2>2. \A u \in Reveals : u # v => ClosedBy'[u] = ClosedBy[u]
        BY <1>5, OneRow
    <2> QED
        BY <2>1, <2>2 DEF ClosedBy
<1>9. PICK w \in {"fine", "flagged"} : w = IF f THEN "flagged" ELSE "fine"
    OBVIOUS
<1>10. Verdicts' = [Verdicts EXCEPT ![v] = w]
    <2>1. Verdicts'[v] = w
        BY <1>1, <1>4, <1>6, <1>9 DEF Verdicts, Judged, Made
    <2>2. \A u \in Reveals : u # v => Verdicts'[u] = Verdicts[u]
        BY <1>5, OneRow
    <2> QED
        BY <2>1, <2>2 DEF Verdicts
<1>11. CASE ~Judged(v) \/ Day(reveal[v].made) \in EarlyDays \cup LateDays
    <2>1. Entries[v] # Trail!Blank /\ Entries[v].made = reveal[v].made
        BY <1>1 DEF Entries, Trail!Blank, Made
    <2>2. Verdicts[v] = "none" \/ Entries[v].made \in {h \in Hours : Day(h) \in EarlyDays \cup LateDays}
        BY <1>1, <1>11, <2>1 DEF Verdicts, Reveal
    <2>3. Trail!Judge(v)
        BY <1>7, <1>8, <1>9, <1>10, <2>1, <2>2 DEF Trail!Judge
    <2> QED
        BY <2>3 DEF Trail!TrailNext
<1>12. CASE Judged(v) /\ Day(reveal[v].made) \notin EarlyDays \cup LateDays
    <2>1. reveal[v].flagged = Judge(v)
        BY <1>12 DEF VerdictsStand, RowsStand
    <2>2. f = Judge(v)
        BY <1>1, <1>2, <1>12 DEF VerdictsStand, TasksStand
    <2>3. Verdicts[v] = w
        BY <1>9, <1>12, <2>1, <2>2 DEF Verdicts
    <2>4. Verdicts' = Verdicts
        BY <1>10, <2>3 DEF Verdicts
    <2> QED
        BY <1>7, <1>8, <2>4 DEF Trail!trailVars
<1> QED
    BY <1>11, <1>12

\* The handlers and the tasks implement AuditTrail, for any people, visits,
\* reveals and tasks: of a day that no admin has judged early and whose schedule is
\* not edited once it is over, a verdict once given stands.
THEOREM TrailIsKept == Spec => KeepsTheTrail
<1>1. Init => Typed /\ VerdictsStand /\ ReviewsAllowed /\ Trail!TrailInit
    <2>1. Init => VerdictsStand /\ ReviewsAllowed
        BY DEF Init, VerdictsStand, RowsStand, TasksStand, ReviewsAllowed, Judged, Made, Unmade, Resting, Idle
    <2>2. Init => Trail!TrailInit
        BY DEF Init, Trail!TrailInit, Trail!Blank, Entries, Verdicts, ClosedBy, Judged, Made, Unmade
    <2> QED
        BY <2>1, <2>2, TypeInit
<1>2. Typed /\ VerdictsStand /\ ReviewsAllowed /\ [Next]_vars
        => (Typed /\ VerdictsStand /\ ReviewsAllowed)'
    BY TypeStep, VerdictStep, AllowedStep
<1>3. Typed /\ VerdictsStand /\ ReviewsAllowed /\ [Next]_vars => [Trail!TrailNext]_(Trail!trailVars)
    <2> SUFFICES ASSUME Typed, VerdictsStand, ReviewsAllowed, [Next]_vars
                 PROVE  Trail!TrailNext \/ UNCHANGED Trail!trailVars
        OBVIOUS
    <2>1. ASSUME reveal' = reveal PROVE UNCHANGED Trail!trailVars
        BY <2>1 DEF Trail!trailVars, Entries, Verdicts, ClosedBy, Judged, Made
    <2> QED
        BY <2>1, RecordMove, CloseMove, JudgeMove
        DEF Next, RevealStep, ReviewStep, TaskStep, vars, MayReveal, FindVisit, LoadReview, StartPass, Rerun, Start,
            TaskDies, EditJob, NextHour, Switch
<1> QED
    BY <1>1, <1>2, <1>3, PTL DEF Spec, KeepsTheTrail, Trail!TrailSpec
=============================================================================
