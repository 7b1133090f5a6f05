-------------------------- MODULE EventLedgerProofs --------------------------
(***************************************************************************)
(* What the event ledger guarantees for any charge, any events and any     *)
(* number of faults: with any number of workers, and then with one.        *)
(***************************************************************************)
EXTENDS EventLedgerRefinement, FiniteSetTheorems, TLAPS

\* Every event is one of the kinds, so PaymentIntent rows are the only ones it names.
LEMMA EventKinds ==
    ASSUME NEW e \in Events
    PROVE  /\ e.kind \in {"paid", "settling", "lost", "unhandled", "refund"}
           /\ e.kind = "refund" => e.refunded \in 1 .. Charged
           /\ 0 \in References
BY LedgerAssumption DEF Paid, Settling, Lost, Unhandled, Refund, References

\* What a handler may do to a payment row, whatever it saw and however stale.
LEMMA AppliedRows ==
    ASSUME payment \in [References -> {"none", "live", "void"}],
           NEW e \in Events, NEW saw \in SUBSET References,
           \A k \in saw : payment[k] # "none"
    PROVE  /\ Applied(e, saw) \in [References -> {"none", "live", "void"}]
           /\ \A k \in References :
                 /\ payment[k] = "void" => Applied(e, saw)[k] = "void"
                 /\ payment[k] # "none" => Applied(e, saw)[k] # "none"
           /\ e.kind = "paid" => Applied(e, saw)[0] # "none"
<1>1. Applied(e, saw) \in {payment, Recorded(payment, 0), Voided(payment, saw)}
         \/ \E n \in 1 .. Charged : Applied(e, saw) = Recorded(Voided(payment, saw), n)
    BY EventKinds DEF Applied, AfterRefund
<1>2. e.kind = "paid" => Applied(e, saw) = Recorded(payment, 0)
    BY DEF Applied
<1>3. 0 \in References /\ (1 .. Charged) \subseteq References
    BY LedgerAssumption DEF References
<1> HIDE DEF Applied, References
<1> QED
    BY <1>1, <1>2, <1>3 DEF Recorded, Voided

-----------------------------------------------------------------------------
(* Any number of workers.                                                  *)

\* What a worker saw is still a row: nothing leaves the payment table.
SeenRowsExist ==
    \A w \in Workers : work[w] # Free => \A k \in work[w].saw : payment[k] # "none"

Safe == TypeOK /\ SeenRowsExist /\ PaidMeansRecorded

\* A step that is no commit leaves the payments alone.
LEMMA OnlyCommitPays ==
    ASSUME [Next]_vars, ~ \E w \in Workers : Commit(w)
    PROVE  payment' = payment
BY DEF Next, vars, Receive, ReceiveNew, ReceiveUnsent, TakeOver, Redeliver, GrowOld, Process,
       Begin, Load, Acknowledge, Fail, Die, Take, Sweep, SweepDies, SweepRow

LEMMA CommitApplies ==
    ASSUME TypeOK, SeenRowsExist, NEW w \in Workers, Commit(w)
    PROVE  /\ work[w] \in Job /\ Of(w) \in Events
           /\ payment' \in [References -> {"none", "live", "void"}]
           /\ \A k \in References :
                 /\ payment[k] = "void" => payment'[k] = "void"
                 /\ payment[k] # "none" => payment'[k] # "none"
           /\ Of(w).kind = "paid" => payment'[0] # "none"
<1>1. work[w] \in Job /\ work[w] # Free
    BY DEF Commit, Working, TypeOK
<1>2. Of(w) \in Events /\ work[w].saw \in SUBSET References
    BY <1>1 DEF Of, Job, Message
<1>3. \A k \in work[w].saw : payment[k] # "none"
    BY <1>1 DEF SeenRowsExist
<1>4. payment' = Applied(Of(w), work[w].saw)
    BY DEF Commit
<1>5. payment \in [References -> {"none", "live", "void"}]
    BY DEF TypeOK
<1> HIDE DEF Of
<1> QED
    BY <1>1, <1>2, <1>3, <1>4, <1>5, AppliedRows

LEMMA TypeInit == Init => Safe
BY LedgerAssumption DEF Init, Safe, TypeOK, SeenRowsExist, PaidMeansRecorded, Row, Ages

LEMMA TypeStep ==
    ASSUME TypeOK, SeenRowsExist, [Next]_vars
    PROVE  TypeOK'
<1> USE LedgerAssumption DEF TypeOK, Fault, Finish
<1>1. \A e \in Events : [of |-> e, tries |-> 0] \in Message
    BY DEF Message
<1>2. ASSUME NEW e \in Events, Receive(e) PROVE TypeOK'
    <2>1. ASSUME NEW owned \in BOOLEAN, ReceiveNew(e, owned) PROVE TypeOK'
        <3>1. PICK status \in {"RECEIVED", "IGNORED"} :
                 event' = [event EXCEPT ![e] = [status |-> status, owned |-> owned,
                                                age |-> "fresh"]]
            BY <2>1 DEF ReceiveNew
        <3>2. [status |-> status, owned |-> owned, age |-> "fresh"] \in Row
            BY DEF Row, Ages
        <3>3. queue' \subseteq Message
            BY <1>1, <2>1 DEF ReceiveNew, Enqueued
        <3> QED
            BY <2>1, <3>1, <3>2, <3>3 DEF ReceiveNew
    <2>2. ASSUME ReceiveUnsent(e) PROVE TypeOK'
        <3>1. [status |-> "RECEIVED", owned |-> TRUE, age |-> "fresh"] \in Row
            BY DEF Row, Ages
        <3> QED
            BY <2>2, <3>1 DEF ReceiveUnsent
    <2>3. ASSUME TakeOver(e) \/ Redeliver(e) PROVE TypeOK'
        BY <1>1, <2>3 DEF TakeOver, Redeliver, Row, Enqueued
    <2> QED
        BY <1>2, <2>1, <2>2, <2>3 DEF Receive
<1>3. ASSUME NEW e \in Events, GrowOld(e) PROVE TypeOK'
    BY <1>3 DEF GrowOld, Row, Ages
<1>4. ASSUME NEW w \in Workers, Begin(w) \/ Load(w) \/ Acknowledge(w) PROVE TypeOK'
    BY <1>4 DEF Begin, Load, Acknowledge, Working, Live, Job
<1>5. ASSUME NEW w \in Workers, Commit(w) PROVE TypeOK'
    <2>1. event' = [event EXCEPT ![Of(w)].status = "PROCESSED"]
          /\ work' = [work EXCEPT ![w].step = "applied"]
        BY <1>5 DEF Commit
    <2>2. payment' \in [References -> {"none", "live", "void"}]
        BY <1>5, CommitApplies
    <2>3. Of(w) \in Events /\ work[w] \in Job
        BY <1>5, CommitApplies
    <2>4. event' \in [Events -> Row] /\ work' \in [Workers -> Job \cup {Free}]
        BY <2>1, <2>3, SMTT(30) DEF Row, Job
    <2> QED
        BY <1>5, <2>2, <2>4 DEF Commit
<1>6. ASSUME NEW w \in Workers, Fail(w) PROVE TypeOK'
    <2>1. work[w] \in Job
        BY <1>6 DEF Fail, Working
    <2>2. work[w].task \in Message
        BY <2>1 DEF Job
    <2>3. RetriesLeft(work[w].task) =>
             [work[w].task EXCEPT !.tries = work[w].task.tries + 1] \in Message
        BY <2>2 DEF RetriesLeft, Message
    <2>4. work[w].task.of \in Events
        BY <2>2 DEF Message
    <2>5. [event[work[w].task.of] EXCEPT !.status = "FAILED"] \in Row
        BY <2>4 DEF Row
    <2>6. event' \in [Events -> Row]
        BY <1>6, <2>4, <2>5 DEF Fail, MarkOnError
    <2>7. queue' \subseteq Message
        BY <1>6, <2>3 DEF Fail
    <2>8. work' \in [Workers -> Job \cup {Free}] /\ faults' \in 0 .. MaxFaults
        BY <1>6 DEF Fail
    <2> QED
        BY <1>6, <2>6, <2>7, <2>8 DEF Fail
<1>7. ASSUME NEW w \in Workers, Die(w) PROVE TypeOK'
    BY <1>7 DEF Die, Job
<1>8. ASSUME NEW w \in Workers, NEW m \in Message, Take(w, m) PROVE TypeOK'
    BY <1>8 DEF Take, Job
<1>9. CASE Sweep \/ SweepDies
    BY <1>9 DEF Sweep, SweepDies, Row
<1>10. ASSUME NEW s \in [of : Events, age : Ages], SweepRow(s) PROVE TypeOK'
    BY <1>1, <1>10 DEF SweepRow, Enqueued, Row
<1>11. CASE UNCHANGED vars
    BY <1>11 DEF vars
<1> QED
    BY <1>2, <1>3, <1>4, <1>5, <1>6, <1>7, <1>8, <1>9, <1>10, <1>11 DEF Next, Process

LEMMA SeenStep ==
    ASSUME TypeOK, SeenRowsExist, [Next]_vars
    PROVE  SeenRowsExist'
<1>1. \A k \in References : payment[k] # "none" => payment'[k] # "none"
    BY OnlyCommitPays, CommitApplies
<1>2. ASSUME NEW w \in Workers, work'[w] # Free
      PROVE  \/ work'[w].saw \subseteq Live
             \/ work[w] # Free /\ work'[w].saw = work[w].saw
    <2> USE DEF TypeOK, Job
    <2>1. ASSUME NEW v \in Workers, Process(v)
          PROVE  \/ work'[w].saw \subseteq Live
                 \/ work[w] # Free /\ work'[w].saw = work[w].saw
        BY <1>2, <2>1, LedgerAssumption
           DEF Process, Begin, Load, Commit, Acknowledge, Working
    <2>2. ASSUME NEW v \in Workers, Fail(v) \/ Die(v)
          PROVE  work[w] # Free /\ work'[w].saw = work[w].saw
        BY <1>2, <2>2 DEF Fail, Die
    <2>3. ASSUME NEW v \in Workers, NEW m \in Message, Take(v, m)
          PROVE  \/ work'[w].saw \subseteq Live
                 \/ work[w] # Free /\ work'[w].saw = work[w].saw
        BY <1>2, <2>3 DEF Take
    <2>4. CASE work' = work
        BY <1>2, <2>4
    <2>5. ASSUME NEW e \in Events, Receive(e) \/ GrowOld(e) PROVE work' = work
        BY <2>5 DEF Receive, ReceiveNew, ReceiveUnsent, TakeOver, Redeliver, GrowOld
    <2>6. ASSUME Sweep \/ SweepDies \/ \E s \in [of : Events, age : Ages] : SweepRow(s)
          PROVE  work' = work
        BY <2>6 DEF Sweep, SweepDies, SweepRow
    <2> QED
        BY <2>1, <2>2, <2>3, <2>4, <2>5, <2>6 DEF Next, vars
<1>3. \A w \in Workers : work[w] # Free => work[w].saw \subseteq References
    BY DEF TypeOK, Job
<1> QED
    BY <1>1, <1>2, <1>3 DEF SeenRowsExist, Live

\* Only a commit marks an event PROCESSED.
LEMMA OnlyCommitProcesses ==
    ASSUME TypeOK, [Next]_vars, NEW e \in Events,
           event'[e].status = "PROCESSED", event[e].status # "PROCESSED"
    PROVE  \E w \in Workers : Commit(w) /\ Of(w) = e
<1> USE DEF TypeOK, Finish
<1>1. ASSUME NEW x \in Events, Receive(x) \/ GrowOld(x) PROVE FALSE
    BY <1>1 DEF Receive, ReceiveNew, ReceiveUnsent, TakeOver, Redeliver, GrowOld, Row
<1>2. ASSUME NEW w \in Workers, Commit(w) PROVE Of(w) = e
    BY <1>2 DEF Commit, Row
<1>3. ASSUME NEW w \in Workers, Begin(w) \/ Load(w) \/ Acknowledge(w) \/ Fail(w) \/ Die(w)
      PROVE  FALSE
    BY <1>3 DEF Begin, Load, Acknowledge, Fail, Die, MarkOnError, Row
<1>4. ASSUME NEW w \in Workers, NEW m \in Message, Take(w, m) PROVE FALSE
    BY <1>4 DEF Take
<1>5. ASSUME Sweep \/ SweepDies \/ \E s \in [of : Events, age : Ages] : SweepRow(s) PROVE FALSE
    <2>1. CASE Sweep \/ SweepDies
        BY <2>1 DEF Sweep, SweepDies
    <2>2. ASSUME NEW s \in [of : Events, age : Ages], SweepRow(s) PROVE FALSE
        <3>1. event' \in {event, [event EXCEPT ![s.of].status = "FAILED"]}
            BY <2>2 DEF SweepRow
        <3> QED
            BY <3>1 DEF Row
    <2> QED
        BY <1>5, <2>1, <2>2
<1>6. CASE UNCHANGED vars
    BY <1>6 DEF vars
<1> QED
    BY <1>1, <1>2, <1>3, <1>4, <1>5, <1>6 DEF Next, Process

LEMMA SafeStep == Safe /\ [Next]_vars => Safe'
<1> SUFFICES ASSUME Safe, [Next]_vars PROVE Safe'
    OBVIOUS
<1>1. TypeOK' /\ SeenRowsExist'
    BY TypeStep, SeenStep DEF Safe
<1>2. ASSUME Paid \in Events, event'[Paid].status = "PROCESSED" PROVE payment'[0] # "none"
    <2>1. 0 \in References
        BY <1>2, EventKinds
    <2>2. CASE event[Paid].status = "PROCESSED"
        <3>1. payment[0] # "none"
            BY <1>2, <2>2 DEF Safe, PaidMeansRecorded
        <3> QED
            BY <2>1, <3>1, OnlyCommitPays, CommitApplies DEF Safe
    <2>3. CASE event[Paid].status # "PROCESSED"
        <3>1. PICK w \in Workers : Commit(w) /\ Of(w) = Paid
            BY <1>2, <2>3, OnlyCommitProcesses DEF Safe
        <3> QED
            BY <3>1, CommitApplies DEF Safe, Paid
    <2> QED
        BY <2>2, <2>3
<1> QED
    BY <1>1, <1>2 DEF Safe, PaidMeansRecorded

LEMMA AlwaysSafe == Spec => []Safe
BY TypeInit, SafeStep, PTL DEF Spec

\* Every row holds what its columns can hold.
THEOREM LedgerTypeCorrect == Spec => []TypeOK
<1>1. Safe => TypeOK
    BY DEF Safe
<1> QED
    BY <1>1, AlwaysSafe, PTL

\* A checkout event marked PROCESSED has written its payment, whatever died,
\* failed or was delivered twice.
THEOREM PaidIsRecorded == Spec => []PaidMeansRecorded
<1>1. Safe => PaidMeansRecorded
    BY DEF Safe
<1> QED
    BY <1>1, AlwaysSafe, PTL

\* No replay, by any number of workers, brings a voided payment back.
THEOREM VoidStaysVoid == Spec => VoidIsForever
<1>1. Safe /\ [Next]_vars
        => [\A k \in References : payment[k] = "void" => payment'[k] = "void"]_payment
    BY OnlyCommitPays, CommitApplies DEF Safe
<1> QED
    BY <1>1, AlwaysSafe, PTL DEF Spec, VoidIsForever

-----------------------------------------------------------------------------
(* One worker.  What it saw is still so when it commits, because nobody    *)
(* else writes a payment.  With two it is false: each may have read what   *)
(* was live before the other committed.                                    *)

OneWorker == \E w : Workers = {w}

SawTheTruth == \A w \in Workers : Working(w, "loaded") => work[w].saw = Live
OriginalFirst == \A n \in References : payment[n] # "none" => payment[0] # "none"

InOrder == LatestRefundStands /\ SawTheTruth /\ OriginalFirst

\* A handler that saw the truth leaves the latest refund standing.
LEMMA AppliedInOrder ==
    ASSUME payment \in [References -> {"none", "live", "void"}],
           LatestRefundStands, OriginalFirst,
           NEW e \in Events, payment' = Applied(e, Live)
    PROVE  LatestRefundStands' /\ OriginalFirst'
<1> USE DEF LatestRefundStands, OriginalFirst, Live
<1>1. 0 \in References /\ References \subseteq Nat
    BY LedgerAssumption DEF References
<1>2. CASE payment' = payment
    BY <1>2
<1>3. CASE payment' = Recorded(payment, 0)
    <2>1. CASE payment[0] # "none"
        BY <1>3, <2>1 DEF Recorded
    <2>2. CASE payment[0] = "none"
        <3>1. /\ payment'[0] = "live"
              /\ \A n \in References \ {0} : payment'[n] = payment[n]
            BY <1>1, <1>3, <2>2 DEF Recorded
        <3>2. \A n \in References \ {0} : payment'[n] = "none"
            BY <1>1, <2>2, <3>1
        <3> HIDE DEF References
        <3> QED
            BY <1>1, <3>1, <3>2
    <2> QED
        BY <2>1, <2>2
<1>4. CASE payment' = Voided(payment, Live)
    <2>1. \A k \in References : payment'[k] = IF payment[k] = "live" THEN "void" ELSE payment[k]
        BY <1>4 DEF Voided
    <2>2. \A k \in References : payment'[k] # "live" /\ (payment'[k] # "none" <=> payment[k] # "none")
        BY <2>1
    <2> QED
        BY <1>1, <2>2
<1>5. ASSUME NEW n \in 1 .. Charged, Refunded(n, Live),
             payment' = Recorded(Voided(payment, Live), n)
      PROVE  LatestRefundStands' /\ OriginalFirst'
    <2>1. n \in References
        BY LedgerAssumption DEF References
    <2>2. \A m \in References : payment[m] # "none" => m < n
        <3>1. PICK k \in Live : n > k
            BY <1>5 DEF Refunded
        <3> QED
            BY <1>1, <2>1, <3>1
    <2>3. payment[n] = "none" /\ payment[0] # "none"
        <3>1. payment[n] = "none"
            BY <1>1, <2>1, <2>2
        <3>2. \E k \in References : payment[k] # "none"
            BY <1>5 DEF Refunded
        <3> QED
            BY <3>1, <3>2
    <2>4. /\ payment'[n] = "live"
          /\ \A m \in References \ {n} :
                payment'[m] = IF payment[m] = "live" THEN "void" ELSE payment[m]
        BY <1>5, <2>1, <2>3 DEF Recorded, Voided
    <2>5. \A m \in References \ {n} : payment'[m] # "live" /\ (payment'[m] # "none" => m < n)
        BY <2>2, <2>4
    <2>6. payment'[0] # "none"
        BY <1>1, <2>3, <2>4
    <2>7. \A m \in References : payment'[m] # "none" => m <= n
        BY <1>1, <2>1, <2>5
    <2> HIDE DEF References
    <2> QED
        BY <2>5, <2>6, <2>7
<1>6. \/ payment' \in {payment, Recorded(payment, 0), Voided(payment, Live)}
      \/ \E n \in 1 .. Charged : /\ Refunded(n, Live)
                                 /\ payment' = Recorded(Voided(payment, Live), n)
    BY EventKinds DEF Applied, AfterRefund
<1> QED
    BY <1>2, <1>3, <1>4, <1>5, <1>6

LEMMA InOrderStep ==
    ASSUME OneWorker, Safe, InOrder, [Next]_vars
    PROVE  InOrder'
<1> USE DEF Safe, InOrder
<1>1. PICK w : Workers = {w}
    BY DEF OneWorker
<1>2. CASE Commit(w)
    <2>1. payment' = Applied(Of(w), Live)
        BY <1>1, <1>2 DEF Commit, SawTheTruth
    <2>2. Of(w) \in Events /\ payment \in [References -> {"none", "live", "void"}]
        BY <1>1, <1>2, CommitApplies DEF TypeOK
    <2>3. LatestRefundStands' /\ OriginalFirst'
        BY <2>1, <2>2, AppliedInOrder
    <2>4. SawTheTruth'
        BY <1>1, <1>2 DEF Commit, SawTheTruth, Working, TypeOK, Job
    <2> QED
        BY <2>3, <2>4
<1>3. CASE ~Commit(w)
    <2>1. payment' = payment
        BY <1>1, <1>3, OnlyCommitPays
    <2>2. LatestRefundStands' /\ OriginalFirst' /\ Live' = Live
        BY <2>1 DEF LatestRefundStands, OriginalFirst, Live
    <2>3. ASSUME Working(w, "loaded")'
          PROVE  work'[w].saw = Live \/ (Working(w, "loaded") /\ work'[w] = work[w])
        <3> USE <1>1, <1>3, <2>3 DEF Working, TypeOK, Job
        <3>1. ASSUME NEW v \in Workers, Process(v) \/ Fail(v) \/ Die(v)
              PROVE  work'[w].saw = Live \/ (Working(w, "loaded") /\ work'[w] = work[w])
            BY <3>1 DEF Process, Begin, Load, Acknowledge, Fail, Die
        <3>2. ASSUME NEW v \in Workers, NEW m \in Message, Take(v, m)
              PROVE  FALSE
            BY <3>2 DEF Take
        <3>3. ASSUME NEW e \in Events, Receive(e) \/ GrowOld(e) PROVE work' = work
            BY <3>3 DEF Receive, ReceiveNew, ReceiveUnsent, TakeOver, Redeliver, GrowOld
        <3>4. ASSUME Sweep \/ SweepDies \/ \E s \in [of : Events, age : Ages] : SweepRow(s)
              PROVE  work' = work
            BY <3>4 DEF Sweep, SweepDies, SweepRow
        <3>5. CASE UNCHANGED vars
            BY <3>5 DEF vars
        <3> QED
            BY <3>1, <3>2, <3>3, <3>4, <3>5 DEF Next
    <2>4. SawTheTruth'
        BY <1>1, <2>2, <2>3 DEF SawTheTruth, Working
    <2> QED
        BY <2>2, <2>4
<1> QED
    BY <1>2, <1>3

\* With one worker the latest refund always stands, in whatever order and
\* however often Stripe tells of them: there is one live payment at most.
THEOREM LatestStands == ASSUME OneWorker PROVE Spec => []LatestRefundStands
<1>1. Init => InOrder
    BY DEF Init, InOrder, LatestRefundStands, SawTheTruth, OriginalFirst, Live, Working
<1>2. Safe /\ InOrder /\ [Next]_vars => InOrder'
    BY InOrderStep
<1>3. InOrder => LatestRefundStands
    BY DEF InOrder
<1> QED
    BY <1>1, <1>2, <1>3, AlwaysSafe, PTL DEF Spec

\* The cents a live row keeps are finitely many, so that they can be counted.
LEMMA HeldIsFinite == IsFiniteSet(Held)
<1>1. IsFiniteSet(References) /\ IsFiniteSet(1 .. Charged)
    BY LedgerAssumption, FS_Interval DEF References
<1>2. IsFiniteSet(References \X (1 .. Charged))
    BY <1>1, FS_Product
<1>3. Held \in SUBSET (References \X (1 .. Charged))
    BY DEF Held, Live
<1> QED
    BY <1>2, <1>3, FS_Subset

\* Once the charge is recorded, a handler that saw the truth keeps no more of
\* it than before.
LEMMA AppliedKeepsNoMore ==
    ASSUME payment \in [References -> {"none", "live", "void"}],
           payment[0] # "none",
           NEW e \in Events, payment' = Applied(e, Live)
    PROVE  Cardinality(Held') <= Cardinality(Held)
<1>0. 0 \in References /\ References \subseteq Int /\ Charged \in Nat
      /\ \A n \in 1 .. Charged : n \in References
    BY LedgerAssumption DEF References
<1>less. ASSUME Live' \subseteq Live PROVE Cardinality(Held') <= Cardinality(Held)
    <2>1. Held' \in SUBSET Held
        BY <1>less DEF Held
    <2> QED
        BY <2>1, HeldIsFinite, FS_Subset
<1>1. CASE payment' = payment \/ payment' = Recorded(payment, 0)
    BY <1>1, <1>less DEF Recorded, Live
<1>2. CASE payment' = Voided(payment, Live)
    BY <1>2, <1>less DEF Voided, Live
<1>3. ASSUME NEW n \in 1 .. Charged, Refunded(n, Live),
             payment' = Recorded(Voided(payment, Live), n)
      PROVE  Cardinality(Held') <= Cardinality(Held)
    <2>1. PICK k \in Live : n > k
        BY <1>3 DEF Refunded
    <2>2. k \in References /\ k \in Int /\ n \in Int
        BY <1>0, <2>1 DEF Live
    <2>3. Live' \subseteq {n}
        BY <1>0, <1>3 DEF Recorded, Voided, Live
    <2>4. ASSUME NEW c \in Held'
          PROVE  <<k, c[2]>> \in Held /\ c = <<n, c[2]>>
        <3>1. /\ c \in References \X (1 .. Charged)
              /\ c[1] \in Live' /\ c[2] <= Charged - c[1]
            <4>1. PICK a \in Live', b \in 1 .. Charged : c = <<a, b>> /\ b <= Charged - a
                <5>1. c \in Live' \X (1 .. Charged) /\ c[2] <= Charged - c[1]
                    BY <2>4 DEF Held
                <5>2. PICK a \in Live', b \in 1 .. Charged : c = <<a, b>>
                    BY <5>1
                <5>3. c[1] = a /\ c[2] = b
                    BY <5>2
                <5> QED
                    BY <5>1, <5>2, <5>3
            <4>2. a \in References
                BY <4>1 DEF Live
            <4>3. c[1] = a /\ c[2] = b
                BY <4>1
            <4> QED
                BY <4>1, <4>2, <4>3
        <3>2. c[1] = n /\ c[2] \in 1 .. Charged /\ c = <<c[1], c[2]>>
            <4>1. PICK a \in References, b \in 1 .. Charged : c = <<a, b>>
                BY <3>1
            <4>2. c[1] = a /\ c[2] = b
                BY <4>1
            <4> QED
                BY <2>3, <3>1, <4>1, <4>2
        <3>3. c[2] <= Charged - k
            BY <1>0, <2>1, <2>2, <3>1, <3>2
        <3> QED
            BY <2>1, <2>2, <3>2, <3>3 DEF Held
    <2> DEFINE f == [c \in Held' |-> <<k, c[2]>>]
    <2>5. f \in Injection(Held', Held)
        <3>1. f \in [Held' -> Held]
            BY <2>4
        <3>2. ASSUME NEW a \in Held', NEW b \in Held', f[a] = f[b] PROVE a = b
            <4>1. <<k, a[2]>> = <<k, b[2]>>
                BY <3>2
            <4>2. a[2] = b[2]
                BY <4>1
            <4> QED
                BY <2>4, <4>2
        <3> HIDE DEF f
        <3> QED
            BY <3>1, <3>2 DEF Injection, IsInjective
    <2> QED
        BY <2>5, HeldIsFinite, FS_Injection
<1>4. \/ payment' \in {payment, Recorded(payment, 0), Voided(payment, Live)}
      \/ \E n \in 1 .. Charged : /\ Refunded(n, Live)
                                 /\ payment' = Recorded(Voided(payment, Live), n)
    BY EventKinds DEF Applied, AfterRefund
<1> QED
    BY <1>1, <1>2, <1>3, <1>4

\* With one worker, no event gives back to the invoice money that has left:
\* once the charge is recorded, what counts of it only shrinks.
THEOREM RefundsOnlyShrink == ASSUME OneWorker PROVE Spec => MoneyNeverReturns
<1>1. Init => InOrder
    BY DEF Init, InOrder, LatestRefundStands, SawTheTruth, OriginalFirst, Live, Working
<1>2. Safe /\ InOrder /\ [Next]_vars => InOrder'
    BY InOrderStep
<1>3. Safe /\ InOrder /\ [Next]_vars
        => [payment[0] # "none" => Cardinality(Held') <= Cardinality(Held)]_payment
    <2> SUFFICES ASSUME Safe, InOrder, [Next]_vars, payment' # payment, payment[0] # "none"
                 PROVE  Cardinality(Held') <= Cardinality(Held)
        OBVIOUS
    <2>1. PICK w \in Workers : Commit(w)
        BY OnlyCommitPays
    <2>2. payment' = Applied(Of(w), Live)
        BY <2>1 DEF Commit, InOrder, SawTheTruth
    <2>3. Of(w) \in Events /\ payment \in [References -> {"none", "live", "void"}]
        BY <2>1, CommitApplies DEF Safe, TypeOK
    <2> QED
        BY <2>2, <2>3, AppliedKeepsNoMore
<1> QED
    BY <1>1, <1>2, <1>3, AlwaysSafe, PTL DEF Spec, MoneyNeverReturns

-----------------------------------------------------------------------------
(* With one worker, the payments are the account of ChargeAccount.         *)

LEMMA LossesAreCents ==
    ASSUME NEW e \in Events
    PROVE  LossOf(e) \in 0 .. Charged
BY EventKinds, LedgerAssumption DEF LossOf

LEMMA LeftMeans ==
    ASSUME NEW c, NEW S \in SUBSET Events
    PROVE  Account!IsLeft(c, S) <=>
              /\ c = Charged \/ \E e \in S : c = Charged - LossOf(e)
              /\ c <= Charged /\ \A e \in S : c <= Charged - LossOf(e)
<1>1. \A e \in S : [x \in Events |-> LossOf(x)][e] = LossOf(e)
    OBVIOUS
<1> QED
    BY <1>1 DEF Account!IsLeft

\* What is left is one amount: the worst loss is the worst loss.
LEMMA LeftIsOne ==
    ASSUME NEW S \in SUBSET Events, NEW c \in 0 .. Charged, Account!IsLeft(c, S)
    PROVE  Account!Left(S) = c
<1>1. ASSUME NEW d \in 0 .. Charged, Account!IsLeft(d, S) PROVE d = c
    <2>1. \A e \in S : LossOf(e) \in 0 .. Charged
        BY LossesAreCents
    <2> QED
        BY <1>1, <2>1, LeftMeans, LedgerAssumption
<1> QED
    BY <1>1 DEF Account!Left

\* Hearing of one more loss leaves the lesser of what there was and what it leaves.
LEMMA OneMoreHeard ==
    ASSUME NEW S \in SUBSET Events, NEW c \in 0 .. Charged, Account!IsLeft(c, S),
           NEW e \in Events, NEW d \in 0 .. Charged,
           d = IF Charged - LossOf(e) < c THEN Charged - LossOf(e) ELSE c
    PROVE  Account!IsLeft(d, S \cup {e})
<1>1. \A x \in Events : LossOf(x) \in 0 .. Charged
    BY LossesAreCents
<1> QED
    BY <1>1, LeftMeans, LedgerAssumption

\* There is one live payment at most, so what is kept is what it says.
OnTheBooks ==
    /\ payment \in [References -> {"none", "live", "void"}]
    /\ LatestRefundStands
    /\ payment[0] # "none"

KeptAsLive ==
    /\ Kept \in 0 .. Charged
    /\ Live = {} => Kept = 0
    /\ \A k \in Live : Kept = Charged - k

LEMMA KeptIs == OnTheBooks => KeptAsLive
<1> SUFFICES ASSUME OnTheBooks PROVE KeptAsLive
    OBVIOUS
<1>1. References \subseteq 0 .. Charged /\ Charged \in Nat
    BY LedgerAssumption DEF References
<1>2. \A k, l \in Live : k = l
    BY <1>1 DEF OnTheBooks, LatestRefundStands, Live
<1>3. Live \subseteq References
    BY DEF Live
<1>4. ASSUME NEW k \in Live PROVE Kept = Charged - k
    <2>1. (CHOOSE l \in Live : TRUE) = k
        BY <1>2
    <2> QED
        BY <2>1 DEF OnTheBooks, Kept
<1>5. Live = {} => Kept = 0
    BY DEF OnTheBooks, Kept
<1> QED
    BY <1>1, <1>3, <1>4, <1>5 DEF KeptAsLive

LEMMA KeptIsNext == OnTheBooks' => KeptAsLive'
BY KeptIs, PTL

\* What a handler that saw the truth makes of a charge on the books.
LEMMA AppliedCounts ==
    ASSUME OnTheBooks, OnTheBooks',
           NEW e \in Events, payment' = Applied(e, Live)
    PROVE  Kept' = IF Charged - LossOf(e) < Kept THEN Charged - LossOf(e) ELSE Kept
<1>0. /\ 0 \in References /\ References \subseteq 0 .. Charged /\ Charged \in Nat
      /\ 1 .. Charged \subseteq References /\ Live \subseteq References
    BY LedgerAssumption DEF References, Live
<1>1. /\ Kept \in 0 .. Charged
      /\ Live = {} => Kept = 0
      /\ \A k \in Live : Kept = Charged - k
    BY KeptIs DEF KeptAsLive
<1>2. /\ Live' = {} => Kept' = 0
      /\ \A k \in Live' : Kept' = Charged - k
    BY KeptIsNext DEF KeptAsLive
<1>same. ASSUME payment' = payment PROVE Kept' = Kept
    <2>1. Live' = Live
        BY <1>same DEF Live
    <2> QED
        BY <1>same, <2>1 DEF Kept
<1>3. CASE e.kind \in {"paid", "settling", "unhandled"}
    <2>1. payment' = payment
        BY <1>3 DEF Applied, Recorded, OnTheBooks
    <2>2. LossOf(e) = 0
        BY <1>3 DEF LossOf
    <2> QED
        BY <1>0, <1>1, <1>same, <2>1, <2>2
<1>4. CASE e.kind = "lost"
    <2>1. payment' = Voided(payment, Live)
        BY <1>4 DEF Applied
    <2>2. Live' = {}
        BY <2>1 DEF Voided, Live
    <2>3. LossOf(e) = Charged
        BY <1>4 DEF LossOf
    <2> QED
        BY <1>0, <1>1, <1>2, <2>2, <2>3
<1>5. CASE e.kind = "refund"
    <2>0. PICK n \in 1 .. Charged : n = e.refunded
        BY <1>5, EventKinds
    <2>1. LossOf(e) = n
        BY <1>5, <2>0 DEF LossOf
    <2>2. CASE ~Refunded(n, Live)
        <3>1. payment' = payment
            BY <1>5, <2>0, <2>2 DEF Applied
        <3>2. Live = {} \/ \E k \in Live : n <= k
            BY <1>0, <2>2 DEF Refunded
        <3>3. ~(Charged - n < Kept)
            BY <1>0, <1>1, <3>2
        <3> QED
            BY <1>same, <2>1, <3>1, <3>3
    <2>3. CASE Refunded(n, Live)
        <3>0. PICK k \in Live : n > k
            BY <2>3 DEF Refunded
        <3>1. Kept = Charged - k /\ k \in 0 .. Charged
            BY <1>0, <1>1
        <3>2. payment' = AfterRefund(n, Live)
            BY <1>5, <2>0, <2>3 DEF Applied
        <3>3. CASE n = Charged
            <4>1. payment' = Voided(payment, Live)
                BY <3>2, <3>3 DEF AfterRefund
            <4>2. Live' = {}
                BY <4>1 DEF Voided, Live
            <4> QED
                BY <1>0, <1>2, <2>1, <3>0, <3>1, <3>3, <4>2
        <3>4. CASE n # Charged
            <4>1. payment' = Recorded(Voided(payment, Live), n)
                BY <1>0, <3>2, <3>4 DEF AfterRefund
            <4>2. n \in References /\ payment[n] = "none"
                BY <1>0, <3>0 DEF OnTheBooks, LatestRefundStands
            <4>3. payment'[n] = "live"
                BY <4>1, <4>2 DEF Recorded, Voided, Live
            <4>4. Kept' = Charged - n
                BY <1>2, <4>2, <4>3 DEF Live
            <4> QED
                BY <1>0, <2>1, <3>0, <3>1, <4>4
        <3> QED
            BY <3>3, <3>4
    <2> QED
        BY <2>2, <2>3
<1> HIDE DEF Kept, LossOf
<1> QED
    BY <1>3, <1>4, <1>5, EventKinds

\* What has been heard is what leaves what is kept.
HeardInv ==
    /\ heard \in SUBSET Events
    /\ payment[0] = "none" => heard = {}
    /\ payment[0] # "none" => Account!IsLeft(Kept, heard)

\* Only a commit is heard.
LEMMA OnlyCommitIsHeard ==
    ASSUME TypeOK, [Next]_vars, NEW w \in Workers,
           Working(w, "loaded"), Working(w, "applied")'
    PROVE  Commit(w)
<1> USE DEF TypeOK, Working
<1>0. work[w] # Free /\ work[w] \in Job /\ work[w].step = "loaded"
      /\ work'[w] # Free /\ work'[w].step = "applied"
    OBVIOUS
<1>1. ASSUME NEW v \in Workers, Process(v) PROVE Commit(w)
    BY <1>0, <1>1 DEF Process, Begin, Load, Acknowledge, Commit, Job
<1>2. ASSUME NEW v \in Workers, Fail(v) \/ Die(v) PROVE FALSE
    BY <1>0, <1>2 DEF Fail, Die
<1>3. ASSUME NEW v \in Workers, NEW m \in Message, Take(v, m) PROVE FALSE
    BY <1>0, <1>3 DEF Take
<1>4. ASSUME NEW e \in Events, Receive(e) \/ GrowOld(e) PROVE FALSE
    BY <1>0, <1>4 DEF Receive, ReceiveNew, ReceiveUnsent, TakeOver, Redeliver, GrowOld
<1>5. ASSUME Sweep \/ SweepDies \/ \E s \in [of : Events, age : Ages] : SweepRow(s) PROVE FALSE
    BY <1>0, <1>5 DEF Sweep, SweepDies, SweepRow
<1>6. CASE UNCHANGED vars
    BY <1>0, <1>6 DEF vars
<1> QED
    BY <1>1, <1>2, <1>3, <1>4, <1>5, <1>6 DEF Next

\* A commit of the one worker is what is heard in its step.
LEMMA CommitIsHeard ==
    ASSUME OneWorker, TypeOK, NEW w \in Workers, Commit(w)
    PROVE  Committed = {Of(w)} /\ work' # work
<1>1. Workers = {w}
    BY DEF OneWorker
<1>2. Working(w, "loaded") /\ Working(w, "applied")'
    <2>1. work[w] \in Job /\ work' = [work EXCEPT ![w].step = "applied"]
        BY DEF Commit, Working, TypeOK
    <2>2. PICK j : j = [work[w] EXCEPT !.step = "applied"]
        OBVIOUS
    <2>3. work'[w] = j /\ j \in Job /\ j.step = "applied"
        BY <2>1, <2>2, SMTT(30) DEF Job, TypeOK
    <2> QED
        BY <2>3, LedgerAssumption DEF Working, Commit
<1>3. work' # work
    BY <1>2 DEF Working
<1> QED
    BY <1>1, <1>2, <1>3 DEF Committed

LEMMA HeardStep ==
    ASSUME OneWorker, Safe, InOrder, HeardInv, [Next /\ Remember]_<<vars, heard>>
    PROVE  HeardInv' /\ [Account!AccountNext]_(Account!accountVars)
<1>0. [Next]_vars /\ Safe' /\ InOrder'
    BY SafeStep, InOrderStep DEF vars
<1>1. /\ payment \in [References -> {"none", "live", "void"}]
      /\ payment' \in [References -> {"none", "live", "void"}]
      /\ LatestRefundStands /\ LatestRefundStands' /\ OriginalFirst
      /\ 0 \in References /\ Charged \in Nat
    BY <1>0, LedgerAssumption DEF Safe, TypeOK, InOrder, References
<1>2. ASSUME payment' = payment, heard' = heard
      PROVE  HeardInv' /\ UNCHANGED Account!accountVars
    <2>1. Live' = Live
        BY <1>2 DEF Live
    <2>2. Kept' = Kept
        BY <1>2, <2>1 DEF Kept
    <2> QED
        BY <1>2, <2>2 DEF HeardInv, Account!accountVars, Account!IsLeft
<1>3. CASE ~ \E w \in Workers : Commit(w)
    <2>1. payment' = payment
        BY <1>0, <1>3, OnlyCommitPays
    <2>2. Committed = {}
        BY <1>0, <1>3, OnlyCommitIsHeard DEF Committed, Safe
    <2>3. heard' = heard
        BY <2>2 DEF Remember
    <2> QED
        BY <1>2, <2>1, <2>3
<1>4. ASSUME NEW w \in Workers, Commit(w)
      PROVE  HeardInv' /\ [Account!AccountNext]_(Account!accountVars)
    <2>1. PICK e \in Events : e = Of(w)
        BY <1>4, CommitApplies DEF Safe
    <2>2. payment' = Applied(e, Live)
        BY <1>4, <2>1 DEF Commit, InOrder, SawTheTruth
    <2>3. Committed = {e} /\ work' # work
        BY <1>4, <2>1, CommitIsHeard DEF Safe
    <2>4. Remember
        BY <2>3 DEF vars
    <2>5. CASE payment[0] = "none"
        <3>1. heard' = heard /\ heard = {}
            BY <2>4, <2>5 DEF Remember, HeardInv
        <3>2. Live = {} /\ \A k \in References : payment[k] = "none"
            BY <1>1, <2>5 DEF OriginalFirst, Live
        <3>3. payment' \in {payment, Recorded(payment, 0)}
            <4>1. ~Refunded(e.refunded, Live)
                BY <3>2 DEF Refunded
            <4>2. Voided(payment, Live) = payment
                BY <1>1, <3>2 DEF Voided
            <4> QED
                BY <2>2, <4>1, <4>2 DEF Applied
        <3>4. CASE payment' = payment
            BY <1>2, <3>1, <3>4
        <3>5. CASE payment' = Recorded(payment, 0)
            <4>1. payment' = [payment EXCEPT ![0] = "live"]
                BY <2>5, <3>5 DEF Recorded
            <4>2. Live' = {0} /\ payment'[0] # "none"
                BY <1>1, <3>2, <4>1 DEF Live
            <4>3. Kept' = Charged
                BY <1>1, <4>2 DEF Kept
            <4>4. Kept = Unrecorded
                BY <2>5 DEF Kept
            <4>5. HeardInv'
                BY <1>1, <3>1, <4>2, <4>3 DEF HeardInv, Account!IsLeft
            <4> QED
                BY <3>1, <4>3, <4>4, <4>5 DEF Account!AccountNext, Account!Record
        <3> QED
            BY <3>3, <3>4, <3>5
    <2>6. CASE payment[0] # "none"
        <3>1. heard' = heard \cup {e} /\ heard \in SUBSET Events /\ Account!IsLeft(Kept, heard)
            BY <2>3, <2>4, <2>6 DEF Remember, HeardInv
        <3>2. payment'[0] # "none"
            BY <1>1, <1>4, <2>6, CommitApplies DEF Safe
        <3>3. OnTheBooks /\ OnTheBooks'
            BY <1>1, <2>6, <3>2 DEF OnTheBooks
        <3>cents. Kept \in 0 .. Charged /\ Kept' \in 0 .. Charged
            BY <3>3, KeptIs, KeptIsNext DEF KeptAsLive
        <3>4. Kept' = IF Charged - LossOf(e) < Kept THEN Charged - LossOf(e) ELSE Kept
            BY <2>2, <3>3, AppliedCounts
        <3>5. Account!IsLeft(Kept', heard')
            BY <3>1, <3>cents, <3>4, OneMoreHeard
        <3>6. Kept' = Account!Left(heard')
            BY <3>1, <3>cents, <3>5, LeftIsOne
        <3>7. Kept # Unrecorded
            BY <3>cents, AccountAssumption
        <3>8. HeardInv'
            BY <3>1, <3>2, <3>5 DEF HeardInv, Account!IsLeft
        <3>9. Account!Hear(e)
            BY <3>1, <3>6, <3>7 DEF Account!Hear
        <3> QED
            BY <3>8, <3>9 DEF Account!AccountNext
    <2> QED
        BY <2>5, <2>6
<1> QED
    BY <1>2, <1>3, <1>4

\* With one worker, what counts of a charge depends on which refunds and lost
\* disputes were applied since it was recorded: not on their order, nor on how
\* often each was told, nor on what failed on the way.
THEOREM ChargeIsKept == ASSUME OneWorker PROVE HeardSpec => KeepsTheCharge
<1>1. Init => Safe /\ InOrder
    BY TypeInit DEF Init, InOrder, LatestRefundStands, SawTheTruth, OriginalFirst, Live, Working
<1>2. Init /\ heard = {} => HeardInv /\ Account!AccountInit
    <2> SUFFICES ASSUME Init, heard = {} PROVE HeardInv /\ Account!AccountInit
        OBVIOUS
    <2>1. payment[0] = "none"
        BY LedgerAssumption DEF Init, References
    <2> QED
        BY <2>1 DEF HeardInv, Account!AccountInit, Kept
<1>3. /\ Safe /\ InOrder /\ HeardInv /\ [Next /\ Remember]_<<vars, heard>>
      => /\ Safe' /\ InOrder' /\ HeardInv'
         /\ [Account!AccountNext]_(Account!accountVars)
    <2> SUFFICES ASSUME Safe, InOrder, HeardInv, [Next /\ Remember]_<<vars, heard>>
                 PROVE  /\ Safe' /\ InOrder' /\ HeardInv'
                        /\ [Account!AccountNext]_(Account!accountVars)
        OBVIOUS
    <2>1. [Next]_vars
        BY DEF vars
    <2> QED
        BY <2>1, SafeStep, InOrderStep, HeardStep
<1> QED
    BY <1>1, <1>2, <1>3, PTL DEF HeardSpec, KeepsTheCharge, Account!AccountSpec

\* Remembering what was heard forbids the ledger nothing, and so what is proved
\* of Spec holds of HeardSpec.
LEMMA MemoryIsFree == HeardSpec => Spec
<1>1. [Next /\ Remember]_<<vars, heard>> => [Next]_vars
    BY DEF vars
<1> QED
    BY <1>1, PTL DEF HeardSpec, Spec
=============================================================================
