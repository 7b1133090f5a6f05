--------------------------- MODULE AuditRefinement ---------------------------
(***************************************************************************)
(* How the rows of AccessAudit are the trail of AuditTrail: a row is an    *)
(* entry, its flag a verdict once it is evaluated.  The verdicts of a day  *)
(* that was judged early, or whose schedule is edited once it is over, are *)
(* provisional: a re-run may give another.                                 *)
(***************************************************************************)
EXTENDS AccessAudit

Entries ==
    [v \in Reveals |-> IF Made(v) THEN [by |-> reveal[v].by, job |-> reveal[v].job,
                                        made |-> reveal[v].made]
                       ELSE [by |-> None, job |-> None, made |-> None]]

Verdicts ==
    [v \in Reveals |-> IF ~Judged(v) THEN "none"
                       ELSE IF reveal[v].flagged THEN "flagged" ELSE "fine"]

ClosedBy == [v \in Reveals |-> IF Made(v) THEN reveal[v].reviewed_by ELSE None]

Trail == INSTANCE AuditTrail WITH
    entry   <- Entries,
    verdict <- Verdicts,
    closed  <- ClosedBy,
    Provisional <- {h \in Hours : Day(h) \in EarlyDays \cup LateDays}

\* The handlers and the tasks keep the promise of AuditTrail, in whatever order
\* they interleave and whatever dies.  A verdict given again is the same verdict,
\* unless an admin had the day judged early or edits its schedule once it is over.
KeepsTheTrail == Trail!TrailSpec
=============================================================================
