------------------------------ MODULE AuditTrail ------------------------------
(***************************************************************************)
(* What the audit trail promises, said without handlers, tasks or clocks:  *)
(* an entry is written once; each gets one verdict, which is never taken   *)
(* back unless it is provisional; and each is closed once, by somebody     *)
(* else than whoever it is about, unless the owner closes their own.       *)
(***************************************************************************)
CONSTANTS People, Jobs, Hours, Reveals,
          Reviewers, Owners,   \* who may close an entry, and their own
          Provisional,         \* hours of which a verdict may be given again
          None                 \* nobody, and no job

VARIABLES
    entry,     \* who looked, for which job, when
    verdict,   \* none, fine or flagged
    closed     \* by whom, if at all

trailVars == <<entry, verdict, closed>>

Blank == [by |-> None, job |-> None, made |-> None]

TrailInit ==
    /\ entry = [v \in Reveals |-> Blank]
    /\ verdict = [v \in Reveals |-> "none"]
    /\ closed = [v \in Reveals |-> None]

Record(v) ==
    /\ entry[v] = Blank
    /\ \E p \in People, j \in Jobs \cup {None}, h \in Hours :
          entry' = [entry EXCEPT ![v] = [by |-> p, job |-> j, made |-> h]]
    /\ UNCHANGED <<verdict, closed>>

Judge(v) ==
    /\ entry[v] # Blank
    /\ verdict[v] = "none" \/ entry[v].made \in Provisional
    /\ \E w \in {"fine", "flagged"} : verdict' = [verdict EXCEPT ![v] = w]
    /\ UNCHANGED <<entry, closed>>

Close(v) ==
    /\ entry[v] # Blank /\ closed[v] = None
    /\ \E p \in Reviewers :
          /\ p # entry[v].by \/ p \in Owners
          /\ closed' = [closed EXCEPT ![v] = p]
    /\ UNCHANGED <<entry, verdict>>

TrailNext == \E v \in Reveals : Record(v) \/ Judge(v) \/ Close(v)

TrailSpec == TrailInit /\ [][TrailNext]_trailVars
=============================================================================
