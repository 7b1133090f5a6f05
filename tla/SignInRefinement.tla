--------------------------- MODULE SignInRefinement ---------------------------
(***************************************************************************)
(* How the rows and sessions of SignIn are the door of FrontDoor: a token  *)
(* is spent when its row is marked consumed, whoever's request did it; a   *)
(* pending challenge gives nobody anything.                                *)
(***************************************************************************)
EXTENDS SignIn

Spent(t) == IF t \in Links THEN link[t].consumed ELSE code[t].consumed

Recipients ==
    [t \in Tokens |-> IF t \in Codes THEN [user |-> code[t].user, browser |-> sent_to[t]]
                      ELSE [user |-> link[t].user, browser |-> None]]

Consumed == [t \in Tokens |-> Spent(t)]

Face(s) == [user |-> s.user, verified |-> s.verified]

Acting == [b \in Browsers |-> Face(session[b])]

\* What a request of the browser has loaded can be saved while its row is there.
Keeps(r, b) == req[r] # Idle /\ req[r].browser = b /\ req[r].saw.key # Lost

Carried ==
    [b \in Browsers |-> {Face(session[b])} \cup {Face(req[r].saw) : r \in {q \in Requests : Keeps(q, b)}}]

Door == INSTANCE FrontDoor WITH
    MaxTries <- MaxAttempts,
    sent     <- Recipients,
    spent    <- Consumed,
    opened   <- entered,
    tries    <- judged,
    acting   <- Acting,
    held     <- Carried

\* Signing in keeps the promise of FrontDoor: every step of the handlers, in
\* whatever order they interleave, is one of its moves or none.
KeepsTheDoor == Door!DoorSpec
=============================================================================
