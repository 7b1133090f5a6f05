---------------------------- MODULE SignInProofs ----------------------------
(***************************************************************************)
(* Theorems about SignIn, for any users, browsers, requests and tokens:    *)
(* first the rows, then the three promises of a token.                     *)
(***************************************************************************)
EXTENDS SignInRefinement, FiniteSetTheorems, TLAPS

\* Who is in a phase is a request.
LEMMA BusyIsRequest ==
    ASSUME TypeOK, NEW r \in Requests, req[r].phase # "idle"
    PROVE  req[r] \in Request /\ req[r] # Idle
BY DEF TypeOK, Idle

\* What a request holds in each phase.
TokenKinds ==
    \A r \in Requests :
        /\ req[r].phase \in {"link", "claimed"} => req[r].token \in Links
        /\ req[r].phase \in {"sent", "code", "counted", "last", "drop"} => req[r].token \in Codes
        /\ req[r].phase = "password" => req[r].token = None

Typed == TypeOK /\ TokenKinds

LEMMA TypeInit == Init => Typed
BY SignInAssumption DEF Init, Typed, TokenKinds, TypeOK, Account, Code, Link, Device, Session, Anonymous, Idle, Tokens

\* A request that arrives, moves on or ends leaves the others as they are.
Phases == {"link", "claimed", "password", "sent", "code", "counted", "last", "drop", "admitted"}

LEMMA Moves ==
    ASSUME TypeOK, NEW r \in Requests
    PROVE  /\ End(r) \in [Requests -> Request \cup {Idle}]
           /\ \A q \in Request : [req EXCEPT ![r] = q] \in [Requests -> Request \cup {Idle}]
           /\ req[r].phase # "idle" =>
                \A p \in Phases : Goto(r, p) \in [Requests -> Request \cup {Idle}]
<1>1. \A q \in Request \cup {Idle} : [req EXCEPT ![r] = q] \in [Requests -> Request \cup {Idle}]
    BY DEF TypeOK
<1>2. ASSUME req[r].phase # "idle", NEW p \in Phases
      PROVE  Goto(r, p) \in [Requests -> Request \cup {Idle}]
    <2>1. req[r] \in Request
        BY <1>2, BusyIsRequest
    <2>2. [req[r] EXCEPT !.phase = p] \in Request
        BY <2>1 DEF Request, Phases
    <2>3. Goto(r, p) = [req EXCEPT ![r] = [req[r] EXCEPT !.phase = p]]
        BY DEF Goto
    <2> QED
        BY <1>1, <2>2, <2>3
<1> QED
    BY <1>1, <1>2 DEF End

\* One column of one row written: the table stays a table.
LEMMA RowsMarked ==
    ASSUME TypeOK, NEW t
    PROVE  /\ [link EXCEPT ![t].consumed = TRUE] \in [Links -> Link]
           /\ [link EXCEPT ![t].expired = TRUE] \in [Links -> Link]
           /\ [code EXCEPT ![t].consumed = TRUE] \in [Codes -> Code]
           /\ [code EXCEPT ![t].expired = TRUE] \in [Codes -> Code]
           /\ \A u \in Users \cup {None} : /\ [code EXCEPT ![t].user = u] \in [Codes -> Code]
                                       /\ [link EXCEPT ![t].user = u] \in [Links -> Link]
<1>1. \A row \in Link : \A u \in Users \cup {None} :
         /\ [row EXCEPT !.consumed = TRUE] \in Link /\ [row EXCEPT !.expired = TRUE] \in Link
         /\ [row EXCEPT !.user = u] \in Link
    BY DEF Link
<1>2. \A row \in Code : \A u \in Users \cup {None} :
         /\ [row EXCEPT !.consumed = TRUE] \in Code /\ [row EXCEPT !.expired = TRUE] \in Code
         /\ [row EXCEPT !.user = u] \in Code
    BY DEF Code
<1>4. link \in [Links -> Link] /\ code \in [Codes -> Code]
    BY DEF TypeOK
<1>5. \A u \in Users \cup {None} :
         /\ [link EXCEPT ![t].consumed = TRUE] \in [Links -> Link]
         /\ [link EXCEPT ![t].expired = TRUE] \in [Links -> Link]
         /\ [link EXCEPT ![t].user = u] \in [Links -> Link]
    BY <1>1, <1>4
<1>6. \A u \in Users \cup {None} :
         /\ [code EXCEPT ![t].consumed = TRUE] \in [Codes -> Code]
         /\ [code EXCEPT ![t].expired = TRUE] \in [Codes -> Code]
         /\ [code EXCEPT ![t].user = u] \in [Codes -> Code]
    BY <1>2, <1>4
<1> QED
    BY <1>5, <1>6

\* What a session says, but for the key it is saved under.
Says(s) == [user |-> s.user, pending |-> s.pending, verified |-> s.verified]

LEMMA LosingIsTyped ==
    ASSUME TypeOK, NEW k
    PROVE  Losing(k) \in [Requests -> Request \cup {Idle}]
<1>1. \A q \in Request : [q EXCEPT !.saw.key = Lost] \in Request
    BY DEF Request, Session
<1> QED
    BY <1>1 DEF Losing, TypeOK

\* A row that is deleted leaves what its requests hold, but for the key.
LEMMA LosingOnly ==
    ASSUME TypeOK
    PROVE  \A k : \A q \in Requests :
              LET then == Losing(k)[q]
              IN  /\ then.phase = req[q].phase
                  /\ then.token = req[q].token
                  /\ then = Idle <=> req[q] = Idle
                  /\ req[q] # Idle => /\ Says(then.saw) = Says(req[q].saw)
                                     /\ then.saw.key \in {req[q].saw.key, Lost}
                                     /\ then.user = req[q].user
                                     /\ then.browser = req[q].browser
<1>1. \A q \in Request :
         LET then == [q EXCEPT !.saw.key = Lost]
         IN  /\ then.phase = q.phase /\ then.token = q.token /\ then.saw.user = q.saw.user
             /\ then.saw.pending = q.saw.pending /\ then.saw.verified = q.saw.verified
             /\ then.saw.key = Lost
             /\ then.user = q.user /\ then.browser = q.browser /\ then.phase # "idle"
    BY DEF Request, Session
<1>2. Idle.phase = "idle"
    BY DEF Idle
<1>3. \A q \in Requests : req[q] # Idle => req[q] \in Request
    BY DEF TypeOK
<1>4. ASSUME NEW k, NEW q \in Requests
      PROVE  \/ Losing(k)[q] = req[q]
             \/ req[q] # Idle /\ Losing(k)[q] = [req[q] EXCEPT !.saw.key = Lost]
    BY <1>4 DEF Losing
<1> SUFFICES ASSUME NEW k, NEW q \in Requests
             PROVE  LET then == Losing(k)[q]
                    IN  /\ then.phase = req[q].phase
                        /\ then.token = req[q].token
                        /\ then = Idle <=> req[q] = Idle
                        /\ req[q] # Idle => /\ Says(then.saw) = Says(req[q].saw)
                                           /\ then.saw.key \in {req[q].saw.key, Lost}
                                           /\ then.user = req[q].user
                                           /\ then.browser = req[q].browser
    OBVIOUS
<1>5. CASE Losing(k)[q] = req[q]
    BY <1>5
<1>6. CASE req[q] # Idle /\ Losing(k)[q] = [req[q] EXCEPT !.saw.key = Lost]
    <2>1. PICK p \in Request : p = req[q]
        BY <1>3, <1>6
    <2>2. PICK then : then = [p EXCEPT !.saw.key = Lost]
        OBVIOUS
    <2>3. /\ then.phase = p.phase /\ then.token = p.token /\ then.saw.user = p.saw.user
          /\ then.saw.pending = p.saw.pending /\ then.saw.verified = p.saw.verified
          /\ then.saw.key = Lost
          /\ then.user = p.user /\ then.browser = p.browser /\ then # Idle
        BY <1>1, <1>2, <2>2
    <2> QED
        BY <1>6, <2>1, <2>2, <2>3 DEF Says
<1> QED
    BY <1>4, <1>5, <1>6

\* Whatever key it is saved under, a session says what the request had in memory.
LEMMA SaveWrites ==
    ASSUME TypeOK, NEW r \in Requests, req[r] \in Request, NEW s \in Session, SaveSession(r, s)
    PROVE  /\ session' \in [Browsers -> Session] /\ changes' \in 0 .. Changes
           /\ \A b \in Browsers : b # req[r].browser => session'[b] = session[b]
           /\ \/ s.key = Lost /\ UNCHANGED session
              \/ s.key # Lost /\ Says(session'[req[r].browser]) = Says(s)
<1>1. changes' \in 0 .. Changes
    BY SignInAssumption DEF SaveSession, Change, TypeOK
<1>2. req[r].browser \in Browsers /\ session \in [Browsers -> Session]
    BY DEF Request, TypeOK
<1>3. CASE s.key = Lost /\ UNCHANGED session
    BY <1>1, <1>2, <1>3
<1>4. ASSUME NEW u \in Session, session' = [session EXCEPT ![req[r].browser] = u],
             Says(u) = Says(s), s.key # Lost
      PROVE  /\ session' \in [Browsers -> Session]
             /\ \A b \in Browsers : b # req[r].browser => session'[b] = session[b]
             /\ Says(session'[req[r].browser]) = Says(s)
    BY <1>2, <1>4
<1>5. CASE s.key \in Keys /\ session' = [session EXCEPT ![req[r].browser] = s]
    BY <1>1, <1>4, <1>5, SignInAssumption
<1>6. ASSUME s.key = None, NEW k \in Keys, session' = [session EXCEPT ![req[r].browser] = [s EXCEPT !.key = k]]
      PROVE  /\ session' \in [Browsers -> Session]
             /\ \A b \in Browsers : b # req[r].browser => session'[b] = session[b]
             /\ s.key # Lost /\ Says(session'[req[r].browser]) = Says(s)
    <2>1. PICK u : u = [s EXCEPT !.key = k]
        OBVIOUS
    <2>2. u \in Session /\ u.user = s.user /\ u.pending = s.pending /\ u.verified = s.verified
        BY <2>1 DEF Session
    <2>3. Says(u) = Says(s)
        BY <2>2 DEF Says
    <2>4. s.key # Lost
        BY <1>6, SignInAssumption
    <2> QED
        BY <1>4, <1>6, <2>1, <2>2, <2>3, <2>4
<1> QED
    BY <1>1, <1>3, <1>5, <1>6 DEF SaveSession

\* Who has been let in leaves, and the others hold what they held.
LEMMA LoginLeaves ==
    ASSUME TypeOK, NEW r \in Requests, Login(r)
    PROVE  /\ req' \in [Requests -> Request \cup {Idle}]
           /\ req'[r] = Idle
           /\ \A q \in Requests : q # r =>
                 /\ req'[q].phase = req[q].phase /\ req'[q].token = req[q].token
                 /\ req'[q] = Idle <=> req[q] = Idle
                 /\ req[q] # Idle => /\ Says(req'[q].saw) = Says(req[q].saw)
                                    /\ req'[q].saw.key \in {req[q].saw.key, Lost}
                                    /\ req'[q].user = req[q].user /\ req'[q].browser = req[q].browser
<1>1. req \in [Requests -> Request \cup {Idle}]
    BY DEF TypeOK
<1>2. CASE req' = [req EXCEPT ![r] = Idle]
    BY <1>1, <1>2
<1>3. ASSUME NEW k, req' = [Losing(k) EXCEPT ![r] = Idle]
      PROVE  /\ req' \in [Requests -> Request \cup {Idle}] /\ req'[r] = Idle
             /\ \A q \in Requests : q # r => req'[q] = Losing(k)[q]
    BY <1>3, LosingIsTyped
<1>4. CASE ~Ones(r)
    BY <1>3, <1>4, LosingOnly DEF Login
<1> QED
    BY <1>2, <1>4 DEF Login

LEMMA EnteringIsSession ==
    ASSUME TypeOK, NEW r \in Requests, req[r] \in Request
    PROVE  Kept(r) \in Session /\ Entering(r) \in Session
<1>1. req[r].user \in Users \cup {None} /\ req[r].saw \in Session
    BY DEF Request
<1>2. Kept(r) \in Session
    BY <1>1 DEF Kept, Anonymous, Session
<1> QED
    BY <1>1, <1>2 DEF Entering, ByCode, Session

\* A request that moves on keeps what it holds; one that ends holds nothing.
LEMMA Ends ==
    ASSUME TypeOK, NEW r \in Requests, req' = End(r)
    PROVE  /\ req'[r] = Idle
           /\ \A q \in Requests : q # r => req'[q] = req[q]
BY DEF TypeOK, End

LEMMA GoesTo ==
    ASSUME TypeOK, NEW r \in Requests, req[r].phase # "idle",
           NEW p \in Phases, req' = Goto(r, p)
    PROVE  /\ req'[r].phase = p /\ req'[r] # Idle
           /\ req'[r].token = req[r].token /\ req'[r].saw = req[r].saw
           /\ req'[r].user = req[r].user /\ req'[r].browser = req[r].browser
           /\ \A q \in Requests : q # r => req'[q] = req[q]
<1>1. req[r] \in Request
    BY BusyIsRequest
<1>2. Idle.phase \notin Phases
    BY DEF Idle, Phases
<1> QED
    BY <1>1, <1>2 DEF TypeOK, Goto, Request, Phases

LEMMA OneMoreCompared ==
    ASSUME TypeOK, NEW c, Compared(c)
    PROVE  judged' \in [Codes -> Nat]
<1>1. judged \in [Codes -> Nat]
    BY DEF TypeOK
<1>2. judged' = [judged EXCEPT ![c] = judged[c] + 1]
    BY DEF Compared
<1>3. \A d \in Codes : judged[d] + 1 \in Nat
    BY <1>1
<1> QED
    BY <1>1, <1>2, <1>3

LEMMA TypeStep == Typed /\ [Next]_vars => TypeOK'
<1> SUFFICES ASSUME TypeOK, TokenKinds, [Next]_vars PROVE TypeOK'
    BY DEF Typed
<1> USE SignInAssumption DEF rows, history, In
<1>link. ASSUME NEW r \in Requests, LinkStep(r) PROVE TypeOK'
    <2>1. ASSUME NEW b \in Browsers, NEW l \in Links, LoadLink(r, b, l) PROVE TypeOK'
        BY <2>1 DEF LoadLink, Arrive, TypeOK, Request, Link, Tokens
    <2>2. CASE ClaimLink(r)
        <3>1. req' \in [Requests -> Request \cup {Idle}]
            BY <2>2, Moves DEF Phases, ClaimLink
        <3>2. link' \in [Links -> Link]
            <4>1. link' = link \/ link' = [link EXCEPT ![req[r].token].consumed = TRUE]
                BY <2>2 DEF ClaimLink
            <4>2. [link EXCEPT ![req[r].token].consumed = TRUE] \in [Links -> Link]
                BY RowsMarked
            <4> QED
                BY <4>1, <4>2 DEF TypeOK
        <3> QED
            BY <2>2, <3>1, <3>2 DEF ClaimLink, TypeOK
    <2>3. CASE AdmitCustomer(r)
        <3>1. req' \in [Requests -> Request \cup {Idle}]
            BY <2>3, Moves DEF Phases, AdmitCustomer
        <3> QED
            BY <2>3, <3>1 DEF AdmitCustomer, TypeOK
    <2> QED
        BY <1>link, <2>1, <2>2, <2>3 DEF LinkStep
<1>password. ASSUME NEW r \in Requests, PasswordStep(r) PROVE TypeOK'
    <2>1. ASSUME NEW b \in Browsers, NEW u \in Users, LoadPassword(r, b, u) PROVE TypeOK'
        BY <2>1 DEF LoadPassword, Arrive, TypeOK, Request
    <2>2. ASSUME NEW d \in Devices \cup {None}, AdmitUnchallenged(r, d) PROVE TypeOK'
        <3>1. req' \in [Requests -> Request \cup {Idle}]
            BY <2>2, Moves DEF Phases, AdmitUnchallenged
        <3> QED
            BY <2>2, <3>1 DEF AdmitUnchallenged, TypeOK
    <2>3. ASSUME NEW d \in Devices \cup {None}, NEW c \in Codes, Challenge(r, d, c) PROVE TypeOK'
        <3>1. req[r] \in Request
            BY <2>3, BusyIsRequest DEF Challenge
        <3>2. [req[r] EXCEPT !.phase = "sent", !.token = c] \in Request
            BY <3>1 DEF Request, Tokens
        <3>3. req' = [req EXCEPT ![r] = [req[r] EXCEPT !.phase = "sent", !.token = c]]
            BY <2>3 DEF Challenge, SendChallenge
        <3>4. req' \in [Requests -> Request \cup {Idle}]
            BY <3>2, <3>3, Moves
        <3>5. code' \in [Codes -> Code]
            BY <2>3, <3>1, RowsMarked DEF Challenge, SendChallenge, Request
        <3>6. sent_to' \in [Codes -> Browsers \cup {None}]
            BY <2>3, <3>1 DEF Challenge, SendChallenge, Request, TypeOK
        <3> QED
            BY <2>3, <3>4, <3>5, <3>6 DEF Challenge, SendChallenge, TypeOK
    <2>4. ASSUME NEW b \in Browsers, NEW c \in Codes, Resend(r, b, c) PROVE TypeOK'
        <3>1. session[b] \in Session /\ session[b].pending \in Codes
            BY <2>4 DEF Resend, TypeOK, Session
        <3>2. code[session[b].pending].user \in Users \cup {None}
            BY <3>1 DEF TypeOK, Code
        <3>3. [phase |-> "sent", browser |-> b, saw |-> session[b],
               user |-> code[session[b].pending].user, token |-> c] \in Request
            BY <3>1, <3>2 DEF Request, Tokens
        <3>4. req' \in [Requests -> Request \cup {Idle}]
            BY <2>4, <3>3, Moves DEF Phases, Resend
        <3>5. code' \in [Codes -> Code]
            BY <2>4, <3>2, RowsMarked DEF Resend
        <3>6. sent_to' \in [Codes -> Browsers \cup {None}]
            BY <2>4 DEF Resend, TypeOK
        <3> QED
            BY <2>4, <3>4, <3>5, <3>6 DEF Resend, TypeOK
    <2>5. CASE SavePending(r)
        <3>1. req' \in [Requests -> Request \cup {Idle}]
            BY <2>5, Moves DEF Phases, SavePending
        <3>2. session' \in [Browsers -> Session] /\ changes' \in 0 .. Changes
            <4>1. req[r] \in Request /\ req[r].saw \in Session /\ req[r].token \in Codes
                BY <2>5, BusyIsRequest DEF SavePending, TokenKinds, Request
            <4>2. [req[r].saw EXCEPT !.pending = req[r].token] \in Session
                BY <4>1 DEF Session
            <4> QED
                BY <2>5, <4>1, <4>2, SaveWrites DEF SavePending
        <3> QED
            BY <2>5, <3>1, <3>2 DEF SavePending, TypeOK
    <2> QED
        BY <1>password, <2>1, <2>2, <2>3, <2>4, <2>5 DEF PasswordStep
<1>code. ASSUME NEW r \in Requests, CodeStep(r) PROVE TypeOK'
    <2>1. ASSUME NEW b \in Browsers, LoadCode(r, b) PROVE TypeOK'
        <3>1. session[b] \in Session /\ session[b].pending \in Codes
            BY <2>1 DEF LoadCode, TypeOK, Session
        <3>2. code[session[b].pending].user \in Users \cup {None}
            BY <3>1 DEF TypeOK, Code
        <3>3. \A p \in {"code", "drop"} :
                 [phase |-> p, browser |-> b, saw |-> session[b],
                  user |-> code[session[b].pending].user, token |-> session[b].pending] \in Request
            BY <3>1, <3>2 DEF Request, Tokens
        <3>4. req' \in [Requests -> Request \cup {Idle}]
            BY <2>1, <3>3, Moves DEF Phases, LoadCode, Arrive
        <3> QED
            BY <2>1, <3>4 DEF LoadCode, TypeOK
    <2>2. CASE CountGuess(r)
        <3>1. req[r].token \in Codes
            BY <2>2 DEF CountGuess, TokenKinds
        <3>2. req' \in [Requests -> Request \cup {Idle}]
            BY <2>2, Moves DEF Phases, CountGuess, Failed
        <3>3. code' \in [Codes -> Code]
            <4>1. CASE GuessLeft(req[r].token)
                <5>1. code[req[r].token] \in Code
                      /\ code[req[r].token].attempts + 1 \in 0 .. MaxAttempts
                    BY <3>1, <4>1 DEF GuessLeft, TypeOK, Code
                <5>2. [code[req[r].token] EXCEPT !.attempts = code[req[r].token].attempts + 1] \in Code
                    BY <5>1 DEF Code
                <5>3. code' = [code EXCEPT ![req[r].token] =
                                 [code[req[r].token] EXCEPT !.attempts = code[req[r].token].attempts + 1]]
                    BY <2>2, <4>1 DEF CountGuess
                <5> QED
                    BY <5>2, <5>3 DEF TypeOK
            <4> QED
                BY <2>2, <4>1 DEF CountGuess, TypeOK
        <3> QED
            BY <2>2, <3>2, <3>3 DEF CountGuess, TypeOK
    <2>3. CASE WrongGuess(r)
        <3>1. req' \in [Requests -> Request \cup {Idle}]
            BY <2>3, Moves DEF Phases, WrongGuess, Failed, Comparing
        <3> QED
            BY <2>3, <3>1, OneMoreCompared DEF WrongGuess, TypeOK
    <2>4. CASE RightGuess(r)
        <3>1. req' \in [Requests -> Request \cup {Idle}]
            BY <2>4, Moves DEF Phases, RightGuess, Failed, Comparing
        <3>2. code' \in [Codes -> Code]
            <4>1. code' = code \/ code' = [code EXCEPT ![req[r].token].consumed = TRUE]
                BY <2>4 DEF RightGuess
            <4>2. [code EXCEPT ![req[r].token].consumed = TRUE] \in [Codes -> Code]
                BY RowsMarked
            <4> QED
                BY <4>1, <4>2 DEF TypeOK
        <3> QED
            BY <2>4, <3>1, <3>2, OneMoreCompared DEF RightGuess, TypeOK
    <2>5. CASE DropPending(r)
        <3>1. req' \in [Requests -> Request \cup {Idle}]
            BY <2>5, Moves DEF Phases, DropPending
        <3>2. session' \in [Browsers -> Session] /\ changes' \in 0 .. Changes
            <4>1. req[r] \in Request /\ req[r].saw \in Session
                BY <2>5, BusyIsRequest DEF DropPending, Request
            <4>2. [req[r].saw EXCEPT !.pending = None] \in Session
                BY <4>1 DEF Session
            <4> QED
                BY <2>5, <4>1, <4>2, SaveWrites DEF DropPending
        <3> QED
            BY <2>5, <3>1, <3>2 DEF DropPending, TypeOK
    <2> QED
        BY <1>code, <2>1, <2>2, <2>3, <2>4, <2>5 DEF CodeStep
<1>login. ASSUME NEW r \in Requests, Login(r) PROVE TypeOK'
    <2>1. req[r] \in Request /\ req[r].browser \in Browsers /\ req[r].user \in Users \cup {None}
          /\ req[r].saw \in Session /\ req[r].token \in Tokens \cup {None}
        BY <1>login, BusyIsRequest DEF Login, Request
    <2>3. session' \in [Browsers -> Session] /\ changes' \in 0 .. Changes
        BY <1>login, <2>1, EnteringIsSession, SaveWrites DEF Login
    <2>5. req' \in [Requests -> Request \cup {Idle}]
        BY <1>login, LoginLeaves
    <2>6. entered' \in [Tokens -> Nat]
        BY <1>login, <2>1 DEF Login, TypeOK
    <2>7. device' \in [Devices -> Device]
        <3>1. [user |-> req[r].user, trusted |-> TRUE] \in Device
            BY <2>1 DEF Device
        <3> QED
            BY <1>login, <3>1 DEF Login, Remember, TypeOK
    <2> QED
        BY <1>login, <2>3, <2>5, <2>6, <2>7 DEF Login, TypeOK
<1>abandon. ASSUME NEW r \in Requests, Abandon(r) PROVE TypeOK'
    <2>1. req' \in [Requests -> Request \cup {Idle}]
        BY <1>abandon, Moves DEF Phases, Abandon
    <2> QED
        BY <1>abandon, <2>1 DEF Abandon, Change, TypeOK
<1>outside. ASSUME Outside PROVE TypeOK'
    <2>1. ASSUME NEW u \in Users, NEW l \in Links, RequestLink(u, l) PROVE TypeOK'
        <3>1. [link EXCEPT ![l].user = u] \in [Links -> Link]
            BY RowsMarked
        <3> QED
            BY <2>1, <3>1 DEF RequestLink, TypeOK
    <2>2. ASSUME NEW u \in Users, NEW a \in Account, ChangeAccount(u, a) PROVE TypeOK'
        BY <2>2 DEF ChangeAccount, Change, TypeOK
    <2>3. ASSUME NEW c \in Codes, ExpireCode(c) PROVE TypeOK'
        <3>1. [code EXCEPT ![c].expired = TRUE] \in [Codes -> Code]
            BY RowsMarked
        <3> QED
            BY <2>3, <3>1 DEF ExpireCode, Change, TypeOK
    <2>4. ASSUME NEW l \in Links, ExpireLink(l) PROVE TypeOK'
        <3>1. [link EXCEPT ![l].expired = TRUE] \in [Links -> Link]
            BY RowsMarked
        <3> QED
            BY <2>4, <3>1 DEF ExpireLink, Change, TypeOK
    <2>5. ASSUME NEW d \in Devices, DistrustDevice(d) PROVE TypeOK'
        <3>0. device[d] \in Device
            BY DEF TypeOK
        <3>1. [device[d] EXCEPT !.trusted = FALSE] \in Device
            BY <3>0 DEF Device
        <3> QED
            BY <2>5, <3>1 DEF DistrustDevice, Change, TypeOK
    <2>6. ASSUME NEW b \in Browsers, Logout(b) PROVE TypeOK'
        <3>1. Losing(session[b].key) \in [Requests -> Request \cup {Idle}]
            BY LosingIsTyped
        <3> QED
            BY <2>6, <3>1 DEF Logout, Change, TypeOK, Anonymous, Session
    <2> QED
        BY <1>outside, <2>1, <2>2, <2>3, <2>4, <2>5, <2>6 DEF Outside
<1>stutter. CASE UNCHANGED vars
    BY <1>stutter DEF vars, TypeOK
<1> QED
    BY <1>link, <1>password, <1>code, <1>login, <1>abandon, <1>outside, <1>stutter DEF Next

LEMMA KindStep == Typed /\ [Next]_vars => TokenKinds'
<1> SUFFICES ASSUME TypeOK, TokenKinds, [Next]_vars PROVE TokenKinds'
    BY DEF Typed
<1> USE DEF In
<1>idle. Idle.phase = "idle"
    BY DEF Idle
<1>0. req \in [Requests -> Request \cup {Idle}]
    BY DEF TypeOK
<1>link. ASSUME NEW r \in Requests, LinkStep(r) PROVE TokenKinds'
    <2>1. ASSUME NEW b \in Browsers, NEW l \in Links, LoadLink(r, b, l) PROVE TokenKinds'
        BY <1>idle, <1>0, <2>1 DEF LoadLink, Arrive, TokenKinds
    <2>2. CASE ClaimLink(r)
        <3>1. CASE req' = Goto(r, "claimed")
            BY <1>idle, <2>2, <3>1, GoesTo DEF ClaimLink, TokenKinds, Phases
        <3>2. CASE req' = End(r)
            BY <1>idle, <2>2, <3>2, Ends DEF ClaimLink, TokenKinds
        <3> QED
            BY <2>2, <3>1, <3>2 DEF ClaimLink
    <2>3. CASE AdmitCustomer(r)
        BY <1>idle, <1>0, <2>3 DEF AdmitCustomer, TokenKinds, Goto, End
    <2> QED
        BY <1>link, <2>1, <2>2, <2>3 DEF LinkStep
<1>password. ASSUME NEW r \in Requests, PasswordStep(r) PROVE TokenKinds'
    <2>1. ASSUME NEW b \in Browsers, NEW u \in Users, LoadPassword(r, b, u) PROVE TokenKinds'
        BY <1>idle, <1>0, <2>1 DEF LoadPassword, Arrive, TokenKinds
    <2>2. ASSUME NEW d \in Devices \cup {None}, AdmitUnchallenged(r, d) PROVE TokenKinds'
        BY <1>idle, <1>0, <2>2 DEF AdmitUnchallenged, TokenKinds, Goto
    <2>3. ASSUME NEW d \in Devices \cup {None}, NEW c \in Codes, Challenge(r, d, c)
          PROVE  TokenKinds'
        BY <1>idle, <1>0, <2>3 DEF Challenge, SendChallenge, TokenKinds
    <2>4. ASSUME NEW b \in Browsers, NEW c \in Codes, Resend(r, b, c) PROVE TokenKinds'
        BY <1>idle, <1>0, <2>4 DEF Resend, TokenKinds
    <2>5. CASE SavePending(r)
        BY <1>idle, <1>0, <2>5 DEF SavePending, TokenKinds, End
    <2> QED
        BY <1>password, <2>1, <2>2, <2>3, <2>4, <2>5 DEF PasswordStep
<1>code. ASSUME NEW r \in Requests, CodeStep(r) PROVE TokenKinds'
    <2>1. ASSUME NEW b \in Browsers, LoadCode(r, b) PROVE TokenKinds'
        <3>1. session[b].pending \in Codes
            BY <2>1 DEF LoadCode, TypeOK, Session
        <3> QED
            BY <1>idle, <1>0, <2>1, <3>1 DEF LoadCode, Arrive, TokenKinds
    <2>2. CASE CountGuess(r)
        <3>1. ASSUME NEW p \in {"counted", "last", "drop"}, req' = Goto(r, p) PROVE TokenKinds'
            BY <1>idle, <2>2, <3>1, GoesTo DEF CountGuess, TokenKinds, Phases
        <3>2. CASE req' = End(r)
            BY <1>idle, <2>2, <3>2, Ends DEF CountGuess, TokenKinds
        <3> QED
            BY <2>2, <3>1, <3>2 DEF CountGuess, Failed
    <2>3. CASE WrongGuess(r)
        <3>1. CASE req' = Goto(r, "drop")
            BY <1>idle, <2>3, <3>1, GoesTo DEF WrongGuess, Comparing, TokenKinds, Phases
        <3>2. CASE req' = End(r)
            BY <1>idle, <2>3, <3>2, Ends DEF WrongGuess, TokenKinds
        <3> QED
            BY <2>3, <3>1, <3>2 DEF WrongGuess, Failed
    <2>4. CASE RightGuess(r)
        <3>1. ASSUME NEW p \in {"admitted", "drop"}, req' = Goto(r, p) PROVE TokenKinds'
            BY <1>idle, <2>4, <3>1, GoesTo DEF RightGuess, Comparing, TokenKinds, Phases
        <3>2. CASE req' = End(r)
            BY <1>idle, <2>4, <3>2, Ends DEF RightGuess, TokenKinds
        <3> QED
            BY <2>4, <3>1, <3>2 DEF RightGuess, Failed
    <2>5. CASE DropPending(r)
        BY <1>idle, <1>0, <2>5 DEF DropPending, TokenKinds, End
    <2> QED
        BY <1>code, <2>1, <2>2, <2>3, <2>4, <2>5 DEF CodeStep
<1>gone. \A k : \A q \in Requests : Losing(k)[q].phase = req[q].phase /\ Losing(k)[q].token = req[q].token
    BY LosingOnly
<1>login. ASSUME NEW r \in Requests, Login(r) PROVE TokenKinds'
    <2>1. req'[r] = Idle
          /\ \A q \in Requests : q # r => req'[q].phase = req[q].phase /\ req'[q].token = req[q].token
        BY <1>login, LoginLeaves
    <2> QED
        BY <1>idle, <2>1 DEF TokenKinds
<1>abandon. ASSUME NEW r \in Requests, Abandon(r) PROVE TokenKinds'
    BY <1>idle, <1>0, <1>abandon DEF Abandon, TokenKinds, End
<1>logout. ASSUME NEW b \in Browsers, Logout(b) PROVE TokenKinds'
    BY <1>gone, <1>logout DEF Logout, TokenKinds
<1>other. CASE UNCHANGED req
    BY <1>other DEF TokenKinds
<1>outside. CASE Outside
    BY <1>outside, <1>logout, <1>other
    DEF Outside, RequestLink, ChangeAccount, ExpireCode, ExpireLink, DistrustDevice
<1> QED
    BY <1>link, <1>password, <1>code, <1>login, <1>abandon, <1>outside, <1>other DEF Next, vars

\* Every row, session and request of every instance holds what it can hold.
THEOREM SignInTypeCorrect == Spec => []TypeOK
<1>1. Typed /\ [Next]_vars => Typed'
    BY TypeStep, KindStep DEF Typed
<1>2. Typed => TypeOK
    BY DEF Typed
<1> QED
    BY TypeInit, <1>1, <1>2, PTL DEF Spec

-----------------------------------------------------------------------------
(* Guesses.  A guess is counted before it is compared: those compared and   *)
(* those about to be are no more than the attempts the row counts.         *)

Comparers(c) == {q \in Requests : Comparing(q) /\ req[q].token = c}

GuessesCounted == \A c \in Codes : judged[c] + Cardinality(Comparers(c)) <= code[c].attempts

LEMMA ComparersFinite ==
    ASSUME NEW c
    PROVE  IsFiniteSet(Comparers(c)) /\ Cardinality(Comparers(c)) \in Nat
<1>1. Comparers(c) \in SUBSET Requests
    BY DEF Comparers
<1>2. IsFiniteSet(Comparers(c))
    BY <1>1, SignInAssumption, FS_Subset
<1> QED
    BY <1>2, FS_CardinalityType

LEMMA ComparersFiniteNext ==
    ASSUME NEW c
    PROVE  IsFiniteSet(Comparers(c)') /\ Cardinality(Comparers(c)') \in Nat
<1>1. Comparers(c)' \in SUBSET Requests
    BY DEF Comparers
<1>2. IsFiniteSet(Comparers(c)')
    BY <1>1, SignInAssumption, FS_Subset
<1> QED
    BY <1>2, FS_CardinalityType

\* A step that compares nothing, and sends nobody to compare.
Quiet ==
    /\ judged' = judged
    /\ \A c \in Codes : code'[c].attempts = code[c].attempts
    /\ \A q \in Requests : Comparing(q)' => Comparing(q) /\ req'[q].token = req[q].token

LEMMA QuietKeepsCount ==
    ASSUME TypeOK, GuessesCounted, Quiet
    PROVE  GuessesCounted'
<1> SUFFICES ASSUME NEW c \in Codes
             PROVE  judged'[c] + Cardinality(Comparers(c)') <= code'[c].attempts
    BY DEF GuessesCounted, Comparers
<1>1. Comparers(c)' \in SUBSET Comparers(c)
    BY DEF Quiet, Comparers
<1>2. Cardinality(Comparers(c)') <= Cardinality(Comparers(c))
    BY <1>1, ComparersFinite, FS_Subset
<1>3. judged[c] \in Nat /\ code[c].attempts \in Nat
    BY SignInAssumption DEF TypeOK, Code
<1>4. judged'[c] = judged[c] /\ code'[c].attempts = code[c].attempts
    BY DEF Quiet
<1>5. judged[c] + Cardinality(Comparers(c)) <= code[c].attempts
    BY DEF GuessesCounted
<1> QED
    BY <1>2, <1>3, <1>4, <1>5, ComparersFinite, ComparersFiniteNext

LEMMA OnlyGuessesCompare ==
    ASSUME Typed, [Next]_vars,
           \A r \in Requests : ~CountGuess(r) /\ ~WrongGuess(r) /\ ~RightGuess(r)
    PROVE  Quiet
<1> USE DEF In, Comparing, rows, history, Typed
<1>idle. Idle.phase = "idle"
    BY DEF Idle
<1>0. req \in [Requests -> Request \cup {Idle}] /\ code \in [Codes -> Code]
    BY DEF TypeOK
<1>link. ASSUME NEW r \in Requests, LinkStep(r) PROVE Quiet
    <2>1. ASSUME NEW b \in Browsers, NEW l \in Links, LoadLink(r, b, l) PROVE Quiet
        BY <1>0, <2>1 DEF LoadLink, Arrive, Quiet
    <2>2. CASE ClaimLink(r)
        BY <1>idle, <2>2, Ends, GoesTo DEF ClaimLink, Quiet, Phases
    <2>3. CASE AdmitCustomer(r)
        BY <1>idle, <2>3, Ends, GoesTo DEF AdmitCustomer, Quiet, Phases
    <2> QED
        BY <1>link, <2>1, <2>2, <2>3 DEF LinkStep
<1>password. ASSUME NEW r \in Requests, PasswordStep(r) PROVE Quiet
    <2>1. ASSUME NEW b \in Browsers, NEW u \in Users, LoadPassword(r, b, u) PROVE Quiet
        BY <1>0, <2>1 DEF LoadPassword, Arrive, Quiet
    <2>2. ASSUME NEW d \in Devices \cup {None}, AdmitUnchallenged(r, d) PROVE Quiet
        BY <2>2, GoesTo DEF AdmitUnchallenged, Quiet, Phases
    <2>3. ASSUME NEW d \in Devices \cup {None}, NEW c \in Codes, Challenge(r, d, c) PROVE Quiet
        BY <1>0, <2>3 DEF Challenge, SendChallenge, Quiet, Code
    <2>4. ASSUME NEW b \in Browsers, NEW c \in Codes, Resend(r, b, c) PROVE Quiet
        BY <1>0, <2>4 DEF Resend, Quiet, Code
    <2>5. CASE SavePending(r)
        BY <1>idle, <2>5, Ends DEF SavePending, Quiet
    <2> QED
        BY <1>password, <2>1, <2>2, <2>3, <2>4, <2>5 DEF PasswordStep
<1>code. ASSUME NEW r \in Requests, CodeStep(r) PROVE Quiet
    <2>1. ASSUME NEW b \in Browsers, LoadCode(r, b) PROVE Quiet
        BY <1>0, <2>1 DEF LoadCode, Arrive, Quiet
    <2>2. CASE DropPending(r)
        BY <1>idle, <2>2, Ends DEF DropPending, Quiet
    <2> QED
        BY <1>code, <2>1, <2>2 DEF CodeStep
<1>login. ASSUME NEW r \in Requests, Login(r) PROVE Quiet
    <2>1. /\ req'[r] = Idle
          /\ \A q \in Requests : q # r => req'[q].phase = req[q].phase /\ req'[q].token = req[q].token
        BY <1>login, LoginLeaves
    <2> QED
        BY <1>idle, <1>login, <2>1 DEF Login, Quiet
<1>abandon. ASSUME NEW r \in Requests, Abandon(r) PROVE Quiet
    BY <1>idle, <1>abandon, Ends DEF Abandon, Quiet
<1>logout. ASSUME NEW b \in Browsers, Logout(b) PROVE Quiet
    <2>1. \A q \in Requests : req'[q].phase = req[q].phase /\ req'[q].token = req[q].token
        BY <1>logout, LosingOnly DEF Logout
    <2> QED
        BY <1>logout, <2>1 DEF Logout, Quiet
<1>expire. ASSUME NEW c \in Codes, ExpireCode(c) PROVE Quiet
    BY <1>0, <1>expire DEF ExpireCode, Quiet, Code
<1>other. CASE UNCHANGED <<req, code, judged>>
    BY <1>other DEF Quiet
<1>outside. CASE Outside
    BY <1>outside, <1>logout, <1>expire, <1>other
    DEF Outside, RequestLink, ChangeAccount, ExpireLink, DistrustDevice
<1> QED
    BY <1>link, <1>password, <1>code, <1>login, <1>abandon, <1>outside, <1>other DEF Next, vars

\* A guess compared is one fewer to compare.
LEMMA ComparedOnce ==
    ASSUME Typed, GuessesCounted, NEW r \in Requests, Comparing(r), Compared(req[r].token),
           \A c \in Codes : code'[c].attempts = code[c].attempts,
           ~Comparing(r)', \A q \in Requests : q # r => req'[q] = req[q]
    PROVE  GuessesCounted'
<1> SUFFICES ASSUME NEW c \in Codes
             PROVE  judged'[c] + Cardinality(Comparers(c)') <= code'[c].attempts
    BY DEF GuessesCounted, Comparers
<1>1. judged[c] \in Nat /\ code[c].attempts \in Nat
    BY SignInAssumption DEF Typed, TypeOK, Code
<1>2. judged[c] + Cardinality(Comparers(c)) <= code[c].attempts
    BY DEF GuessesCounted
<1>3. Comparers(c)' = Comparers(c) \ {r}
    BY DEF Comparers, Comparing, In
<1>4. CASE c = req[r].token
    <2>1. r \in Comparers(c)
        BY <1>4 DEF Comparers
    <2>2. Cardinality(Comparers(c)') = Cardinality(Comparers(c)) - 1
        BY <1>3, <2>1, ComparersFinite, FS_RemoveElement
    <2>3. judged'[c] = judged[c] + 1
        BY <1>4 DEF Compared, Typed, TypeOK
    <2> QED
        BY <1>1, <1>2, <2>2, <2>3, ComparersFinite
<1>5. CASE c # req[r].token
    <2>1. Comparers(c)' = Comparers(c)
        BY <1>3, <1>5 DEF Comparers
    <2>2. judged'[c] = judged[c]
        BY <1>5 DEF Compared, Typed, TypeOK
    <2> QED
        BY <1>2, <2>1, <2>2
<1> QED
    BY <1>4, <1>5

LEMMA CountStep == Typed /\ GuessesCounted /\ [Next]_vars => GuessesCounted'
<1> SUFFICES ASSUME Typed, GuessesCounted, [Next]_vars PROVE GuessesCounted'
    OBVIOUS
<1> USE DEF Typed
<1>idle. Idle.phase = "idle"
    BY DEF Idle
<1>count. ASSUME NEW r \in Requests, CountGuess(r) PROVE GuessesCounted'
    <2> DEFINE k == req[r].token
    <2>0. k \in Codes /\ code[k] \in Code /\ judged \in [Codes -> Nat]
        BY <1>count DEF CountGuess, TokenKinds, In, TypeOK
    <2>1. CASE GuessLeft(k)
        <3>1. PICK p \in {"counted", "last"} : req' = Goto(r, p)
            BY <1>count, <2>1 DEF CountGuess
        <3>2. req'[r].token = k /\ \A q \in Requests : q # r => req'[q] = req[q]
            BY <1>count, <1>idle, <3>1, GoesTo DEF CountGuess, In, Phases
        <3>3. ~Comparing(r)
            BY <1>count DEF CountGuess, Comparing, In
        <3>4. code'[k].attempts = code[k].attempts + 1
              /\ \A c \in Codes : c # k => code'[c] = code[c]
            BY <1>count, <2>0, <2>1 DEF CountGuess, TypeOK, Code
        <3> SUFFICES ASSUME NEW c \in Codes
                     PROVE  judged'[c] + Cardinality(Comparers(c)') <= code'[c].attempts
            BY DEF GuessesCounted, Comparers
        <3>5. judged[c] \in Nat /\ code[c].attempts \in Nat /\ judged' = judged
            BY <1>count, SignInAssumption DEF TypeOK, Code, CountGuess, history
        <3>6. judged[c] + Cardinality(Comparers(c)) <= code[c].attempts
            BY DEF GuessesCounted
        <3>7. CASE c = k
            <4>1. r \notin Comparers(c)
                BY <3>3 DEF Comparers
            <4>2. Comparers(c)' \in SUBSET (Comparers(c) \cup {r})
                BY <3>2 DEF Comparers, Comparing, In
            <4>3. IsFiniteSet(Comparers(c) \cup {r})
                  /\ Cardinality(Comparers(c) \cup {r}) = Cardinality(Comparers(c)) + 1
                BY <4>1, ComparersFinite, FS_AddElement
            <4>4. Cardinality(Comparers(c)') <= Cardinality(Comparers(c)) + 1
                BY <4>2, <4>3, FS_Subset
            <4> QED
                BY <3>4, <3>5, <3>6, <3>7, <4>4, ComparersFinite, ComparersFiniteNext
        <3>8. CASE c # k
            <4>1. Comparers(c)' = Comparers(c)
                BY <3>2, <3>3, <3>8 DEF Comparers, Comparing, In
            <4> QED
                BY <3>4, <3>5, <3>6, <3>8, <4>1
        <3> QED
            BY <3>7, <3>8
    <2>2. CASE ~GuessLeft(k)
        <3>1. req' = End(r) \/ req' = Goto(r, "drop")
            BY <1>count, <2>2 DEF CountGuess, Failed
        <3>2. ~Comparing(r)' /\ \A q \in Requests : q # r => req'[q] = req[q]
            BY <1>count, <1>idle, <3>1, Ends, GoesTo DEF CountGuess, Comparing, In, Phases
        <3>3. Quiet
            BY <1>count, <2>2, <3>2 DEF CountGuess, Quiet, Comparing, In, history
        <3> QED
            BY <3>3, QuietKeepsCount
    <2> QED
        BY <2>1, <2>2
<1>wrong. ASSUME NEW r \in Requests, WrongGuess(r) PROVE GuessesCounted'
    <2>1. req' = End(r) \/ req' = Goto(r, "drop")
        BY <1>wrong DEF WrongGuess, Failed
    <2>2. ~Comparing(r)' /\ \A q \in Requests : q # r => req'[q] = req[q]
        BY <1>wrong, <1>idle, <2>1, Ends, GoesTo DEF WrongGuess, Comparing, In, Phases
    <2> QED
        BY <1>wrong, <2>2, ComparedOnce DEF WrongGuess, rows
<1>right. ASSUME NEW r \in Requests, RightGuess(r) PROVE GuessesCounted'
    <2>1. req' = End(r) \/ \E p \in {"admitted", "drop"} : req' = Goto(r, p)
        BY <1>right DEF RightGuess, Failed
    <2>2. ~Comparing(r)' /\ \A q \in Requests : q # r => req'[q] = req[q]
        BY <1>right, <1>idle, <2>1, Ends, GoesTo DEF RightGuess, Comparing, In, Phases
    <2>3. \A c \in Codes : code'[c].attempts = code[c].attempts
        BY <1>right DEF RightGuess, TypeOK, Code
    <2> QED
        BY <1>right, <2>2, <2>3, ComparedOnce DEF RightGuess
<1> QED
    BY <1>count, <1>wrong, <1>right, OnlyGuessesCompare, QuietKeepsCount

LEMMA GuessInit == Init => GuessesCounted
<1> SUFFICES ASSUME Init, NEW c \in Codes
             PROVE  judged[c] + Cardinality(Comparers(c)) <= code[c].attempts
    BY DEF GuessesCounted
<1>1. Comparers(c) = {}
    BY DEF Init, Comparers, Comparing, In, Idle
<1> QED
    BY <1>1, FS_EmptySet DEF Init

\* However many requests guess at once, no code is compared with more than
\* MAX_ATTEMPTS guesses.
THEOREM GuessesAreLimited == Spec => []GuessesLimited
<1>1. Typed /\ GuessesCounted /\ [Next]_vars => (Typed /\ GuessesCounted)'
    BY TypeStep, KindStep, CountStep DEF Typed
<1>2. Typed /\ GuessesCounted => GuessesLimited
    <2> SUFFICES ASSUME Typed, GuessesCounted, NEW c \in Codes PROVE judged[c] <= MaxAttempts
        BY DEF GuessesLimited
    <2>1. judged[c] \in Nat /\ code[c].attempts \in 0 .. MaxAttempts
        BY DEF Typed, TypeOK, Code
    <2>2. judged[c] + Cardinality(Comparers(c)) <= code[c].attempts
        BY DEF GuessesCounted
    <2> QED
        BY <2>1, <2>2, ComparersFinite, SignInAssumption
<1> QED
    BY TypeInit, GuessInit, <1>1, <1>2, PTL DEF Spec

-----------------------------------------------------------------------------
(* One session for a token.  Whoever spends a token holds it until the     *)
(* session is written, and nobody spends it again.                         *)

Holds(q, t) == req[q].token = t /\ (In(q, "claimed") \/ In(q, "admitted"))

OneHolder ==
    \A t \in Tokens :
        /\ entered[t] <= 1
        /\ ~Spent(t) => entered[t] = 0
        /\ \A q \in Requests : Holds(q, t) => Spent(t) /\ entered[t] = 0
        /\ \A p, q \in Requests : Holds(p, t) /\ Holds(q, t) => p = q

\* A step that spends no token and gives none away.
Calm ==
    /\ entered' = entered
    /\ \A t \in Tokens : Spent(t)' = Spent(t)
    /\ \A q \in Requests : \A t \in Tokens : Holds(q, t)' => Holds(q, t)

LEMMA CalmKeepsHolders ==
    ASSUME OneHolder, Calm
    PROVE  OneHolder'
BY DEF OneHolder, Calm

LEMMA OnlySpendersHold ==
    ASSUME Typed, [Next]_vars,
           \A r \in Requests : ~ClaimLink(r) /\ ~RightGuess(r) /\ ~Login(r)
    PROVE  Calm
<1> USE DEF In, Holds, rows, history, Typed
<1>idle. Idle.phase = "idle"
    BY DEF Idle
<1>0. /\ req \in [Requests -> Request \cup {Idle}]
      /\ code \in [Codes -> Code] /\ link \in [Links -> Link]
    BY DEF TypeOK
<1>none. None \notin Tokens
    BY SignInAssumption
<1>kinds. \A t \in Tokens : t \notin Links => t \in Codes
    BY DEF Tokens
<1>same. ASSUME code' = code, link' = link PROVE \A t \in Tokens : Spent(t)' = Spent(t)
    BY <1>same DEF Spent
<1>codes. ASSUME \A c \in Codes : code'[c].consumed = code[c].consumed, link' = link
          PROVE  \A t \in Tokens : Spent(t)' = Spent(t)
    BY <1>codes, <1>kinds DEF Spent
<1>links. ASSUME \A l \in Links : link'[l].consumed = link[l].consumed, code' = code
          PROVE  \A t \in Tokens : Spent(t)' = Spent(t)
    BY <1>links DEF Spent
<1>link. ASSUME NEW r \in Requests, LinkStep(r) PROVE Calm
    <2>1. ASSUME NEW b \in Browsers, NEW l \in Links, LoadLink(r, b, l) PROVE Calm
        BY <1>0, <1>same, <2>1 DEF LoadLink, Arrive, Calm
    <2>2. CASE AdmitCustomer(r)
        <3>1. CASE req' = End(r)
            BY <1>idle, <1>same, <2>2, <3>1, Ends DEF AdmitCustomer, Calm
        <3>2. CASE req' = Goto(r, "admitted")
            <4>1. req'[r].token = req[r].token /\ \A q \in Requests : q # r => req'[q] = req[q]
                BY <2>2, <3>2, GoesTo DEF AdmitCustomer, Phases
            <4>2. \A q \in Requests : \A t \in Tokens : Holds(q, t)' => Holds(q, t)
                BY <2>2, <4>1 DEF AdmitCustomer
            <4> QED
                BY <1>same, <2>2, <4>2 DEF AdmitCustomer, Calm
        <3> QED
            BY <2>2, <3>1, <3>2 DEF AdmitCustomer
    <2> QED
        BY <1>link, <2>1, <2>2 DEF LinkStep
<1>password. ASSUME NEW r \in Requests, PasswordStep(r) PROVE Calm
    <2>1. ASSUME NEW b \in Browsers, NEW u \in Users, LoadPassword(r, b, u) PROVE Calm
        BY <1>0, <1>same, <2>1 DEF LoadPassword, Arrive, Calm
    <2>2. ASSUME NEW d \in Devices \cup {None}, AdmitUnchallenged(r, d) PROVE Calm
        BY <1>same, <1>none, <2>2, GoesTo DEF AdmitUnchallenged, Calm, Phases, TokenKinds
    <2>3. ASSUME NEW d \in Devices \cup {None}, NEW c \in Codes, Challenge(r, d, c) PROVE Calm
        <3>1. \A k \in Codes : code'[k].consumed = code[k].consumed
            BY <1>0, <2>3 DEF Challenge, SendChallenge, Code
        <3> QED
            BY <1>0, <1>codes, <2>3, <3>1 DEF Challenge, SendChallenge, Calm
    <2>4. ASSUME NEW b \in Browsers, NEW c \in Codes, Resend(r, b, c) PROVE Calm
        <3>1. \A k \in Codes : code'[k].consumed = code[k].consumed
            BY <1>0, <2>4 DEF Resend, Code
        <3> QED
            BY <1>0, <1>codes, <2>4, <3>1 DEF Resend, Calm
    <2>5. CASE SavePending(r)
        BY <1>idle, <1>same, <2>5, Ends DEF SavePending, Calm
    <2> QED
        BY <1>password, <2>1, <2>2, <2>3, <2>4, <2>5 DEF PasswordStep
<1>code. ASSUME NEW r \in Requests, CodeStep(r) PROVE Calm
    <2>1. ASSUME NEW b \in Browsers, LoadCode(r, b) PROVE Calm
        BY <1>0, <1>same, <2>1 DEF LoadCode, Arrive, Calm
    <2>2. CASE CountGuess(r)
        <3>1. \A k \in Codes : code'[k].consumed = code[k].consumed
            BY <1>0, <2>2 DEF CountGuess, Code
        <3>2. req' = End(r) \/ \E p \in {"counted", "last", "drop"} : req' = Goto(r, p)
            BY <2>2 DEF CountGuess, Failed
        <3>3. \A q \in Requests : \A t \in Tokens : Holds(q, t)' => Holds(q, t)
            BY <1>idle, <2>2, <3>2, Ends, GoesTo DEF CountGuess, Phases
        <3> QED
            BY <1>codes, <2>2, <3>1, <3>3 DEF CountGuess, Calm
    <2>3. CASE WrongGuess(r)
        <3>1. req' = End(r) \/ req' = Goto(r, "drop")
            BY <2>3 DEF WrongGuess, Failed
        <3> QED
            BY <1>idle, <1>same, <2>3, <3>1, Ends, GoesTo DEF WrongGuess, Comparing, Calm, Phases
    <2>4. CASE DropPending(r)
        BY <1>idle, <1>same, <2>4, Ends DEF DropPending, Calm
    <2> QED
        BY <1>code, <2>1, <2>2, <2>3, <2>4 DEF CodeStep
<1>abandon. ASSUME NEW r \in Requests, Abandon(r) PROVE Calm
    BY <1>idle, <1>same, <1>abandon, Ends DEF Abandon, Calm
<1>logout. ASSUME NEW b \in Browsers, Logout(b) PROVE Calm
    <2>1. \A q \in Requests : req'[q].phase = req[q].phase /\ req'[q].token = req[q].token
        BY <1>logout, LosingOnly DEF Logout
    <2> QED
        BY <1>same, <1>logout, <2>1 DEF Logout, Calm
<1>expire. ASSUME NEW c \in Codes, ExpireCode(c) PROVE Calm
    <2>1. \A k \in Codes : code'[k].consumed = code[k].consumed
        BY <1>0, <1>expire DEF ExpireCode, Code
    <2> QED
        BY <1>codes, <1>expire, <2>1 DEF ExpireCode, Calm
<1>expirelink. ASSUME NEW l \in Links, ExpireLink(l) PROVE Calm
    <2>1. \A k \in Links : link'[k].consumed = link[k].consumed
        BY <1>0, <1>expirelink DEF ExpireLink, Link
    <2> QED
        BY <1>links, <1>expirelink, <2>1 DEF ExpireLink, Calm
<1>request. ASSUME NEW u \in Users, NEW l \in Links, RequestLink(u, l) PROVE Calm
    <2>1. \A k \in Links : link'[k].consumed = link[k].consumed
        BY <1>0, <1>request DEF RequestLink, Link
    <2> QED
        BY <1>links, <1>request, <2>1 DEF RequestLink, Calm
<1>other. CASE UNCHANGED <<req, code, link, entered>>
    BY <1>same, <1>other DEF Calm
<1>outside. CASE Outside
    BY <1>outside, <1>logout, <1>expire, <1>expirelink, <1>request, <1>other
    DEF Outside, ChangeAccount, DistrustDevice
<1> QED
    BY <1>link, <1>password, <1>code, <1>abandon, <1>outside, <1>other DEF Next, vars

\* Whoever finds a token unspent, and spends it, is its only holder.
LEMMA Taken ==
    ASSUME OneHolder, NEW r \in Requests, NEW t \in Tokens, ~Spent(t), Spent(t)',
           \A s \in Tokens : s # t => Spent(s)' = Spent(s),
           entered' = entered, req'[r].token = t,
           \A q \in Requests : q # r => req'[q] = req[q]
    PROVE  OneHolder'
<1>1. \A q \in Requests : ~Holds(q, t)
    BY DEF OneHolder
<1>2. \A q \in Requests : Holds(q, t)' => q = r
    BY <1>1 DEF Holds, In
<1>3. \A q \in Requests : \A s \in Tokens : s # t => (Holds(q, s)' => Holds(q, s))
    BY DEF Holds, In
<1> QED
    BY <1>1, <1>2, <1>3 DEF OneHolder

LEMMA HolderStep == Typed /\ OneHolder /\ [Next]_vars => OneHolder'
<1> SUFFICES ASSUME Typed, OneHolder, [Next]_vars PROVE OneHolder'
    OBVIOUS
<1> USE DEF Typed
<1>idle. Idle.phase = "idle"
    BY DEF Idle
<1>0. code \in [Codes -> Code] /\ link \in [Links -> Link] /\ entered \in [Tokens -> Nat]
    BY DEF TypeOK
<1>claim. ASSUME NEW r \in Requests, ClaimLink(r) PROVE OneHolder'
    <2>t. PICK t \in Links : t = req[r].token
        BY <1>claim DEF ClaimLink, TokenKinds, In
    <2>0. t \in Tokens /\ entered' = entered
        BY <1>claim DEF ClaimLink, Tokens, history
    <2>1. CASE UnspentLink(r)
        <3>1. req' = Goto(r, "claimed")
            BY <1>claim, <2>1 DEF ClaimLink
        <3>2. req'[r].token = t /\ \A q \in Requests : q # r => req'[q] = req[q]
            BY <1>claim, <1>idle, <2>t, <3>1, GoesTo DEF ClaimLink, In, Phases
        <3>3. ~Spent(t) /\ Spent(t)' /\ \A s \in Tokens : s # t => Spent(s)' = Spent(s)
            BY <1>claim, <1>0, <2>t, <2>0, <2>1 DEF ClaimLink, UnspentLink, Spent, Link
        <3> QED
            BY <2>0, <3>2, <3>3, Taken
    <2>2. CASE ~UnspentLink(r)
        <3>1. req' = End(r) /\ code' = code /\ link' = link
            BY <1>claim, <2>2 DEF ClaimLink
        <3>2. Calm
            BY <1>idle, <2>0, <3>1, Ends DEF Calm, Holds, In, Spent
        <3> QED
            BY <3>2, CalmKeepsHolders
    <2> QED
        BY <2>1, <2>2
<1>right. ASSUME NEW r \in Requests, RightGuess(r) PROVE OneHolder'
    <2>t. PICK t \in Codes : t = req[r].token
        BY <1>right DEF RightGuess, Comparing, TokenKinds, In
    <2>0. t \notin Links /\ t \in Tokens /\ entered' = entered /\ link' = link
        BY <1>right, SignInAssumption DEF RightGuess, Tokens
    <2>1. CASE ~code[t].consumed
        <3>1. req' = Goto(r, "admitted")
            BY <1>right, <2>t, <2>1 DEF RightGuess
        <3>2. req'[r].token = t /\ \A q \in Requests : q # r => req'[q] = req[q]
            BY <1>right, <1>idle, <2>t, <3>1, GoesTo DEF RightGuess, Comparing, In, Phases
        <3>3. code'[t].consumed /\ \A c \in Codes : c # t => code'[c] = code[c]
            BY <1>right, <1>0, <2>t, <2>1 DEF RightGuess, Code
        <3>4. ~Spent(t) /\ Spent(t)' /\ \A s \in Tokens : s # t => Spent(s)' = Spent(s)
            BY <2>0, <2>1, <3>3 DEF Spent, Tokens
        <3> QED
            BY <2>0, <3>2, <3>4, Taken
    <2>2. CASE code[t].consumed
        <3>1. (req' = End(r) \/ req' = Goto(r, "drop")) /\ code' = code
            BY <1>right, <2>t, <2>2 DEF RightGuess, Failed
        <3>2. \A q \in Requests : \A s \in Tokens : Holds(q, s)' => Holds(q, s)
            BY <1>right, <1>idle, <3>1, Ends, GoesTo DEF RightGuess, Comparing, Holds, In, Phases
        <3>3. Calm
            BY <2>0, <3>1, <3>2 DEF Calm, Spent
        <3> QED
            BY <3>3, CalmKeepsHolders
    <2> QED
        BY <2>1, <2>2
<1>login. ASSUME NEW r \in Requests, Login(r) PROVE OneHolder'
    <2> DEFINE t == req[r].token
    <2>1. \A q \in Requests : q # r => req'[q].phase = req[q].phase /\ req'[q].token = req[q].token
        BY <1>login, LoginLeaves
    <2>2. req'[r] = Idle
        BY <1>login, LoginLeaves
    <2>3. \A q \in Requests : \A s \in Tokens : Holds(q, s)' => q # r /\ Holds(q, s)
        BY <1>idle, <2>1, <2>2 DEF Holds, In
    <2>4. \A s \in Tokens : Spent(s)' = Spent(s)
        BY <1>login DEF Login, Spent
    <2>5. CASE t \in Tokens /\ Entering(r).key # Lost
        <3>1. t # None
            BY <2>5, SignInAssumption
        <3>2. entered'[t] = entered[t] + 1 /\ \A s \in Tokens : s # t => entered'[s] = entered[s]
            BY <1>login, <1>0, <2>5, <3>1 DEF Login
        <3>3. Holds(r, t)
            BY <1>login DEF Login, Holds
        <3>4. Spent(t) /\ entered[t] = 0 /\ \A q \in Requests : Holds(q, t) => q = r
            BY <2>5, <3>3 DEF OneHolder
        <3>5. entered'[t] = 1
            BY <3>2, <3>4
        <3> HIDE DEF t
        <3> SUFFICES ASSUME NEW s \in Tokens
                     PROVE  /\ entered'[s] <= 1
                            /\ ~Spent(s)' => entered'[s] = 0
                            /\ \A q \in Requests : Holds(q, s)' => Spent(s)' /\ entered'[s] = 0
                            /\ \A p, q \in Requests : Holds(p, s)' /\ Holds(q, s)' => p = q
            BY DEF OneHolder
        <3>6. CASE s = t
            BY <2>3, <2>4, <3>4, <3>5, <3>6
        <3>7. CASE s # t
            BY <2>3, <2>4, <3>2, <3>7 DEF OneHolder
        <3> QED
            BY <3>6, <3>7
    <2>6. CASE t \notin Tokens \/ Entering(r).key = Lost
        <3>1. req[r] \in Request
            BY <1>login, BusyIsRequest DEF Login, In
        <3>2. t = None \/ Entering(r).key = Lost
            BY <2>6, <3>1 DEF Request
        <3>3. Calm
            BY <1>login, <2>3, <2>4, <3>2 DEF Login, Calm
        <3> QED
            BY <3>3, CalmKeepsHolders
    <2> QED
        BY <2>5, <2>6
<1> QED
    BY <1>claim, <1>right, <1>login, OnlySpendersHold, CalmKeepsHolders

LEMMA HolderInit == Init => OneHolder
BY SignInAssumption DEF Init, OneHolder, Holds, In, Idle, Tokens

\* A link or a code opens one session, however many requests race for it.
THEOREM TokensOpenOneSession == Spec => []TokenOpensOneSession
<1>1. Typed /\ OneHolder /\ [Next]_vars => (Typed /\ OneHolder)'
    BY TypeStep, KindStep, HolderStep DEF Typed
<1>2. OneHolder => TokenOpensOneSession
    BY DEF OneHolder, TokenOpensOneSession
<1> QED
    BY TypeInit, HolderInit, <1>1, <1>2, PTL DEF Spec

-----------------------------------------------------------------------------
(* The office is always challenged.  What a session says, a code that was   *)
(* sent to its browser bears out; so does what a request saw of a session,  *)
(* and what it will write to one.                                           *)

Sent(cd, st, b, c) == cd[c].user # None /\ st[c] = b

Cleared(cd, st, b, u) == \E c \in Codes : cd[c].user = u /\ cd[c].consumed /\ st[c] = b

Sound(cd, st, b, s) ==
    /\ s.pending # None => s.pending \in Codes /\ Sent(cd, st, b, s.pending)
    /\ s.verified \/ s.user \in Office => Cleared(cd, st, b, s.user)

Honest(cd, st, q) ==
    q.phase # "idle" =>
        /\ Sound(cd, st, q.browser, q.saw)
        /\ q.token \in Codes => Sent(cd, st, q.browser, q.token) /\ cd[q.token].user = q.user
        /\ q.phase = "password" => q.user # None
        /\ q.phase = "admitted" => /\ q.token \in Codes => cd[q.token].consumed
                                   /\ q.user \in Office => q.token \in Codes

OfficeStands == \A u \in Office : account[u].standing = "office"
SpentWasSent == \A c \in Codes : code[c].consumed => code[c].user # None
AllSound     == \A b \in Browsers : Sound(code, sent_to, b, session[b])
AllHonest    == \A r \in Requests : Honest(code, sent_to, req[r])

Challenged == OfficeStands /\ SpentWasSent /\ AllSound /\ AllHonest

\* Codes are sent once and stay spent.
Later(cd, st, cd2, st2) ==
    \A c \in Codes : /\ cd[c].user # None => cd2[c].user = cd[c].user /\ st2[c] = st[c]
                     /\ cd[c].consumed => cd[c].user # None /\ cd2[c].consumed

LEMMA SoundLasts ==
    ASSUME NEW cd, NEW st, NEW cd2, NEW st2, NEW b, NEW s,
           Later(cd, st, cd2, st2), Sound(cd, st, b, s)
    PROVE  Sound(cd2, st2, b, s)
<1>1. ASSUME s.pending # None PROVE s.pending \in Codes /\ Sent(cd2, st2, b, s.pending)
    BY <1>1 DEF Later, Sound, Sent
<1>2. ASSUME s.verified \/ s.user \in Office PROVE Cleared(cd2, st2, b, s.user)
    <2>1. PICK c \in Codes : cd[c].user = s.user /\ cd[c].consumed /\ st[c] = b
        BY <1>2 DEF Sound, Cleared
    <2>2. cd2[c].user = s.user /\ cd2[c].consumed /\ st2[c] = b
        BY <2>1 DEF Later
    <2> QED
        BY <2>2 DEF Cleared
<1> QED
    BY <1>1, <1>2 DEF Sound

LEMMA HonestLasts ==
    ASSUME NEW cd, NEW st, NEW cd2, NEW st2, NEW q,
           Later(cd, st, cd2, st2), Honest(cd, st, q)
    PROVE  Honest(cd2, st2, q)
<1> SUFFICES ASSUME q.phase # "idle" PROVE Honest(cd2, st2, q)
    BY DEF Honest
<1>1. Sound(cd2, st2, q.browser, q.saw)
    BY SoundLasts DEF Honest
<1>2. ASSUME q.token \in Codes
      PROVE  /\ Sent(cd2, st2, q.browser, q.token) /\ cd2[q.token].user = q.user
             /\ cd[q.token].consumed => cd2[q.token].consumed
    BY <1>2 DEF Honest, Sent, Later
<1> QED
    BY <1>1, <1>2 DEF Honest

\* A request that moves on, and is not admitted, is as honest as it was; one
\* that is admitted has what it takes.
LEMMA MovesOn ==
    ASSUME Typed, AllHonest, NEW r \in Requests, req[r].phase # "idle",
           Later(code, sent_to, code', sent_to'),
           NEW p \in Phases \ {"password"}, req' = Goto(r, p),
           p = "admitted" => /\ req[r].token \in Codes => code'[req[r].token].consumed
                             /\ req[r].user \in Office => req[r].token \in Codes
    PROVE  AllHonest'
<1>1. /\ req'[r].phase = p
      /\ req'[r].token = req[r].token /\ req'[r].saw = req[r].saw
      /\ req'[r].user = req[r].user /\ req'[r].browser = req[r].browser
      /\ \A q \in Requests : q # r => req'[q] = req[q]
    BY GoesTo DEF Typed
<1>2. Honest(code', sent_to', req[r])
    BY HonestLasts DEF AllHonest
<1>3. Honest(code', sent_to', req'[r])
    BY <1>1, <1>2 DEF Honest
<1>4. \A q \in Requests : q # r => Honest(code', sent_to', req'[q])
    BY <1>1, HonestLasts DEF AllHonest
<1> QED
    BY <1>3, <1>4 DEF AllHonest

LEMMA Leaves ==
    ASSUME Typed, AllHonest, NEW r \in Requests, req' = End(r),
           Later(code, sent_to, code', sent_to')
    PROVE  AllHonest'
<1>1. req'[r] = Idle /\ \A q \in Requests : q # r => req'[q] = req[q]
    BY Ends DEF Typed
<1>2. Honest(code', sent_to', Idle)
    BY DEF Honest, Idle
<1>3. \A q \in Requests : q # r => Honest(code', sent_to', req'[q])
    BY <1>1, HonestLasts DEF AllHonest
<1> QED
    BY <1>1, <1>2, <1>3 DEF AllHonest

\* A request that arrives, or is sent a code, holds q.
LEMMA Arrives ==
    ASSUME Typed, AllHonest, NEW r \in Requests, NEW q, req' = [req EXCEPT ![r] = q],
           Later(code, sent_to, code', sent_to'), Honest(code', sent_to', q)
    PROVE  AllHonest'
<1>1. req'[r] = q /\ \A o \in Requests : o # r => req'[o] = req[o]
    BY DEF Typed, TypeOK
<1>2. \A o \in Requests : o # r => Honest(code', sent_to', req'[o])
    BY <1>1, HonestLasts DEF AllHonest
<1> QED
    BY <1>1, <1>2 DEF AllHonest

\* What is deleted under a request, it keeps as it saw it.
LEMMA SoundSame ==
    ASSUME NEW cd, NEW st, NEW b, NEW s, NEW s2, Says(s2) = Says(s), Sound(cd, st, b, s)
    PROVE  Sound(cd, st, b, s2)
<1>1. s2.user = s.user /\ s2.pending = s.pending /\ s2.verified = s.verified
    BY DEF Says
<1> QED
    BY <1>1 DEF Sound

LEMMA StillHonest ==
    ASSUME Typed, AllHonest, Later(code, sent_to, code', sent_to'), NEW q \in Requests, NEW then,
           then.phase = req[q].phase, then.token = req[q].token, then = Idle <=> req[q] = Idle,
           req[q] # Idle => /\ Says(then.saw) = Says(req[q].saw)
                            /\ then.user = req[q].user /\ then.browser = req[q].browser
    PROVE  Honest(code', sent_to', then)
<1>1. Honest(code', sent_to', req[q])
    BY HonestLasts DEF AllHonest
<1>2. CASE req[q] = Idle
    BY <1>1, <1>2
<1>3. CASE req[q] # Idle
    BY <1>1, <1>3, SoundSame DEF Honest
<1> QED
    BY <1>2, <1>3

\* No step takes a code back, or spends one that was not sent.
LEMMA LaterStep == Typed /\ Challenged /\ [Next]_vars => Later(code, sent_to, code', sent_to') /\ SpentWasSent'
<1> SUFFICES ASSUME Typed, Challenged, [Next]_vars
             PROVE  Later(code, sent_to, code', sent_to') /\ SpentWasSent'
    OBVIOUS
<1> USE DEF Typed, rows, history
<1>0. code \in [Codes -> Code] /\ sent_to \in [Codes -> Browsers \cup {None}] /\ SpentWasSent
    BY DEF TypeOK, Challenged
<1>same. ASSUME \A c \in Codes : code'[c].user = code[c].user /\ code'[c].consumed = code[c].consumed,
                sent_to' = sent_to
         PROVE  Later(code, sent_to, code', sent_to') /\ SpentWasSent'
    BY <1>0, <1>same DEF Later, SpentWasSent
<1>sends. ASSUME NEW c \in Codes, NEW u \in Users, NEW b, code[c].user = None,
                 code' = [code EXCEPT ![c].user = u], sent_to' = [sent_to EXCEPT ![c] = b]
          PROVE  Later(code, sent_to, code', sent_to') /\ SpentWasSent'
    <2>1. /\ code'[c].user = u /\ code'[c].consumed = code[c].consumed
          /\ \A k \in Codes : k # c => code'[k] = code[k] /\ sent_to'[k] = sent_to[k]
        BY <1>0, <1>sends DEF Code
    <2>2. u # None
        BY SignInAssumption
    <2> QED
        BY <1>0, <1>sends, <2>1, <2>2 DEF Later, SpentWasSent
<1>challenge. ASSUME NEW r \in Requests, NEW d \in Devices \cup {None}, NEW c \in Codes, Challenge(r, d, c)
              PROVE  Later(code, sent_to, code', sent_to') /\ SpentWasSent'
    <2>1. req[r] \in Request /\ req[r].user # None
        BY <1>challenge, BusyIsRequest DEF Challenge, In, Challenged, AllHonest, Honest
    <2>2. req[r].user \in Users
        BY <2>1 DEF Request
    <2> QED
        BY <1>challenge, <1>sends, <2>2 DEF Challenge, SendChallenge
<1>resend. ASSUME NEW r \in Requests, NEW b \in Browsers, NEW c \in Codes, Resend(r, b, c)
           PROVE  Later(code, sent_to, code', sent_to') /\ SpentWasSent'
    <2>1. session[b].pending \in Codes /\ code[session[b].pending].user # None
        BY <1>resend DEF Resend, Challenged, AllSound, Sound, Sent
    <2>2. code[session[b].pending].user \in Users
        BY <1>0, <2>1 DEF Code
    <2> QED
        BY <1>resend, <1>sends, <2>2 DEF Resend
<1>count. ASSUME NEW r \in Requests, CountGuess(r)
          PROVE  Later(code, sent_to, code', sent_to') /\ SpentWasSent'
    <2>1. \A c \in Codes : code'[c].user = code[c].user /\ code'[c].consumed = code[c].consumed
        BY <1>0, <1>count DEF CountGuess, Code
    <2> QED
        BY <1>count, <1>same, <2>1 DEF CountGuess
<1>right. ASSUME NEW r \in Requests, RightGuess(r)
          PROVE  Later(code, sent_to, code', sent_to') /\ SpentWasSent'
    <2>1. PICK c \in Codes : c = req[r].token
        BY <1>right DEF RightGuess, Comparing, TokenKinds, In
    <2>2. code[c].user # None
        BY <1>right, <2>1 DEF RightGuess, Comparing, In, Challenged, AllHonest, Honest, Sent
    <2>3. CASE code[c].consumed
        BY <1>right, <1>same, <2>1, <2>3 DEF RightGuess
    <2>4. CASE ~code[c].consumed
        <3>1. /\ code'[c].user = code[c].user /\ code'[c].consumed
              /\ \A k \in Codes : k # c => code'[k] = code[k]
            BY <1>0, <1>right, <2>1, <2>4 DEF RightGuess, Code
        <3> QED
            BY <1>0, <1>right, <2>2, <3>1 DEF RightGuess, Later, SpentWasSent
    <2> QED
        BY <2>3, <2>4
<1>expire. ASSUME NEW c \in Codes, ExpireCode(c)
           PROVE  Later(code, sent_to, code', sent_to') /\ SpentWasSent'
    <2>1. \A k \in Codes : code'[k].user = code[k].user /\ code'[k].consumed = code[k].consumed
        BY <1>0, <1>expire DEF ExpireCode, Code
    <2> QED
        BY <1>expire, <1>same, <2>1 DEF ExpireCode
<1>other. CASE UNCHANGED <<code, sent_to>>
    BY <1>same, <1>other
<1> QED
    BY <1>challenge, <1>resend, <1>count, <1>right, <1>expire, <1>other
    DEF Next, LinkStep, PasswordStep, CodeStep, Outside, vars, LoadLink, ClaimLink, AdmitCustomer,
        LoadPassword, AdmitUnchallenged, SavePending, LoadCode, WrongGuess, DropPending, Login, Abandon,
        RequestLink, ChangeAccount, ExpireLink, DistrustDevice, Logout

\* Every request stays honest: what admits it is a code of its own user's,
\* unless that user is none of the office.
LEMMA HonestStep == Typed /\ Challenged /\ [Next]_vars => AllHonest'
<1> SUFFICES ASSUME Typed, Challenged, [Next]_vars PROVE AllHonest'
    OBVIOUS
<1> USE DEF Typed, rows, history
<1>later. Later(code, sent_to, code', sent_to')
    BY LaterStep
<1>0. AllHonest /\ AllSound /\ OfficeStands
    BY DEF Challenged
<1>idle. Idle.phase = "idle"
    BY DEF Idle
<1>same. ASSUME UNCHANGED req PROVE AllHonest'
    BY <1>0, <1>same, <1>later, HonestLasts DEF AllHonest
<1>leaves. ASSUME NEW r \in Requests, req' = End(r) PROVE AllHonest'
    BY <1>0, <1>leaves, <1>later, Leaves
<1>link. ASSUME NEW r \in Requests, LinkStep(r) PROVE AllHonest'
    <2>1. ASSUME NEW b \in Browsers, NEW l \in Links, LoadLink(r, b, l) PROVE AllHonest'
        <3> DEFINE q == [phase |-> "link", browser |-> b, saw |-> session[b],
                         user |-> link[l].user, token |-> l]
        <3>1. code' = code /\ sent_to' = sent_to /\ req' = [req EXCEPT ![r] = q]
            BY <2>1 DEF LoadLink, Arrive
        <3>2. Honest(code, sent_to, q)
            BY <1>0, SignInAssumption DEF Honest, AllSound
        <3> HIDE DEF q
        <3> QED
            BY <1>0, <1>later, <3>1, <3>2, Arrives
    <2>2. CASE ClaimLink(r)
        <3>1. CASE req' = End(r)
            BY <1>leaves, <3>1
        <3>2. CASE req' = Goto(r, "claimed")
            BY <1>0, <1>later, <2>2, <3>2, MovesOn DEF ClaimLink, In, Phases
        <3> QED
            BY <2>2, <3>1, <3>2 DEF ClaimLink
    <2>3. CASE AdmitCustomer(r)
        <3>1. CASE req' = End(r)
            BY <1>leaves, <3>1
        <3>2. CASE req' = Goto(r, "admitted") /\ MayUseMagicLink(req[r].user)
            <4>1. req[r].token \notin Codes /\ req[r].user \notin Office
                BY <1>0, <2>3, <3>2, SignInAssumption
                DEF AdmitCustomer, In, TokenKinds, MayUseMagicLink, OfficeStands
            <4> QED
                BY <1>0, <1>later, <2>3, <3>2, <4>1, MovesOn DEF AdmitCustomer, In, Phases
        <3> QED
            BY <2>3, <3>1, <3>2 DEF AdmitCustomer
    <2> QED
        BY <1>link, <2>1, <2>2, <2>3 DEF LinkStep
<1>password. ASSUME NEW r \in Requests, PasswordStep(r) PROVE AllHonest'
    <2>1. ASSUME NEW b \in Browsers, NEW u \in Users, LoadPassword(r, b, u) PROVE AllHonest'
        <3> DEFINE q == [phase |-> "password", browser |-> b, saw |-> session[b],
                         user |-> u, token |-> None]
        <3>1. code' = code /\ sent_to' = sent_to /\ req' = [req EXCEPT ![r] = q]
            BY <2>1 DEF LoadPassword, Arrive
        <3>2. None \notin Codes /\ u # None
            BY SignInAssumption DEF Tokens
        <3>3. Honest(code, sent_to, q)
            BY <1>0, <3>2 DEF Honest, AllSound
        <3> HIDE DEF q
        <3> QED
            BY <1>0, <1>later, <3>1, <3>3, Arrives
    <2>2. ASSUME NEW d \in Devices \cup {None}, AdmitUnchallenged(r, d) PROVE AllHonest'
        <3>1. req[r].token = None /\ None \notin Codes
            BY <2>2, SignInAssumption DEF AdmitUnchallenged, In, TokenKinds, Tokens
        <3>2. req[r].user \notin Office
            BY <1>0, <2>2 DEF AdmitUnchallenged, TwoFactorRequired, OfficeStands
        <3> QED
            BY <1>0, <1>later, <2>2, <3>1, <3>2, MovesOn DEF AdmitUnchallenged, In, Phases
    <2>3. ASSUME NEW d \in Devices \cup {None}, NEW c \in Codes, Challenge(r, d, c) PROVE AllHonest'
        <3>1. PICK q : q = [req[r] EXCEPT !.phase = "sent", !.token = c]
            OBVIOUS
        <3>2. req[r] \in Request /\ req[r].user # None /\ Sound(code, sent_to, req[r].browser, req[r].saw)
            BY <1>0, <2>3, BusyIsRequest DEF Challenge, In, AllHonest, Honest
        <3>3. /\ q.phase = "sent" /\ q.token = c /\ q.user = req[r].user
              /\ q.browser = req[r].browser /\ q.saw = req[r].saw
            BY <3>1, <3>2 DEF Request
        <3>4. code'[c].user = req[r].user /\ sent_to'[c] = req[r].browser
            BY <2>3 DEF Challenge, SendChallenge, TypeOK, Code
        <3>5. Sound(code', sent_to', req[r].browser, req[r].saw)
            BY <1>later, <3>2, SoundLasts
        <3>6. Honest(code', sent_to', q)
            BY <3>2, <3>3, <3>4, <3>5 DEF Honest, Sent
        <3>7. req' = [req EXCEPT ![r] = q]
            BY <2>3, <3>1 DEF Challenge, SendChallenge
        <3> QED
            BY <1>0, <1>later, <3>6, <3>7, Arrives
    <2>4. ASSUME NEW b \in Browsers, NEW c \in Codes, Resend(r, b, c) PROVE AllHonest'
        <3>1. PICK u : u = code[session[b].pending].user
            OBVIOUS
        <3>2. u # None /\ Sound(code, sent_to, b, session[b])
            BY <1>0, <2>4, <3>1 DEF Resend, AllSound, Sound, Sent
        <3>3. PICK q : q = [phase |-> "sent", browser |-> b, saw |-> session[b],
                            user |-> u, token |-> c]
            OBVIOUS
        <3>4. code'[c].user = u /\ sent_to'[c] = b
            BY <2>4, <3>1 DEF Resend, TypeOK, Code
        <3>5. Sound(code', sent_to', b, session[b])
            BY <1>later, <3>2, SoundLasts
        <3>6. Honest(code', sent_to', q)
            BY <3>2, <3>3, <3>4, <3>5 DEF Honest, Sent
        <3>7. req' = [req EXCEPT ![r] = q]
            BY <2>4, <3>1, <3>3 DEF Resend
        <3> QED
            BY <1>0, <1>later, <3>6, <3>7, Arrives
    <2>5. CASE SavePending(r)
        BY <1>leaves, <2>5 DEF SavePending
    <2> QED
        BY <1>password, <2>1, <2>2, <2>3, <2>4, <2>5 DEF PasswordStep
<1>code. ASSUME NEW r \in Requests, CodeStep(r) PROVE AllHonest'
    <2>1. ASSUME NEW b \in Browsers, LoadCode(r, b) PROVE AllHonest'
        <3>1. PICK c : c = session[b].pending
            OBVIOUS
        <3>2. PICK p \in {"code", "drop"} : p = IF Usable(c) THEN "code" ELSE "drop"
            OBVIOUS
        <3>3. PICK q : q = [phase |-> p, browser |-> b, saw |-> session[b],
                            user |-> code[c].user, token |-> c]
            OBVIOUS
        <3>4. code' = code /\ sent_to' = sent_to /\ req' = [req EXCEPT ![r] = q]
            BY <2>1, <3>1, <3>2, <3>3 DEF LoadCode, Arrive
        <3>5. Sound(code, sent_to, b, session[b]) /\ Sent(code, sent_to, b, c)
            BY <1>0, <2>1, <3>1 DEF LoadCode, AllSound, Sound
        <3>6. Honest(code, sent_to, q)
            BY <3>2, <3>3, <3>5 DEF Honest
        <3> QED
            BY <1>0, <1>later, <3>4, <3>6, Arrives
    <2>2. CASE CountGuess(r)
        <3>1. CASE req' = End(r)
            BY <1>leaves, <3>1
        <3>2. ASSUME NEW p \in {"counted", "last", "drop"}, req' = Goto(r, p) PROVE AllHonest'
            BY <1>0, <1>later, <2>2, <3>2, MovesOn DEF CountGuess, In, Phases
        <3> QED
            BY <2>2, <3>1, <3>2 DEF CountGuess, Failed
    <2>3. CASE WrongGuess(r)
        <3>1. CASE req' = End(r)
            BY <1>leaves, <3>1
        <3>2. CASE req' = Goto(r, "drop")
            BY <1>0, <1>later, <2>3, <3>2, MovesOn DEF WrongGuess, Comparing, In, Phases
        <3> QED
            BY <2>3, <3>1, <3>2 DEF WrongGuess, Failed
    <2>4. CASE RightGuess(r)
        <3>0. req[r].phase # "idle" /\ req[r].token \in Codes
            BY <2>4 DEF RightGuess, Comparing, In, TokenKinds
        <3>1. CASE req' = End(r)
            BY <1>leaves, <3>1
        <3>2. CASE req' = Goto(r, "drop")
            BY <1>0, <1>later, <3>0, <3>2, MovesOn DEF Phases
        <3>3. CASE req' = Goto(r, "admitted") /\ code' = [code EXCEPT ![req[r].token].consumed = TRUE]
            <4>1. code'[req[r].token].consumed
                BY <3>0, <3>3 DEF TypeOK, Code
            <4> QED
                BY <1>0, <1>later, <3>0, <3>3, <4>1, MovesOn DEF Phases
        <3> QED
            BY <2>4, <3>1, <3>2, <3>3 DEF RightGuess, Failed
    <2>5. CASE DropPending(r)
        BY <1>leaves, <2>5 DEF DropPending
    <2> QED
        BY <1>code, <2>1, <2>2, <2>3, <2>4, <2>5 DEF CodeStep
<1>login. ASSUME NEW r \in Requests, Login(r) PROVE AllHonest'
    <2>1. Honest(code', sent_to', req'[r])
        BY <1>idle, <1>login, LoginLeaves DEF Honest
    <2>2. ASSUME NEW q \in Requests, q # r PROVE Honest(code', sent_to', req'[q])
        BY <1>0, <1>later, <1>login, <2>2, LoginLeaves, StillHonest
    <2> QED
        BY <2>1, <2>2 DEF AllHonest
<1>abandon. ASSUME NEW r \in Requests, Abandon(r) PROVE AllHonest'
    BY <1>leaves, <1>abandon DEF Abandon
<1>logout. ASSUME NEW b \in Browsers, Logout(b) PROVE AllHonest'
    <2>1. ASSUME NEW q \in Requests PROVE Honest(code', sent_to', req'[q])
        <3>1. PICK then : then = Losing(session[b].key)[q]
            OBVIOUS
        <3>2. req'[q] = then
            BY <1>logout, <3>1 DEF Logout
        <3>3. Honest(code', sent_to', then)
            BY <1>0, <1>later, <3>1, LosingOnly, StillHonest
        <3> QED
            BY <3>2, <3>3
    <2> QED
        BY <2>1 DEF AllHonest
<1>outside. CASE Outside
    BY <1>same, <1>outside, <1>logout
    DEF Outside, RequestLink, ChangeAccount, ExpireCode, ExpireLink, DistrustDevice
<1> QED
    BY <1>same, <1>link, <1>password, <1>code, <1>login, <1>abandon, <1>outside DEF Next, vars

\* Who writes a session, and who an account.
LEMMA LinkWrites ==
    ASSUME NEW r \in Requests, LinkStep(r)
    PROVE  UNCHANGED <<account, session>>
BY DEF LinkStep, LoadLink, ClaimLink, AdmitCustomer, rows

LEMMA PasswordWrites ==
    ASSUME NEW r \in Requests, PasswordStep(r)
    PROVE  UNCHANGED account /\ (UNCHANGED session \/ SavePending(r))
BY DEF PasswordStep, LoadPassword, AdmitUnchallenged, Challenge, SendChallenge, Resend, SavePending, rows

LEMMA CodeWrites ==
    ASSUME NEW r \in Requests, CodeStep(r)
    PROVE  UNCHANGED account /\ (UNCHANGED session \/ DropPending(r))
BY DEF CodeStep, LoadCode, CountGuess, WrongGuess, RightGuess, DropPending, rows

LEMMA OutsideWrites ==
    ASSUME Outside
    PROVE  /\ UNCHANGED session \/ \E b \in Browsers : Logout(b)
           /\ UNCHANGED account \/ \E u \in Users, a \in Account : ChangeAccount(u, a)
BY DEF Outside, RequestLink, ChangeAccount, ExpireCode, ExpireLink, DistrustDevice, Logout, rows

LEMMA Writers ==
    ASSUME [Next]_vars
    PROVE  /\ \/ UNCHANGED session
              \/ \E r \in Requests : SavePending(r) \/ DropPending(r) \/ Login(r)
              \/ \E b \in Browsers : Logout(b)
           /\ UNCHANGED account \/ \E u \in Users, a \in Account : ChangeAccount(u, a)
<1>1. ASSUME NEW r \in Requests, Login(r) \/ Abandon(r)
      PROVE  UNCHANGED account /\ (UNCHANGED session \/ Login(r))
    BY <1>1 DEF Login, Abandon, rows
<1> QED
    BY <1>1, LinkWrites, PasswordWrites, CodeWrites, OutsideWrites DEF Next, vars

\* Every session stays sound: what a request writes to it, its own code bears out.
LEMMA SoundStep == Typed /\ Challenged /\ [Next]_vars => AllSound'
<1> SUFFICES ASSUME Typed, Challenged, [Next]_vars PROVE AllSound'
    OBVIOUS
<1> USE DEF Typed, rows, history
<1>later. Later(code, sent_to, code', sent_to')
    BY LaterStep
<1>0. AllSound /\ AllHonest /\ SpentWasSent /\ session \in [Browsers -> Session]
    BY DEF Challenged, TypeOK
<1>same. ASSUME UNCHANGED session PROVE AllSound'
    BY <1>0, <1>same, <1>later, SoundLasts DEF AllSound
<1>write. ASSUME NEW b, NEW s, session' = [session EXCEPT ![b] = s], Sound(code', sent_to', b, s)
          PROVE  AllSound'
    <2>1. \A o \in Browsers : session'[o] = session[o] \/ (o = b /\ session'[o] = s)
        BY <1>0, <1>write
    <2> QED
        BY <1>0, <1>later, <1>write, <2>1, SoundLasts DEF AllSound
<1>anonymous. \A b : Sound(code', sent_to', b, Anonymous)
    <2>1. None \notin Office
        BY SignInAssumption
    <2> QED
        BY <2>1 DEF Anonymous, Sound
<1>saves. ASSUME NEW r \in Requests, req[r] \in Request, NEW s \in Session, SaveSession(r, s),
                 Sound(code, sent_to, req[r].browser, s)
          PROVE  AllSound'
    <2>1. /\ \A b \in Browsers : b # req[r].browser => session'[b] = session[b]
          /\ UNCHANGED session \/ Says(session'[req[r].browser]) = Says(s)
        BY <1>saves, SaveWrites
    <2>2. CASE UNCHANGED session
        BY <1>same, <2>2
    <2>3. CASE Says(session'[req[r].browser]) = Says(s)
        <3>1. Sound(code', sent_to', req[r].browser, session'[req[r].browser])
            BY <1>later, <1>saves, <2>3, SoundLasts, SoundSame
        <3>2. ASSUME NEW b \in Browsers, b # req[r].browser
              PROVE  Sound(code', sent_to', b, session'[b])
            BY <1>0, <1>later, <2>1, <3>2, SoundLasts DEF AllSound
        <3> QED
            BY <3>1, <3>2 DEF AllSound
    <2> QED
        BY <2>1, <2>2, <2>3
<1>save. ASSUME NEW r \in Requests, SavePending(r) PROVE AllSound'
    <2>1. /\ req[r] \in Request /\ req[r].token \in Codes /\ req[r].saw \in Session
          /\ Sent(code, sent_to, req[r].browser, req[r].token)
          /\ Sound(code, sent_to, req[r].browser, req[r].saw)
        BY <1>0, <1>save, BusyIsRequest DEF SavePending, In, TokenKinds, AllHonest, Honest, Request
    <2>2. PICK s : s = [req[r].saw EXCEPT !.pending = req[r].token]
        OBVIOUS
    <2>3. /\ s \in Session /\ s.pending = req[r].token /\ s.user = req[r].saw.user
          /\ s.verified = req[r].saw.verified
        BY <2>1, <2>2 DEF Session
    <2>4. Sound(code, sent_to, req[r].browser, s)
        BY <2>1, <2>3 DEF Sound
    <2> QED
        BY <1>save, <1>saves, <2>1, <2>2, <2>3, <2>4 DEF SavePending
<1>drop. ASSUME NEW r \in Requests, DropPending(r) PROVE AllSound'
    <2>1. /\ req[r] \in Request /\ req[r].saw \in Session
          /\ Sound(code, sent_to, req[r].browser, req[r].saw)
        BY <1>0, <1>drop, BusyIsRequest DEF DropPending, In, AllHonest, Honest, Request
    <2>2. PICK s : s = [req[r].saw EXCEPT !.pending = None]
        OBVIOUS
    <2>3. /\ s \in Session /\ s.pending = None /\ s.user = req[r].saw.user
          /\ s.verified = req[r].saw.verified
        BY <2>1, <2>2 DEF Session
    <2>4. Sound(code, sent_to, req[r].browser, s)
        BY <2>1, <2>3 DEF Sound
    <2> QED
        BY <1>drop, <1>saves, <2>1, <2>2, <2>3, <2>4 DEF DropPending
<1>login. ASSUME NEW r \in Requests, Login(r) PROVE AllSound'
    <2>1. PICK q : q = req[r]
        OBVIOUS
    <2>2. q.phase = "admitted" /\ q \in Request /\ Honest(code, sent_to, q)
        BY <1>0, <1>login, <2>1, BusyIsRequest DEF Login, In, AllHonest
    <2>3. PICK s : s = Entering(r)
        OBVIOUS
    <2>4. /\ s \in Session /\ s.user = q.user
          /\ s.pending = IF ByCode(r) THEN None ELSE Kept(r).pending
          /\ s.verified => Kept(r).verified \/ ByCode(r)
        <3>1. Kept(r) \in Session /\ Entering(r) \in Session
            BY <2>1, <2>2, EnteringIsSession
        <3> QED
            BY <2>1, <2>3, <3>1 DEF Entering, Session
    <2>5. ASSUME ByCode(r) PROVE Sound(code, sent_to, q.browser, s)
        <3>1. q.token \in Codes
            BY <2>1, <2>5 DEF ByCode
        <3>2. Cleared(code, sent_to, q.browser, q.user)
            BY <2>2, <3>1 DEF Honest, Sent, Cleared
        <3>3. s.pending = None /\ s.user = q.user
            BY <2>4, <2>5
        <3> QED
            BY <3>2, <3>3 DEF Sound
    <2>6. ASSUME ~ByCode(r) PROVE Sound(code, sent_to, q.browser, s)
        <3>1. q.token \notin Codes /\ q.user \notin Office
            BY <2>1, <2>2, <2>6 DEF ByCode, Honest
        <3>2. s.pending = Kept(r).pending /\ s.user = q.user /\ (s.verified => Kept(r).verified)
            BY <2>4, <2>6
        <3>3. CASE Kept(r) = Anonymous
            BY <3>1, <3>2, <3>3 DEF Anonymous, Sound
        <3>4. CASE Kept(r) = q.saw /\ q.saw.user \in {None, q.user}
            <4>1. Sound(code, sent_to, q.browser, q.saw)
                BY <2>2 DEF Honest
            <4>2. ~Cleared(code, sent_to, q.browser, None)
                BY <1>0 DEF Cleared, SpentWasSent
            <4> QED
                BY <3>1, <3>2, <3>4, <4>1, <4>2 DEF Sound
        <3> QED
            BY <2>1, <3>3, <3>4 DEF Kept, SomebodyElses
    <2>7. Sound(code, sent_to, q.browser, s)
        BY <2>5, <2>6
    <2> QED
        BY <1>login, <1>saves, <2>1, <2>2, <2>3, <2>4, <2>7 DEF Login
<1>logout. ASSUME NEW b \in Browsers, Logout(b) PROVE AllSound'
    <2>1. session' = [session EXCEPT ![b] = Anonymous]
        BY <1>logout DEF Logout
    <2>2. Sound(code', sent_to', b, Anonymous)
        BY <1>anonymous
    <2> QED
        BY <1>write, <2>1, <2>2
<1> QED
    BY <1>same, <1>save, <1>drop, <1>login, <1>logout, Writers

LEMMA ChallengedInit == Init => Challenged
<1> SUFFICES ASSUME Init PROVE Challenged
    OBVIOUS
<1>1. OfficeStands /\ SpentWasSent
    BY SignInAssumption DEF Init, OfficeStands, SpentWasSent, MayBe
<1>2. AllSound
    BY SignInAssumption DEF Init, AllSound, Sound, Anonymous
<1>3. AllHonest
    BY DEF Init, AllHonest, Honest, Idle
<1> QED
    BY <1>1, <1>2, <1>3 DEF Challenged

LEMMA ChallengedStep == Typed /\ Challenged /\ [Next]_vars => (Typed /\ Challenged)'
<1> SUFFICES ASSUME Typed, Challenged, [Next]_vars PROVE (Typed /\ Challenged)'
    OBVIOUS
<1>1. Typed'
    BY TypeStep, KindStep DEF Typed
<1>2. OfficeStands'
    <2>1. CASE UNCHANGED account
        BY <2>1 DEF Challenged, OfficeStands
    <2>2. ASSUME NEW u \in Users, NEW a \in Account, ChangeAccount(u, a) PROVE OfficeStands'
        BY <2>2, SignInAssumption DEF ChangeAccount, MayBe, Challenged, OfficeStands, Typed, TypeOK
    <2> QED
        BY <2>1, <2>2, Writers
<1> QED
    BY <1>1, <1>2, LaterStep, HonestStep, SoundStep DEF Challenged

\* A session that acts for the office, and one marked verified, belongs to a
\* user who cleared a code that was sent for a request of that very browser.
THEOREM OfficeIsChallenged == Spec => []OfficeAlwaysChallenged
<1>1. Challenged => OfficeAlwaysChallenged
    BY DEF Challenged, AllSound, Sound, Cleared, OfficeAlwaysChallenged, ClearedHere
<1> QED
    BY TypeInit, ChallengedInit, ChallengedStep, <1>1, PTL DEF Spec

-----------------------------------------------------------------------------
(* The door.  A request acts for the user its token was sent to, and a code *)
(* nobody has been sent went to no browser.                                 *)

Bears(lk, q) ==
    q.phase # "idle" => /\ q.user # None
                        /\ q.token \in Links => lk[q.token].user = q.user

AllBear    == \A r \in Requests : Bears(link, req[r])
Addressed  == \A c \in Codes : code[c].user = None => sent_to[c] = None
Bearers    == AllBear /\ Addressed

DoorInv == Typed /\ GuessesCounted /\ OneHolder /\ Challenged /\ Bearers

\* A link is sent to one user, once.
LinksLast(lk, lk2) == \A l \in Links : lk[l].user # None => lk2[l].user = lk[l].user

LEMMA BearsOn ==
    ASSUME NEW lk, NEW lk2, NEW p, NEW q, LinksLast(lk, lk2), Bears(lk, p),
           q.phase # "idle" => p.phase # "idle" /\ q.user = p.user /\ q.token = p.token
    PROVE  Bears(lk2, q)
<1> SUFFICES ASSUME q.phase # "idle" PROVE Bears(lk2, q)
    BY DEF Bears
<1>1. p.phase # "idle" /\ q.user = p.user /\ q.token = p.token
    OBVIOUS
<1>2. ASSUME q.token \in Links PROVE lk2[q.token].user = q.user
    BY <1>1, <1>2 DEF Bears, LinksLast
<1> QED
    BY <1>1, <1>2 DEF Bears

LEMMA LinksLastStep == ASSUME TypeOK, [Next]_vars PROVE LinksLast(link, link')
<1> USE DEF rows, history
<1>0. link \in [Links -> Link]
    BY DEF TypeOK
<1>same. ASSUME link' = link PROVE LinksLast(link, link')
    BY <1>same DEF LinksLast
<1>claim. ASSUME NEW r \in Requests, ClaimLink(r) PROVE LinksLast(link, link')
    BY <1>0, <1>claim DEF ClaimLink, LinksLast, Link
<1>expire. ASSUME NEW l \in Links, ExpireLink(l) PROVE LinksLast(link, link')
    BY <1>0, <1>expire DEF ExpireLink, LinksLast, Link
<1>request. ASSUME NEW u \in Users, NEW l \in Links, RequestLink(u, l) PROVE LinksLast(link, link')
    BY <1>0, <1>request DEF RequestLink, LinksLast, Link
<1>link. ASSUME NEW r \in Requests, LinkStep(r) PROVE link' = link \/ ClaimLink(r)
    BY <1>link DEF LinkStep, LoadLink, AdmitCustomer
<1>password. ASSUME NEW r \in Requests, PasswordStep(r) PROVE link' = link
    BY <1>password
    DEF PasswordStep, LoadPassword, AdmitUnchallenged, Challenge, SendChallenge, Resend, SavePending
<1>code. ASSUME NEW r \in Requests, CodeStep(r) PROVE link' = link
    BY <1>code DEF CodeStep, LoadCode, CountGuess, WrongGuess, RightGuess, DropPending
<1>rest. ASSUME NEW r \in Requests, Login(r) \/ Abandon(r) PROVE link' = link
    BY <1>rest DEF Login, Abandon
<1>outside. ASSUME Outside PROVE LinksLast(link, link')
    BY <1>outside, <1>same, <1>expire, <1>request
    DEF Outside, ChangeAccount, ExpireCode, DistrustDevice, Logout
<1> QED
    BY <1>same, <1>claim, <1>link, <1>password, <1>code, <1>rest, <1>outside DEF Next, vars

LEMMA BearStep == Typed /\ Challenged /\ AllBear /\ [Next]_vars => AllBear'
<1> SUFFICES ASSUME Typed, Challenged, AllBear, [Next]_vars PROVE AllBear'
    OBVIOUS
<1> USE DEF Typed
<1>idle. Idle.phase = "idle"
    BY DEF Idle
<1>last. LinksLast(link, link')
    BY LinksLastStep
<1>0. req \in [Requests -> Request \cup {Idle}]
    BY DEF TypeOK
<1>kept. ASSUME \A q \in Requests :
                   req'[q].phase # "idle" => /\ req[q].phase # "idle"
                                            /\ req'[q].user = req[q].user
                                            /\ req'[q].token = req[q].token
         PROVE  AllBear'
    BY <1>last, <1>kept, BearsOn DEF AllBear
<1>ends. ASSUME NEW r \in Requests, req' = End(r) PROVE AllBear'
    BY <1>idle, <1>ends, <1>kept, Ends
<1>goes. ASSUME NEW r \in Requests, NEW p \in Phases, req[r].phase # "idle", req' = Goto(r, p)
         PROVE  AllBear'
    BY <1>goes, <1>kept, GoesTo
<1>arrives. ASSUME NEW r \in Requests, NEW q, req' = [req EXCEPT ![r] = q], Bears(link', q)
            PROVE  AllBear'
    <2>1. req'[r] = q /\ \A o \in Requests : o # r => req'[o] = req[o]
        BY <1>0, <1>arrives
    <2>2. \A o \in Requests : o # r => Bears(link', req'[o])
        BY <1>last, <2>1, BearsOn DEF AllBear
    <2> QED
        BY <1>arrives, <2>1, <2>2 DEF AllBear
<1>codes. Codes \cap Links = {} /\ None \notin Links /\ None \notin Users
    BY SignInAssumption DEF Tokens
<1>link. ASSUME NEW r \in Requests, LinkStep(r) PROVE AllBear'
    <2>1. ASSUME NEW b \in Browsers, NEW l \in Links, LoadLink(r, b, l) PROVE AllBear'
        <3>1. PICK q : q = [phase |-> "link", browser |-> b, saw |-> session[b],
                            user |-> link[l].user, token |-> l]
            OBVIOUS
        <3>2. link' = link /\ req' = [req EXCEPT ![r] = q] /\ link[l].user # None
            BY <2>1, <3>1 DEF LoadLink, Arrive, rows
        <3>3. Bears(link', q)
            BY <3>1, <3>2 DEF Bears
        <3> QED
            BY <1>arrives, <3>2, <3>3
    <2>2. CASE ClaimLink(r)
        BY <1>ends, <1>goes, <2>2 DEF ClaimLink, In, Phases
    <2>3. CASE AdmitCustomer(r)
        BY <1>ends, <1>goes, <2>3 DEF AdmitCustomer, In, Phases
    <2> QED
        BY <1>link, <2>1, <2>2, <2>3 DEF LinkStep
<1>password. ASSUME NEW r \in Requests, PasswordStep(r) PROVE AllBear'
    <2>1. ASSUME NEW b \in Browsers, NEW u \in Users, LoadPassword(r, b, u) PROVE AllBear'
        <3>1. PICK q : q = [phase |-> "password", browser |-> b, saw |-> session[b],
                            user |-> u, token |-> None]
            OBVIOUS
        <3>2. req' = [req EXCEPT ![r] = q]
            BY <2>1, <3>1 DEF LoadPassword, Arrive
        <3>3. Bears(link', q)
            BY <1>codes, <3>1 DEF Bears
        <3> QED
            BY <1>arrives, <3>2, <3>3
    <2>2. ASSUME NEW d \in Devices \cup {None}, AdmitUnchallenged(r, d) PROVE AllBear'
        BY <1>goes, <2>2 DEF AdmitUnchallenged, In, Phases
    <2>3. ASSUME NEW d \in Devices \cup {None}, NEW c \in Codes, Challenge(r, d, c) PROVE AllBear'
        <3>1. PICK q : q = [req[r] EXCEPT !.phase = "sent", !.token = c]
            OBVIOUS
        <3>2. req[r] \in Request /\ req[r].user # None
            BY <2>3, BusyIsRequest DEF Challenge, In, Challenged, AllHonest, Honest
        <3>3. q.token = c /\ q.user = req[r].user
            BY <3>1, <3>2 DEF Request
        <3>4. req' = [req EXCEPT ![r] = q]
            BY <2>3, <3>1 DEF Challenge, SendChallenge
        <3>5. Bears(link', q)
            BY <1>codes, <3>2, <3>3 DEF Bears
        <3> QED
            BY <1>arrives, <3>4, <3>5
    <2>4. ASSUME NEW b \in Browsers, NEW c \in Codes, Resend(r, b, c) PROVE AllBear'
        <3>1. PICK u : u = code[session[b].pending].user
            OBVIOUS
        <3>2. u # None
            BY <2>4, <3>1 DEF Resend, Challenged, AllSound, Sound, Sent
        <3>3. PICK q : q = [phase |-> "sent", browser |-> b, saw |-> session[b],
                            user |-> u, token |-> c]
            OBVIOUS
        <3>4. req' = [req EXCEPT ![r] = q]
            BY <2>4, <3>1, <3>3 DEF Resend
        <3>5. Bears(link', q)
            BY <1>codes, <3>2, <3>3 DEF Bears
        <3> QED
            BY <1>arrives, <3>4, <3>5
    <2>5. CASE SavePending(r)
        BY <1>ends, <2>5 DEF SavePending
    <2> QED
        BY <1>password, <2>1, <2>2, <2>3, <2>4, <2>5 DEF PasswordStep
<1>code. ASSUME NEW r \in Requests, CodeStep(r) PROVE AllBear'
    <2>1. ASSUME NEW b \in Browsers, LoadCode(r, b) PROVE AllBear'
        <3>1. PICK c : c = session[b].pending
            OBVIOUS
        <3>2. PICK p : p = IF Usable(c) THEN "code" ELSE "drop"
            OBVIOUS
        <3>3. PICK q : q = [phase |-> p, browser |-> b, saw |-> session[b],
                            user |-> code[c].user, token |-> c]
            OBVIOUS
        <3>4. req' = [req EXCEPT ![r] = q]
            BY <2>1, <3>1, <3>2, <3>3 DEF LoadCode, Arrive
        <3>5. c \in Codes /\ code[c].user # None
            BY <2>1, <3>1 DEF LoadCode, Challenged, AllSound, Sound, Sent
        <3>6. Bears(link', q)
            BY <1>codes, <3>3, <3>5 DEF Bears
        <3> QED
            BY <1>arrives, <3>4, <3>6
    <2>2. CASE CountGuess(r)
        BY <1>ends, <1>goes, <2>2 DEF CountGuess, Failed, In, Phases
    <2>3. CASE WrongGuess(r)
        BY <1>ends, <1>goes, <2>3 DEF WrongGuess, Comparing, Failed, In, Phases
    <2>4. CASE RightGuess(r)
        BY <1>ends, <1>goes, <2>4 DEF RightGuess, Comparing, Failed, In, Phases
    <2>5. CASE DropPending(r)
        BY <1>ends, <2>5 DEF DropPending
    <2> QED
        BY <1>code, <2>1, <2>2, <2>3, <2>4, <2>5 DEF CodeStep
<1>login. ASSUME NEW r \in Requests, Login(r) PROVE AllBear'
    <2>1. /\ req'[r] = Idle
          /\ \A q \in Requests :
                q # r => /\ req'[q].phase = req[q].phase /\ req'[q].token = req[q].token
                         /\ req[q].phase # "idle" => req'[q].user = req[q].user
        BY <1>idle, <1>login, LoginLeaves
    <2> QED
        BY <1>idle, <1>kept, <2>1
<1>abandon. ASSUME NEW r \in Requests, Abandon(r) PROVE AllBear'
    BY <1>ends, <1>abandon DEF Abandon
<1>logout. ASSUME NEW b \in Browsers, Logout(b) PROVE AllBear'
    <2>1. \A q \in Requests :
             /\ req'[q].phase = req[q].phase /\ req'[q].token = req[q].token
             /\ req[q].phase # "idle" => req'[q].user = req[q].user
        BY <1>idle, <1>logout, LosingOnly DEF Logout
    <2> QED
        BY <1>kept, <2>1
<1>same. ASSUME req' = req PROVE AllBear'
    BY <1>same, <1>kept
<1>outside. CASE Outside
    BY <1>outside, <1>same, <1>logout
    DEF Outside, RequestLink, ChangeAccount, ExpireCode, ExpireLink, DistrustDevice
<1> QED
    BY <1>same, <1>link, <1>password, <1>code, <1>login, <1>abandon, <1>outside DEF Next, vars

\* Who sends a code, and who a link.
SendsCode(c, u, b) ==
    /\ code[c].user = None
    /\ code' = [code EXCEPT ![c].user = u] /\ sent_to' = [sent_to EXCEPT ![c] = b]
    /\ UNCHANGED <<link, session, judged, entered>>

CodesStay == sent_to' = sent_to /\ \A c \in Codes : code'[c].user = code[c].user
LinksStay == \A l \in Links : link'[l].user = link[l].user

LEMMA CodeSenders ==
    ASSUME Typed, Challenged, [Next]_vars
    PROVE  CodesStay \/ \E c \in Codes, u \in Users, b \in Browsers : SendsCode(c, u, b)
<1> USE DEF Typed, rows, history
<1>0. code \in [Codes -> Code]
    BY DEF TypeOK
<1>same. ASSUME UNCHANGED <<code, sent_to>> PROVE CodesStay
    BY <1>same DEF CodesStay
<1>challenge. ASSUME NEW r \in Requests, NEW d \in Devices \cup {None}, NEW c \in Codes, Challenge(r, d, c)
              PROVE  \E u \in Users, b \in Browsers : SendsCode(c, u, b)
    <2>1. req[r] \in Request /\ req[r].user # None
        BY <1>challenge, BusyIsRequest DEF Challenge, In, Challenged, AllHonest, Honest
    <2>2. req[r].user \in Users /\ req[r].browser \in Browsers
        BY <2>1 DEF Request
    <2>3. SendsCode(c, req[r].user, req[r].browser)
        BY <1>challenge DEF Challenge, SendChallenge, SendsCode
    <2> QED
        BY <2>2, <2>3
<1>resend. ASSUME NEW r \in Requests, NEW b \in Browsers, NEW c \in Codes, Resend(r, b, c)
           PROVE  \E u \in Users : SendsCode(c, u, b)
    <2>1. session[b].pending \in Codes /\ code[session[b].pending].user # None
        BY <1>resend DEF Resend, Challenged, AllSound, Sound, Sent
    <2>2. code[session[b].pending].user \in Users
        BY <1>0, <2>1 DEF Code
    <2>3. SendsCode(c, code[session[b].pending].user, b)
        BY <1>resend DEF Resend, SendsCode
    <2> QED
        BY <2>2, <2>3
<1>password. ASSUME NEW r \in Requests, PasswordStep(r)
             PROVE  CodesStay \/ \E c \in Codes, u \in Users, b \in Browsers : SendsCode(c, u, b)
    BY <1>password, <1>same, <1>challenge, <1>resend
    DEF PasswordStep, LoadPassword, AdmitUnchallenged, SavePending
<1>count. ASSUME NEW r \in Requests, CountGuess(r) PROVE CodesStay
    BY <1>0, <1>count DEF CountGuess, CodesStay, Code
<1>right. ASSUME NEW r \in Requests, RightGuess(r) PROVE CodesStay
    BY <1>0, <1>right DEF RightGuess, CodesStay, Code
<1>expire. ASSUME NEW c \in Codes, ExpireCode(c) PROVE CodesStay
    BY <1>0, <1>expire DEF ExpireCode, CodesStay, Code
<1>code. ASSUME NEW r \in Requests, CodeStep(r) PROVE CodesStay
    BY <1>code, <1>same, <1>count, <1>right DEF CodeStep, LoadCode, WrongGuess, DropPending
<1>rest. ASSUME NEW r \in Requests, LinkStep(r) \/ Login(r) \/ Abandon(r) PROVE CodesStay
    BY <1>rest, <1>same DEF LinkStep, LoadLink, ClaimLink, AdmitCustomer, Login, Abandon
<1>outside. ASSUME Outside PROVE CodesStay
    BY <1>outside, <1>same, <1>expire
    DEF Outside, RequestLink, ChangeAccount, ExpireLink, DistrustDevice, Logout
<1> QED
    BY <1>same, <1>password, <1>code, <1>rest, <1>outside DEF Next, vars

LEMMA LinkSenders ==
    ASSUME TypeOK, [Next]_vars
    PROVE  LinksStay \/ \E u \in Users, l \in Links : RequestLink(u, l)
<1> USE DEF rows, history
<1>0. link \in [Links -> Link]
    BY DEF TypeOK
<1>same. ASSUME link' = link PROVE LinksStay
    BY <1>same DEF LinksStay
<1>claim. ASSUME NEW r \in Requests, ClaimLink(r) PROVE LinksStay
    BY <1>0, <1>claim DEF ClaimLink, LinksStay, Link
<1>expire. ASSUME NEW l \in Links, ExpireLink(l) PROVE LinksStay
    BY <1>0, <1>expire DEF ExpireLink, LinksStay, Link
<1>link. ASSUME NEW r \in Requests, LinkStep(r) PROVE LinksStay
    BY <1>link, <1>same, <1>claim DEF LinkStep, LoadLink, AdmitCustomer
<1>rest. ASSUME NEW r \in Requests, PasswordStep(r) \/ CodeStep(r) \/ Login(r) \/ Abandon(r)
         PROVE  link' = link
    BY <1>rest
    DEF PasswordStep, LoadPassword, AdmitUnchallenged, Challenge, SendChallenge, Resend, SavePending,
        CodeStep, LoadCode, CountGuess, WrongGuess, RightGuess, DropPending, Login, Abandon
<1>outside. ASSUME Outside PROVE LinksStay \/ \E u \in Users, l \in Links : RequestLink(u, l)
    BY <1>outside, <1>same, <1>expire DEF Outside, ChangeAccount, ExpireCode, DistrustDevice, Logout
<1> QED
    BY <1>same, <1>link, <1>rest, <1>outside DEF Next, vars

LEMMA AddressStep == Typed /\ Challenged /\ Addressed /\ [Next]_vars => Addressed'
<1> SUFFICES ASSUME Typed, Challenged, Addressed, [Next]_vars PROVE Addressed'
    OBVIOUS
<1>1. CASE CodesStay
    BY <1>1 DEF CodesStay, Addressed
<1>2. ASSUME NEW c \in Codes, NEW u \in Users, NEW b \in Browsers, SendsCode(c, u, b)
      PROVE  Addressed'
    BY <1>2, SignInAssumption DEF SendsCode, Addressed, Typed, TypeOK, Code
<1> QED
    BY <1>1, <1>2, CodeSenders

-----------------------------------------------------------------------------
(* What the door shows of a row.                                            *)

LEMMA RecipientsStay ==
    ASSUME CodesStay, LinksStay
    PROVE  Recipients' = Recipients
<1>1. \A t \in Tokens : t \notin Codes => t \in Links
    BY DEF Tokens
<1> QED
    BY <1>1 DEF CodesStay, LinksStay, Recipients

LEMMA CodeReaches ==
    ASSUME Typed, NEW c \in Codes, NEW u, NEW b, SendsCode(c, u, b)
    PROVE  Recipients' = [Recipients EXCEPT ![c] = [user |-> u, browser |-> b]]
<1>1. /\ code'[c].user = u /\ sent_to'[c] = b /\ link' = link
      /\ \A k \in Codes : k # c => code'[k].user = code[k].user /\ sent_to'[k] = sent_to[k]
    BY DEF SendsCode, Typed, TypeOK, Code
<1> QED
    BY <1>1 DEF Recipients

LEMMA LinkReaches ==
    ASSUME Typed, NEW l \in Links, NEW u, RequestLink(u, l)
    PROVE  Recipients' = [Recipients EXCEPT ![l] = [user |-> u, browser |-> None]]
<1>1. /\ link'[l].user = u /\ code' = code /\ sent_to' = sent_to
      /\ \A k \in Links : k # l => link'[k].user = link[k].user
    BY DEF RequestLink, Typed, TypeOK, Link, history
<1>2. l \notin Codes /\ \A t \in Tokens : t \notin Codes => t \in Links
    BY SignInAssumption DEF Tokens
<1> QED
    BY <1>1, <1>2 DEF Recipients

LEMMA ConsumedStay ==
    ASSUME \A t \in Tokens : Spent(t)' = Spent(t)
    PROVE  Consumed' = Consumed
BY DEF Consumed

LEMMA ConsumedGrow ==
    ASSUME NEW t \in Tokens, Spent(t)' = TRUE, \A s \in Tokens : s # t => Spent(s)' = Spent(s)
    PROVE  Consumed' = [Consumed EXCEPT ![t] = TRUE]
BY DEF Consumed

LEMMA ActingStays ==
    ASSUME session' = session
    PROVE  Acting' = Acting
BY DEF Acting

LEMMA ActingTurns ==
    ASSUME Typed, NEW b \in Browsers, NEW s,
           \A o \in Browsers : o # b => session'[o] = session[o],
           session'[b].user = s.user, session'[b].verified = s.verified
    PROVE  Acting' = [Acting EXCEPT ![b] = Face(s)]
BY DEF Acting, Face, Typed, TypeOK

\* What a request saves, it had loaded from its browser's session, but for
\* the pending challenge.
LEMMA SavesWhatItSaw ==
    ASSUME Typed, NEW r \in Requests, SavePending(r) \/ DropPending(r)
    PROVE  \/ session' = session
           \/ \E b \in Browsers : \E face \in Carried[b] : Acting' = [Acting EXCEPT ![b] = face]
<1>1. req[r] \in Request /\ req[r] # Idle /\ req[r].saw \in Session /\ req[r].browser \in Browsers
    <2>1. req[r] \in Request /\ req[r] # Idle
        BY BusyIsRequest DEF SavePending, DropPending, In, Typed
    <2> QED
        BY <2>1 DEF Request
<1>2. PICK c \in Codes \cup {None} : SaveSession(r, [req[r].saw EXCEPT !.pending = c])
    BY DEF SavePending, DropPending, Typed, TokenKinds, In
<1>3. PICK s : s = [req[r].saw EXCEPT !.pending = c]
    OBVIOUS
<1>4. /\ s \in Session /\ s.user = req[r].saw.user /\ s.verified = req[r].saw.verified
      /\ s.key = req[r].saw.key
    BY <1>1, <1>3 DEF Session
<1>5. /\ \A b \in Browsers : b # req[r].browser => session'[b] = session[b]
      /\ \/ s.key = Lost /\ UNCHANGED session
         \/ s.key # Lost /\ Says(session'[req[r].browser]) = Says(s)
    BY <1>1, <1>2, <1>3, <1>4, SaveWrites DEF Typed
<1>6. ASSUME s.key # Lost, Says(session'[req[r].browser]) = Says(s)
      PROVE  \E b \in Browsers : \E face \in Carried[b] : Acting' = [Acting EXCEPT ![b] = face]
    <2>1. Acting' = [Acting EXCEPT ![req[r].browser] = Face(req[r].saw)]
        <3>1. /\ session'[req[r].browser].user = req[r].saw.user
              /\ session'[req[r].browser].verified = req[r].saw.verified
            BY <1>4, <1>6 DEF Says
        <3> QED
            BY <1>1, <1>5, <3>1, ActingTurns
    <2>2. Keeps(r, req[r].browser)
        BY <1>1, <1>4, <1>6 DEF Keeps
    <2>3. Face(req[r].saw) \in Carried[req[r].browser]
        BY <1>1, <2>2 DEF Carried
    <2> QED
        BY <1>1, <2>1, <2>3
<1> QED
    BY <1>5, <1>6

\* No request holds a session but what it held, or what its browser has now.
CarriesOn(q) ==
    req'[q] # Idle =>
        \/ /\ req[q] # Idle /\ req'[q].browser = req[q].browser
           /\ Says(req'[q].saw) = Says(req[q].saw)
           /\ req'[q].saw.key \in {req[q].saw.key, Lost}
        \/ req'[q].saw = session[req'[q].browser]

LEMMA CarryStep == ASSUME Typed, [Next]_vars, NEW q \in Requests PROVE CarriesOn(q)
<1> USE DEF Typed
<1>idle. Idle.phase = "idle"
    BY DEF Idle
<1>0. req \in [Requests -> Request \cup {Idle}]
    BY DEF TypeOK
<1>same. ASSUME req'[q] = req[q] PROVE CarriesOn(q)
    BY <1>same DEF CarriesOn
<1>ends. ASSUME NEW r \in Requests, req' = End(r) PROVE CarriesOn(q)
    BY <1>ends, <1>same, Ends DEF CarriesOn
<1>goes. ASSUME NEW r \in Requests, NEW p \in Phases, req[r].phase # "idle", req' = Goto(r, p)
         PROVE  CarriesOn(q)
    BY <1>idle, <1>goes, <1>same, GoesTo DEF CarriesOn
<1>arrives. ASSUME NEW r \in Requests, NEW b \in Browsers, NEW o, req' = [req EXCEPT ![r] = o],
                   o.browser = b, o.saw = session[b]
            PROVE  CarriesOn(q)
    <2>1. req'[r] = o /\ (q # r => req'[q] = req[q])
        BY <1>0, <1>arrives
    <2> QED
        BY <1>arrives, <1>same, <2>1 DEF CarriesOn
<1>arrive. ASSUME NEW r \in Requests, NEW b \in Browsers, NEW p, NEW u, NEW t, Arrive(r, b, p, u, t)
           PROVE  CarriesOn(q)
    <2>1. PICK o : o = [phase |-> p, browser |-> b, saw |-> session[b], user |-> u, token |-> t]
        OBVIOUS
    <2>2. req' = [req EXCEPT ![r] = o] /\ o.browser = b /\ o.saw = session[b]
        BY <1>arrive, <2>1 DEF Arrive
    <2> QED
        BY <1>arrives, <2>2
<1>link. ASSUME NEW r \in Requests, LinkStep(r) PROVE CarriesOn(q)
    <2>1. ASSUME NEW b \in Browsers, NEW l \in Links, LoadLink(r, b, l) PROVE CarriesOn(q)
        BY <1>arrive, <2>1 DEF LoadLink
    <2>2. CASE ClaimLink(r)
        BY <1>ends, <1>goes, <2>2 DEF ClaimLink, In, Phases
    <2>3. CASE AdmitCustomer(r)
        BY <1>ends, <1>goes, <2>3 DEF AdmitCustomer, In, Phases
    <2> QED
        BY <1>link, <2>1, <2>2, <2>3 DEF LinkStep
<1>password. ASSUME NEW r \in Requests, PasswordStep(r) PROVE CarriesOn(q)
    <2>1. ASSUME NEW b \in Browsers, NEW u \in Users, LoadPassword(r, b, u) PROVE CarriesOn(q)
        BY <1>arrive, <2>1 DEF LoadPassword
    <2>2. ASSUME NEW d \in Devices \cup {None}, AdmitUnchallenged(r, d) PROVE CarriesOn(q)
        BY <1>goes, <2>2 DEF AdmitUnchallenged, In, Phases
    <2>3. ASSUME NEW d \in Devices \cup {None}, NEW c \in Codes, Challenge(r, d, c) PROVE CarriesOn(q)
        <3>1. PICK o : o = [req[r] EXCEPT !.phase = "sent", !.token = c]
            OBVIOUS
        <3>2. req[r] \in Request /\ req[r] # Idle
            BY <2>3, BusyIsRequest DEF Challenge, In
        <3>3. o.browser = req[r].browser /\ o.saw = req[r].saw
            BY <3>1, <3>2 DEF Request
        <3>4. req' = [req EXCEPT ![r] = o]
            BY <2>3, <3>1 DEF Challenge, SendChallenge
        <3>5. req'[r] = o /\ (q # r => req'[q] = req[q])
            BY <1>0, <3>4
        <3> QED
            BY <1>same, <3>2, <3>3, <3>5 DEF CarriesOn
    <2>4. ASSUME NEW b \in Browsers, NEW c \in Codes, Resend(r, b, c) PROVE CarriesOn(q)
        <3>1. PICK o : o = [phase |-> "sent", browser |-> b, saw |-> session[b],
                            user |-> code[session[b].pending].user, token |-> c]
            OBVIOUS
        <3>2. req' = [req EXCEPT ![r] = o] /\ o.browser = b /\ o.saw = session[b]
            BY <2>4, <3>1 DEF Resend
        <3> QED
            BY <1>arrives, <3>2
    <2>5. CASE SavePending(r)
        BY <1>ends, <2>5 DEF SavePending
    <2> QED
        BY <1>password, <2>1, <2>2, <2>3, <2>4, <2>5 DEF PasswordStep
<1>code. ASSUME NEW r \in Requests, CodeStep(r) PROVE CarriesOn(q)
    <2>1. ASSUME NEW b \in Browsers, LoadCode(r, b) PROVE CarriesOn(q)
        BY <1>arrive, <2>1 DEF LoadCode
    <2>2. CASE CountGuess(r)
        BY <1>ends, <1>goes, <2>2 DEF CountGuess, Failed, In, Phases
    <2>3. CASE WrongGuess(r)
        BY <1>ends, <1>goes, <2>3 DEF WrongGuess, Comparing, Failed, In, Phases
    <2>4. CASE RightGuess(r)
        BY <1>ends, <1>goes, <2>4 DEF RightGuess, Comparing, Failed, In, Phases
    <2>5. CASE DropPending(r)
        BY <1>ends, <2>5 DEF DropPending
    <2> QED
        BY <1>code, <2>1, <2>2, <2>3, <2>4, <2>5 DEF CodeStep
<1>login. ASSUME NEW r \in Requests, Login(r) PROVE CarriesOn(q)
    BY <1>login, LoginLeaves DEF CarriesOn
<1>abandon. ASSUME NEW r \in Requests, Abandon(r) PROVE CarriesOn(q)
    BY <1>ends, <1>abandon DEF Abandon
<1>logout. ASSUME NEW b \in Browsers, Logout(b) PROVE CarriesOn(q)
    <2>1. PICK then : then = Losing(session[b].key)[q]
        OBVIOUS
    <2>2. req'[q] = then
        BY <1>logout, <2>1 DEF Logout
    <2>3. /\ then = Idle <=> req[q] = Idle
          /\ req[q] # Idle => /\ Says(then.saw) = Says(req[q].saw) /\ then.browser = req[q].browser
                              /\ then.saw.key \in {req[q].saw.key, Lost}
        BY <2>1, LosingOnly
    <2> QED
        BY <2>2, <2>3 DEF CarriesOn
<1>outside. CASE Outside
    BY <1>outside, <1>same, <1>logout
    DEF Outside, RequestLink, ChangeAccount, ExpireCode, ExpireLink, DistrustDevice
<1> QED
    BY <1>same, <1>link, <1>password, <1>code, <1>login, <1>abandon, <1>outside DEF Next, vars

\* What a browser may go on as, it could before, or becomes now.
LEMMA DoorHolds == ASSUME Typed, [Next]_vars PROVE Door!Hold
<1> SUFFICES ASSUME NEW b \in Browsers
             PROVE  Acting'[b] \in Carried'[b] /\ Carried'[b] \subseteq Carried[b] \cup {Acting'[b]}
    BY DEF Door!Hold
<1>1. Acting'[b] = Face(session'[b]) /\ Acting[b] = Face(session[b]) /\ Acting[b] \in Carried[b]
    BY DEF Acting, Carried, Face
<1>2. Carried'[b] = {Face(session'[b])} \cup {Face(req'[q].saw) : q \in {p \in Requests : Keeps(p, b)'}}
    BY DEF Carried, Face
<1>3. ASSUME NEW q \in Requests, Keeps(q, b)' PROVE Face(req'[q].saw) \in Carried[b]
    <2>1. req'[q] # Idle /\ req'[q].browser = b /\ req'[q].saw.key # Lost
        BY <1>3 DEF Keeps
    <2>2. CASE req'[q].saw = session[b]
        BY <1>1, <2>2
    <2>3. CASE /\ req[q] # Idle /\ req[q].browser = b /\ Says(req'[q].saw) = Says(req[q].saw)
               /\ req'[q].saw.key \in {req[q].saw.key, Lost}
        <3>1. Keeps(q, b)
            BY <2>1, <2>3 DEF Keeps
        <3>2. Face(req'[q].saw) = Face(req[q].saw)
            BY <2>3 DEF Says, Face
        <3> QED
            BY <3>1, <3>2 DEF Carried
    <2> QED
        BY <2>1, <2>2, <2>3, CarryStep DEF CarriesOn
<1> QED
    BY <1>1, <1>2, <1>3

\* A code that was cleared, the door knows to be.
LEMMA DoorClears ==
    ASSUME NEW b, NEW u, Cleared(code, sent_to, b, u)
    PROVE  Door!Cleared(b, u)
<1>1. PICK c \in Codes : code[c].user = u /\ code[c].consumed /\ sent_to[c] = b
    BY DEF Cleared
<1>2. c \in Tokens /\ c \notin Links
    BY SignInAssumption DEF Tokens
<1>3. Recipients[c] = [user |-> u, browser |-> b]
    BY <1>1, <1>2 DEF Recipients
<1>4. Consumed[c]
    BY <1>1, <1>2 DEF Consumed, Spent
<1> QED
    BY <1>3, <1>4 DEF Door!Cleared

-----------------------------------------------------------------------------
(* Every step is one of the door's moves, or none.                          *)

LEMMA Unmoved ==
    ASSUME CodesStay, LinksStay, entered' = entered, judged' = judged,
           \A t \in Tokens : Spent(t)' = Spent(t), session' = session
    PROVE  Door!Moves
<1>1. Door!Forget
    BY RecipientsStay, ConsumedStay, ActingStays DEF Door!Forget
<1> QED
    BY <1>1 DEF Door!Moves

LEMMA ClickStep ==
    ASSUME Typed, OneHolder, AllBear, NEW r \in Requests, ClaimLink(r)
    PROVE  Door!Moves
<1> USE DEF Typed, history
<1>0. link \in [Links -> Link] /\ code' = code /\ session' = session
      /\ entered' = entered /\ judged' = judged /\ sent_to' = sent_to
    BY DEF ClaimLink, TypeOK
<1>1. PICK l \in Links : l = req[r].token
    BY DEF ClaimLink, TokenKinds, In
<1>2. l \in Tokens /\ l \notin Codes
    BY SignInAssumption DEF Tokens
<1>3. LinksStay /\ CodesStay
    BY <1>0 DEF ClaimLink, LinksStay, CodesStay, Link
<1>4. CASE ~UnspentLink(r)
    <2>1. \A t \in Tokens : Spent(t)' = Spent(t)
        BY <1>0, <1>4 DEF ClaimLink, Spent
    <2> QED
        BY <1>0, <1>3, <2>1, Unmoved
<1>5. CASE UnspentLink(r)
    <2>1. ~Spent(l) /\ Spent(l)' = TRUE /\ \A s \in Tokens : s # l => Spent(s)' = Spent(s)
        BY <1>0, <1>1, <1>5 DEF ClaimLink, UnspentLink, Spent, Link
    <2>2. ~Consumed[l]
        BY <1>2, <2>1 DEF Consumed
    <2>3. Consumed' = [Consumed EXCEPT ![l] = TRUE]
        BY <1>2, <2>1, ConsumedGrow
    <2>4. link[l].user # None
        BY <1>1 DEF ClaimLink, In, AllBear, Bears
    <2>5. Recipients[l] # Door!Unsent
        BY <1>2, <2>4 DEF Recipients, Door!Unsent
    <2>6. Recipients' = Recipients /\ Acting' = Acting
        BY <1>0, <1>3, RecipientsStay, ActingStays
    <2>7. Door!Click(l)
        BY <1>0, <2>2, <2>3, <2>5, <2>6 DEF Door!Click, Door!Spend
    <2> QED
        BY <2>7 DEF Door!Moves
<1> QED
    BY <1>4, <1>5

\* A guess compared was counted, so there was one left.
LEMMA GuessLeftOver ==
    ASSUME Typed, GuessesCounted, NEW r \in Requests, Comparing(r), NEW c \in Codes, c = req[r].token
    PROVE  judged[c] < MaxAttempts
<1>1. judged[c] \in Nat /\ code[c].attempts \in 0 .. MaxAttempts
    BY DEF Typed, TypeOK, Code
<1>2. judged[c] + Cardinality(Comparers(c)) <= code[c].attempts
    BY DEF GuessesCounted
<1>3. r \in Comparers(c)
    BY DEF Comparers
<1>4. Cardinality(Comparers(c)) # 0
    BY <1>3, ComparersFinite, FS_EmptySet
<1> QED
    BY <1>1, <1>2, <1>4, ComparersFinite, SignInAssumption

LEMMA GuessStep ==
    ASSUME Typed, GuessesCounted, OneHolder, Challenged,
           NEW r \in Requests, WrongGuess(r) \/ RightGuess(r)
    PROVE  Door!Moves
<1> USE DEF Typed, rows, history
<1>0. /\ code \in [Codes -> Code] /\ link' = link /\ session' = session
      /\ entered' = entered /\ sent_to' = sent_to
    BY DEF WrongGuess, RightGuess, TypeOK
<1>1. PICK c \in Codes : c = req[r].token
    BY DEF WrongGuess, RightGuess, Comparing, TokenKinds, In
<1>2. Comparing(r) /\ judged' = [judged EXCEPT ![c] = @ + 1]
    BY <1>1 DEF WrongGuess, RightGuess, Compared
<1>3. judged[c] < MaxAttempts
    BY <1>1, <1>2, GuessLeftOver
<1>4. c \in Tokens /\ c \notin Links
    BY SignInAssumption DEF Tokens
<1>5. CodesStay /\ LinksStay
    BY <1>0 DEF WrongGuess, RightGuess, CodesStay, LinksStay, Code
<1>6. Recipients' = Recipients /\ Acting' = Acting
    BY <1>0, <1>5, RecipientsStay, ActingStays
<1>7. Door!Spend(c) \/ UNCHANGED Consumed
    <2>1. CASE code' = code
        <3>1. \A t \in Tokens : Spent(t)' = Spent(t)
            BY <1>0, <2>1 DEF Spent
        <3> QED
            BY <3>1, ConsumedStay
    <2>2. CASE ~code[c].consumed /\ code' = [code EXCEPT ![c].consumed = TRUE]
        <3>1. code'[c].consumed = TRUE /\ \A k \in Codes : k # c => code'[k] = code[k]
            BY <1>0, <2>2 DEF Code
        <3>2. ~Spent(c) /\ Spent(c)' = TRUE /\ \A s \in Tokens : s # c => Spent(s)' = Spent(s)
            BY <1>0, <1>4, <2>2, <3>1 DEF Spent, Tokens
        <3>3. ~Consumed[c]
            BY <1>4, <3>2 DEF Consumed
        <3>4. Consumed' = [Consumed EXCEPT ![c] = TRUE]
            BY <1>4, <3>2, ConsumedGrow
        <3>5. code[c].user # None
            BY <1>1, <1>2 DEF Comparing, In, Challenged, AllHonest, Honest, Sent
        <3>6. Recipients[c] # Door!Unsent
            BY <1>4, <3>5 DEF Recipients, Door!Unsent
        <3> QED
            BY <3>3, <3>4, <3>6 DEF Door!Spend
    <2> QED
        BY <1>1, <2>1, <2>2 DEF WrongGuess, RightGuess
<1>8. Door!Guess(c)
    BY <1>0, <1>2, <1>3, <1>6, <1>7 DEF Door!Guess
<1> QED
    BY <1>8 DEF Door!Moves

\* What a login writes: a session of a user of this place, who has cleared a
\* code if it is verified or the office's.
LEMMA LoginWrites ==
    ASSUME Typed, Challenged, AllBear, NEW r \in Requests, Login(r), NEW q, q = req[r]
    PROVE  /\ q \in Request /\ q.phase = "admitted" /\ q.user \in Users /\ q.browser \in Browsers
           /\ q.token \in Codes =>
                code[q.token].user = q.user /\ code[q.token].consumed /\ sent_to[q.token] = q.browser
           /\ q.token \in Links => link[q.token].user = q.user
           /\ q.token \notin Codes => q.user \notin Office
           /\ \/ Entering(r).key = Lost /\ session' = session
              \/ /\ Entering(r).key # Lost
                 /\ \E v \in BOOLEAN :
                       /\ Acting' = [Acting EXCEPT ![q.browser] = [user |-> q.user, verified |-> v]]
                       /\ q.token \in Codes => v
                       /\ v \/ q.user \in Office => Door!Cleared(q.browser, q.user)
<1>1. q \in Request /\ q.phase = "admitted" /\ Honest(code, sent_to, q) /\ Bears(link, q)
    BY BusyIsRequest DEF Login, In, Typed, Challenged, AllHonest, AllBear
<1>2. q.user # None /\ q.user \in Users /\ q.browser \in Browsers
    BY <1>1 DEF Bears, Request
<1>3. /\ q.token \in Codes => code[q.token].user = q.user /\ code[q.token].consumed
                                                          /\ sent_to[q.token] = q.browser
      /\ q.token \in Links => link[q.token].user = q.user
      /\ q.token \notin Codes => q.user \notin Office
    BY <1>1 DEF Honest, Sent, Bears
<1>4. PICK s : s = Entering(r)
    OBVIOUS
<1>5. Kept(r) \in Session /\ s \in Session
    BY <1>1, <1>4, EnteringIsSession DEF Typed
<1>v. PICK v \in BOOLEAN : v = s.verified
    BY <1>5 DEF Session
<1>s. /\ s.user = q.user /\ (v => Kept(r).verified \/ ByCode(r)) /\ (q.token \in Codes => v)
    BY <1>4, <1>5, <1>v DEF Entering, Session, ByCode
<1>6. \/ s.key = Lost /\ session' = session
      \/ s.key # Lost /\ Acting' = [Acting EXCEPT ![q.browser] = [user |-> q.user, verified |-> v]]
    <2>1. /\ \A b \in Browsers : b # q.browser => session'[b] = session[b]
          /\ \/ s.key = Lost /\ session' = session
             \/ s.key # Lost /\ Says(session'[q.browser]) = Says(s)
        BY <1>1, <1>4, <1>5, SaveWrites DEF Login, Typed
    <2>2. ASSUME Says(session'[q.browser]) = Says(s)
          PROVE  Acting' = [Acting EXCEPT ![q.browser] = [user |-> q.user, verified |-> v]]
        <3>1. session'[q.browser].user = s.user /\ session'[q.browser].verified = s.verified
            BY <2>2 DEF Says
        <3>2. Acting' = [Acting EXCEPT ![q.browser] = Face(s)]
            BY <1>2, <2>1, <3>1, ActingTurns
        <3> QED
            BY <1>s, <1>v, <3>2 DEF Face
    <2> QED
        BY <2>1, <2>2
<1>7. ASSUME v \/ q.user \in Office PROVE Door!Cleared(q.browser, q.user)
    <2>1. CASE q.token \in Codes
        <3>1. Cleared(code, sent_to, q.browser, q.user)
            BY <1>3, <2>1 DEF Cleared
        <3> QED
            BY <3>1, DoorClears
    <2>2. CASE q.token \notin Codes
        <3>1. Kept(r).verified
            BY <1>3, <1>7, <1>s, <2>2 DEF ByCode
        <3>2. Kept(r) = q.saw /\ q.saw.user \in {None, q.user}
            BY <3>1 DEF Kept, SomebodyElses, Anonymous
        <3>3. Cleared(code, sent_to, q.browser, q.saw.user)
            BY <1>1, <3>1, <3>2 DEF Honest, Sound
        <3>4. ~Cleared(code, sent_to, q.browser, None)
            BY DEF Cleared, Challenged, SpentWasSent
        <3>5. q.saw.user = q.user
            BY <3>2, <3>3, <3>4
        <3> QED
            BY <3>3, <3>5, DoorClears
    <2> QED
        BY <2>1, <2>2
<1> QED
    BY <1>1, <1>2, <1>3, <1>4, <1>6, <1>7, <1>s

LEMMA EnterStep ==
    ASSUME Typed, OneHolder, Challenged, AllBear, NEW r \in Requests, Login(r)
    PROVE  Door!Moves
<1> USE DEF Typed
<1>0. entered \in [Tokens -> Nat] /\ code' = code /\ link' = link /\ judged' = judged /\ sent_to' = sent_to
    BY DEF Login, TypeOK
<1>1. PICK q : q = req[r]
    OBVIOUS
<1>2. PICK t : t = q.token
    OBVIOUS
<1>3. /\ q \in Request /\ q.phase = "admitted" /\ q.user \in Users /\ q.browser \in Browsers
      /\ t \in Codes => code[t].user = q.user /\ code[t].consumed /\ sent_to[t] = q.browser
      /\ t \in Links => link[t].user = q.user
      /\ t \notin Codes => q.user \notin Office
    BY <1>1, <1>2, LoginWrites
<1>lost. CASE Entering(r).key = Lost
    <2>1. session' = session /\ entered' = entered
        BY <1>lost, <1>1, LoginWrites DEF Login
    <2>2. \A s \in Tokens : Spent(s)' = Spent(s)
        BY <1>0 DEF Spent
    <2> QED
        BY <1>0, <2>1, <2>2, Unmoved DEF CodesStay, LinksStay
<1> SUFFICES ASSUME Entering(r).key # Lost PROVE Door!Moves
    BY <1>lost
<1>4. PICK v \in BOOLEAN :
         /\ Acting' = [Acting EXCEPT ![q.browser] = [user |-> q.user, verified |-> v]]
         /\ t \in Codes => v
         /\ v \/ q.user \in Office => Door!Cleared(q.browser, q.user)
    BY <1>1, <1>2, LoginWrites
<1>5. \A s \in Tokens : Spent(s)' = Spent(s)
    BY <1>0 DEF Spent
<1>6. Recipients' = Recipients /\ Consumed' = Consumed
    BY <1>0, <1>5, RecipientsStay, ConsumedStay DEF CodesStay, LinksStay
<1>7. Door!Enter(q.browser, q.user, v)
    BY <1>0, <1>4, <1>6 DEF Door!Enter
<1>8. ASSUME t \in Tokens PROVE Door!Open(t)
    <2>1. t # None
        BY <1>8, SignInAssumption
    <2>2. Holds(r, t)
        BY <1>1, <1>2 DEF Login, Holds
    <2>3. Spent(t) /\ entered[t] = 0
        BY <1>8, <2>2 DEF OneHolder
    <2>4. Consumed[t]
        BY <1>8, <2>3 DEF Consumed
    <2>5. entered' = [entered EXCEPT ![t] = 1]
        <3>1. entered' = [entered EXCEPT ![t] = entered[t] + 1]
            BY <1>1, <1>2, <2>1 DEF Login
        <3> QED
            BY <2>3, <3>1
    <2> QED
        BY <2>3, <2>4, <2>5 DEF Door!Open
<1>9. CASE t \in Codes
    <2>1. t \in Tokens /\ v = TRUE
        BY <1>4, <1>9 DEF Tokens
    <2>2. Recipients[t] = [user |-> q.user, browser |-> q.browser]
        BY <1>3, <1>9, <2>1 DEF Recipients
    <2>3. Recipients[t].browser = q.browser /\ Recipients[t].user = q.user
        BY <2>2
    <2>4. Door!Enter(Recipients[t].browser, Recipients[t].user, TRUE)
        BY <1>7, <2>1, <2>3 DEF Door!Enter
    <2>5. Door!ByCode(t)
        BY <1>8, <2>1, <2>4 DEF Door!ByCode
    <2> QED
        BY <1>9, <2>5 DEF Door!Moves
<1>10. CASE t \in Links
    <2>1. t \in Tokens /\ t \notin Codes
        BY <1>10, SignInAssumption DEF Tokens
    <2>2. Recipients[t].user = q.user
        BY <1>3, <1>10, <2>1 DEF Recipients
    <2>3. Door!ByLink(t, q.browser, v)
        BY <1>3, <1>7, <1>8, <2>1, <2>2 DEF Door!ByLink
    <2> QED
        BY <1>3, <1>10, <2>3 DEF Door!Moves
<1>11. CASE t \notin Tokens
    <2>1. t = None /\ t \notin Codes
        BY <1>2, <1>3, <1>11 DEF Request, Tokens
    <2>2. entered' = entered
        BY <1>1, <1>2, <2>1 DEF Login
    <2>3. Door!ByPassword(q.browser, q.user, v)
        BY <1>3, <1>7, <2>1, <2>2 DEF Door!ByPassword
    <2> QED
        BY <1>3, <2>3 DEF Door!Moves
<1> QED
    BY <1>9, <1>10, <1>11 DEF Tokens

\* A step that sends, writes no session, and neither spends nor compares.
LEMMA SendStep ==
    ASSUME Typed, Challenged, Addressed,
           NEW c \in Codes, NEW u \in Users, NEW b \in Browsers, SendsCode(c, u, b)
    PROVE  Door!Moves
<1>1. c \in Tokens /\ c \notin Links
    BY SignInAssumption DEF Tokens
<1>2. sent_to[c] = None /\ code[c].user = None
    BY DEF SendsCode, Addressed
<1>3. Recipients[c] = Door!Unsent
    BY <1>1, <1>2 DEF Recipients, Door!Unsent
<1>4. Recipients' = [Recipients EXCEPT ![c] = [user |-> u, browser |-> b]]
    BY CodeReaches
<1>5. \A t \in Tokens : Spent(t)' = Spent(t)
    <2>1. \A k \in Codes : code'[k].consumed = code[k].consumed
        BY DEF SendsCode, Typed, TypeOK, Code
    <2> QED
        BY <2>1 DEF SendsCode, Spent, Tokens
<1>6. Consumed' = Consumed /\ Acting' = Acting /\ entered' = entered /\ judged' = judged
    BY <1>5, ConsumedStay, ActingStays DEF SendsCode
<1>7. Door!Send(c, Browsers)
    BY <1>3, <1>4, <1>6 DEF Door!Send
<1> QED
    BY <1>7 DEF Door!Moves

LEMMA SendLinkStep ==
    ASSUME Typed, NEW u \in Users, NEW l \in Links, RequestLink(u, l)
    PROVE  Door!Moves
<1>1. l \in Tokens /\ l \notin Codes
    BY SignInAssumption DEF Tokens
<1>2. Recipients[l] = Door!Unsent
    BY <1>1 DEF RequestLink, Recipients, Door!Unsent
<1>3. Recipients' = [Recipients EXCEPT ![l] = [user |-> u, browser |-> None]]
    BY LinkReaches
<1>4. \A t \in Tokens : Spent(t)' = Spent(t)
    <2>1. code' = code /\ \A k \in Links : link'[k].consumed = link[k].consumed
        BY DEF RequestLink, Typed, TypeOK, Link
    <2> QED
        BY <2>1 DEF Spent
<1>5. Consumed' = Consumed /\ Acting' = Acting /\ entered' = entered /\ judged' = judged
    BY <1>4, ConsumedStay, ActingStays DEF RequestLink, history
<1>6. Door!Send(l, {None})
    BY <1>2, <1>3, <1>5 DEF Door!Send
<1> QED
    BY <1>6 DEF Door!Moves

LEMMA LeaveStep ==
    ASSUME Typed, NEW b \in Browsers, Logout(b)
    PROVE  Door!Moves
<1>1. Acting' = [Acting EXCEPT ![b] = Door!Nobody]
    <2>1. session'[b] = Anonymous /\ \A o \in Browsers : o # b => session'[o] = session[o]
        BY DEF Logout, Typed, TypeOK
    <2>2. Acting' = [Acting EXCEPT ![b] = Face(Anonymous)]
        BY <2>1, ActingTurns
    <2> QED
        BY <2>2 DEF Face, Anonymous, Door!Nobody
<1>2. code' = code /\ link' = link /\ sent_to' = sent_to /\ entered' = entered /\ judged' = judged
    BY DEF Logout, rows, history
<1>3. Recipients' = Recipients
    BY <1>2, RecipientsStay DEF CodesStay, LinksStay
<1>4. Consumed' = Consumed
    BY <1>2, ConsumedStay DEF Spent
<1>5. Door!Return(b)
    BY <1>1, <1>2, <1>3, <1>4 DEF Door!Return
<1> QED
    BY <1>5 DEF Door!Moves

LEMMA SaveStep ==
    ASSUME Typed, NEW r \in Requests, SavePending(r) \/ DropPending(r)
    PROVE  Door!Moves
<1>1. code' = code /\ link' = link /\ sent_to' = sent_to /\ entered' = entered /\ judged' = judged
    BY DEF SavePending, DropPending, rows, history
<1>2. CodesStay /\ LinksStay /\ \A t \in Tokens : Spent(t)' = Spent(t)
    BY <1>1 DEF CodesStay, LinksStay, Spent
<1>3. CASE session' = session
    BY <1>1, <1>2, <1>3, Unmoved
<1>4. ASSUME NEW b \in Browsers, NEW face \in Carried[b], Acting' = [Acting EXCEPT ![b] = face]
      PROVE  Door!Moves
    <2>1. Door!Return(b)
        BY <1>1, <1>2, <1>4, RecipientsStay, ConsumedStay DEF Door!Return
    <2> QED
        BY <2>1 DEF Door!Moves
<1> QED
    BY <1>3, <1>4, SavesWhatItSaw

LEMMA DoorStep ==
    ASSUME DoorInv, [Next]_vars
    PROVE  Door!DoorNext
<1> SUFFICES Door!Moves
    BY DoorHolds DEF DoorInv, Door!DoorNext
<1> USE DEF DoorInv, Bearers
<1>claim. ASSUME NEW r \in Requests, ClaimLink(r) PROVE Door!Moves
    BY <1>claim, ClickStep
<1>guess. ASSUME NEW r \in Requests, WrongGuess(r) \/ RightGuess(r) PROVE Door!Moves
    BY <1>guess, GuessStep
<1>login. ASSUME NEW r \in Requests, Login(r) PROVE Door!Moves
    BY <1>login, EnterStep
<1>count. ASSUME NEW r \in Requests, CountGuess(r) PROVE Door!Moves
    <2>1. /\ link' = link /\ session' = session /\ sent_to' = sent_to
          /\ judged' = judged /\ entered' = entered
        BY <1>count DEF CountGuess, history
    <2>2. \A k \in Codes : code'[k].user = code[k].user /\ code'[k].consumed = code[k].consumed
        BY <1>count DEF CountGuess, Typed, TypeOK, Code
    <2>3. CodesStay /\ LinksStay /\ \A t \in Tokens : Spent(t)' = Spent(t)
        BY <2>1, <2>2 DEF CodesStay, LinksStay, Spent, Tokens
    <2> QED
        BY <2>1, <2>3, Unmoved
<1>rest. ASSUME \A r \in Requests : /\ ~ClaimLink(r) /\ ~CountGuess(r) /\ ~WrongGuess(r)
                                      /\ ~RightGuess(r) /\ ~Login(r)
         PROVE  Door!Moves
    <2>1. entered' = entered /\ judged' = judged /\ \A t \in Tokens : Spent(t)' = Spent(t)
        BY <1>rest, OnlySpendersHold, OnlyGuessesCompare DEF Calm, Quiet
    <2>2. ASSUME NEW c \in Codes, NEW u \in Users, NEW b \in Browsers, SendsCode(c, u, b)
          PROVE  Door!Moves
        BY <2>2, SendStep
    <2>3. ASSUME NEW u \in Users, NEW l \in Links, RequestLink(u, l) PROVE Door!Moves
        BY <2>3, SendLinkStep
    <2>4. ASSUME NEW b \in Browsers, Logout(b) PROVE Door!Moves
        BY <2>4, LeaveStep
    <2>5. ASSUME CodesStay, LinksStay, session' = session PROVE Door!Moves
        BY <2>1, <2>5, Unmoved
    <2>6. ASSUME NEW r \in Requests, SavePending(r) \/ DropPending(r) PROVE Door!Moves
        BY <2>6, SaveStep
    <2> QED
        BY <1>rest, <2>2, <2>3, <2>4, <2>5, <2>6, CodeSenders, LinkSenders, Writers DEF Typed
<1> QED
    BY <1>claim, <1>guess, <1>login, <1>count, <1>rest

\* Signing in keeps the promise of FrontDoor, for any users, browsers and
\* requests: whoever acts in a browser has spent a token that was sent to
\* them there, or is none of the office.
THEOREM DoorIsKept == Spec => KeepsTheDoor
<1>1. Init => DoorInv /\ Door!DoorInit
    <2> SUFFICES ASSUME Init PROVE DoorInv /\ Door!DoorInit
        OBVIOUS
    <2>1. Typed /\ GuessesCounted /\ OneHolder /\ Challenged
        BY TypeInit, GuessInit, HolderInit, ChallengedInit
    <2>2. AllBear
        BY DEF Init, AllBear, Bears, Idle
    <2>3. Addressed
        BY DEF Init, Addressed
    <2>4. Recipients = [t \in Codes \cup Links |-> Door!Unsent]
        BY DEF Init, Recipients, Tokens, Door!Unsent
    <2>5. Consumed = [t \in Codes \cup Links |-> FALSE]
        BY DEF Init, Consumed, Spent, Tokens
    <2>6. Acting = [b \in Browsers |-> Door!Nobody]
        BY DEF Init, Acting, Face, Anonymous, Door!Nobody
    <2>held. Carried = [b \in Browsers |-> {Door!Nobody}]
        BY DEF Init, Carried, Keeps, Face, Anonymous, Door!Nobody
    <2>7. Door!DoorInit
        BY <2>4, <2>5, <2>6, <2>held DEF Init, Door!DoorInit, Door!Tokens, Tokens
    <2> QED
        BY <2>1, <2>2, <2>3, <2>7 DEF DoorInv, Bearers
<1>2. DoorInv /\ [Next]_vars => DoorInv'
    BY TypeStep, KindStep, CountStep, HolderStep, ChallengedStep, BearStep, AddressStep
    DEF DoorInv, Typed, Bearers
<1>3. DoorInv /\ [Next]_vars => [Door!DoorNext]_(Door!doorVars)
    BY DoorStep
<1> QED
    BY <1>1, <1>2, <1>3, PTL DEF Spec, KeepsTheDoor, Door!DoorSpec
=============================================================================
