------------------------------- MODULE SignIn -------------------------------
(***************************************************************************)
(* How a browser gets a session (ADR-008): the magic links of customers,   *)
(* the password and six-digit code of the office, the trusted devices of   *)
(* cleaners.  users/models.py, users/views.py, two_factor/*.py.            *)
(*                                                                         *)
(* No handler has a transaction: each reads a token, spends it with a      *)
(* conditional UPDATE and writes a session, and others run in between.     *)
(* Django saves a session whole, as the request loaded it and changed it,  *)
(* unless its row is gone; a browser that had none is given a new one.     *)
(***************************************************************************)
EXTENDS Naturals, FiniteSets

CONSTANTS
    Users, Browsers, Requests,
    Office,         \* users who have a dispatcher's role, or a higher one, for good
    Held,           \* bound on the standings of the others
    Changing,       \* bound on the users whose accounts change
    Codes,          \* TwoFactorCode rows
    Links,          \* MagicLinkToken rows
    Devices,        \* TrustedDevice rows
    Keys,           \* session keys: bound on the sessions in use at once
    Lost,           \* the key of a session whose row somebody has deleted
    MaxAttempts,    \* TwoFactorCode.MAX_ATTEMPTS
    Changes,        \* bound on what befalls an account, a token, a device, a session or a request
    None

Tokens == Codes \cup Links

ASSUME SignInAssumption ==
    /\ IsFiniteSet(Requests) /\ Office \subseteq Users
    /\ MaxAttempts \in Nat \ {0} /\ Changes \in Nat
    /\ Codes \cap Links = {} /\ None \notin Users \cup Tokens \cup Devices \cup Browsers
    /\ Keys \subseteq Nat /\ None \notin Keys \cup {Lost} /\ Lost \notin Keys

VARIABLES
    account,   \* CustomUser and what its active memberships come to
    code, link, device,
    session,   \* the session each browser's cookie names
    req,       \* what each handler in flight has in memory
    changes,   \* how much of that has happened
    judged,    \* history: guesses compared with each code
    entered,   \* history: sessions each token has opened
    sent_to    \* history: the browser whose request issued each code

rows    == <<account, code, link, device>>
history == <<judged, entered, sent_to>>
vars    == <<account, code, link, device, session, req, changes, judged, entered, sent_to>>

-----------------------------------------------------------------------------
\* Every active role is CUSTOMER, without is_staff or with it; some role is of
\* the office, or a superuser; or neither: a cleaner, or nobody's member yet.
Standings == {"customer", "staff_customer", "office", "other"}

MayBe(u, standing) == standing \in IF u \in Office THEN {"office"} ELSE Held

Account == [is_active : BOOLEAN, standing : Standings]
Code    == [user : Users \cup {None}, attempts : 0 .. MaxAttempts, consumed : BOOLEAN, expired : BOOLEAN]
Link    == [user : Users \cup {None}, consumed : BOOLEAN, expired : BOOLEAN]
Device  == [user : Users \cup {None}, trusted : BOOLEAN]

\* Saved under a session's key: who it is, PENDING_CHALLENGE_SESSION_KEY and
\* TWO_FACTOR_VERIFIED_SESSION_KEY.
Session == [key : Keys \cup {None, Lost}, user : Users \cup {None},
            pending : Codes \cup {None}, verified : BOOLEAN]
Anonymous == [key |-> None, user |-> None, pending |-> None, verified |-> FALSE]

Request ==
    [phase : {"link", "claimed", "password", "sent", "code", "counted", "last",
              "drop", "admitted"},
     browser : Browsers, saw : Session,
     user : Users \cup {None}, token : Tokens \cup {None}]

Idle == [phase |-> "idle"]

In(r, phase) == req[r].phase = phase

Goto(r, phase) == [req EXCEPT ![r].phase = phase]
End(r)         == [req EXCEPT ![r] = Idle]

Arrive(r, b, phase, u, t) ==
    /\ req[r] = Idle
    /\ req' = [req EXCEPT ![r] = [phase |-> phase, browser |-> b, saw |-> session[b],
                                  user |-> u, token |-> t]]

Change == changes < Changes /\ changes' = changes + 1

\* SessionStore.save, with the response: the cookie names what was saved.  A
\* new key is the least that nobody holds.
Named(k) == \/ \E b \in Browsers : session[b].key = k
            \/ \E q \in Requests : req[q] # Idle /\ req[q].saw.key = k

\* Two first requests of a browser each save a session of their own, and the
\* browser keeps the one it is told of last.
Displaces(r) == req[r].saw.key = None /\ session[req[r].browser].key # None

SaveSession(r, s) ==
    LET b == req[r].browser
    IN  /\ IF Displaces(r) THEN Change ELSE UNCHANGED changes
        /\ \/ s.key = Lost /\ UNCHANGED session
           \/ s.key \in Keys /\ session' = [session EXCEPT ![b] = s]
           \/ /\ s.key = None
              /\ \E k \in Keys : /\ ~Named(k) /\ \A j \in Keys : j < k => Named(j)
                                /\ session' = [session EXCEPT ![b] = [s EXCEPT !.key = k]]

-----------------------------------------------------------------------------
\* users/services.py, two_factor/services.py

MayUseMagicLink(u) == account[u].standing = "customer"

Trusted(u, d) == d # None /\ device[d].user = u /\ device[d].trusted

TwoFactorRequired(u, d) ==
    \/ account[u].standing = "office"
    \/ account[u].standing = "other" /\ ~Trusted(u, d)

-----------------------------------------------------------------------------
\* Magic links.

RequestLink(u, l) ==
    /\ account[u].is_active /\ MayUseMagicLink(u)
    /\ link[l].user = None
    /\ link' = [link EXCEPT ![l].user = u]
    /\ UNCHANGED <<account, code, device, session, req, changes, history>>

\* MagicLinkToken.consume: the link is read and found valid, and taken later
\* if nobody has taken it since.
LoadLink(r, b, l) ==
    /\ link[l].user # None /\ ~link[l].consumed /\ ~link[l].expired
    /\ Arrive(r, b, "link", link[l].user, l)
    /\ UNCHANGED <<rows, session, changes, history>>

LinkAsRead(r)  == TRUE
UnspentLink(r) == ~link[req[r].token].consumed

ClaimLink(r) ==
    /\ In(r, "link")
    /\ IF UnspentLink(r)
       THEN /\ link' = [link EXCEPT ![req[r].token].consumed = TRUE]
            /\ req' = Goto(r, "claimed")
       ELSE /\ UNCHANGED link
            /\ req' = End(r)
    /\ UNCHANGED <<account, code, device, session, changes, history>>

\* "Asked again here because a role can change while a link is live."
AdmitCustomer(r) ==
    /\ In(r, "claimed")
    /\ req' = IF account[req[r].user].is_active /\ MayUseMagicLink(req[r].user)
              THEN Goto(r, "admitted") ELSE End(r)
    /\ UNCHANGED <<rows, session, changes, history>>

-----------------------------------------------------------------------------
\* Password, then a challenge if one is required.

LoadPassword(r, b, u) ==
    /\ account[u].is_active
    /\ Arrive(r, b, "password", u, None)
    /\ UNCHANGED <<rows, session, changes, history>>

AdmitUnchallenged(r, d) ==
    /\ In(r, "password") /\ ~TwoFactorRequired(req[r].user, d)
    /\ req' = Goto(r, "admitted")
    /\ UNCHANGED <<rows, session, changes, history>>

\* send_challenge, TwoFactorCode.issue: whoever asked remembers the code it
\* was sent, and leaves the others as they are.
SendChallenge(r, c, u) ==
    /\ code[c].user = None
    /\ code' = [code EXCEPT ![c].user = u]
    /\ sent_to' = [sent_to EXCEPT ![c] = req[r].browser]
    /\ req' = [req EXCEPT ![r].phase = "sent", ![r].token = c]
    /\ UNCHANGED <<account, link, device, session, changes, judged, entered>>

Challenge(r, d, c) ==
    /\ In(r, "password") /\ TwoFactorRequired(req[r].user, d)
    /\ SendChallenge(r, c, req[r].user)

\* ResendView: any pending challenge will do, a spent or expired one too.
Resend(r, b, c) ==
    LET pending == session[b].pending
    IN  /\ pending # None /\ req[r] = Idle
        /\ code[c].user = None
        /\ code' = [code EXCEPT ![c].user = code[pending].user]
        /\ sent_to' = [sent_to EXCEPT ![c] = b]
        /\ req' = [req EXCEPT ![r] = [phase |-> "sent", browser |-> b, saw |-> session[b],
                                      user |-> code[pending].user, token |-> c]]
        /\ UNCHANGED <<account, link, device, session, changes, judged, entered>>

SavePending(r) ==
    /\ In(r, "sent")
    /\ SaveSession(r, [req[r].saw EXCEPT !.pending = req[r].token])
    /\ req' = End(r)
    /\ UNCHANGED <<rows, history>>

DropPending(r) ==
    /\ In(r, "drop")
    /\ SaveSession(r, [req[r].saw EXCEPT !.pending = None])
    /\ req' = End(r)
    /\ UNCHANGED <<rows, history>>

-----------------------------------------------------------------------------
\* VerifyView, TwoFactorCode.verify.

Usable(c) == ~code[c].consumed /\ ~code[c].expired /\ code[c].attempts < MaxAttempts

LoadCode(r, b) ==
    LET c == session[b].pending
    IN  /\ c # None
        /\ Arrive(r, b, IF Usable(c) THEN "code" ELSE "drop", code[c].user, c)
        /\ UNCHANGED <<rows, session, changes, history>>

\* A guess that fails takes the pending challenge with it if the code, as this
\* request knows it, is of no more use.  It reads the count back after raising
\* it, and may read another's guess too.
Failed(r) ==
    LET c == req[r].token
    IN  \/ /\ \/ In(r, "last") \/ code[c].expired
              \/ In(r, "counted") /\ code[c].attempts = MaxAttempts
           /\ req' = Goto(r, "drop")
        \/ /\ ~In(r, "last") /\ ~code[c].expired
           /\ req' = End(r)

\* "Counted in the database, not on this instance."
CountedAsRead(c) == ~code[c].consumed
GuessLeft(c)     == ~code[c].consumed /\ code[c].attempts < MaxAttempts

CountGuess(r) ==
    LET c == req[r].token
        n == code[c].attempts + 1
    IN  /\ In(r, "code")
        /\ IF GuessLeft(c)
           THEN /\ code' = [code EXCEPT ![c].attempts = n]
                /\ req' = Goto(r, IF n = MaxAttempts THEN "last" ELSE "counted")
           ELSE /\ UNCHANGED code
                /\ Failed(r)
        /\ UNCHANGED <<account, link, device, session, changes, history>>

Comparing(r) == In(r, "counted") \/ In(r, "last")

Compared(c) == judged' = [judged EXCEPT ![c] = @ + 1]

WrongGuess(r) ==
    /\ Comparing(r) /\ Compared(req[r].token)
    /\ Failed(r)
    /\ UNCHANGED <<rows, session, changes, entered, sent_to>>

\* "Conditional for the same reason: only one request gets to consume it."
RightGuess(r) ==
    LET c == req[r].token
    IN  /\ Comparing(r) /\ Compared(c)
        /\ IF code[c].consumed
           THEN /\ UNCHANGED code
                /\ Failed(r)
           ELSE /\ code' = [code EXCEPT ![c].consumed = TRUE]
                /\ req' = Goto(r, "admitted")
        /\ UNCHANGED <<account, link, device, session, changes, entered, sent_to>>

-----------------------------------------------------------------------------
\* login(): another user's session is flushed and an anonymous one gets a new
\* key, which stands under the number of the old: either way the row that
\* others had loaded is gone.  One's own stays as it is.

SomebodyElses(r) == req[r].saw.user \notin {None, req[r].user}
Ones(r)          == req[r].saw.user = req[r].user

NeverFlushed(r) == req[r].saw
Kept(r) == IF SomebodyElses(r) THEN Anonymous ELSE req[r].saw

Losing(k) == [q \in Requests |-> IF req[q] # Idle /\ req[q].saw.key = k /\ k \in Keys
                                 THEN [req[q] EXCEPT !.saw.key = Lost] ELSE req[q]]

ByCode(r) == req[r].token \in Codes

\* The box that trusts the device is on the code's form.
Remember(r, d) ==
    /\ ByCode(r) /\ device[d].user = None
    /\ device' = [device EXCEPT ![d] = [user |-> req[r].user, trusted |-> TRUE]]

Entering(r) ==
    [Kept(r) EXCEPT !.user = req[r].user,
                    !.key = IF Ones(r) \/ req[r].saw.key # Lost THEN req[r].saw.key ELSE None,
                    !.pending = IF ByCode(r) THEN None ELSE @,
                    !.verified = @ \/ ByCode(r)]

Login(r) ==
    /\ In(r, "admitted")
    /\ SaveSession(r, Entering(r))
    /\ req' = [(IF Ones(r) THEN req ELSE Losing(req[r].saw.key)) EXCEPT ![r] = Idle]
    /\ entered' = IF req[r].token = None \/ Entering(r).key = Lost THEN entered
                  ELSE [entered EXCEPT ![req[r].token] = @ + 1]
    /\ UNCHANGED device \/ \E d \in Devices : Remember(r, d)
    /\ UNCHANGED <<account, code, link, judged, sent_to>>

-----------------------------------------------------------------------------
\* A response that is never written; time; and the people who run the place.

Abandon(r) ==
    /\ Change
    /\ req[r] # Idle
    /\ req' = End(r)
    /\ UNCHANGED <<rows, session, history>>

\* LogoutView.
Logout(b) ==
    /\ Change
    /\ session[b].user # None /\ account[session[b].user].is_active
    /\ session' = [session EXCEPT ![b] = Anonymous]
    /\ req' = Losing(session[b].key)
    /\ UNCHANGED <<rows, history>>

ExpireCode(c) ==
    /\ Change
    /\ code[c].user # None /\ ~code[c].expired
    /\ code' = [code EXCEPT ![c].expired = TRUE]
    /\ UNCHANGED <<account, link, device, session, req, history>>

\* An expiry that nobody can notice any more is left out.
ExpireLink(l) ==
    /\ Change
    /\ link[l].user # None /\ ~link[l].expired /\ ~link[l].consumed
    /\ link' = [link EXCEPT ![l].expired = TRUE]
    /\ UNCHANGED <<account, code, device, session, req, history>>

\* Thirty days have gone by, or support deleted the row.
DistrustDevice(d) ==
    /\ Change
    /\ device[d].trusted
    /\ device' = [device EXCEPT ![d].trusted = FALSE]
    /\ UNCHANGED <<account, code, link, session, req, history>>

ChangeAccount(u, a) ==
    /\ Change
    /\ u \in Changing /\ a # account[u] /\ MayBe(u, a.standing)
    /\ a.standing = account[u].standing \/ a.is_active = account[u].is_active
    /\ account' = [account EXCEPT ![u] = a]
    /\ UNCHANGED <<code, link, device, session, req, history>>

-----------------------------------------------------------------------------
Init ==
    /\ account \in [Users -> {a \in Account : a.is_active}]
    /\ \A u \in Users : MayBe(u, account[u].standing)
    /\ code = [c \in Codes |-> [user |-> None, attempts |-> 0, consumed |-> FALSE,
                                 expired |-> FALSE]]
    /\ link = [l \in Links |-> [user |-> None, consumed |-> FALSE, expired |-> FALSE]]
    /\ device = [d \in Devices |-> [user |-> None, trusted |-> FALSE]]
    /\ session = [b \in Browsers |-> Anonymous]
    /\ req = [r \in Requests |-> Idle]
    /\ changes = 0
    /\ judged = [c \in Codes |-> 0]
    /\ entered = [t \in Tokens |-> 0]
    /\ sent_to = [c \in Codes |-> None]

LinkStep(r) ==
    \/ \E b \in Browsers, l \in Links : LoadLink(r, b, l)
    \/ ClaimLink(r) \/ AdmitCustomer(r)

PasswordStep(r) ==
    \/ \E b \in Browsers, u \in Users : LoadPassword(r, b, u)
    \/ \E d \in Devices \cup {None} :
          AdmitUnchallenged(r, d) \/ \E c \in Codes : Challenge(r, d, c)
    \/ \E b \in Browsers, c \in Codes : Resend(r, b, c)
    \/ SavePending(r)

CodeStep(r) ==
    \/ \E b \in Browsers : LoadCode(r, b)
    \/ CountGuess(r) \/ WrongGuess(r) \/ RightGuess(r) \/ DropPending(r)

Outside ==
    \/ \E u \in Users : \/ \E l \in Links : RequestLink(u, l)
                        \/ \E a \in Account : ChangeAccount(u, a)
    \/ \E c \in Codes : ExpireCode(c)
    \/ \E l \in Links : ExpireLink(l)
    \/ \E d \in Devices : DistrustDevice(d)
    \/ \E b \in Browsers : Logout(b)

Next ==
    \/ \E r \in Requests : LinkStep(r) \/ PasswordStep(r) \/ CodeStep(r) \/ Login(r) \/ Abandon(r)
    \/ Outside

Spec == Init /\ [][Next]_vars

-----------------------------------------------------------------------------
\* Every row, session and request holds what it can hold.
TypeOK ==
    /\ account \in [Users -> Account]
    /\ code \in [Codes -> Code] /\ link \in [Links -> Link] /\ device \in [Devices -> Device]
    /\ session \in [Browsers -> Session]
    /\ req \in [Requests -> Request \cup {Idle}]
    /\ changes \in 0 .. Changes
    /\ judged \in [Codes -> Nat] /\ entered \in [Tokens -> Nat]
    /\ sent_to \in [Codes -> Browsers \cup {None}]

\* TwoFactorCode.verify: however many requests guess at once, no code is
\* compared with more than MAX_ATTEMPTS guesses.
GuessesLimited == \A c \in Codes : judged[c] <= MaxAttempts

\* MagicLinkToken.consume, TwoFactorCode.verify: "only one request gets to
\* consume it" -- a link or a code opens one session, whoever races for it.
TokenOpensOneSession == \A t \in Tokens : entered[t] <= 1

\* ADR-008, app/admin.py: a session that acts for the office, and one that the
\* admin site takes for verified, belongs to a user who cleared a code that
\* was sent for a request of that very browser.
ClearedHere(b, u) == \E c \in Codes : code[c].user = u /\ code[c].consumed /\ sent_to[c] = b

OfficeAlwaysChallenged ==
    \A b \in Browsers :
        session[b].verified \/ session[b].user \in Office => ClearedHere(b, session[b].user)
=============================================================================
