------------------------------ MODULE FrontDoor ------------------------------
(***************************************************************************)
(* What signing in promises, said without requests, cookies or clocks.     *)
(* Somebody acts in a browser on the strength of a token sent to them, or  *)
(* of a password where that is enough; a token is good for one session, a  *)
(* code for so many guesses; and whoever acts for the office, or counts as *)
(* verified, has cleared a code sent to that browser.  A browser may go    *)
(* back to a session it was given before and still holds.                  *)
(***************************************************************************)
EXTENDS Naturals

CONSTANTS Users, Browsers,
          Office,     \* the users who may do most
          Codes, Links,
          MaxTries,   \* guesses at a code
          None        \* not a user, nor a browser

VARIABLES
    sent,     \* to whom each token went, and a code to which browser
    spent,    \* whether each token is: by a click, or by the right guess
    opened,   \* sessions each token has opened
    tries,    \* guesses compared with each code
    acting,   \* who acts in each browser, and whether verified
    held      \* as whom each browser may go on: some it has forgotten

doorVars == <<sent, spent, opened, tries, acting, held>>

Tokens == Codes \cup Links

Unsent == [user |-> None, browser |-> None]
Nobody == [user |-> None, verified |-> FALSE]

Cleared(b, u) == \E c \in Codes : sent[c] = [user |-> u, browser |-> b] /\ spent[c]

DoorInit ==
    /\ sent = [t \in Tokens |-> Unsent]
    /\ spent = [t \in Tokens |-> FALSE]
    /\ opened = [t \in Tokens |-> 0]
    /\ tries = [c \in Codes |-> 0]
    /\ acting = [b \in Browsers |-> Nobody]
    /\ held = [b \in Browsers |-> {Nobody}]

Send(t, places) ==
    /\ sent[t] = Unsent
    /\ \E u \in Users, b \in places :
          sent' = [sent EXCEPT ![t] = [user |-> u, browser |-> b]]
    /\ UNCHANGED <<spent, opened, tries, acting>>

Spend(t) ==
    /\ ~spent[t] /\ sent[t] # Unsent
    /\ spent' = [spent EXCEPT ![t] = TRUE]

Click(l) == Spend(l) /\ UNCHANGED <<sent, opened, tries, acting>>

Guess(c) ==
    /\ tries[c] < MaxTries
    /\ tries' = [tries EXCEPT ![c] = @ + 1]
    /\ Spend(c) \/ UNCHANGED spent
    /\ UNCHANGED <<sent, opened, acting>>

\* A spent token opens one session.
Open(t) ==
    /\ spent[t] /\ opened[t] = 0
    /\ opened' = [opened EXCEPT ![t] = 1]

Enter(b, u, verified) ==
    /\ verified \/ u \in Office => Cleared(b, u)
    /\ acting' = [acting EXCEPT ![b] = [user |-> u, verified |-> verified]]
    /\ UNCHANGED <<sent, spent, tries>>

ByCode(c) == Open(c) /\ Enter(sent[c].browser, sent[c].user, TRUE)

\* A link works in any browser.
ByLink(l, b, verified) ==
    Open(l) /\ sent[l].user \notin Office /\ Enter(b, sent[l].user, verified)

ByPassword(b, u, verified) ==
    u \notin Office /\ Enter(b, u, verified) /\ UNCHANGED opened

Return(b) ==
    /\ \E face \in held[b] \cup {Nobody} : acting' = [acting EXCEPT ![b] = face]
    /\ UNCHANGED <<sent, spent, opened, tries>>

Forget == UNCHANGED <<sent, spent, opened, tries, acting>>

Moves ==
    \/ \E c \in Codes : Send(c, Browsers) \/ Guess(c) \/ ByCode(c)
    \/ \E l \in Links : Send(l, {None}) \/ Click(l)
                        \/ \E b \in Browsers, v \in BOOLEAN : ByLink(l, b, v)
    \/ \E b \in Browsers : Return(b) \/ \E u \in Users, v \in BOOLEAN : ByPassword(b, u, v)
    \/ Forget

\* Nothing is held but what the browser was once given.
Hold ==
    \A b \in Browsers : acting'[b] \in held'[b] /\ held'[b] \subseteq held[b] \cup {acting'[b]}

DoorNext == Moves /\ Hold

DoorSpec == DoorInit /\ [][DoorNext]_doorVars
=============================================================================
