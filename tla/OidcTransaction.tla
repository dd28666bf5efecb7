-------------------------- MODULE OidcTransaction --------------------------
(***************************************************************************)
(* The sign-in transactions of one browser with the issuer: GET /login     *)
(* (the handoff cookie and the signed intent), POST signin/kokoro-iam (a   *)
(* transaction with three proof cookies and a record in Redis), and the    *)
(* callback that takes the record and exchanges the code.  Tabs run        *)
(* several of them at once in one cookie jar; forms are posted twice,      *)
(* callbacks are reloaded or opened in another browser, Redis may answer   *)
(* after the 2 s deadline of withRedis or never.                           *)
(*                                                                         *)
(* A login stands for its handoff namespace, a start for its OIDC          *)
(* namespace, state and proofs: random values that never collide.  Record, *)
(* cookies and intent live 300 s each, counted from different moments:     *)
(* each may lapse at any time here.  A lost answer is one never delivered. *)
(***************************************************************************)
EXTENDS Naturals, FiniteSets

CONSTANTS
    Logins,     \* GETs of /login
    Starts,     \* POSTs of the login form
    Callbacks,  \* GETs of the callback
    MaxPending  \* MAX_PENDING_PER_KIND

ASSUME OidcAssumption ==
    /\ MaxPending \in Nat \ {0}
    /\ IsFiniteSet(Logins) /\ IsFiniteSet(Starts)
    /\ "none" \notin Logins \cup Starts

VARIABLES
    handoff,    \* handoff[l]: the csrf-token cookie of login l in the jar
    proof,      \* proof[s]: the state, pkce and nonce cookies of start s in the jar
    session,    \* the start whose Product Session cookie is in the jar
    page,       \* page[l]: what became of the GET of login l
    intents,    \* logins whose intent has not expired
    start,      \* start[s]: the login it was posted for, and where it is
    record,     \* record[s]: the state's key in Redis
    sets,       \* SET NX commands on their way to Redis
    call,       \* call[c]: the callback's transaction, what it carries, where it is
    takes,      \* compare-and-delete scripts on their way to Redis
    creates,    \* createSession scripts on their way to Redis
    sessions,   \* starts whose Product Session was created
    exchanges,  \* exchanges[s]: history, how often the code of s was exchanged
    overlapped  \* history: a start was sent while another one was unanswered

jarVars == <<handoff, proof, session>>
redisVars == <<record, sets, takes, creates, sessions>>
vars == <<jarVars, page, intents, start, redisVars, call, exchanges, overlapped>>

CookieState == {"absent", "held", "expired", "cleared"}
Held(cookie) == {x \in DOMAIN cookie : cookie[x] = "held"}

\* Mutant: the limit itself is still admitted.
WithinBudgetInclusive(allocating) ==
    /\ Cardinality(Held(handoff)) <= MaxPending + (IF allocating THEN 0 ELSE 1)
    /\ Cardinality(Held(proof)) <= MaxPending

\* oidcStartWithinCookieBudget of the cookies the request carries.
WithinBudget(allocating) ==
    /\ Cardinality(Held(handoff)) < MaxPending + (IF allocating THEN 0 ELSE 1)
    /\ Cardinality(Held(proof)) < MaxPending

NoStart == [login |-> "none", pc |-> "new"]
NoCall == [start |-> "none", carried |-> FALSE, denied |-> FALSE, pc |-> "new"]

Init ==
    /\ handoff = [l \in Logins |-> "absent"]
    /\ proof = [s \in Starts |-> "absent"]
    /\ session = "none"
    /\ page = [l \in Logins |-> "new"]
    /\ intents = {}
    /\ start = [s \in Starts |-> NoStart]
    /\ record = [s \in Starts |-> "none"]
    /\ sets = {} /\ takes = {} /\ creates = {}
    /\ call = [c \in Callbacks |-> NoCall]
    /\ sessions = {}
    /\ exchanges = [s \in Starts |-> 0]
    /\ overlapped = FALSE

\* A /login or a signin whose answer the browser has not applied yet.
Unanswered ==
    \/ \E l \in Logins : page[l] = "answered"
    \/ \E s \in Starts : start[s].pc \in {"issuing", "stored"}

-----------------------------------------------------------------------------
(* GET /login *)

OpenLogin(l) ==
    /\ page[l] = "new"
    /\ overlapped' = (overlapped \/ Unanswered)
    /\ \/ /\ WithinBudget(TRUE)
          /\ page' = [page EXCEPT ![l] = "answered"]
          /\ intents' = intents \cup {l}
       \/ /\ ~WithinBudget(TRUE)
          /\ page' = [page EXCEPT ![l] = "refused"]
          /\ UNCHANGED intents
    /\ UNCHANGED <<jarVars, start, redisVars, call, exchanges>>

\* The browser applies the handoff cookie and shows the form, which posts itself.
ShowLogin(l) ==
    /\ page[l] = "answered"
    /\ page' = [page EXCEPT ![l] = "open"]
    /\ handoff' = [handoff EXCEPT ![l] = "held"]
    /\ UNCHANGED <<proof, session, intents, start, redisVars, call, exchanges, overlapped>>

-----------------------------------------------------------------------------
(* POST signin/kokoro-iam: once more for every post of the form *)

\* Intent, double-submit cookie and budget are checked; Auth.js answers with state and proofs.
PostLogin(s, l) ==
    /\ page[l] = "open"
    /\ start[s].pc = "new"
    /\ overlapped' = (overlapped \/ Unanswered)
    /\ \/ /\ l \in intents /\ handoff[l] = "held" /\ WithinBudget(FALSE)
          /\ start' = [start EXCEPT ![s] = [login |-> l, pc |-> "issuing"]]
          /\ sets' = sets \cup {s}
       \/ /\ ~(l \in intents /\ handoff[l] = "held" /\ WithinBudget(FALSE))
          /\ start' = [start EXCEPT ![s] = [login |-> l, pc |-> "refused"]]
          /\ UNCHANGED sets
    /\ UNCHANGED <<jarVars, page, intents, record, takes, creates, sessions, call, exchanges>>

\* issueOidcState at Redis, also after its caller gave up.
StoreRecord(s) ==
    /\ s \in sets
    /\ sets' = sets \ {s}
    /\ record' = [record EXCEPT ![s] = "open"]
    /\ start' = [start EXCEPT ![s].pc = IF @ = "issuing" THEN "stored" ELSE @]
    /\ UNCHANGED <<jarVars, page, intents, takes, creates, sessions, call, exchanges, overlapped>>

\* The call fails or its deadline passes: 503, and no cookie of this start is set.
StartFails(s) ==
    /\ start[s].pc \in {"issuing", "stored"}
    /\ start' = [start EXCEPT ![s].pc = "unavailable"]
    /\ UNCHANGED <<jarVars, page, intents, redisVars, call, exchanges, overlapped>>

\* The 302: the proofs are set, the handoff cookie is cleared, the tab is at the issuer.
LeaveForIssuer(s) ==
    /\ start[s].pc = "stored"
    /\ start' = [start EXCEPT ![s].pc = "away"]
    /\ proof' = [proof EXCEPT ![s] = "held"]
    /\ handoff' = [handoff EXCEPT ![start[s].login] = "cleared"]
    /\ UNCHANGED <<session, page, intents, redisVars, call, exchanges, overlapped>>

-----------------------------------------------------------------------------
(* GET callback/kokoro-iam *)

\* The issuer sends the tab back, with a code or an error; the user may reload that address, or
\* open it in another browser, whose jar has no proofs.
ReturnFromIssuer(c, s, here, denied) ==
    /\ start[s].pc = "away"
    /\ call[c].pc = "new"
    /\ call' = [call EXCEPT ![c] = [start |-> s, carried |-> here /\ proof[s] = "held",
                                    denied |-> denied, pc |-> "reading"]]
    /\ UNCHANGED <<jarVars, page, intents, start, redisVars, exchanges, overlapped>>

Goto(c, pc) == call' = [call EXCEPT ![c].pc = pc]

\* consumeOidcState: GET, then the checks of the record and of the proofs the request carries.
\* A rejected callback (403) consumes and clears nothing.
ReadRecord(c) ==
    /\ call[c].pc = "reading"
    /\ \/ /\ record[call[c].start] = "open" /\ call[c].carried
          /\ Goto(c, "taking")
          /\ takes' = takes \cup {c}
       \/ /\ ~(record[call[c].start] = "open" /\ call[c].carried)
          /\ Goto(c, "rejected")
          /\ UNCHANGED takes
    /\ UNCHANGED <<jarVars, page, intents, start, record, sets, creates, sessions, exchanges,
                   overlapped>>

\* Mutant: the reply of the script is not looked at.
TakeRecordUnchecked(c) ==
    /\ c \in takes
    /\ takes' = takes \ {c}
    /\ record' = [record EXCEPT ![call[c].start] = IF @ = "open" THEN "taken" ELSE @]
    /\ call' = [call EXCEPT ![c].pc = IF @ = "taking" THEN "admitted" ELSE @]
    /\ UNCHANGED <<jarVars, page, intents, start, sets, creates, sessions, exchanges, overlapped>>

\* The compare-and-delete at Redis, also after its caller gave up: one callback gets 1.
TakeRecord(c) ==
    /\ c \in takes
    /\ takes' = takes \ {c}
    /\ LET s == call[c].start  open == record[s] = "open" IN
       /\ record' = [record EXCEPT ![s] = IF open THEN "taken" ELSE @]
       /\ call' = [call EXCEPT ![c].pc = IF @ # "taking" THEN @
                                         ELSE IF open THEN "admitted" ELSE "rejected"]
    /\ UNCHANGED <<jarVars, page, intents, start, sets, creates, sessions, exchanges, overlapped>>

\* Redis is not reached, or does not answer in time: 503, and nothing is cleared.
ConsumeFails(c) ==
    /\ call[c].pc \in {"reading", "taking", "admitted"}
    /\ Goto(c, "unavailable")
    /\ UNCHANGED <<jarVars, page, intents, start, redisVars, exchanges, overlapped>>

\* An error of the issuer ends the transaction; a code is posted to the issuer.
Proceed(c) ==
    /\ call[c].pc = "admitted"
    /\ \/ /\ call[c].denied
          /\ Goto(c, "failed")
          /\ UNCHANGED exchanges
       \/ /\ ~call[c].denied
          /\ Goto(c, "exchanging")
          /\ exchanges' = [exchanges EXCEPT ![call[c].start] = @ + 1]
    /\ UNCHANGED <<jarVars, page, intents, start, redisVars, overlapped>>

\* Mutant: the session is created under the transaction's name, not the callback's.
VerifiedByStart(c) ==
    /\ call[c].pc = "exchanging"
    /\ Goto(c, "creating")
    /\ creates' = creates \cup {call[c].start}
    /\ UNCHANGED <<jarVars, page, intents, start, record, sets, takes, sessions, exchanges, overlapped>>

\* Auth.js verified the tokens and verifyProductIdentity the identity: create the session.
Verified(c) ==
    /\ call[c].pc = "exchanging"
    /\ Goto(c, "creating")
    /\ creates' = creates \cup {c}
    /\ UNCHANGED <<jarVars, page, intents, start, record, sets, takes, sessions, exchanges, overlapped>>

CreateSession(c) ==
    /\ c \in creates
    /\ creates' = creates \ {c}
    /\ sessions' = sessions \cup {call[c].start}
    /\ call' = [call EXCEPT ![c].pc = IF @ = "creating" THEN "signed_in" ELSE @]
    /\ UNCHANGED <<jarVars, page, intents, start, record, sets, takes, exchanges, overlapped>>

\* The exchange, the verification or createSession fails or times out.
CallbackFails(c) ==
    /\ call[c].pc \in {"exchanging", "creating", "signed_in"}
    /\ Goto(c, "failed")
    /\ UNCHANGED <<jarVars, page, intents, start, redisVars, exchanges, overlapped>>

\* finish(): the answer of an admitted callback clears the cookies of its own transaction, and
\* of no other; only the 303 of a created session sets the Product Session cookie.
ClearTransaction(s) ==
    /\ handoff' = [handoff EXCEPT ![start[s].login] = "cleared"]
    /\ proof' = [proof EXCEPT ![s] = "cleared"]

\* Mutant: a rejected callback is finished like an admitted one.
AnswerCallbackAlways(c) ==
    /\ call[c].pc \in {"rejected", "failed", "signed_in"}
    /\ Goto(c, "done")
    /\ ClearTransaction(call[c].start)
    /\ session' = IF call[c].pc = "signed_in" THEN call[c].start ELSE session
    /\ UNCHANGED <<page, intents, start, redisVars, exchanges, overlapped>>

AnswerCallback(c) ==
    /\ call[c].pc \in {"failed", "signed_in"}
    /\ Goto(c, "done")
    /\ ClearTransaction(call[c].start)
    /\ session' = IF call[c].pc = "signed_in" THEN call[c].start ELSE session
    /\ UNCHANGED <<page, intents, start, redisVars, exchanges, overlapped>>

-----------------------------------------------------------------------------
(* 300 s *)

IntentExpires(l) ==
    /\ l \in intents
    /\ intents' = intents \ {l}
    /\ UNCHANGED <<jarVars, page, start, redisVars, call, exchanges, overlapped>>

HandoffExpires(l) ==
    /\ handoff[l] = "held"
    /\ handoff' = [handoff EXCEPT ![l] = "expired"]
    /\ UNCHANGED <<proof, session, page, intents, start, redisVars, call, exchanges, overlapped>>

ProofExpires(s) ==
    /\ proof[s] = "held"
    /\ proof' = [proof EXCEPT ![s] = "expired"]
    /\ UNCHANGED <<handoff, session, page, intents, start, redisVars, call, exchanges, overlapped>>

RecordExpires(s) ==
    /\ record[s] = "open"
    /\ record' = [record EXCEPT ![s] = "lapsed"]
    /\ UNCHANGED <<jarVars, page, intents, start, sets, takes, creates, sessions, call, exchanges,
                   overlapped>>

-----------------------------------------------------------------------------
LoginStep(l) == OpenLogin(l) \/ ShowLogin(l) \/ IntentExpires(l) \/ HandoffExpires(l)

StartStep(s) ==
    \/ \E l \in Logins : PostLogin(s, l)
    \/ StoreRecord(s) \/ StartFails(s) \/ LeaveForIssuer(s) \/ ProofExpires(s) \/ RecordExpires(s)

CallbackStep(c) ==
    \/ \E s \in Starts, here, denied \in BOOLEAN : ReturnFromIssuer(c, s, here, denied)
    \/ ReadRecord(c) \/ TakeRecord(c) \/ ConsumeFails(c)
    \/ Proceed(c) \/ Verified(c) \/ CreateSession(c) \/ CallbackFails(c) \/ AnswerCallback(c)

Next ==
    \/ \E l \in Logins : LoginStep(l)
    \/ \E s \in Starts : StartStep(s)
    \/ \E c \in Callbacks : CallbackStep(c)

Spec == Init /\ [][Next]_vars

-----------------------------------------------------------------------------
(* Properties *)

\* Every variable has its type.
TypeOK ==
    /\ handoff \in [Logins -> CookieState]
    /\ proof \in [Starts -> CookieState]
    /\ session \in Starts \cup {"none"}
    /\ page \in [Logins -> {"new", "answered", "open", "refused"}]
    /\ intents \subseteq Logins
    /\ start \in [Starts -> [login : Logins \cup {"none"},
                             pc : {"new", "issuing", "stored", "away", "refused", "unavailable"}]]
    /\ record \in [Starts -> {"none", "open", "taken", "lapsed"}]
    /\ sets \subseteq Starts /\ sessions \subseteq Starts
    /\ call \in [Callbacks -> [start : Starts \cup {"none"}, carried : BOOLEAN, denied : BOOLEAN,
                               pc : {"new", "reading", "taking", "admitted", "exchanging", "creating",
                                     "signed_in", "failed", "rejected", "unavailable", "done"}]]
    /\ takes \subseteq Callbacks /\ creates \subseteq Callbacks
    /\ exchanges \in [Starts -> Nat]
    /\ overlapped \in BOOLEAN

\* A login in progress is never broken by another one, nor by a rejected or failed callback:
\* as long as its record is open no answer has cleared its proofs.
PendingKeepsProofs ==
    \A s \in Starts : record[s] = "open" => proof[s] # "cleared"

\* oidc-transaction-cookies.ts:39: the budget is "not a cross-request browser lock": starts that
\* overlap may exceed it.  Starts that do not never leave more than MaxPending of a kind.
SerialStartsWithinBudget ==
    ~overlapped => /\ Cardinality(Held(handoff)) <= MaxPending
                   /\ Cardinality(Held(proof)) <= MaxPending

Transaction == INSTANCE TransactionLifecycle WITH
    phase <- [s \in Starts |-> IF record[s] = "none" THEN "unissued" ELSE record[s]]

\* Records, callbacks and the session store together implement TransactionLifecycle: however many
\* callbacks of a state race, time out or are replayed, its code is exchanged at most once, after
\* its record was taken, and makes at most one session.
TransactionSpec == Transaction!Spec

=============================================================================
