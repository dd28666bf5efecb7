--------------------------- MODULE ProductSession ---------------------------
(***************************************************************************)
(* The Product Session of one browser: its cookie jar, the HTTP requests   *)
(* its tabs send, the handlers of src/app/api/auth/[...nextauth]/route.ts  *)
(* that serve them in one Node process, the Redis store (SessionStore) and *)
(* the issuer that rotates refresh credentials (external: the IAM behind   *)
(* the BFF, modelled from what oidc-token.ts asks of it).                  *)
(*                                                                         *)
(* A request is used once: it is one attempt, whose randomUUID reservation *)
(* it stands for.  Everything a handler waits for is a message: a Redis    *)
(* call may execute although its caller already gave up on it (withRedis   *)
(* races a 2 s deadline), a token post may reach the issuer after the      *)
(* handler's 5 s deadline, and an answer may reach the browser late.  What *)
(* is lost (a command, a post, an answer) is what is never taken: nothing  *)
(* obliges Redis, the issuer or the delivery to act.                       *)
(***************************************************************************)
EXTENDS SessionStore

CONSTANTS
    SessionAge,   \* PRODUCT_SESSION_MAX_AGE_SECONDS, in ticks
    MaxTime       \* bound on the clock

ASSUME SessionAssumption ==
    /\ SessionAge \in Nat \ {0}
    /\ MaxTime \in Nat
    /\ "none" \notin Sessions

VARIABLES
    now,       \* Date.now() of every process (their clocks agree)
    jar,       \* the browser's kokoro_product_session cookie
    kind,      \* kind[r]: which endpoint request r calls
    pc,        \* pc[r]: what the request's handler waits for
    cookie,    \* cookie[r]: the claims r carries (for a login: the claims it will set)
    reply,     \* reply[r]: the answer to what the handler waits for
    answer,    \* answer[r]: the HTTP answer: its code and what it does to the jar
    flights,   \* sessionInspectionFlights: coalesced inspections
    commands,  \* script calls on their way to Redis
    posts,     \* token and revocation posts on their way to the issuer
    issuer,    \* issuer[s]: the refresh credential family of session s
    signedOut  \* sessions whose "signed_out" answer the browser has applied

netVars == <<commands, posts, flights>>
reqVars == <<kind, pc, cookie, reply, answer>>
vars == <<storeVars, now, jar, reqVars, netVars, issuer, signedOut>>

NoCookie == [id |-> "none", generation |-> 0, expiresAt |-> 0]
Cookie == [id : Sessions, generation : Nat, expiresAt : Nat]

Waiting == "waiting"
Lifecycle == {"absent", "stale", "active", "refreshing", "unconfirmed"}
Reply == [status : Lifecycle \cup {Waiting, "ok", "refused", "repeat", "missing", "pending"},
          refresh : Nat]
NoReply == [status |-> Waiting, refresh |-> 0]

Answer == [code : {"none", "admitted", "rejected", "conflict", "finalize_conflict", "unconfirmed",
                   "unavailable", "refreshed", "logged_in", "signed_out", "cookie_cleared",
                   "stale_session"},
           effect : {"keep", "clear", "set"}]
NoAnswer == [code |-> "none", effect |-> "keep"]

Flight == [id : Sessions, generation : Nat, at : Nat, result : Lifecycle \cup {Waiting}]
Post == [op : {"exchange", "revoke"}, owner : Requests, id : Sessions, refresh : Nat]
Family == [current : Nat, replayed : BOOLEAN, revoked : BOOLEAN]

\* The session ids already drawn by newSessionCandidate.
Minted == {cookie[r].id : r \in {q \in Requests : kind[q] = "login"}}

Live(c) == c.id # "none" /\ c.expiresAt > now

-----------------------------------------------------------------------------
Init ==
    /\ record = [s \in Sessions |-> NoRecord]
    /\ tombstone = [s \in Sessions |-> FALSE]
    /\ now = 0
    /\ jar = NoCookie
    /\ kind = [r \in Requests |-> "none"]
    /\ pc = [r \in Requests |-> "new"]
    /\ cookie = [r \in Requests |-> NoCookie]
    /\ reply = [r \in Requests |-> NoReply]
    /\ answer = [r \in Requests |-> NoAnswer]
    /\ flights = {}
    /\ commands = {}
    /\ posts = {}
    /\ issuer = [s \in Sessions |-> [current |-> 0, replayed |-> FALSE, revoked |-> FALSE]]
    /\ signedOut = {}

-----------------------------------------------------------------------------
(* Steps of a handler *)

\* Answer the browser.  A consumed reply is forgotten here, a consumed answer by the browser.
Respond(r, code, effect) ==
    /\ answer' = [answer EXCEPT ![r] = [code |-> code, effect |-> effect]]
    /\ pc' = [pc EXCEPT ![r] = "answered"]
    /\ reply' = [reply EXCEPT ![r] = NoReply]

\* Start to wait for "op", with no reply yet.
Await(r, op) ==
    /\ pc' = [pc EXCEPT ![r] = op]
    /\ reply' = [reply EXCEPT ![r] = NoReply]

\* Call a script and wait for it.
Call(r, op, refresh, expiresAt) ==
    /\ commands' = commands \cup
         {[op |-> op, owner |-> r, id |-> cookie[r].id, generation |-> cookie[r].generation,
           refresh |-> refresh, expiresAt |-> expiresAt, at |-> now]}
    /\ Await(r, op)

Replied(r, op) == pc[r] = op /\ reply[r].status # Waiting

-----------------------------------------------------------------------------
(* The browser *)

\* A tab sends a request with the cookie the jar holds at that moment.
Send(r, k) ==
    /\ pc[r] = "new"
    /\ k \in {"read", "refresh", "signout"}
    /\ Live(jar)
    /\ kind' = [kind EXCEPT ![r] = k]
    /\ pc' = [pc EXCEPT ![r] = "sent"]
    /\ cookie' = [cookie EXCEPT ![r] = jar]
    /\ UNCHANGED <<storeVars, now, jar, reply, answer, netVars, issuer, signedOut>>

\* The browser applies an answer and its Set-Cookie.
Deliver(r) ==
    /\ pc[r] = "answered"
    /\ pc' = [pc EXCEPT ![r] = "done"]
    /\ jar' = CASE answer[r].effect = "keep"  -> jar
                [] answer[r].effect = "clear" -> NoCookie
                [] answer[r].effect = "set"   ->
                     [cookie[r] EXCEPT !.generation = IF kind[r] = "login" THEN 0 ELSE @ + 1]
    /\ signedOut' = signedOut \cup
         IF answer[r].code = "signed_out" THEN {cookie[r].id} ELSE {}
    /\ answer' = [answer EXCEPT ![r] = NoAnswer]
    /\ UNCHANGED <<storeVars, now, kind, cookie, reply, netVars, issuer>>

-----------------------------------------------------------------------------
(* handle, action "callback": a verified login draws a session id and stores it *)

Login(r, s) ==
    /\ pc[r] = "new"
    /\ s \notin Minted
    /\ kind' = [kind EXCEPT ![r] = "login"]
    /\ LET c == [id |-> s, generation |-> 0, expiresAt |-> now + SessionAge] IN
       /\ cookie' = [cookie EXCEPT ![r] = c]
       /\ commands' = commands \cup
            {[op |-> "create", owner |-> r, id |-> s, generation |-> 0,
              refresh |-> issuer[s].current, expiresAt |-> c.expiresAt, at |-> now]}
    /\ Await(r, "create")
    /\ UNCHANGED <<storeVars, now, jar, answer, flights, posts, issuer, signedOut>>

\* "Product Session collision" is thrown for every other reply.
AfterCreate(r) ==
    /\ Replied(r, "create")
    /\ \/ reply[r].status = "ok" /\ Respond(r, "logged_in", "set")
       \/ reply[r].status # "ok" /\ Respond(r, "unavailable", "keep")
    /\ UNCHANGED <<storeVars, now, jar, kind, cookie, netVars, issuer, signedOut>>

-----------------------------------------------------------------------------
(* productSessionState, inspectSessionState: reads and refreshes join the flight of their claims *)

ArriveInspect(r) ==
    /\ pc[r] = "sent"
    /\ kind[r] \in {"read", "refresh"}
    /\ IF Live(cookie[r])
       THEN /\ Await(r, "inspect")
            /\ flights' = IF \E f \in flights : f.id = cookie[r].id
                                             /\ f.generation = cookie[r].generation
                          THEN flights
                          ELSE flights \cup {[id |-> cookie[r].id,
                                 generation |-> cookie[r].generation, at |-> now,
                                 result |-> Waiting]}
            /\ UNCHANGED answer
       ELSE /\ Respond(r, "rejected", "keep")
            /\ UNCHANGED flights
    /\ UNCHANGED <<storeVars, now, jar, kind, cookie, commands, posts, issuer, signedOut>>

\* Redis runs the script of a flight.
InspectExecute(f) ==
    /\ f.result = Waiting
    /\ flights' = (flights \ {f}) \cup
         {[f EXCEPT !.result = Inspection(f.id, f.generation, f.at)]}
    /\ UNCHANGED <<storeVars, now, jar, reqVars, commands, posts, issuer, signedOut>>

Waiters(f) == {r \in Requests : /\ pc[r] = "inspect" /\ reply[r].status = Waiting
                                /\ cookie[r].id = f.id /\ cookie[r].generation = f.generation}

\* Its answer reaches the process: every waiter has it, and the flight is forgotten.
InspectSettle(f) ==
    /\ f.result # Waiting
    /\ flights' = flights \ {f}
    /\ reply' = [r \in Requests |->
         IF r \in Waiters(f) THEN [status |-> f.result, refresh |-> 0] ELSE reply[r]]
    /\ UNCHANGED <<storeVars, now, jar, kind, pc, cookie, answer, commands, posts, issuer,
                   signedOut>>

\* The call fails or its deadline passes: every waiter answers 503.
InspectFail(f) ==
    /\ flights' = flights \ {f}
    /\ pc' = [r \in Requests |-> IF r \in Waiters(f) THEN "answered" ELSE pc[r]]
    /\ answer' = [r \in Requests |->
         IF r \in Waiters(f) THEN [code |-> "unavailable", effect |-> "keep"] ELSE answer[r]]
    /\ UNCHANGED <<storeVars, now, jar, kind, cookie, reply, commands, posts, issuer, signedOut>>

RefusalCode(status) ==
    CASE status \in {"refreshing", "stale"} -> "conflict"
      [] status = "unconfirmed"             -> "unconfirmed"
      [] status = "absent"                  -> "rejected"

ReadAfterInspect(r) ==
    /\ Replied(r, "inspect")
    /\ kind[r] = "read"
    /\ \/ reply[r].status = "active" /\ Respond(r, "admitted", "keep")
       \/ reply[r].status # "active" /\ Respond(r, RefusalCode(reply[r].status), "keep")
    /\ UNCHANGED <<storeVars, now, jar, kind, cookie, netVars, issuer, signedOut>>

-----------------------------------------------------------------------------
(* productAction, POST session: reserve, exchange, finalize, or invalidate *)

RefreshAfterInspect(r) ==
    /\ Replied(r, "inspect")
    /\ kind[r] = "refresh"
    /\ \/ /\ reply[r].status = "active"
          /\ Call(r, "reserve", 0, 0)
          /\ UNCHANGED answer
       \/ /\ reply[r].status # "active"
          /\ Respond(r, RefusalCode(reply[r].status), "keep")
          /\ UNCHANGED commands
    /\ UNCHANGED <<storeVars, now, jar, kind, cookie, flights, posts, issuer, signedOut>>

\* The winner posts the credential it was handed, once.
AfterReserve(r) ==
    /\ Replied(r, "reserve")
    /\ \/ /\ reply[r].status = "ok"
          /\ posts' = posts \cup {[op |-> "exchange", owner |-> r, id |-> cookie[r].id,
                                   refresh |-> reply[r].refresh]}
          /\ Await(r, "exchange")
          /\ UNCHANGED answer
       \/ /\ reply[r].status # "ok"
          /\ Respond(r, "conflict", "keep")
          /\ UNCHANGED posts
    /\ UNCHANGED <<storeVars, now, jar, kind, cookie, flights, commands, issuer, signedOut>>

\* Verified tokens and identity, a cookie within budget: commit them.
AfterExchange(r) ==
    /\ Replied(r, "exchange")
    /\ reply[r].status = "ok"
    /\ Call(r, "finalize", reply[r].refresh, 0)
    /\ UNCHANGED <<storeVars, now, jar, kind, cookie, answer, flights, posts, issuer, signedOut>>

\* The catch of the refresh: the exchange, the verification or the commit failed or timed out.
\* (A reserved credential that cannot be decrypted takes the same way, to another 503.)
RefreshFails(r) ==
    /\ pc[r] \in {"exchange", "finalize"} \/ (Replied(r, "reserve") /\ reply[r].status = "ok")
    /\ pc[r] = "finalize" => reply[r].status = Waiting
    /\ Call(r, "invalidate", 0, 0)
    /\ UNCHANGED <<storeVars, now, jar, kind, cookie, answer, flights, posts, issuer, signedOut>>

\* Mutant: the boolean of finalizeRefresh is ignored.
AfterFinalizeUnchecked(r) ==
    /\ Replied(r, "finalize")
    /\ Respond(r, "refreshed", "set")
    /\ UNCHANGED <<storeVars, now, jar, kind, cookie, netVars, issuer, signedOut>>

AfterFinalize(r) ==
    /\ Replied(r, "finalize")
    /\ \/ reply[r].status = "ok" /\ Respond(r, "refreshed", "set")
       \/ reply[r].status # "ok" /\ Respond(r, "finalize_conflict", "keep")
    /\ UNCHANGED <<storeVars, now, jar, kind, cookie, netVars, issuer, signedOut>>

\* invalidatePending(...).catch(() => undefined): its outcome is not looked at.
AfterInvalidate(r) ==
    /\ Replied(r, "invalidate")
    /\ Respond(r, "unconfirmed", "keep")
    /\ UNCHANGED <<storeVars, now, jar, kind, cookie, netVars, issuer, signedOut>>

-----------------------------------------------------------------------------
(* productAction, POST signout *)

ArriveSignout(r) ==
    /\ pc[r] = "sent"
    /\ kind[r] = "signout"
    /\ IF Live(cookie[r])
       THEN Call(r, "tombstone", 0, 0) /\ UNCHANGED answer
       ELSE Respond(r, "signed_out", "clear") /\ UNCHANGED commands
    /\ UNCHANGED <<storeVars, now, jar, kind, cookie, flights, posts, issuer, signedOut>>

\* A stale cookie ends nothing and keeps the jar; a taken credential is revoked once.
AfterTombstone(r) ==
    /\ Replied(r, "tombstone")
    /\ \/ /\ reply[r].status = "stale"
          /\ Respond(r, "stale_session", "keep")
          /\ UNCHANGED posts
       \/ /\ reply[r].status = "active"
          /\ posts' = posts \cup {[op |-> "revoke", owner |-> r, id |-> cookie[r].id,
                                   refresh |-> reply[r].refresh]}
          /\ Await(r, "revoke")
          /\ UNCHANGED answer
       \/ /\ reply[r].status \notin {"stale", "active"}
          /\ Respond(r, "signed_out", "clear")
          /\ UNCHANGED posts
    /\ UNCHANGED <<storeVars, now, jar, kind, cookie, flights, commands, issuer, signedOut>>

\* The revocation is confirmed or not; the sign-out is answered either way.
AfterRevoke(r) ==
    /\ pc[r] = "revoke"
    /\ Respond(r, "signed_out", "clear")
    /\ UNCHANGED <<storeVars, now, jar, kind, cookie, netVars, issuer, signedOut>>

-----------------------------------------------------------------------------
(* withRedis: a call that fails or outlives its deadline; or a taken credential that cannot be *)
(* decrypted, which is thrown on the same way                                                  *)

\* Mutant: the reservation's call has no deadline.
CallFailsButReserve(r) ==
    /\ pc[r] \in {"create", "invalidate", "tombstone"}
    /\ reply[r].status = Waiting \/ (pc[r] = "tombstone" /\ reply[r].status = "active")
    /\ CASE pc[r] = "create"     -> Respond(r, "unavailable", "keep")
         [] pc[r] = "invalidate" -> Respond(r, "unconfirmed", "keep")
         [] pc[r] = "tombstone"  -> Respond(r, "cookie_cleared", "clear")
    /\ UNCHANGED <<storeVars, now, jar, kind, cookie, netVars, issuer, signedOut>>

CallFails(r) ==
    /\ pc[r] \in {"create", "reserve", "invalidate", "tombstone"}
    /\ reply[r].status = Waiting \/ (pc[r] = "tombstone" /\ reply[r].status = "active")
    /\ CASE pc[r] \in {"create", "reserve"} -> Respond(r, "unavailable", "keep")
         [] pc[r] = "invalidate"            -> Respond(r, "unconfirmed", "keep")
         [] pc[r] = "tombstone"             -> Respond(r, "cookie_cleared", "clear")
    /\ UNCHANGED <<storeVars, now, jar, kind, cookie, netVars, issuer, signedOut>>

-----------------------------------------------------------------------------
(* Redis *)

\* The reply of an executed call reaches the handler that still waits for it.
Resolve(c, status, refresh) ==
    /\ commands' = commands \ {c}
    /\ reply' = IF pc[c.owner] = c.op /\ reply[c.owner].status = Waiting
                THEN [reply EXCEPT ![c.owner] = [status |-> status, refresh |-> refresh]]
                ELSE reply
    /\ UNCHANGED <<now, jar, kind, pc, cookie, answer, flights, posts, issuer, signedOut>>

Refuse(c) == Resolve(c, "refused", 0) /\ UNCHANGED storeVars

CreateScript(c) ==
    /\ c.op = "create"
    /\ \/ /\ CanCreate(c)
          /\ record' = [record EXCEPT ![c.id] = CreatedRecord(c)]
          /\ UNCHANGED tombstone
          /\ Resolve(c, "ok", 0)
       \/ ~CanCreate(c) /\ Refuse(c)

ReserveScript(c) ==
    /\ c.op = "reserve"
    /\ \/ /\ CanReserve(c)
          /\ record' = [record EXCEPT ![c.id] = ReservedRecord(c)]
          /\ UNCHANGED tombstone
          /\ Resolve(c, "ok", record[c.id].refresh)
       \/ ~CanReserve(c) /\ Refuse(c)

FinalizeScript(c) ==
    /\ c.op = "finalize"
    /\ \/ /\ CanFinalize(c)
          /\ record' = [record EXCEPT ![c.id] = FinalizedRecord(c)]
          /\ UNCHANGED tombstone
          /\ Resolve(c, "ok", 0)
       \/ ~CanFinalize(c) /\ Refuse(c)

InvalidateScript(c) ==
    /\ c.op = "invalidate"
    /\ \/ /\ CanInvalidate(c)
          /\ tombstone' = [tombstone EXCEPT ![c.id] = TRUE]
          /\ record' = [record EXCEPT ![c.id] = NoRecord]
          /\ Resolve(c, "ok", 0)
       \/ ~CanInvalidate(c) /\ Refuse(c)

TombstoneScript(c) ==
    /\ c.op = "tombstone"
    /\ \/ /\ CanEnd(c)
          /\ tombstone' = [tombstone EXCEPT ![c.id] = TRUE]
          /\ record' = [record EXCEPT ![c.id] = NoRecord]
       \/ ~CanEnd(c) /\ UNCHANGED storeVars
    /\ Resolve(c, TombstoneStatus(c),
               IF TombstoneStatus(c) = "active" THEN record[c.id].refresh ELSE 0)

\* EX / KEEPTTL: the record disappears at the session's end.
RecordExpires(s) ==
    /\ Exists(s)
    /\ record[s].expiresAt <= now
    /\ record' = [record EXCEPT ![s] = NoRecord]
    /\ UNCHANGED <<tombstone, now, jar, reqVars, netVars, issuer, signedOut>>

-----------------------------------------------------------------------------
(* The issuer (external): it rotates a credential once, and treats a second use as theft *)

IssuerExchange(p) ==
    /\ p.op = "exchange"
    /\ posts' = posts \ {p}
    /\ \/ /\ p.refresh = issuer[p.id].current /\ ~issuer[p.id].revoked
          /\ issuer' = [issuer EXCEPT ![p.id].current = @ + 1]
          /\ reply' = IF pc[p.owner] = "exchange"
                      THEN [reply EXCEPT ![p.owner] = [status |-> "ok", refresh |-> p.refresh + 1]]
                      ELSE reply
       \/ /\ p.refresh # issuer[p.id].current \/ issuer[p.id].revoked
          /\ issuer' = [issuer EXCEPT ![p.id].replayed = @ \/ p.refresh < issuer[p.id].current]
          /\ UNCHANGED reply
    /\ UNCHANGED <<storeVars, now, jar, kind, pc, cookie, answer, flights, commands, signedOut>>

IssuerRevoke(p) ==
    /\ p.op = "revoke"
    /\ posts' = posts \ {p}
    /\ issuer' = [issuer EXCEPT ![p.id].revoked = TRUE]
    /\ UNCHANGED <<storeVars, now, jar, reqVars, flights, commands, signedOut>>

-----------------------------------------------------------------------------
(* The process and the clock *)

Serving == {"inspect", "reserve", "exchange", "finalize", "invalidate", "create", "tombstone",
            "revoke"}

\* The Web process restarts: its handlers and its flights are gone, what it sent is not.
Restart ==
    /\ \E r \in Requests : pc[r] \in Serving
    /\ pc' = [r \in Requests |-> IF pc[r] \in Serving THEN "done" ELSE pc[r]]
    /\ reply' = [r \in Requests |-> NoReply]
    /\ flights' = {}
    /\ UNCHANGED <<storeVars, now, jar, kind, cookie, answer, commands, posts, issuer, signedOut>>

Tick ==
    /\ now < MaxTime
    /\ now' = now + 1
    /\ UNCHANGED <<storeVars, jar, reqVars, netVars, issuer, signedOut>>

-----------------------------------------------------------------------------
Browser(r) == (\E k \in {"read", "refresh", "signout"} : Send(r, k)) \/ Deliver(r)
              \/ \E s \in Sessions : Login(r, s)

Handler(r) ==
    \/ AfterCreate(r) \/ ArriveInspect(r) \/ ReadAfterInspect(r) \/ RefreshAfterInspect(r)
    \/ AfterReserve(r) \/ AfterExchange(r) \/ RefreshFails(r) \/ AfterFinalize(r)
    \/ AfterInvalidate(r) \/ ArriveSignout(r) \/ AfterTombstone(r) \/ AfterRevoke(r)
    \/ CallFails(r)

Inspector(f) == InspectExecute(f) \/ InspectSettle(f) \/ InspectFail(f)

Redis(c) == CreateScript(c) \/ ReserveScript(c) \/ FinalizeScript(c) \/ InvalidateScript(c)
            \/ TombstoneScript(c)

Issuer(p) == IssuerExchange(p) \/ IssuerRevoke(p)

Next ==
    \/ \E r \in Requests : Browser(r) \/ Handler(r)
    \/ \E f \in flights : Inspector(f)
    \/ \E c \in commands : Redis(c)
    \/ \E p \in posts : Issuer(p)
    \/ \E s \in Sessions : RecordExpires(s)
    \/ Restart
    \/ Tick

Spec == Init /\ [][Next]_vars

\* Every wait of a handler ends: Redis calls and token posts have deadlines, and the handler
\* itself runs on.  Nothing is assumed of Redis, of the issuer, of delivery or of the user.
Fairness ==
    /\ \A r \in Requests : WF_vars(Handler(r))
    /\ WF_vars(\E f \in flights : InspectSettle(f) \/ InspectFail(f))

FairSpec == Spec /\ Fairness

-----------------------------------------------------------------------------
(* Properties *)

\* Every variable has its type.
TypeOK ==
    /\ record \in [Sessions -> Record]
    /\ tombstone \in [Sessions -> BOOLEAN]
    /\ now \in Nat
    /\ jar \in Cookie \cup {NoCookie}
    /\ kind \in [Requests -> {"none", "read", "refresh", "signout", "login"}]
    /\ pc \in [Requests -> Serving \cup {"new", "sent", "answered", "done"}]
    /\ cookie \in [Requests -> Cookie \cup {NoCookie}]
    /\ reply \in [Requests -> Reply]
    /\ answer \in [Requests -> Answer]
    /\ flights \subseteq Flight
    /\ commands \subseteq Command
    /\ posts \subseteq Post
    /\ issuer \in [Sessions -> Family]
    /\ signedOut \subseteq Sessions

\* No refresh credential is ever presented to the issuer after it was rotated, whatever is
\* retried, times out, restarts or arrives late: reserveRefresh admits one winner per
\* generation and finalizeRefresh stores only what that winner was granted.
NoRefreshReplay == \A s \in Sessions : ~issuer[s].replayed

\* A session the store calls active can always be refreshed: the credential it keeps is the
\* issuer's current one, not revoked, and nobody is about to spend it.
ActiveCredentialCurrent ==
    \A s \in Sessions : record[s].state = "active" =>
        /\ record[s].refresh = issuer[s].current
        /\ ~issuer[s].revoked
        /\ \A p \in posts : p.id = s => p.refresh # issuer[s].current

\* A sign-out takes a credential to revoke only when that credential cannot have been rotated:
\* what is revoked is always the issuer's current one.
RevokeTakesCurrent ==
    \A p \in posts : p.op = "revoke" => p.refresh = issuer[p.id].current

\* Once the browser was told "signed_out", no late refresh or login answer puts a live cookie
\* of that session back into its jar.
SignedOutStaysOut == Live(jar) => jar.id \notin signedOut

\* The browser is never ahead of the store: a cookie is handed out only after its generation
\* was committed, so no answer, lost or late, can make a current session look stale.
CookieNeverAhead ==
    \A s \in Sessions : Exists(s) =>
        /\ jar.id = s => jar.generation <= record[s].generation
        /\ \A r \in Requests : cookie[r].id = s => cookie[r].generation <= record[s].generation

\* The winner of a reservation keeps it while it exchanges: no other refresh ends or takes over
\* the session under it.  Only a sign-out of the same generation, or the session's end, can.
WinnerUndisturbed ==
    \A r \in Requests : pc[r] = "exchange" =>
        LET s == cookie[r].id IN
        \/ record[s].state = "refreshing" /\ record[s].reservation = r
        \/ ~Live(cookie[r])
        \/ /\ tombstone[s]
           /\ \E q \in Requests : kind[q] = "signout" /\ cookie[q] = cookie[r]

\* Where the store puts a session in its life: it is unborn until its createSession was executed.
Phase(s) ==
    IF Exists(s) THEN record[s].state
    ELSE IF s \notin Minted \/ \E c \in commands : c.op = "create" /\ c.id = s THEN "unborn"
    ELSE "ended"

Lifetime == INSTANCE SessionLifecycle WITH
    phase <- [s \in Sessions |-> Phase(s)],
    generation <- [s \in Sessions |-> record[s].generation]

\* The store implements the life of a session (SessionLifecycle): it is created at most once, its
\* generation moves by one and only out of a reservation, and once ended it never comes back.
LifetimeSpec == Lifetime!Spec

\* A request that reached a handler is answered (or its process restarted), although Redis may
\* swallow every command and the issuer every post.
RequestAnswered == \A r \in Requests : (pc[r] = "sent") ~> (pc[r] \in {"answered", "done"})

=============================================================================
