----------------------- MODULE ProductSessionInductive -----------------------
(***************************************************************************)
(* The inductive invariant of ProductSession.  NoRefreshReplay is not      *)
(* inductive: it holds because a refresh credential is at one place at a   *)
(* time.  It moves from the login to the record (createSession), from the  *)
(* record to one winner (reserveRefresh), into one post, back as the grant *)
(* of its successor, into one commit and into the record (finalizeRefresh),*)
(* or to one sign-out (tombstoneSession) and into one revocation.  Each    *)
(* conjunct below says, of one such place, that the credential there is    *)
(* the issuer's current one and that the other places are empty.           *)
(***************************************************************************)
EXTENDS ProductSession

\* Which requests can be where: what a handler waits for fits the endpoint that was called.
Stages ==
    \A r \in Requests :
        /\ pc[r] = "new" => kind[r] = "none"
        /\ pc[r] # "new" => cookie[r] \in Cookie
        /\ pc[r] # "answered" => answer[r] = NoAnswer
        /\ pc[r] = "sent" => kind[r] \in {"read", "refresh", "signout"}
        /\ pc[r] = "inspect" => /\ kind[r] \in {"read", "refresh"}
                                /\ reply[r].status \in Lifecycle \cup {Waiting}
        /\ pc[r] \in {"reserve", "exchange", "finalize", "invalidate"} => kind[r] = "refresh"
        /\ pc[r] \in {"tombstone", "revoke"} => kind[r] = "signout"
        /\ pc[r] = "create" => kind[r] = "login"

\* A script call belongs to the session of the request that sent it, and once the commit was sent
\* the request neither holds a credential nor waits for one.
CommandsOwned ==
    \A c \in commands :
        /\ c.id = cookie[c.owner].id
        /\ pc[c.owner] \notin {"new", "sent", "inspect"}
        /\ c.op = "finalize" => pc[c.owner] \notin {"reserve", "exchange"}
        /\ (c.op = "create") <=> (kind[c.owner] = "login")

\* A post belongs to the session of the request that sent it.
PostsOwned ==
    \A p \in posts :
        /\ p.id = cookie[p.owner].id
        /\ pc[p.owner] \notin {"new", "sent", "inspect", "create", "reserve"}
        /\ kind[p.owner] \in {"refresh", "signout"}

\* createSession of s is on its way to Redis.
Creating(s) == \E c \in commands : c.op = "create" /\ c.id = s

\* s was stored once, and is stored no more
Gone(s) == s \in Minted /\ ~Exists(s) /\ ~Creating(s)

\* Until createSession of s was executed, nothing of s exists anywhere but in its own login.
Unstored ==
    \A s \in Sessions : (s \notin Minted \/ Creating(s)) =>
        /\ record[s] = NoRecord
        /\ issuer[s].current = 0 /\ ~issuer[s].revoked
        /\ jar.id # s
        /\ \A r \in Requests : cookie[r].id = s =>
              /\ kind[r] = "login"
              /\ pc[r] = "create" => reply[r].status # "ok"
              /\ answer[r].effect # "set"

\* Two logins draw different ids, and store the first credential of the family.
Logins ==
    /\ \A r, q \in Requests :
          (kind[r] = "login" /\ kind[q] = "login" /\ cookie[r].id = cookie[q].id) => r = q
    /\ \A c, d \in commands : (c.op = "create" /\ d.op = "create" /\ c.id = d.id) => c = d
    /\ \A c \in commands : c.op = "create" => c.refresh = 0

\* r was handed the credential and has not spent it
Holds(r) == pc[r] = "reserve" /\ reply[r].status = "ok"

\* While the reservation of a request is on its way, that request has nothing else.
ReservePending ==
    \A c \in commands : c.op = "reserve" =>
        /\ pc[c.owner] \in {"reserve", "answered", "done"} /\ ~Holds(c.owner)
        /\ \A s \in Sessions : record[s].reservation # c.owner
        /\ \A p \in posts : p.owner # c.owner
        /\ \A d \in commands : d.owner = c.owner => d = c

\* A refreshing record names the request that reserved it, and a request of that session.
Reservations ==
    \A s \in Sessions :
        /\ record[s].state = "none" => record[s] = NoRecord
        /\ (record[s].reservation # Nobody) <=> (record[s].state = "refreshing")
        /\ record[s].state = "refreshing" =>
              LET w == record[s].reservation IN
              /\ cookie[w].id = s
              /\ pc[w] \notin {"new", "sent", "inspect"}

\* r holds the reservation of its session.
Reserved(r) == /\ pc[r] # "new"
               /\ record[cookie[r].id].state = "refreshing"
               /\ record[cookie[r].id].reservation = r

\* While the store calls a session active, the store alone has its credential.
ActiveOwned ==
    \A s \in Sessions : record[s].state = "active" =>
        /\ record[s].refresh = issuer[s].current /\ ~issuer[s].revoked
        /\ \A p \in posts : p.id # s

\* A winner has its reservation until the session is gone.
HoldersSole ==
    \A r \in Requests : (Holds(r) \/ pc[r] = "exchange") => Reserved(r) \/ Gone(cookie[r].id)

\* A credential handed out is the current one, and only one request holds it.
HeldCurrent ==
    \A r \in Requests : Holds(r) =>
        /\ reply[r].refresh = issuer[cookie[r].id].current
        /\ \A p \in posts : p.id # cookie[r].id
        /\ \A q \in Requests : (Holds(q) /\ cookie[q].id = cookie[r].id) => q = r

\* While r holds the reservation, what r was granted and what it commits is the current credential.
GrantCurrent ==
    \A r \in Requests : Reserved(r) =>
        /\ ~issuer[cookie[r].id].revoked
        /\ \A p \in posts : p.id = cookie[r].id => (p.owner = r /\ p.op = "exchange")
        /\ (pc[r] = "exchange" /\ reply[r].status = "ok") =>
              /\ reply[r].refresh = issuer[cookie[r].id].current
              /\ \A p \in posts : p.id # cookie[r].id
        /\ \A c \in commands : (c.owner = r /\ c.op = "finalize") =>
              /\ c.refresh = issuer[cookie[r].id].current
              /\ \A p \in posts : p.id # cookie[r].id

\* r was handed the credential to revoke and has not posted it.
Takes(r) == pc[r] = "tombstone" /\ reply[r].status = "active"

\* A credential taken by a sign-out is the current one, and only that sign-out holds it.
TakenCurrent ==
    \A r \in Requests : Takes(r) =>
        /\ reply[r].refresh = issuer[cookie[r].id].current
        /\ Gone(cookie[r].id)
        /\ \A p \in posts : p.id # cookie[r].id
        /\ \A q \in Requests : (Takes(q) /\ cookie[q].id = cookie[r].id) => q = r
        /\ \A q \in Requests : Holds(q) => cookie[q].id # cookie[r].id

\* Every post carries the current credential; so there is one post at most.
PostsCurrent ==
    /\ \A p \in posts : p.refresh = issuer[p.id].current
    /\ \A p, q \in posts : p.id = q.id => p = q
    /\ \A p \in posts : p.op = "revoke" => Gone(p.id)

\* The inductive invariant.
IInv == /\ TypeOK /\ Stages /\ CommandsOwned /\ PostsOwned /\ Unstored /\ Logins
        /\ ReservePending /\ Reservations /\ ActiveOwned /\ HoldersSole /\ HeldCurrent
        /\ GrantCurrent /\ TakenCurrent /\ PostsCurrent /\ NoRefreshReplay

-----------------------------------------------------------------------------
(* What the browser's jar adds: SignedOutStaysOut, CookieNeverAhead and WinnerUndisturbed hold   *)
(* because the store commits a generation once, and the claims it committed are the newest ones  *)
(* of their session until the browser has applied them.                                          *)

\* The store has committed the claims r is to set, and the browser has not applied them.
SetsOut(r) ==
    \/ answer[r].effect = "set"
    \/ pc[r] \in {"create", "finalize"} /\ reply[r].status = "ok"

\* s was drawn, and every cookie of it is at its end.
Expired(s) ==
    /\ s \in Minted
    /\ \A r \in Requests : cookie[r].id = s => cookie[r].expiresAt <= now
    /\ jar.id = s => jar.expiresAt <= now

\* The cookies of a session and its record end at one time.
SameEnd ==
    /\ \A r, q \in Requests : cookie[r].id = cookie[q].id => cookie[r].expiresAt = cookie[q].expiresAt
    /\ \A r \in Requests : jar.id = cookie[r].id => jar.expiresAt = cookie[r].expiresAt
    /\ \A r \in Requests, s \in Sessions :
          (Exists(s) /\ cookie[r].id = s) => record[s].expiresAt = cookie[r].expiresAt
    /\ \A s \in Sessions : (Exists(s) /\ jar.id = s) => record[s].expiresAt = jar.expiresAt

\* A script call carries the claims of its request, and a refresh that gives up has let go.
ClaimsCarried ==
    /\ \A r \in Requests : kind[r] = "login" => cookie[r].generation = 0
    /\ \A c \in commands :
          /\ c.generation = cookie[c.owner].generation
          /\ c.op = "create" => c.expiresAt = cookie[c.owner].expiresAt
          /\ c.op = "tombstone" => kind[c.owner] = "signout"
          /\ c.op \in {"reserve", "finalize", "invalidate"} => kind[c.owner] = "refresh"
          /\ c.op = "invalidate" => pc[c.owner] \notin {"reserve", "exchange"}

\* The reservation of a record belongs to a refresh of its generation; a tombstone leaves no record.
RecordsHeld ==
    \A s \in Sessions :
        /\ record[s].state = "refreshing" =>
              /\ kind[record[s].reservation] = "refresh"
              /\ cookie[record[s].reservation].generation = record[s].generation
        /\ tombstone[s] => ~Exists(s)

\* A new session is known to its login only, until its cookie is set.
LoginUnknown ==
    \A r \in Requests : (SetsOut(r) /\ kind[r] = "login") =>
        /\ jar.id # cookie[r].id
        /\ \A q \in Requests : cookie[q].id = cookie[r].id => q = r

\* Claims a refresh committed and the browser has not applied succeed every cookie of the session.
CommitNewest ==
    \A r \in Requests : (SetsOut(r) /\ kind[r] # "login") =>
        /\ \A s \in Sessions : (cookie[r].id = s /\ Exists(s)) =>
              cookie[r].generation < record[s].generation
        /\ \A q \in Requests : cookie[q].id = cookie[r].id =>
              /\ cookie[q].generation <= cookie[r].generation
              /\ SetsOut(q) => q = r
        /\ jar.id = cookie[r].id => jar.generation <= cookie[r].generation

\* A session ends with no cookie of it on its way to the browser, or with all of them at their end.
EndedSilent ==
    \A s \in Sessions : Gone(s) =>
        Expired(s) \/ \A r \in Requests : cookie[r].id = s => ~SetsOut(r)

\* Only a session that is gone, or at its end, is answered "signed_out".
SignedOutGone ==
    /\ \A r \in Requests :
          /\ (pc[r] = "tombstone" /\ reply[r].status \notin {Waiting, "stale"}) => Gone(cookie[r].id)
          /\ pc[r] = "revoke" => Gone(cookie[r].id)
          /\ answer[r].code = "signed_out" =>
                answer[r].effect = "clear" /\ (Gone(cookie[r].id) \/ Expired(cookie[r].id))
    /\ \A s \in signedOut : Gone(s) \/ Expired(s)

\* WinnerUndisturbed, from the moment the winner was handed the credential.
HolderUndisturbed ==
    \A r \in Requests : (Holds(r) \/ pc[r] = "exchange") =>
        LET s == cookie[r].id IN
        \/ record[s].state = "refreshing" /\ record[s].reservation = r
        \/ ~Live(cookie[r])
        \/ /\ tombstone[s]
           /\ \E q \in Requests : kind[q] = "signout" /\ cookie[q] = cookie[r]

\* The inductive invariant of the browser's side, relative to IInv.
BInv == /\ SameEnd /\ ClaimsCarried /\ RecordsHeld /\ LoginUnknown /\ CommitNewest /\ EndedSilent
        /\ SignedOutGone /\ HolderUndisturbed /\ CookieNeverAhead /\ SignedOutStaysOut

=============================================================================
