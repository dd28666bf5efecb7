------------------------ MODULE ProductSession_proofs ------------------------
(***************************************************************************)
(* What ProductSession promises, for every set of sessions and requests    *)
(* and every reservation span, session age and clock bound, in three       *)
(* parts: the safety of the store and its handlers (IInv), the refinement  *)
(* of SessionLifecycle, and what the browser can rely on (BInv).           *)
(***************************************************************************)
EXTENDS ProductSessionInductive, TLAPS

(***************************************************************************)
(* The store and its handlers.                                             *)
(*                                                                         *)
(* Most steps only lose things (Quiet), let a handler answer (Answering)   *)
(* or send a call (Calling): each of the three shapes is proved once, and  *)
(* each action is shown to be of its shape.  The steps that move the       *)
(* credential are proved one by one.                                       *)
(***************************************************************************)

\* A step that can only lose things: the handlers of some requests end or start to inspect, script
\* calls are consumed, records end, and nobody is handed a credential.
Quiet ==
    /\ TypeOK' /\ Stages'
    /\ UNCHANGED <<issuer, jar, kind, cookie, posts>>
    /\ commands' \subseteq commands
    /\ \A s \in Sessions : record'[s] \in {record[s], NoRecord}
    /\ \A q \in Requests :
          /\ \/ pc'[q] = pc[q]
             \/ pc[q] # "new" /\ pc'[q] \in {"answered", "done"}
             \/ pc[q] = "sent" /\ pc'[q] = "inspect"
          /\ \/ kind[q] # "login"
             \/ answer'[q].effect \in {"keep", "clear"}
             \/ answer'[q] = answer[q]
             \/ pc[q] = "create" /\ reply[q].status = "ok"
          /\ pc'[q] \in {"reserve", "exchange", "create", "tombstone"} =>
                reply'[q] = reply[q] \/ reply'[q].status \notin {"ok", "active"}

\* A step that only loses things keeps the invariant.
LEMMA QuietKeeps == ASSUME IInv, Quiet, NoRefreshReplay PROVE IInv'
<1>1. TypeOK /\ Stages /\ TypeOK' /\ Stages'
  BY DEF IInv, Quiet
<1>2. UNCHANGED <<issuer, jar, kind, cookie, posts>> /\ commands' \subseteq commands
  BY DEF Quiet
<1>3. \A s \in Sessions : record'[s] \in {record[s], NoRecord}
  BY DEF Quiet
<1>4. \A q \in Requests : \/ pc'[q] = pc[q]
                          \/ pc[q] # "new" /\ pc'[q] \in {"answered", "done"}
                          \/ pc[q] = "sent" /\ pc'[q] = "inspect"
  BY DEF Quiet
<1>5. Minted' = Minted
  BY <1>2 DEF Minted
<1>6. ASSUME NEW s \in Sessions, s \notin Minted \/ Creating(s)' PROVE s \notin Minted \/ Creating(s)
  BY <1>2, <1>6 DEF Creating
<1>7. ASSUME NEW s \in Sessions, record[s].state # "none" PROVE s \in Minted /\ ~Creating(s)'
  BY <1>2, <1>6, <1>7 DEF IInv, Unstored, NoRecord
<1>8. \A s \in Sessions : Gone(s) => Gone(s)'
  BY <1>1, <1>2, <1>3, <1>5 DEF Gone, Exists, Creating, NoRecord, TypeOK
<1>9. \A s \in Sessions : record[s].state = "refreshing" => record'[s] = record[s] \/ Gone(s)'
  BY <1>3, <1>5, <1>7 DEF Gone, Exists, NoRecord
<1>10. \A q \in Requests : /\ Holds(q)' => Holds(q) /\ reply'[q] = reply[q]
                           /\ Takes(q)' => Takes(q) /\ reply'[q] = reply[q]
                           /\ pc'[q] = "exchange" => pc[q] = "exchange"
                           /\ (pc'[q] = "exchange" /\ reply'[q].status = "ok") => reply'[q] = reply[q]
  BY <1>4 DEF Quiet, Holds, Takes
<1>11. CommandsOwned' /\ PostsOwned'
  BY <1>1, <1>2, <1>4 DEF IInv, CommandsOwned, PostsOwned, TypeOK, Command, Post
<1>12. Unstored'
  <2>1. SUFFICES ASSUME NEW s \in Sessions, s \notin Minted \/ Creating(s)'
                 PROVE  /\ record'[s] = NoRecord
                        /\ issuer'[s].current = 0 /\ ~issuer'[s].revoked
                        /\ jar'.id # s
                        /\ \A q \in Requests : cookie'[q].id = s =>
                              /\ kind'[q] = "login"
                              /\ pc'[q] = "create" => reply'[q].status # "ok"
                              /\ answer'[q].effect # "set"
    BY <1>5 DEF Unstored
  <2>2. s \notin Minted \/ Creating(s)
    BY <1>6, <2>1
  <2> QED
    BY <1>2, <1>3, <1>4, <2>2 DEF IInv, Unstored, Quiet
<1>13. Logins'
  BY <1>2 DEF IInv, Logins
<1>14. ReservePending'
  <2>1. ASSUME NEW c \in commands, c.op = "reserve" PROVE \A s \in Sessions : record'[s].reservation # c.owner
    BY <1>1, <1>3, <2>1, StoreAssumption DEF IInv, ReservePending, NoRecord, Nobody, TypeOK, Command
  <2>2. ASSUME NEW c \in commands, c.op = "reserve"
        PROVE  pc'[c.owner] \in {"reserve", "answered", "done"} /\ ~Holds(c.owner)'
    BY <1>1, <1>4, <1>10, <2>2 DEF IInv, ReservePending, TypeOK, Command
  <2> QED
    BY <1>2, <2>1, <2>2 DEF IInv, ReservePending
<1>15. Reservations'
  <2>1. ASSUME NEW s \in Sessions, record'[s] = NoRecord
        PROVE  record'[s].reservation = Nobody /\ record'[s].state = "none"
    BY <2>1 DEF NoRecord
  <2>2. ASSUME NEW s \in Sessions, record'[s] = record[s], record[s].state = "refreshing"
        PROVE  cookie'[record[s].reservation].id = s /\ pc'[record[s].reservation] \notin {"new", "sent", "inspect"}
    <3>1. record[s].reservation \in Requests
      BY <1>1, <2>2 DEF IInv, Reservations, TypeOK, Record
    <3> QED
      BY <1>2, <1>4, <2>2, <3>1 DEF IInv, Reservations
  <2> QED
    BY <1>3, <2>1, <2>2 DEF IInv, Reservations
<1>16. ActiveOwned'
  BY <1>2, <1>3 DEF IInv, ActiveOwned, NoRecord
<1>17. HoldersSole'
  <2>1. ASSUME NEW q \in Requests, Holds(q)' \/ pc'[q] = "exchange"
        PROVE  Reserved(q)' \/ Gone(cookie[q].id)'
    <3>1. cookie[q].id \in Sessions /\ (Reserved(q) \/ Gone(cookie[q].id)) /\ pc'[q] # "new"
      BY <1>1, <1>10, <2>1 DEF IInv, HoldersSole, Stages, Cookie, Holds
    <3>2. CASE Gone(cookie[q].id)
      BY <1>2, <1>8, <3>1, <3>2 DEF Gone, Exists, Creating, Minted
    <3>3. CASE Reserved(q)
      BY <1>2, <1>9, <3>1, <3>3 DEF Reserved, Gone, Exists, Creating, Minted
    <3> QED
      BY <3>1, <3>2, <3>3
  <2> QED
    BY <2>1 DEF HoldersSole, Holds
<1>18. HeldCurrent'
  BY <1>2, <1>10 DEF IInv, HeldCurrent
<1>19. GrantCurrent'
  <2>1. ASSUME NEW q \in Requests, Reserved(q)' PROVE Reserved(q)
    <3>1. cookie[q].id \in Sessions
      BY <1>1, <1>2, <2>1 DEF Reserved, Stages, Cookie
    <3> QED
      BY <1>2, <1>3, <1>4, <2>1, <3>1 DEF Reserved, NoRecord
  <2> QED
    BY <1>2, <1>10, <2>1 DEF IInv, GrantCurrent
<1>20. TakenCurrent'
  <2>1. \A q \in Requests : Takes(q) => cookie[q].id \in Sessions
    BY <1>1 DEF Takes, Stages, Cookie
  <2> QED
    BY <1>2, <1>8, <1>10, <2>1 DEF IInv, TakenCurrent
<1>21. PostsCurrent' /\ NoRefreshReplay'
  BY <1>1, <1>2, <1>8 DEF IInv, PostsCurrent, NoRefreshReplay, TypeOK, Post
<1> QED
  BY <1>1, <1>11, <1>12, <1>13, <1>14, <1>15, <1>16, <1>17, <1>18, <1>19, <1>20, <1>21 DEF IInv

\* What every answering step of a handler does: the request leaves the handler, all else stays.
Answering(r, a) ==
    /\ pc[r] \notin {"new", "answered", "done"}
    /\ a \in Answer
    /\ (kind[r] = "login" /\ a.effect = "set") => reply[r].status = "ok" /\ pc[r] = "create"
    /\ pc' = [pc EXCEPT ![r] = "answered"]
    /\ reply' = [reply EXCEPT ![r] = NoReply]
    /\ answer' = [answer EXCEPT ![r] = a]
    /\ UNCHANGED <<storeVars, now, jar, kind, cookie, netVars, issuer, signedOut>>

\* A handler that answers keeps the invariant.
LEMMA AnsweringKeeps ==
    ASSUME IInv, NEW r \in Requests, NEW a, Answering(r, a)
    PROVE  IInv'
<1>1. TypeOK /\ Stages /\ NoRefreshReplay
  BY DEF IInv
<1>2. /\ pc' \in [Requests -> Serving \cup {"new", "sent", "answered", "done"}]
      /\ pc'[r] = "answered" /\ reply'[r] = NoReply /\ answer'[r] = a
      /\ \A q \in Requests \ {r} : pc'[q] = pc[q] /\ reply'[q] = reply[q] /\ answer'[q] = answer[q]
      /\ reply' \in [Requests -> Reply]
      /\ answer' \in [Requests -> Answer]
  BY <1>1 DEF Answering, TypeOK, NoReply, Reply, Waiting
<1>3. UNCHANGED <<record, tombstone, now, jar, kind, cookie, commands, posts, flights, issuer, signedOut>>
  BY DEF Answering, storeVars, netVars
<1>4. TypeOK'
  BY <1>1, <1>2, <1>3 DEF TypeOK
<1>5. Stages'
  BY <1>1, <1>2, <1>3 DEF Stages, Answering
<1>6. Quiet
  BY <1>2, <1>3, <1>4, <1>5 DEF Quiet, Answering, Answer
<1> QED
  BY <1>1, <1>6, QuietKeeps

\* What every step does that sends a script call: the request goes on to wait for it.
Calling(r, c) ==
    /\ c \in Command /\ c.owner = r /\ c.id = cookie[r].id
    /\ \/ c.op = "reserve" /\ pc[r] = "inspect" /\ kind[r] = "refresh"
       \/ c.op = "finalize" /\ pc[r] = "exchange" /\ reply[r] = [status |-> "ok", refresh |-> c.refresh]
       \/ c.op = "invalidate" /\ (pc[r] \in {"exchange", "finalize"} \/ Holds(r))
       \/ c.op = "tombstone" /\ pc[r] = "sent" /\ kind[r] = "signout"
    /\ commands' = commands \cup {c}
    /\ pc' = [pc EXCEPT ![r] = c.op]
    /\ reply' = [reply EXCEPT ![r] = NoReply]
    /\ UNCHANGED <<storeVars, now, jar, kind, cookie, answer, flights, posts, issuer, signedOut>>

\* A handler that sends a script call keeps the invariant.
LEMMA CallingKeeps ==
    ASSUME IInv, NEW r \in Requests, NEW c, Calling(r, c)
    PROVE  IInv'
<1>1. TypeOK /\ Stages
  BY DEF IInv
<1>2. /\ pc' \in [Requests -> Serving \cup {"new", "sent", "answered", "done"}]
      /\ pc'[r] = c.op /\ reply'[r] = NoReply
      /\ \A q \in Requests \ {r} : pc'[q] = pc[q] /\ reply'[q] = reply[q]
      /\ reply' \in [Requests -> Reply]
  BY <1>1 DEF Calling, TypeOK, NoReply, Reply, Waiting, Command, Serving
<1>3. UNCHANGED <<record, tombstone, now, jar, kind, cookie, answer, posts, flights, issuer, signedOut>>
  BY DEF Calling, storeVars
<1>4. /\ commands' = commands \cup {c} /\ c \in Command /\ c.owner = r /\ c.id = cookie[r].id
      /\ c.op \in {"reserve", "finalize", "invalidate", "tombstone"}
      /\ pc[r] \in {"sent", "inspect", "exchange", "finalize", "reserve"}
  BY DEF Calling, Holds
<1>5. kind[r] # "login" /\ kind[r] = (IF c.op = "tombstone" THEN "signout" ELSE "refresh")
  BY <1>1 DEF Stages, Calling, Holds
<1>6. TypeOK'
  BY <1>1, <1>2, <1>3, <1>4 DEF TypeOK
<1>7. Stages'
  BY <1>1, <1>2, <1>3, <1>4, <1>5 DEF Stages
<1>8. CommandsOwned' /\ PostsOwned'
  BY <1>1, <1>2, <1>3, <1>4, <1>5 DEF IInv, CommandsOwned, PostsOwned, TypeOK, Command, Post, Calling
<1>9. Unstored' /\ Logins'
  BY <1>1, <1>2, <1>3, <1>4 DEF IInv, Unstored, Minted, Creating, Logins
<1>10. ReservePending'
  <2>1. ~Holds(r)'
    BY <1>2 DEF Holds, NoReply, Waiting
  <2>2. ASSUME NEW d \in commands, d.op = "reserve" PROVE d.owner # r
    BY <2>2 DEF IInv, ReservePending, Calling, Holds
  <2>3. c.op = "reserve" => /\ \A d \in commands : d.owner # r
                            /\ \A p \in posts : p.owner # r
                            /\ \A s \in Sessions : record[s].reservation # r
    <3>1. c.op = "reserve" => pc[r] = "inspect"
      BY DEF Calling
    <3>2. \A s \in Sessions : record[s].reservation = r => record[s].state = "refreshing"
      BY StoreAssumption DEF IInv, Reservations, Nobody
    <3> QED
      BY <3>1, <3>2 DEF IInv, CommandsOwned, PostsOwned, Reservations
  <2>4. ASSUME NEW d \in commands, d.op = "reserve"
        PROVE  pc'[d.owner] \in {"reserve", "answered", "done"} /\ ~Holds(d.owner)'
    BY <1>1, <1>2, <2>2, <2>4 DEF IInv, ReservePending, Holds, TypeOK, Command
  <2> QED
    BY <1>2, <1>3, <1>4, <2>1, <2>2, <2>3, <2>4 DEF IInv, ReservePending
<1>11. Reservations'
  BY <1>1, <1>2, <1>3, <1>4 DEF IInv, Reservations, TypeOK, Record
<1>12. ActiveOwned' /\ NoRefreshReplay'
  BY <1>3 DEF IInv, ActiveOwned, NoRefreshReplay
<1>13. \A s \in Sessions : Gone(s)' = Gone(s)
  BY <1>3, <1>4 DEF Gone, Creating, Minted, Exists
<1>14. HoldersSole'
  BY <1>1, <1>2, <1>3, <1>4, <1>13 DEF IInv, HoldersSole, Holds, Reserved, NoReply, Waiting, Stages, Cookie
<1>15. HeldCurrent'
  BY <1>1, <1>2, <1>3, <1>4 DEF IInv, HeldCurrent, Holds, NoReply, Waiting
<1>16. GrantCurrent'
  BY <1>1, <1>2, <1>3, <1>4 DEF IInv, GrantCurrent, Reserved, Calling, Command, TypeOK
<1>17. TakenCurrent'
  BY <1>1, <1>2, <1>3, <1>4, <1>13 DEF IInv, TakenCurrent, Takes, Holds, NoReply, Waiting, Stages, Cookie
<1>18. PostsCurrent'
  BY <1>1, <1>3, <1>13 DEF IInv, PostsCurrent, TypeOK, Post
<1> QED
  BY <1>6, <1>7, <1>8, <1>9, <1>10, <1>11, <1>12, <1>14, <1>15, <1>16, <1>17, <1>18 DEF IInv

(* The steps of a handler that only answer. *)

\* callback: the login is answered.
LEMMA AfterCreateKeeps == ASSUME IInv, NEW r \in Requests, AfterCreate(r) PROVE IInv'
<1>1. \E a : Answering(r, a)
  BY DEF AfterCreate, Replied, Respond, Answering, Answer
<1> QED
  BY <1>1, AnsweringKeeps

\* GET session: the inspection is answered.
LEMMA ReadKeeps == ASSUME IInv, NEW r \in Requests, ReadAfterInspect(r) PROVE IInv'
<1>1. reply[r].status \in {"active", "refreshing", "stale", "unconfirmed", "absent"}
  BY DEF ReadAfterInspect, Replied, IInv, Stages, Lifecycle
<1>2. \E a : Answering(r, a)
  BY <1>1 DEF ReadAfterInspect, Replied, Respond, Answering, Answer, RefusalCode
<1> QED
  BY <1>2, AnsweringKeeps

\* POST session: the commit is answered.
LEMMA AfterFinalizeKeeps == ASSUME IInv, NEW r \in Requests, AfterFinalize(r) PROVE IInv'
<1>1. kind[r] # "login"
  BY DEF AfterFinalize, Replied, IInv, Stages
<1>2. \E a : Answering(r, a)
  BY <1>1 DEF AfterFinalize, Replied, Respond, Answering, Answer
<1> QED
  BY <1>2, AnsweringKeeps

\* POST session: the failed refresh is answered.
LEMMA AfterInvalidateKeeps == ASSUME IInv, NEW r \in Requests, AfterInvalidate(r) PROVE IInv'
<1>1. \E a : Answering(r, a)
  BY DEF AfterInvalidate, Replied, Respond, Answering, Answer
<1> QED
  BY <1>1, AnsweringKeeps

\* POST signout: the revocation is over.
LEMMA AfterRevokeKeeps == ASSUME IInv, NEW r \in Requests, AfterRevoke(r) PROVE IInv'
<1>1. \E a : Answering(r, a)
  BY DEF AfterRevoke, Respond, Answering, Answer
<1> QED
  BY <1>1, AnsweringKeeps

\* A Redis call fails or passes its deadline.
LEMMA CallFailsKeeps == ASSUME IInv, NEW r \in Requests, CallFails(r) PROVE IInv'
<1>1. \E a : Answering(r, a)
  <2>1. CASE pc[r] \in {"create", "reserve"}
    BY <2>1 DEF CallFails, Respond, Answering, Answer
  <2>2. CASE pc[r] = "invalidate"
    BY <2>2 DEF CallFails, Respond, Answering, Answer
  <2>3. CASE pc[r] = "tombstone"
    BY <2>3 DEF CallFails, Respond, Answering, Answer
  <2> QED
    BY <2>1, <2>2, <2>3 DEF CallFails
<1> QED
  BY <1>1, AnsweringKeeps

(* The steps of a handler that call a script, or answer. *)

\* POST session: the winner-to-be reserves.
LEMMA RefreshAfterInspectKeeps ==
    ASSUME IInv, NEW r \in Requests, RefreshAfterInspect(r) PROVE IInv'
<1>1. cookie[r] \in Cookie /\ pc[r] = "inspect" /\ now \in Nat /\ commands \subseteq Command
  BY DEF RefreshAfterInspect, Replied, IInv, Stages, TypeOK
<1>2. CASE reply[r].status = "active"
  <2> DEFINE c == [op |-> "reserve", owner |-> r, id |-> cookie[r].id,
                   generation |-> cookie[r].generation, refresh |-> 0, expiresAt |-> 0, at |-> now]
  <2>1. c \in Command
    BY <1>1 DEF Cookie, Command
  <2>2. Calling(r, c)
    BY <1>1, <1>2, <2>1 DEF RefreshAfterInspect, Call, Await, Calling
  <2> QED
    BY <2>2, CallingKeeps
<1>3. CASE reply[r].status # "active"
  <2>1. reply[r].status \in {"refreshing", "stale", "unconfirmed", "absent"}
    BY <1>3 DEF RefreshAfterInspect, Replied, IInv, Stages, Lifecycle
  <2>2. \E a : Answering(r, a)
    BY <1>1, <1>3, <2>1 DEF RefreshAfterInspect, Replied, Respond, Answering, Answer, RefusalCode, netVars
  <2> QED
    BY <2>2, AnsweringKeeps
<1> QED
  BY <1>2, <1>3

\* POST session: the winner commits what it was granted.
LEMMA AfterExchangeKeeps == ASSUME IInv, NEW r \in Requests, AfterExchange(r) PROVE IInv'
<1>1. cookie[r] \in Cookie /\ pc[r] = "exchange" /\ now \in Nat /\ reply[r] \in Reply
  BY DEF AfterExchange, Replied, IInv, Stages, TypeOK
<1> DEFINE c == [op |-> "finalize", owner |-> r, id |-> cookie[r].id, generation |-> cookie[r].generation,
                 refresh |-> reply[r].refresh, expiresAt |-> 0, at |-> now]
<1>2. c \in Command
  BY <1>1 DEF Cookie, Command, Reply
<1>3. Calling(r, c)
  BY <1>1, <1>2 DEF AfterExchange, Call, Await, Calling, Reply
<1> QED
  BY <1>3, CallingKeeps

\* POST session: the winner gives up and invalidates.
LEMMA RefreshFailsKeeps == ASSUME IInv, NEW r \in Requests, RefreshFails(r) PROVE IInv'
<1>1. cookie[r] \in Cookie /\ now \in Nat
  BY DEF RefreshFails, Replied, IInv, Stages, TypeOK
<1> DEFINE c == [op |-> "invalidate", owner |-> r, id |-> cookie[r].id, generation |-> cookie[r].generation,
                 refresh |-> 0, expiresAt |-> 0, at |-> now]
<1>2. c \in Command
  BY <1>1 DEF Cookie, Command
<1>3. Calling(r, c)
  BY <1>1, <1>2 DEF RefreshFails, Replied, Call, Await, Calling, Holds
<1> QED
  BY <1>3, CallingKeeps

\* POST signout: the session is tombstoned.
LEMMA ArriveSignoutKeeps == ASSUME IInv, NEW r \in Requests, ArriveSignout(r) PROVE IInv'
<1>1. cookie[r] \in Cookie /\ pc[r] = "sent" /\ kind[r] = "signout" /\ now \in Nat
  BY DEF ArriveSignout, IInv, Stages, TypeOK
<1>2. CASE Live(cookie[r])
  <2> DEFINE c == [op |-> "tombstone", owner |-> r, id |-> cookie[r].id,
                   generation |-> cookie[r].generation, refresh |-> 0, expiresAt |-> 0, at |-> now]
  <2>1. c \in Command
    BY <1>1 DEF Cookie, Command
  <2>2. Calling(r, c)
    BY <1>1, <1>2, <2>1 DEF ArriveSignout, Call, Await, Calling
  <2> QED
    BY <2>2, CallingKeeps
<1>3. CASE ~Live(cookie[r])
  <2>1. \E a : Answering(r, a)
    BY <1>1, <1>3 DEF ArriveSignout, Respond, Answering, Answer, netVars
  <2> QED
    BY <2>1, AnsweringKeeps
<1> QED
  BY <1>2, <1>3

(* Inspections, the process and the clock. *)

\* productSessionState: the request starts or joins an inspection.
LEMMA ArriveInspectKeeps == ASSUME IInv, NEW r \in Requests, ArriveInspect(r) PROVE IInv'
<1>1. TypeOK /\ Stages /\ NoRefreshReplay /\ pc[r] = "sent" /\ cookie[r] \in Cookie
  BY DEF IInv, ArriveInspect, Stages
<1>2. CASE Live(cookie[r])
  <2>1. /\ pc' = [pc EXCEPT ![r] = "inspect"] /\ reply' = [reply EXCEPT ![r] = NoReply]
        /\ UNCHANGED <<record, tombstone, now, jar, kind, cookie, answer, commands, posts, issuer, signedOut>>
    BY <1>2 DEF ArriveInspect, Await, storeVars
  <2>2. flights' \subseteq Flight
    BY <1>1, <1>2 DEF ArriveInspect, Flight, Cookie, TypeOK, Waiting
  <2>3. reply' \in [Requests -> Reply] /\ reply'[r].status = Waiting
    BY <1>1, <2>1 DEF TypeOK, Reply, NoReply, Waiting
  <2>4. TypeOK' /\ Stages'
    BY <1>1, <2>1, <2>2, <2>3 DEF TypeOK, Stages, Serving, ArriveInspect
  <2>5. Quiet
    BY <1>1, <2>1, <2>4 DEF Quiet, TypeOK
  <2> QED
    BY <1>1, <2>5, QuietKeeps
<1>3. CASE ~Live(cookie[r])
  <2>1. \E a : Answering(r, a)
    BY <1>1, <1>3 DEF ArriveInspect, Respond, Answering, Answer, netVars
  <2> QED
    BY <2>1, AnsweringKeeps
<1> QED
  BY <1>2, <1>3

\* Redis runs an inspection.
LEMMA InspectExecuteKeeps == ASSUME IInv, NEW f \in flights, InspectExecute(f) PROVE IInv'
<1>1. TypeOK /\ Stages /\ NoRefreshReplay
  BY DEF IInv
<1>2. Inspection(f.id, f.generation, f.at) \in Lifecycle
  BY <1>1 DEF TypeOK, Inspection, Lifecycle, Flight, Record, Exists
<1>3. /\ flights' \subseteq Flight
      /\ UNCHANGED <<record, tombstone, now, jar, kind, pc, cookie, reply, answer, commands, posts,
                     issuer, signedOut>>
  BY <1>1, <1>2 DEF InspectExecute, TypeOK, Flight, storeVars, reqVars
<1>4. TypeOK' /\ Stages'
  BY <1>1, <1>3 DEF TypeOK, Stages
<1>5. Quiet
  BY <1>3, <1>4 DEF Quiet
<1> QED
  BY <1>1, <1>5, QuietKeeps

\* An inspection is answered to all its waiters.
LEMMA InspectSettleKeeps == ASSUME IInv, NEW f \in flights, InspectSettle(f) PROVE IInv'
<1>1. TypeOK /\ Stages /\ NoRefreshReplay
  BY DEF IInv
<1>2. f \in Flight /\ f.result \in Lifecycle /\ flights' \subseteq flights
  BY <1>1 DEF InspectSettle, TypeOK, Flight
<1>3. UNCHANGED <<record, tombstone, now, jar, kind, pc, cookie, answer, commands, posts, issuer, signedOut>>
  BY DEF InspectSettle, storeVars
<1>4. \A q \in Requests : \/ reply'[q] = reply[q]
                          \/ pc[q] = "inspect" /\ reply'[q] = [status |-> f.result, refresh |-> 0]
  BY DEF InspectSettle, Waiters
<1>5. reply' \in [Requests -> Reply]
  BY <1>1, <1>2 DEF InspectSettle, TypeOK, Reply
<1>6. TypeOK' /\ Stages'
  BY <1>1, <1>2, <1>3, <1>4, <1>5 DEF TypeOK, Stages
<1>7. Quiet
  BY <1>3, <1>4, <1>6 DEF Quiet
<1> QED
  BY <1>1, <1>7, QuietKeeps

\* An inspection fails for all its waiters.
LEMMA InspectFailKeeps == ASSUME IInv, NEW f \in flights, InspectFail(f) PROVE IInv'
<1>1. TypeOK /\ Stages /\ NoRefreshReplay
  BY DEF IInv
<1>2. UNCHANGED <<record, tombstone, now, jar, kind, reply, cookie, commands, posts, issuer, signedOut>>
  BY DEF InspectFail, storeVars
<1>3. \A q \in Requests :
         \/ pc'[q] = pc[q] /\ answer'[q] = answer[q]
         \/ pc[q] = "inspect" /\ pc'[q] = "answered" /\ answer'[q].effect = "keep"
  BY DEF InspectFail, Waiters
<1>4. /\ pc' \in [Requests -> Serving \cup {"new", "sent", "answered", "done"}]
      /\ answer' \in [Requests -> Answer] /\ flights' \subseteq flights
  BY <1>1 DEF InspectFail, TypeOK, Answer
<1>5. TypeOK' /\ Stages'
  BY <1>1, <1>2, <1>3, <1>4 DEF TypeOK, Stages
<1>6. Quiet
  BY <1>2, <1>3, <1>5 DEF Quiet
<1> QED
  BY <1>1, <1>6, QuietKeeps

\* The Web process restarts.
LEMMA RestartKeeps == ASSUME IInv, Restart PROVE IInv'
<1>1. TypeOK /\ Stages /\ NoRefreshReplay
  BY DEF IInv
<1>2. /\ UNCHANGED <<record, tombstone, now, jar, kind, cookie, answer, commands, posts, issuer, signedOut>>
      /\ flights' = {} /\ reply' = [q \in Requests |-> NoReply]
  BY DEF Restart, storeVars
<1>3. \A q \in Requests : pc'[q] = pc[q] \/ (pc[q] \in Serving /\ pc'[q] = "done")
  BY DEF Restart
<1>4. pc' \in [Requests -> Serving \cup {"new", "sent", "answered", "done"}]
  BY <1>1 DEF Restart, TypeOK
<1>5. TypeOK' /\ Stages'
  BY <1>1, <1>2, <1>3, <1>4 DEF TypeOK, Stages, Reply, NoReply, Serving, Waiting
<1>6. Quiet
  BY <1>2, <1>3, <1>5 DEF Quiet, NoReply, Waiting, Serving
<1> QED
  BY <1>1, <1>6, QuietKeeps

\* Time passes, or nothing happens.
LEMMA TickKeeps == ASSUME IInv, Tick \/ UNCHANGED vars PROVE IInv'
<1>1. TypeOK /\ Stages /\ NoRefreshReplay
  BY DEF IInv
<1>2. /\ UNCHANGED <<record, tombstone, jar, kind, pc, cookie, reply, answer, flights, commands, posts,
                     issuer, signedOut>>
      /\ now' \in Nat
  BY <1>1 DEF Tick, vars, storeVars, reqVars, netVars, TypeOK
<1>3. TypeOK' /\ Stages'
  BY <1>1, <1>2 DEF TypeOK, Stages
<1>4. Quiet
  BY <1>2, <1>3 DEF Quiet
<1> QED
  BY <1>1, <1>4, QuietKeeps

\* A record reaches its end.
LEMMA RecordExpiresKeeps == ASSUME IInv, NEW s \in Sessions, RecordExpires(s) PROVE IInv'
<1>1. TypeOK /\ Stages /\ NoRefreshReplay
  BY DEF IInv
<1>2. /\ UNCHANGED <<tombstone, now, jar, kind, pc, cookie, reply, answer, flights, commands, posts,
                     issuer, signedOut>>
      /\ record' = [record EXCEPT ![s] = NoRecord]
  BY DEF RecordExpires, reqVars, netVars
<1>3. TypeOK'
  BY <1>1, <1>2 DEF TypeOK, Record, NoRecord, Nobody
<1>4. Quiet
  BY <1>1, <1>2, <1>3 DEF Quiet, Stages, TypeOK
<1> QED
  BY <1>1, <1>4, QuietKeeps

(* Redis: what is refused, and what ends a session. *)

\* What the reply of an executed script call changes.
LEMMA ResolveTypes ==
    ASSUME TypeOK, Stages, NEW c \in commands, NEW status, NEW refresh \in Nat,
           status \in Lifecycle \cup {Waiting, "ok", "refused", "repeat", "missing", "pending"},
           Resolve(c, status, refresh)
    PROVE  /\ c \in Command /\ commands' = commands \ {c}
           /\ UNCHANGED <<now, jar, kind, pc, cookie, answer, flights, posts, issuer, signedOut>>
           /\ reply' \in [Requests -> Reply]
           /\ \A q \in Requests :
                 \/ reply'[q] = reply[q]
                 \/ /\ q = c.owner /\ pc[q] = c.op
                    /\ reply'[q] = [status |-> status, refresh |-> refresh]
           /\ Stages'
<1>1. /\ c \in Command /\ commands' = commands \ {c}
      /\ UNCHANGED <<now, jar, kind, pc, cookie, answer, flights, posts, issuer, signedOut>>
  BY DEF Resolve, TypeOK
<1>2. reply' \in [Requests -> Reply]
  BY <1>1 DEF Resolve, TypeOK, Reply, Command
<1>3. \A q \in Requests :
         \/ reply'[q] = reply[q]
         \/ /\ q = c.owner /\ pc[q] = c.op
            /\ reply'[q] = [status |-> status, refresh |-> refresh]
  BY <1>1 DEF Resolve, TypeOK, Command
<1>4. Stages'
  BY <1>1, <1>3 DEF Stages, Command
<1> QED
  BY <1>1, <1>2, <1>3, <1>4

\* A script that refuses changes nothing but the reply.
LEMMA RefuseKeeps == ASSUME IInv, NEW c \in commands, Refuse(c) PROVE IInv'
<1>1. TypeOK /\ Stages /\ NoRefreshReplay /\ Resolve(c, "refused", 0) /\ UNCHANGED <<record, tombstone>>
  BY DEF IInv, Refuse, storeVars
<1>2. /\ c \in Command /\ commands' = commands \ {c}
      /\ UNCHANGED <<now, jar, kind, pc, cookie, answer, flights, posts, issuer, signedOut>>
      /\ reply' \in [Requests -> Reply]
      /\ \A q \in Requests :
            reply'[q] = reply[q] \/ reply'[q] = [status |-> "refused", refresh |-> 0]
      /\ Stages'
  BY <1>1, ResolveTypes DEF Lifecycle
<1>3. TypeOK'
  BY <1>1, <1>2 DEF TypeOK
<1>4. Quiet
  BY <1>1, <1>2, <1>3 DEF Quiet
<1> QED
  BY <1>1, <1>4, QuietKeeps

\* invalidatePending: the reservation's session ends.
LEMMA InvalidateScriptKeeps == ASSUME IInv, NEW c \in commands, InvalidateScript(c) PROVE IInv'
<1>1. CASE CanInvalidate(c) /\ ~Refuse(c)
  <2>1. /\ TypeOK /\ Stages /\ NoRefreshReplay /\ Resolve(c, "ok", 0) /\ c.op = "invalidate"
        /\ record' = [record EXCEPT ![c.id] = NoRecord] /\ tombstone' = [tombstone EXCEPT ![c.id] = TRUE]
    BY <1>1 DEF IInv, InvalidateScript
  <2>2. /\ c \in Command /\ commands' = commands \ {c}
        /\ UNCHANGED <<now, jar, kind, pc, cookie, answer, flights, posts, issuer, signedOut>>
        /\ reply' \in [Requests -> Reply]
        /\ \A q \in Requests : reply'[q] = reply[q] \/ pc[q] = "invalidate"
        /\ Stages'
    BY <2>1, ResolveTypes
  <2>3. TypeOK'
    BY <2>1, <2>2 DEF TypeOK, Record, NoRecord, Nobody, Command
  <2>4. Quiet
    BY <2>1, <2>2, <2>3 DEF Quiet, TypeOK
  <2> QED
    BY <2>1, <2>4, QuietKeeps
<1>2. CASE Refuse(c)
  BY <1>2, RefuseKeeps
<1> QED
  BY <1>1, <1>2 DEF InvalidateScript

\* tombstoneSession: the session ends, and an active one hands its credential to the sign-out.
LEMMA TombstoneScriptKeeps == ASSUME IInv, NEW c \in commands, TombstoneScript(c) PROVE IInv'
<1> DEFINE status == TombstoneStatus(c)
<1>1. TypeOK /\ Stages /\ NoRefreshReplay /\ c.op = "tombstone" /\ c \in Command
  BY DEF IInv, TombstoneScript, TypeOK
<1>2. status \in {"repeat", "missing", "stale", "active", "pending"}
  BY <1>1 DEF TombstoneStatus, TypeOK, Command
<1>3. /\ commands' = commands \ {c}
      /\ UNCHANGED <<now, jar, kind, pc, cookie, answer, flights, posts, issuer, signedOut>>
      /\ reply' \in [Requests -> Reply]
      /\ \A q \in Requests :
            \/ reply'[q] = reply[q]
            \/ /\ q = c.owner /\ pc[q] = "tombstone"
               /\ reply'[q] = [status |-> status,
                               refresh |-> IF status = "active" THEN record[c.id].refresh ELSE 0]
      /\ Stages'
  <2>1. (IF status = "active" THEN record[c.id].refresh ELSE 0) \in Nat
    BY <1>1 DEF TypeOK, Record, Command
  <2> QED
    BY <1>1, <1>2, <2>1, ResolveTypes DEF TombstoneScript, Lifecycle
<1>4. /\ tombstone' \in [Sessions -> BOOLEAN]
      /\ record' = record \/ record' = [record EXCEPT ![c.id] = NoRecord]
  BY <1>1 DEF TombstoneScript, TypeOK, Command, storeVars
<1>5. TypeOK'
  BY <1>1, <1>3, <1>4 DEF TypeOK, Record, NoRecord, Nobody
<1>6. CASE status # "active"
  <2>1. Quiet
    BY <1>1, <1>2, <1>3, <1>4, <1>5, <1>6 DEF Quiet, TypeOK
  <2> QED
    BY <1>1, <2>1, QuietKeeps
<1>7. CASE status = "active"
  <2> DEFINE s == c.id
  <2>1. /\ s \in Sessions /\ record[s].state = "active" /\ record' = [record EXCEPT ![s] = NoRecord]
        /\ c.owner \in Requests /\ cookie[c.owner].id = s
    BY <1>1, <1>7 DEF TombstoneStatus, TombstoneScript, CanEnd, Exists, Command, IInv, CommandsOwned
  <2>2. s \in Minted /\ ~Creating(s)
    BY <2>1 DEF IInv, Unstored, NoRecord
  <2>3. /\ \A p \in posts : p.id # s
        /\ record[s].refresh = issuer[s].current
    BY <2>1 DEF IInv, ActiveOwned
  <2>4. \A q \in Requests : cookie[q].id = s => ~Holds(q) /\ ~Takes(q) /\ pc[q] # "exchange"
    BY <1>1, <2>1 DEF IInv, HoldersSole, TakenCurrent, Reserved, Gone, Exists
  <2>5. \A q \in Requests : Holds(q)' <=> Holds(q)
    BY <1>3 DEF Holds
  <2>6. \A q \in Requests : Takes(q)' =>
           \/ Takes(q) /\ reply'[q] = reply[q]
           \/ q = c.owner /\ reply'[q].refresh = record[s].refresh
    BY <1>3, <1>7 DEF Takes
  <2>7. \A x \in Sessions : Gone(x) \/ x = s => Gone(x)'
    BY <1>1, <1>3, <2>1, <2>2 DEF Gone, Exists, Creating, Minted, NoRecord, TypeOK
  <2>8. CommandsOwned' /\ PostsOwned' /\ Logins'
    BY <1>3 DEF IInv, CommandsOwned, PostsOwned, Logins
  <2>9. Unstored'
    <3>1. ASSUME NEW x \in Sessions, (x \notin Minted \/ Creating(x))' PROVE x # s /\ (x \notin Minted \/ Creating(x))
      BY <1>3, <2>2, <3>1 DEF Minted, Creating
    <3>2. \A q \in Requests : pc[q] = "create" => reply'[q] = reply[q]
      BY <1>3
    <3> QED
      BY <1>1, <1>3, <2>1, <3>1, <3>2 DEF IInv, Unstored, TypeOK
  <2>10. ReservePending'
    BY <1>1, <1>3, <2>1, <2>5, StoreAssumption DEF IInv, ReservePending, TypeOK, NoRecord, Nobody, Command
  <2>11. Reservations' /\ ActiveOwned'
    BY <1>1, <1>3, <2>1 DEF IInv, Reservations, ActiveOwned, TypeOK, NoRecord, Nobody
  <2>12. HoldersSole'
    <3>1. ASSUME NEW q \in Requests, Holds(q)' \/ pc'[q] = "exchange"
          PROVE  Reserved(q)' \/ Gone(cookie[q].id)'
      <4>1. cookie[q].id \in Sessions /\ cookie[q].id # s /\ (Reserved(q) \/ Gone(cookie[q].id))
        BY <1>1, <1>3, <2>4, <2>5, <3>1 DEF IInv, HoldersSole, Stages, Cookie, Holds
      <4> QED
        BY <1>1, <1>3, <2>1, <2>7, <4>1 DEF Reserved, Gone, Exists, Creating, Minted, TypeOK
    <3> QED
      BY <1>3, <3>1 DEF HoldersSole, Holds, Gone, Exists, Creating, Minted, Reserved
  <2>13. HeldCurrent'
    BY <1>3, <2>5 DEF IInv, HeldCurrent, Holds
  <2>14. GrantCurrent'
    <3>1. \A q \in Requests : Reserved(q)' => Reserved(q) /\ cookie[q].id # s
      BY <1>1, <1>3, <2>1 DEF Reserved, TypeOK, NoRecord, Stages, Cookie
    <3> QED
      BY <1>3, <3>1 DEF IInv, GrantCurrent
  <2>15. TakenCurrent'
    <3>1. ASSUME NEW q \in Requests, Takes(q)'
          PROVE  /\ reply'[q].refresh = issuer'[cookie[q].id].current
                 /\ Gone(cookie[q].id)'
                 /\ \A p \in posts : p.id # cookie[q].id
                 /\ \A x \in Requests : (Takes(x)' /\ cookie[x].id = cookie[q].id) => x = q
                 /\ \A x \in Requests : Holds(x)' => cookie[x].id # cookie[q].id
      <4>1. cookie[q].id \in Sessions
        BY <1>1, <1>3, <3>1 DEF Takes, Stages, Cookie
      <4>2. Gone(cookie[q].id) \/ cookie[q].id = s
        BY <2>1, <2>6, <3>1 DEF IInv, TakenCurrent
      <4>3. Gone(cookie[q].id)'
        BY <1>3, <2>7, <4>1, <4>2 DEF Gone, Exists, Creating, Minted
      <4> QED
        BY <1>3, <2>1, <2>3, <2>4, <2>5, <2>6, <3>1, <4>3 DEF IInv, TakenCurrent
    <3> QED
      BY <1>3, <3>1 DEF TakenCurrent, Gone, Exists, Creating, Minted
  <2>16. PostsCurrent' /\ NoRefreshReplay'
    BY <1>1, <1>3, <2>7 DEF IInv, PostsCurrent, NoRefreshReplay, TypeOK, Post
  <2> QED
    BY <1>3, <1>5, <2>8, <2>9, <2>10, <2>11, <2>12, <2>13, <2>14, <2>15, <2>16 DEF IInv
<1> QED
  BY <1>6, <1>7

\* createSession: the first credential moves from the login to the record.
LEMMA CreateScriptKeeps == ASSUME IInv, NEW c \in commands, CreateScript(c) PROVE IInv'
<1>1. CASE Refuse(c)
  BY <1>1, RefuseKeeps
<1>2. CASE CanCreate(c) /\ ~Refuse(c)
  <2> DEFINE s == c.id
  <2>1. /\ TypeOK /\ Stages /\ Resolve(c, "ok", 0) /\ c.op = "create" /\ UNCHANGED tombstone
        /\ record' = [record EXCEPT ![s] = CreatedRecord(c)]
    BY <1>2 DEF IInv, CreateScript
  <2>2. /\ c \in Command /\ commands' = commands \ {c}
        /\ UNCHANGED <<now, jar, kind, pc, cookie, answer, flights, posts, issuer, signedOut>>
        /\ reply' \in [Requests -> Reply]
        /\ \A q \in Requests : reply'[q] = reply[q] \/ (q = c.owner /\ pc[q] = "create")
        /\ Stages'
    BY <2>1, ResolveTypes
  <2>3. TypeOK'
    BY <2>1, <2>2 DEF TypeOK, Record, NoRecord, Nobody, Command, CreatedRecord
  <2>4. /\ s \in Sessions /\ Creating(s) /\ c.refresh = 0 /\ c.owner \in Requests
        /\ kind[c.owner] = "login" /\ cookie[c.owner].id = s
    BY <2>1, <2>2 DEF Creating, Command, IInv, Logins, CommandsOwned
  <2>5. ~Creating(s)' /\ s \in Minted
    BY <2>1, <2>2, <2>4 DEF Creating, IInv, Logins, Minted
  <2>6. /\ record[s] = NoRecord /\ issuer[s].current = 0 /\ ~issuer[s].revoked
        /\ \A q \in Requests : cookie[q].id = s => kind[q] = "login"
    BY <2>4 DEF IInv, Unstored
  <2>7. /\ record'[s].state = "active" /\ record'[s].refresh = 0 /\ record'[s].reservation = Nobody
        /\ \A x \in Sessions \ {s} : record'[x] = record[x]
    BY <2>1, <2>4 DEF TypeOK, CreatedRecord, NoRecord
  <2>8. \A q \in Requests : /\ Holds(q)' <=> Holds(q)
                            /\ Takes(q)' <=> Takes(q)
                            /\ pc[q] # "create" => reply'[q] = reply[q]
    BY <2>2 DEF Holds, Takes
  <2>9. \A p \in posts : p.id # s
    BY <2>1, <2>6 DEF IInv, PostsOwned, TypeOK, Post
  <2>10. \A x \in Sessions \ {s} : Gone(x) => Gone(x)'
    BY <2>2, <2>7 DEF Gone, Exists, Creating, Minted
  <2>11. \A q \in Requests : (Holds(q) \/ Takes(q) \/ pc[q] = "exchange" \/ Reserved(q)) => cookie[q].id \in Sessions \ {s}
    BY <2>1, <2>6 DEF Holds, Takes, Reserved, Stages, Cookie, NoRecord
  <2>12. CommandsOwned' /\ PostsOwned' /\ Logins'
    BY <2>2 DEF IInv, CommandsOwned, PostsOwned, Logins
  <2>13. Unstored'
    <3>1. ASSUME NEW x \in Sessions, (x \notin Minted \/ Creating(x))' PROVE x # s /\ (x \notin Minted \/ Creating(x))
      BY <2>2, <2>5, <3>1 DEF Minted, Creating
    <3> QED
      BY <2>2, <2>4, <2>7, <3>1 DEF IInv, Unstored
  <2>14. ReservePending'
    BY <2>1, <2>2, <2>7, <2>8, StoreAssumption DEF IInv, ReservePending, TypeOK, Nobody, Command
  <2>15. Reservations'
    BY <2>2, <2>7 DEF IInv, Reservations
  <2>16. ActiveOwned'
    BY <2>2, <2>6, <2>7, <2>9 DEF IInv, ActiveOwned
  <2>17. HoldersSole'
    <3>1. ASSUME NEW q \in Requests, Holds(q)' \/ pc'[q] = "exchange"
          PROVE  Reserved(q)' \/ Gone(cookie[q].id)'
      <4>1. cookie[q].id \in Sessions \ {s} /\ (Reserved(q) \/ Gone(cookie[q].id))
        BY <2>2, <2>8, <2>11, <3>1 DEF IInv, HoldersSole
      <4> QED
        BY <2>2, <2>7, <2>10, <4>1 DEF Reserved, Gone, Exists, Creating, Minted
    <3> QED
      BY <2>2, <3>1 DEF HoldersSole, Holds, Gone, Exists, Creating, Minted, Reserved
  <2>18. HeldCurrent'
    BY <2>2, <2>8 DEF IInv, HeldCurrent, Holds
  <2>19. GrantCurrent'
    <3>1. \A q \in Requests : Reserved(q)' => Reserved(q)
      BY <2>1, <2>2, <2>6, <2>7 DEF Reserved, Stages, Cookie
    <3> QED
      BY <2>2, <2>8, <3>1 DEF IInv, GrantCurrent
  <2>20. TakenCurrent'
    <3>1. \A q \in Requests : Takes(q)' => /\ cookie[q].id \in Sessions \ {s}
                                          /\ Gone(cookie[q].id) /\ reply'[q] = reply[q]
      BY <2>8, <2>11 DEF IInv, TakenCurrent, Takes
    <3>2. \A q \in Requests : Takes(q)' => Gone(cookie[q].id)'
      BY <2>2, <2>10, <3>1 DEF Gone, Exists, Creating, Minted
    <3> QED
      BY <2>2, <2>8, <3>1, <3>2 DEF IInv, TakenCurrent, Gone, Exists, Creating, Minted
  <2>21. PostsCurrent' /\ NoRefreshReplay'
    BY <2>1, <2>2, <2>9, <2>10 DEF IInv, PostsCurrent, NoRefreshReplay, TypeOK, Post
  <2> QED
    BY <2>2, <2>3, <2>12, <2>13, <2>14, <2>15, <2>16, <2>17, <2>18, <2>19, <2>20, <2>21 DEF IInv
<1> QED
  BY <1>1, <1>2 DEF CreateScript

\* reserveRefresh: the credential moves from the record to the winner.
LEMMA ReserveScriptKeeps == ASSUME IInv, NEW c \in commands, ReserveScript(c) PROVE IInv'
<1>1. CASE Refuse(c)
  BY <1>1, RefuseKeeps
<1>2. CASE CanReserve(c) /\ ~Refuse(c)
  <2> DEFINE s == c.id
             w == c.owner
  <2>1. /\ TypeOK /\ Stages /\ Resolve(c, "ok", record[s].refresh) /\ c.op = "reserve" /\ UNCHANGED tombstone
        /\ record' = [record EXCEPT ![s] = ReservedRecord(c)] /\ c \in Command
    BY <1>2 DEF IInv, ReserveScript, TypeOK
  <2>2. /\ commands' = commands \ {c}
        /\ UNCHANGED <<now, jar, kind, pc, cookie, answer, flights, posts, issuer, signedOut>>
        /\ reply' \in [Requests -> Reply]
        /\ \A q \in Requests :
              \/ reply'[q] = reply[q]
              \/ q = w /\ pc[q] = "reserve" /\ reply'[q].refresh = record[s].refresh
        /\ Stages'
    <3>1. record[s].refresh \in Nat
      BY <2>1 DEF TypeOK, Record, Command
    <3>2. \A q \in Requests :
             \/ reply'[q] = reply[q]
             \/ q = w /\ pc[q] = "reserve" /\ reply'[q] = [status |-> "ok", refresh |-> record[s].refresh]
      BY <2>1, <3>1, ResolveTypes
    <3>3. \A q \in Requests : reply'[q] = reply[q] \/ (q = w /\ pc[q] = "reserve" /\ reply'[q].refresh = record[s].refresh)
      BY <3>2
    <3>4. /\ commands' = commands \ {c}
          /\ UNCHANGED <<now, jar, kind, pc, cookie, answer, flights, posts, issuer, signedOut>>
          /\ reply' \in [Requests -> Reply]
          /\ Stages'
      BY <2>1, <3>1, ResolveTypes
    <3> QED
      BY <3>3, <3>4
  <2>3. TypeOK'
    <3>1. s \in Sessions /\ record[s] \in Record /\ c.owner \in Requests /\ c.at + ReservationSpan \in Nat
      BY <2>1, StoreAssumption DEF TypeOK, Command
    <3>2. ReservedRecord(c) \in Record
      BY <3>1 DEF ReservedRecord, Record
    <3> QED
      BY <2>1, <2>2, <3>2 DEF TypeOK
  <2>4. s \in Sessions /\ w \in Requests /\ cookie[w].id = s /\ pc[w] \notin {"new", "sent", "inspect"}
    BY <2>1 DEF Command, IInv, CommandsOwned
  <2>5. /\ record[s].state = "active" /\ record[s].refresh = issuer[s].current /\ ~issuer[s].revoked
        /\ \A p \in posts : p.id # s
    BY <1>2, <2>4 DEF CanReserve, IInv, ActiveOwned
  <2>6. /\ record'[s].state = "refreshing" /\ record'[s].reservation = w
        /\ \A x \in Sessions \ {s} : record'[x] = record[x]
    BY <2>1, <2>4 DEF TypeOK, ReservedRecord, Record
  <2>7. s \in Minted /\ ~Creating(s)
    BY <2>4, <2>5 DEF IInv, Unstored, NoRecord
  <2>8. \A q \in Requests : cookie[q].id = s => ~Holds(q) /\ ~Takes(q) /\ pc[q] # "exchange" /\ ~Reserved(q)
    BY <2>4, <2>5 DEF IInv, HoldersSole, TakenCurrent, Reserved, Gone, Exists
  <2>9. \A q \in Requests : /\ Holds(q)' => (Holds(q) /\ reply'[q] = reply[q]) \/ (q = w /\ reply'[q].refresh = record[s].refresh)
                            /\ Takes(q)' => Takes(q) /\ reply'[q] = reply[q]
                            /\ pc[q] # "reserve" => reply'[q] = reply[q]
    BY <2>2 DEF Holds, Takes
  <2>10. \A x \in Sessions : Gone(x) => Gone(x)' /\ x # s
    BY <2>2, <2>5, <2>6 DEF Gone, Exists, Creating, Minted
  <2>11. /\ \A x \in Sessions : record[x].reservation # w
         /\ \A p \in posts : p.owner # w
         /\ \A d \in commands : d.owner = w => d = c
    BY <2>1, <2>4 DEF IInv, ReservePending
  <2>12. CommandsOwned' /\ PostsOwned' /\ Logins'
    BY <2>2 DEF IInv, CommandsOwned, PostsOwned, Logins
  <2>13. Unstored'
    <3>1. ASSUME NEW x \in Sessions, (x \notin Minted \/ Creating(x))' PROVE x # s /\ (x \notin Minted \/ Creating(x))
      BY <2>2, <2>7, <3>1 DEF Minted, Creating
    <3> QED
      BY <2>2, <2>6, <2>9, <3>1 DEF IInv, Unstored
  <2>14. ReservePending'
    <3>1. ASSUME NEW d \in commands', d.op = "reserve"
          PROVE  d \in commands /\ d.owner \in Requests \ {w}
      BY <2>1, <2>2, <2>11, <3>1 DEF TypeOK, Command
    <3>2. ASSUME NEW d \in commands', d.op = "reserve"
          PROVE  /\ pc'[d.owner] \in {"reserve", "answered", "done"} /\ ~Holds(d.owner)'
                 /\ \A x \in Sessions : record'[x].reservation # d.owner
      BY <2>2, <2>6, <2>9, <3>1, <3>2 DEF IInv, ReservePending, Holds
    <3> QED
      BY <2>2, <3>1, <3>2 DEF IInv, ReservePending
  <2>15. Reservations'
    <3>1. w # Nobody
      BY <2>4, StoreAssumption DEF Nobody
    <3> QED
      BY <2>2, <2>4, <2>6, <3>1 DEF IInv, Reservations
  <2>16. ActiveOwned'
    BY <2>2, <2>6 DEF IInv, ActiveOwned
  <2>17. HoldersSole'
    <3>1. ASSUME NEW q \in Requests, Holds(q)' \/ pc'[q] = "exchange"
          PROVE  Reserved(q)' \/ Gone(cookie[q].id)'
      <4>1. CASE q = w
        BY <2>2, <2>4, <2>6, <4>1 DEF Reserved
      <4>2. CASE q # w
        <5>1. cookie[q].id \in Sessions \ {s} /\ (Reserved(q) \/ Gone(cookie[q].id))
          BY <2>1, <2>2, <2>8, <2>9, <3>1, <4>2 DEF IInv, HoldersSole, Holds, Stages, Cookie
        <5> QED
          BY <2>2, <2>6, <2>10, <5>1 DEF Reserved, Gone, Exists, Creating, Minted
      <4> QED
        BY <4>1, <4>2
    <3> QED
      BY <2>2, <3>1 DEF HoldersSole, Holds, Gone, Exists, Creating, Minted, Reserved
  <2>18. HeldCurrent'
    BY <2>2, <2>4, <2>5, <2>8, <2>9 DEF IInv, HeldCurrent
  <2>19. GrantCurrent'
    <3>1. ASSUME NEW q \in Requests, Reserved(q)', q # w PROVE Reserved(q)
      BY <2>1, <2>2, <2>6, <3>1 DEF Reserved, Stages, Cookie
    <3>2. \A d \in commands' : d.owner # w
      BY <2>2, <2>11
    <3> QED
      BY <2>2, <2>4, <2>5, <2>8, <2>9, <3>1, <3>2 DEF IInv, GrantCurrent
  <2>20. TakenCurrent'
    <3>1. \A q \in Requests : Takes(q)' => cookie[q].id \in Sessions /\ Gone(cookie[q].id) /\ Takes(q)
      BY <2>1, <2>9 DEF IInv, TakenCurrent, Takes, Stages, Cookie
    <3>2. \A q \in Requests : Takes(q)' => Gone(cookie[q].id)' /\ cookie[q].id # s
      BY <2>2, <2>10, <3>1 DEF Gone, Exists, Creating, Minted
    <3> QED
      BY <2>2, <2>4, <2>9, <3>1, <3>2 DEF IInv, TakenCurrent, Gone, Exists, Creating, Minted
  <2>21. PostsCurrent' /\ NoRefreshReplay'
    BY <2>1, <2>2, <2>10 DEF IInv, PostsCurrent, NoRefreshReplay, TypeOK, Post
  <2> QED
    BY <2>2, <2>3, <2>12, <2>13, <2>14, <2>15, <2>16, <2>17, <2>18, <2>19, <2>20, <2>21 DEF IInv
<1> QED
  BY <1>1, <1>2 DEF ReserveScript

\* finalizeRefresh: the granted credential moves to the record.
LEMMA FinalizeScriptKeeps == ASSUME IInv, NEW c \in commands, FinalizeScript(c) PROVE IInv'
<1>1. CASE Refuse(c)
  BY <1>1, RefuseKeeps
<1>2. CASE CanFinalize(c) /\ ~Refuse(c)
  <2> DEFINE s == c.id
             w == c.owner
  <2>1. /\ TypeOK /\ Stages /\ Resolve(c, "ok", 0) /\ c.op = "finalize" /\ UNCHANGED tombstone
        /\ record' = [record EXCEPT ![s] = FinalizedRecord(c)] /\ c \in Command
    BY <1>2 DEF IInv, FinalizeScript, TypeOK
  <2>2. /\ commands' = commands \ {c}
        /\ UNCHANGED <<now, jar, kind, pc, cookie, answer, flights, posts, issuer, signedOut>>
        /\ reply' \in [Requests -> Reply]
        /\ \A q \in Requests : reply'[q] = reply[q] \/ (q = w /\ pc[q] = "finalize")
        /\ Stages'
    BY <2>1, ResolveTypes
  <2>3. TypeOK'
    <3>1. s \in Sessions /\ record[s] \in Record /\ c.refresh \in Nat
      BY <2>1 DEF TypeOK, Command
    <3>2. FinalizedRecord(c) \in Record
      <4>1. record[c.id].generation + 1 \in Nat
        BY <3>1 DEF Record
      <4> QED
        BY <3>1, <4>1 DEF FinalizedRecord, Record
    <3> QED
      BY <2>1, <2>2, <3>2 DEF TypeOK
  <2>4. /\ s \in Sessions /\ w \in Requests /\ cookie[w].id = s
        /\ pc[w] \notin {"new", "sent", "inspect", "reserve", "exchange"} /\ Reserved(w)
    BY <1>2, <2>1 DEF Command, IInv, CommandsOwned, CanFinalize, Reserved
  <2>5. /\ record[s].state = "refreshing" /\ record[s].reservation = w
        /\ c.refresh = issuer[s].current /\ ~issuer[s].revoked
        /\ \A p \in posts : p.id # s
    BY <2>1, <2>4 DEF IInv, GrantCurrent, Reserved
  <2>6. /\ record'[s].state = "active" /\ record'[s].reservation = Nobody /\ record'[s].refresh = c.refresh
        /\ \A x \in Sessions \ {s} : record'[x] = record[x]
    BY <2>1, <2>4 DEF TypeOK, FinalizedRecord, Record
  <2>7. s \in Minted /\ ~Creating(s)
    BY <2>4, <2>5 DEF IInv, Unstored, NoRecord
  <2>8. \A q \in Requests : cookie[q].id = s => ~Holds(q) /\ ~Takes(q) /\ pc[q] # "exchange"
    BY <2>4, <2>5 DEF IInv, HoldersSole, TakenCurrent, Reserved, Gone, Exists, Holds
  <2>9. \A q \in Requests : /\ Holds(q)' <=> Holds(q)
                            /\ Takes(q)' <=> Takes(q)
                            /\ pc[q] # "finalize" => reply'[q] = reply[q]
    BY <2>2 DEF Holds, Takes
  <2>10. \A x \in Sessions : Gone(x) => Gone(x)' /\ x # s
    BY <2>2, <2>5, <2>6 DEF Gone, Exists, Creating, Minted
  <2>11. CommandsOwned' /\ PostsOwned' /\ Logins'
    BY <2>2 DEF IInv, CommandsOwned, PostsOwned, Logins
  <2>12. Unstored'
    <3>1. ASSUME NEW x \in Sessions, (x \notin Minted \/ Creating(x))' PROVE x # s /\ (x \notin Minted \/ Creating(x))
      BY <2>2, <2>7, <3>1 DEF Minted, Creating
    <3> QED
      BY <2>2, <2>6, <2>9, <3>1 DEF IInv, Unstored
  <2>13. ReservePending'
    BY <2>1, <2>2, <2>6, <2>9, StoreAssumption DEF IInv, ReservePending, Nobody, TypeOK, Command
  <2>14. Reservations'
    BY <2>2, <2>6 DEF IInv, Reservations
  <2>15. ActiveOwned'
    BY <2>2, <2>5, <2>6 DEF IInv, ActiveOwned
  <2>16. HoldersSole'
    <3>1. ASSUME NEW q \in Requests, Holds(q)' \/ pc'[q] = "exchange"
          PROVE  Reserved(q)' \/ Gone(cookie[q].id)'
      <4>1. cookie[q].id \in Sessions \ {s} /\ (Reserved(q) \/ Gone(cookie[q].id))
        BY <2>1, <2>2, <2>8, <2>9, <3>1 DEF IInv, HoldersSole, Holds, Stages, Cookie
      <4> QED
        BY <2>2, <2>6, <2>10, <4>1 DEF Reserved, Gone, Exists, Creating, Minted
    <3> QED
      BY <2>2, <3>1 DEF HoldersSole, Holds, Gone, Exists, Creating, Minted, Reserved
  <2>17. HeldCurrent'
    BY <2>2, <2>9 DEF IInv, HeldCurrent, Holds
  <2>18. GrantCurrent'
    <3>1. ASSUME NEW q \in Requests, Reserved(q)' PROVE Reserved(q)
      BY <2>1, <2>2, <2>6, <3>1 DEF Reserved, Stages, Cookie
    <3> QED
      BY <2>2, <2>9, <3>1 DEF IInv, GrantCurrent
  <2>19. TakenCurrent'
    <3>1. \A q \in Requests : Takes(q)' => /\ cookie[q].id \in Sessions
                                          /\ Gone(cookie[q].id) /\ Takes(q) /\ reply'[q] = reply[q]
      BY <2>1, <2>9 DEF IInv, TakenCurrent, Takes, Stages, Cookie
    <3>2. \A q \in Requests : Takes(q)' => Gone(cookie[q].id)'
      BY <2>2, <2>10, <3>1 DEF Gone, Exists, Creating, Minted
    <3> QED
      BY <2>2, <2>9, <3>1, <3>2 DEF IInv, TakenCurrent, Gone, Exists, Creating, Minted
  <2>20. PostsCurrent' /\ NoRefreshReplay'
    BY <2>1, <2>2, <2>10 DEF IInv, PostsCurrent, NoRefreshReplay, TypeOK, Post
  <2> QED
    BY <2>2, <2>3, <2>11, <2>12, <2>13, <2>14, <2>15, <2>16, <2>17, <2>18, <2>19, <2>20 DEF IInv
<1> QED
  BY <1>1, <1>2 DEF FinalizeScript

(* The issuer. *)

\* The issuer rotates the credential, or refuses a revoked family; never does it see a replay.
LEMMA IssuerExchangeKeeps == ASSUME IInv, NEW p \in posts, IssuerExchange(p) PROVE IInv'
<1> DEFINE s == p.id
           w == p.owner
           fresh == ~issuer[s].revoked
<1>1. TypeOK /\ Stages /\ p \in Post /\ s \in Sessions /\ w \in Requests /\ p.op = "exchange"
  BY DEF IInv, TypeOK, Post, IssuerExchange
<1>2. p.refresh = issuer[s].current /\ cookie[w].id = s /\ \A o \in posts \ {p} : o.id # s
  BY DEF IInv, PostsCurrent, PostsOwned
<1>3. /\ posts' = posts \ {p}
      /\ UNCHANGED <<record, tombstone, now, jar, kind, pc, cookie, answer, flights, commands, signedOut>>
      /\ \/ issuer' = [issuer EXCEPT ![s].current = @ + 1]
         \/ ~fresh /\ issuer' = [issuer EXCEPT ![s].replayed = @ \/ p.refresh < issuer[s].current]
  BY <1>2 DEF IssuerExchange, storeVars
<1>4. /\ issuer' \in [Sessions -> Family]
      /\ ~issuer'[s].replayed /\ issuer'[s].revoked = issuer[s].revoked
      /\ \A x \in Sessions \ {s} : issuer'[x] = issuer[x]
      /\ fresh => issuer'[s].current = p.refresh + 1
  <2>1. issuer[s] \in Family /\ ~issuer[s].replayed /\ p.refresh \in Nat
    BY <1>1 DEF TypeOK, IInv, NoRefreshReplay, Post
  <2>2. CASE issuer' = [issuer EXCEPT ![s].current = @ + 1]
    BY <1>1, <1>2, <2>1, <2>2 DEF TypeOK, Family
  <2>3. CASE ~fresh /\ issuer' = [issuer EXCEPT ![s].replayed = @ \/ p.refresh < issuer[s].current]
    <3>1. ~(p.refresh < issuer[s].current)
      BY <1>2, <2>1 DEF Family
    <3>2. issuer' = [issuer EXCEPT ![s].replayed = FALSE]
      BY <2>1, <2>3, <3>1
    <3> QED
      BY <1>1, <1>2, <2>1, <2>3, <3>2 DEF TypeOK, Family
  <2> QED
    BY <1>3, <2>2, <2>3
<1>5. /\ reply' \in [Requests -> Reply]
      /\ \A q \in Requests :
            \/ reply'[q] = reply[q]
            \/ q = w /\ pc[q] = "exchange" /\ reply'[q].refresh = issuer'[s].current
  BY <1>1, <1>2, <1>4, SMTT(30) DEF IssuerExchange, TypeOK, Reply, Post
<1>6. TypeOK' /\ Stages'
  BY <1>1, <1>3, <1>4, <1>5 DEF TypeOK, Stages
<1>7. record[s].state # "active"
  BY <1>1 DEF IInv, ActiveOwned
<1>8. kind[w] # "login" /\ s \in Minted /\ ~Creating(s)
  BY <1>1, <1>2 DEF IInv, PostsOwned, Unstored
<1>9. \A q \in Requests : /\ Holds(q)' => Holds(q) /\ reply'[q] = reply[q] /\ cookie[q].id # s
                          /\ Takes(q)' => Takes(q) /\ reply'[q] = reply[q] /\ cookie[q].id # s
                          /\ pc[q] # "exchange" => reply'[q] = reply[q]
  BY <1>3, <1>5 DEF IInv, HeldCurrent, TakenCurrent, Holds, Takes
<1>10. \A x \in Sessions : Gone(x)' <=> Gone(x)
  BY <1>3 DEF Gone, Exists, Creating, Minted
<1>11. CommandsOwned' /\ PostsOwned' /\ Logins' /\ Reservations'
  BY <1>3 DEF IInv, CommandsOwned, PostsOwned, Logins, Reservations
<1>12. Unstored'
  <2>1. ASSUME NEW x \in Sessions, (x \notin Minted \/ Creating(x))' PROVE x # s /\ (x \notin Minted \/ Creating(x))
    BY <1>3, <1>8, <2>1 DEF Minted, Creating
  <2> QED
    BY <1>3, <1>4, <1>9, <2>1 DEF IInv, Unstored
<1>13. ReservePending'
  BY <1>1, <1>3, <1>9 DEF IInv, ReservePending, TypeOK, Command
<1>14. ActiveOwned'
  BY <1>3, <1>4, <1>7 DEF IInv, ActiveOwned
<1>15. HoldersSole'
  <2>1. \A q \in Requests : Holds(q)' \/ pc'[q] = "exchange" => cookie[q].id \in Sessions /\ (Reserved(q) \/ Gone(cookie[q].id))
    BY <1>1, <1>3, <1>9 DEF IInv, HoldersSole, Holds, Stages, Cookie
  <2> QED
    BY <1>3, <1>10, <2>1 DEF HoldersSole, Holds, Reserved, Gone, Exists, Creating, Minted
<1>16. HeldCurrent'
  <2>1. \A q \in Requests : Holds(q)' => cookie[q].id \in Sessions
    BY <1>1, <1>9 DEF Holds, Stages, Cookie
  <2> QED
    BY <1>3, <1>4, <1>9, <2>1 DEF IInv, HeldCurrent
<1>17. GrantCurrent'
  <2>1. ASSUME NEW q \in Requests, Reserved(q), q # w PROVE cookie[q].id \in Sessions \ {s}
    BY <1>1, <1>2, <2>1 DEF IInv, GrantCurrent, Reserved, Stages, Cookie
  <2>2. Reserved(w) => \A c \in commands : ~(c.owner = w /\ c.op = "finalize")
    BY <1>1, <1>2 DEF IInv, GrantCurrent
  <2>3. Reserved(w) => ~(pc[w] = "exchange" /\ reply[w].status = "ok")
    BY <1>1, <1>2 DEF IInv, GrantCurrent
  <2>4. \A q \in Requests : Reserved(q)' <=> Reserved(q)
    BY <1>3 DEF Reserved
  <2>5. ASSUME NEW q \in Requests, Reserved(q), q # w
        PROVE  /\ ~issuer'[cookie[q].id].revoked
               /\ \A o \in posts' : o.id = cookie[q].id => (o.owner = q /\ o.op = "exchange")
               /\ (pc[q] = "exchange" /\ reply'[q].status = "ok") =>
                     /\ reply'[q].refresh = issuer'[cookie[q].id].current
                     /\ \A o \in posts' : o.id # cookie[q].id
               /\ \A c \in commands : (c.owner = q /\ c.op = "finalize") =>
                     /\ c.refresh = issuer'[cookie[q].id].current
                     /\ \A o \in posts' : o.id # cookie[q].id
    BY <1>3, <1>4, <1>5, <2>1, <2>5 DEF IInv, GrantCurrent
  <2>6. Reserved(w) => /\ ~issuer'[s].revoked
                       /\ (pc[w] = "exchange" /\ reply'[w].status = "ok") => reply'[w].refresh = issuer'[s].current
    BY <1>1, <1>2, <1>4, <1>5, <2>3 DEF IInv, GrantCurrent
  <2> QED
    BY <1>2, <1>3, <2>2, <2>4, <2>5, <2>6 DEF GrantCurrent
<1>18. TakenCurrent'
  <2>1. \A q \in Requests : Takes(q)' => cookie[q].id \in Sessions \ {s} /\ Gone(cookie[q].id)
    BY <1>1, <1>9 DEF Takes, Stages, Cookie, IInv, TakenCurrent
  <2> QED
    BY <1>3, <1>4, <1>9, <1>10, <2>1 DEF IInv, TakenCurrent, Gone, Exists, Creating, Minted
<1>19. PostsCurrent'
  BY <1>1, <1>2, <1>3, <1>4, <1>10 DEF IInv, PostsCurrent, TypeOK, Post
<1>20. NoRefreshReplay'
  BY <1>4 DEF IInv, NoRefreshReplay
<1> QED
  BY <1>6, <1>11, <1>12, <1>13, <1>14, <1>15, <1>16, <1>17, <1>18, <1>19, <1>20 DEF IInv

\* The issuer revokes a family whose session is gone.
LEMMA IssuerRevokeKeeps == ASSUME IInv, NEW p \in posts, IssuerRevoke(p) PROVE IInv'
<1> DEFINE s == p.id
<1>1. TypeOK /\ Stages /\ p \in Post /\ s \in Sessions /\ p.op = "revoke" /\ cookie[p.owner].id = s /\ p.owner \in Requests
  BY DEF IInv, TypeOK, Post, PostsOwned, IssuerRevoke
<1>2. Gone(s)
  BY <1>1 DEF IInv, PostsCurrent
<1>3. /\ posts' = posts \ {p} /\ issuer' = [issuer EXCEPT ![s].revoked = TRUE]
      /\ UNCHANGED <<record, tombstone, now, jar, kind, pc, cookie, reply, answer, flights, commands, signedOut>>
  BY DEF IssuerRevoke, storeVars, reqVars
<1>4. /\ issuer' \in [Sessions -> Family]
      /\ \A x \in Sessions : issuer'[x].current = issuer[x].current /\ issuer'[x].replayed = issuer[x].replayed
      /\ \A x \in Sessions : x # s => issuer'[x] = issuer[x]
  BY <1>1, <1>3, ZenonT(40) DEF TypeOK, Family
<1>5. TypeOK' /\ Stages'
  BY <1>1, <1>3, <1>4 DEF TypeOK, Stages
<1>6. CommandsOwned' /\ PostsOwned' /\ Logins' /\ Reservations' /\ ReservePending'
  BY <1>3 DEF IInv, CommandsOwned, PostsOwned, Logins, Reservations, ReservePending, Holds
<1>7. Unstored'
  <2>1. \A x \in Sessions : (x \notin Minted \/ Creating(x))' => x # s /\ (x \notin Minted \/ Creating(x))
    BY <1>2, <1>3 DEF Gone, Minted, Creating
  <2> QED
    BY <1>3, <1>4, <2>1 DEF IInv, Unstored
<1>8. ActiveOwned'
  BY <1>2, <1>3, <1>4 DEF IInv, ActiveOwned, Gone, Exists
<1>9. HoldersSole' /\ TakenCurrent' /\ HeldCurrent'
  <2>1. \A q \in Requests : (Holds(q) \/ Takes(q)) => cookie[q].id \in Sessions
    BY <1>1 DEF Holds, Takes, Stages, Cookie
  <2>2. HeldCurrent'
    BY <1>3, <1>4, <2>1 DEF IInv, HeldCurrent, Holds
  <2>3. TakenCurrent'
    BY <1>3, <1>4, <2>1 DEF IInv, TakenCurrent, Takes, Holds, Gone, Exists, Creating, Minted
  <2>4. HoldersSole'
    BY <1>3 DEF IInv, HoldersSole, Holds, Reserved, Gone, Exists, Creating, Minted
  <2> QED
    BY <2>2, <2>3, <2>4
<1>10. GrantCurrent'
  <2>1. \A q \in Requests : Reserved(q) => cookie[q].id \in Sessions \ {s}
    BY <1>1, <1>2 DEF Reserved, Stages, Cookie, Gone, Exists
  <2> QED
    BY <1>3, <1>4, <2>1 DEF IInv, GrantCurrent, Reserved
<1>11. PostsCurrent' /\ NoRefreshReplay'
  BY <1>1, <1>3, <1>4 DEF IInv, PostsCurrent, NoRefreshReplay, TypeOK, Post, Gone, Exists, Creating, Minted
<1> QED
  BY <1>5, <1>6, <1>7, <1>8, <1>9, <1>10, <1>11 DEF IInv

(* The browser. *)

\* The browser applies an answer.
LEMMA DeliverKeeps == ASSUME IInv, NEW r \in Requests, Deliver(r) PROVE IInv'
<1>1. TypeOK /\ Stages /\ pc[r] = "answered" /\ cookie[r] \in Cookie
  BY DEF IInv, Deliver, Stages
<1>2. /\ pc' = [pc EXCEPT ![r] = "done"] /\ answer' = [answer EXCEPT ![r] = NoAnswer]
      /\ UNCHANGED <<record, tombstone, now, kind, cookie, reply, commands, posts, flights, issuer>>
  BY DEF Deliver, storeVars, netVars
<1>3. /\ jar' \in Cookie \cup {NoCookie}
      /\ jar'.id \in {jar.id, "none"} \/ (answer[r].effect = "set" /\ jar'.id = cookie[r].id)
  <2>1. CASE answer[r].effect = "keep"
    BY <1>1, <2>1 DEF Deliver, TypeOK
  <2>2. CASE answer[r].effect = "clear"
    BY <2>2 DEF Deliver, NoCookie
  <2>3. CASE answer[r].effect = "set"
    <3>1. jar' = [cookie[r] EXCEPT !.generation = IF kind[r] = "login" THEN 0 ELSE @ + 1]
      BY <2>3 DEF Deliver
    <3>2. (IF kind[r] = "login" THEN 0 ELSE cookie[r].generation + 1) \in Nat
      BY <1>1 DEF Cookie
    <3> QED
      BY <1>1, <2>3, <3>1, <3>2 DEF Cookie
  <2> QED
    BY <1>1, <2>1, <2>2, <2>3 DEF TypeOK, Answer
<1>4. signedOut' \subseteq Sessions
  BY <1>1 DEF Deliver, TypeOK, Cookie
<1>5. TypeOK' /\ Stages'
  BY <1>1, <1>2, <1>3, <1>4 DEF TypeOK, Stages, Serving, Answer, NoAnswer
<1>6. \A q \in Requests : /\ Holds(q)' <=> Holds(q)
                          /\ Takes(q)' <=> Takes(q)
                          /\ Reserved(q)' <=> Reserved(q)
                          /\ pc'[q] = "exchange" <=> pc[q] = "exchange"
  BY <1>1, <1>2 DEF Holds, Takes, Reserved, TypeOK
<1>7. \A s \in Sessions : Gone(s)' <=> Gone(s)
  BY <1>2 DEF Gone, Exists, Creating, Minted
<1>8. CommandsOwned' /\ PostsOwned' /\ Logins' /\ ActiveOwned' /\ PostsCurrent' /\ NoRefreshReplay'
  BY <1>1, <1>2 DEF IInv, CommandsOwned, PostsOwned, Logins, ActiveOwned, PostsCurrent, NoRefreshReplay,
     TypeOK, Command, Post, Gone, Exists, Creating, Minted
<1>9. Unstored'
  <2>1. \A s \in Sessions : (s \notin Minted \/ Creating(s))' => (s \notin Minted \/ Creating(s))
    BY <1>2 DEF Minted, Creating
  <2> QED
    BY <1>1, <1>2, <1>3, <2>1, SessionAssumption DEF IInv, Unstored, TypeOK, NoAnswer
<1>10. ReservePending'
  BY <1>1, <1>2, <1>6 DEF IInv, ReservePending, TypeOK, Command
<1>11. Reservations'
  BY <1>1, <1>2 DEF IInv, Reservations, TypeOK, Record
<1>12. HoldersSole' /\ HeldCurrent' /\ TakenCurrent'
  BY <1>2, <1>6 DEF IInv, HoldersSole, HeldCurrent, TakenCurrent, Gone, Exists, Creating, Minted
<1>13. GrantCurrent'
  BY <1>2, <1>6 DEF IInv, GrantCurrent
<1> QED
  BY <1>5, <1>8, <1>9, <1>10, <1>11, <1>12, <1>13 DEF IInv

\* A new request takes no part in any promise yet.
LEMMA NewIsFree ==
    ASSUME IInv, NEW r \in Requests, pc[r] = "new"
    PROVE  /\ kind[r] = "none" /\ answer[r] = NoAnswer
           /\ \A c \in commands : c.owner # r
           /\ \A p \in posts : p.owner # r
           /\ \A s \in Sessions : record[s].reservation # r
<1>1. \A s \in Sessions : record[s].reservation = r => record[s].state = "refreshing"
  BY StoreAssumption DEF IInv, Reservations, Nobody
<1> QED
  BY <1>1 DEF IInv, Stages, CommandsOwned, PostsOwned, Reservations

\* A tab sends a request.
LEMMA SendKeeps ==
    ASSUME IInv, NEW r \in Requests, NEW k \in {"read", "refresh", "signout"}, Send(r, k)
    PROVE  IInv'
<1>1. TypeOK /\ Stages /\ pc[r] = "new" /\ jar \in Cookie
  BY DEF IInv, Send, Live, TypeOK, NoCookie
<1>2. /\ kind[r] = "none" /\ answer[r] = NoAnswer
      /\ \A c \in commands : c.owner # r
      /\ \A p \in posts : p.owner # r
      /\ \A s \in Sessions : record[s].reservation # r
  BY <1>1, NewIsFree
<1>3. /\ kind' = [kind EXCEPT ![r] = k] /\ pc' = [pc EXCEPT ![r] = "sent"] /\ cookie' = [cookie EXCEPT ![r] = jar]
      /\ UNCHANGED <<record, tombstone, now, jar, reply, answer, commands, posts, flights, issuer, signedOut>>
  BY DEF Send, storeVars, netVars
<1>4. TypeOK' /\ Stages'
  BY <1>1, <1>3 DEF TypeOK, Stages
<1>5. Minted' = Minted
  <2>1. \A q \in Requests : /\ kind'[q] = "login" <=> kind[q] = "login"
                            /\ kind[q] = "login" => cookie'[q] = cookie[q]
    BY <1>1, <1>2, <1>3 DEF TypeOK
  <2> QED
    BY <2>1 DEF Minted
<1>6. \A s \in Sessions : Gone(s)' <=> Gone(s)
  BY <1>3, <1>5 DEF Gone, Exists, Creating
<1>7. \A q \in Requests \ {r} : pc'[q] = pc[q] /\ cookie'[q] = cookie[q] /\ kind'[q] = kind[q]
  BY <1>1, <1>3 DEF TypeOK
<1>8. pc'[r] = "sent" /\ cookie'[r] = jar /\ kind'[r] = k
  BY <1>1, <1>3 DEF TypeOK
<1>9. \A q \in Requests : Holds(q)' \/ Takes(q)' \/ Reserved(q)' \/ pc'[q] = "exchange" => q # r
  BY <1>1, <1>2, <1>3, <1>8 DEF Holds, Takes, Reserved, Cookie
<1>10. CommandsOwned' /\ PostsOwned'
  BY <1>1, <1>2, <1>3, <1>7 DEF IInv, CommandsOwned, PostsOwned, TypeOK, Command, Post
<1>11. Unstored'
  <2>1. \A s \in Sessions : (s \notin Minted \/ Creating(s))' => (s \notin Minted \/ Creating(s))
    BY <1>3, <1>5 DEF Creating
  <2> QED
    BY <1>3, <1>7, <1>8, <2>1 DEF IInv, Unstored
<1>12. Logins'
  BY <1>3, <1>7, <1>8 DEF IInv, Logins
<1>13. ReservePending'
  BY <1>1, <1>2, <1>3, <1>7 DEF IInv, ReservePending, TypeOK, Command, Holds
<1>14. Reservations'
  BY <1>1, <1>2, <1>3, <1>7 DEF IInv, Reservations, TypeOK, Record
<1>15. ActiveOwned' /\ NoRefreshReplay' /\ PostsCurrent'
  BY <1>1, <1>3, <1>6 DEF IInv, ActiveOwned, NoRefreshReplay, PostsCurrent, TypeOK, Post
<1>16. HoldersSole'
  <2>1. \A q \in Requests : Holds(q)' \/ pc'[q] = "exchange" => cookie[q].id \in Sessions
    BY <1>1, <1>3, <1>7, <1>9 DEF Holds, Stages, Cookie
  <2> QED
    BY <1>3, <1>6, <1>7, <1>9, <2>1 DEF IInv, HoldersSole, Holds, Reserved, Gone, Exists, Creating, Minted
<1>17. HeldCurrent'
  BY <1>3, <1>7, <1>9 DEF IInv, HeldCurrent, Holds
<1>18. GrantCurrent'
  BY <1>3, <1>7, <1>9 DEF IInv, GrantCurrent, Reserved
<1>19. TakenCurrent'
  <2>1. \A q \in Requests : Takes(q)' => cookie[q].id \in Sessions /\ Takes(q) /\ q # r
    BY <1>1, <1>3, <1>7, <1>9 DEF Takes, Stages, Cookie
  <2>2. \A q \in Requests : Holds(q)' => Holds(q) /\ q # r
    BY <1>3, <1>7, <1>9 DEF Holds
  <2> QED
    BY <1>3, <1>6, <1>7, <2>1, <2>2 DEF IInv, TakenCurrent, Gone, Exists, Creating, Minted
<1> QED
  BY <1>4, <1>10, <1>11, <1>12, <1>13, <1>14, <1>15, <1>16, <1>17, <1>18, <1>19 DEF IInv

\* A login draws a session id.
LEMMA LoginKeeps ==
    ASSUME IInv, NEW r \in Requests, NEW s \in Sessions, Login(r, s)
    PROVE  IInv'
<1> DEFINE k == [id |-> s, generation |-> 0, expiresAt |-> now + SessionAge]
           c == [op |-> "create", owner |-> r, id |-> s, generation |-> 0,
                 refresh |-> issuer[s].current, expiresAt |-> now + SessionAge, at |-> now]
<1>1. TypeOK /\ Stages /\ pc[r] = "new" /\ s \notin Minted
  BY DEF IInv, Login
<1>2. /\ kind[r] = "none" /\ answer[r] = NoAnswer
      /\ \A d \in commands : d.owner # r
      /\ \A p \in posts : p.owner # r
      /\ \A x \in Sessions : record[x].reservation # r
  BY <1>1, NewIsFree
<1>3. /\ kind' = [kind EXCEPT ![r] = "login"] /\ pc' = [pc EXCEPT ![r] = "create"]
      /\ cookie' = [cookie EXCEPT ![r] = k] /\ reply' = [reply EXCEPT ![r] = NoReply]
      /\ commands' = commands \cup {c}
      /\ UNCHANGED <<record, tombstone, now, jar, answer, posts, flights, issuer, signedOut>>
  BY DEF Login, Await, storeVars
<1>4. k \in Cookie /\ c \in Command
  BY <1>1, SessionAssumption DEF Cookie, Command, TypeOK, Family
<1>5. TypeOK'
  BY <1>1, <1>3, <1>4 DEF TypeOK, Reply, NoReply, Serving, Waiting
<1>6. /\ pc'[r] = "create" /\ kind'[r] = "login" /\ cookie'[r] = k /\ reply'[r] = NoReply
      /\ \A q \in Requests \ {r} : /\ pc'[q] = pc[q] /\ cookie'[q] = cookie[q]
                                   /\ kind'[q] = kind[q] /\ reply'[q] = reply[q]
  BY <1>1, <1>3 DEF TypeOK
<1>7. Stages'
  BY <1>1, <1>3, <1>4, <1>6 DEF Stages
<1>8. Minted' = Minted \cup {s}
  BY <1>1, <1>2, <1>6 DEF Minted
<1>9. /\ \A q \in Requests : cookie[q].id # s
      /\ \A d \in commands : d.id # s
      /\ record[s] = NoRecord /\ issuer[s].current = 0 /\ ~issuer[s].revoked /\ jar.id # s
  <2>1. \A q \in Requests : cookie[q].id # s
    BY <1>1 DEF IInv, Unstored, Minted
  <2> QED
    BY <1>1, <2>1 DEF IInv, Unstored, CommandsOwned, TypeOK, Command
<1>10. \A x \in Sessions : x # s => (Creating(x)' <=> Creating(x))
  BY <1>3 DEF Creating
<1>11. \A x \in Sessions : Gone(x) => Gone(x)'
  BY <1>1, <1>3, <1>8, <1>10 DEF Gone, Exists
<1>12. \A q \in Requests : (Holds(q)' \/ Takes(q)' \/ Reserved(q)' \/ pc'[q] = "exchange") => q # r
  BY <1>2, <1>3, <1>6 DEF Holds, Takes, Reserved
<1>13. CommandsOwned' /\ PostsOwned'
  BY <1>1, <1>2, <1>3, <1>6 DEF IInv, CommandsOwned, PostsOwned, TypeOK, Command, Post
<1>14. Unstored'
  <2>1. ASSUME NEW x \in Sessions, x # s, (x \notin Minted \/ Creating(x))' PROVE x \notin Minted \/ Creating(x)
    BY <1>8, <1>10, <2>1
  <2> QED
    BY <1>2, <1>3, <1>6, <1>9, <2>1 DEF IInv, Unstored, NoReply, NoAnswer, Waiting
<1>15. Logins'
  <2>1. \A q \in Requests : kind[q] = "login" => cookie[q].id # s
    BY <1>9
  <2> QED
    BY <1>3, <1>6, <1>9, <2>1 DEF IInv, Logins
<1>16. ReservePending'
  BY <1>1, <1>2, <1>3, <1>6 DEF IInv, ReservePending, TypeOK, Command, Holds
<1>17. Reservations'
  BY <1>1, <1>2, <1>3, <1>6 DEF IInv, Reservations, TypeOK, Record
<1>18. ActiveOwned' /\ NoRefreshReplay'
  BY <1>3 DEF IInv, ActiveOwned, NoRefreshReplay
<1>19. PostsCurrent'
  BY <1>1, <1>3, <1>11 DEF IInv, PostsCurrent, TypeOK, Post
<1>20. HoldersSole'
  <2>1. ASSUME NEW q \in Requests, Holds(q)' \/ pc'[q] = "exchange"
        PROVE  q # r /\ cookie[q].id \in Sessions /\ (Reserved(q)' \/ Gone(cookie[q].id)')
    BY <1>1, <1>3, <1>6, <1>11, <1>12, <2>1 DEF IInv, HoldersSole, Holds, Stages, Cookie, Reserved, Gone, Exists, Creating, Minted
  <2> QED
    BY <1>6, <2>1 DEF HoldersSole, Holds, Gone, Exists, Creating, Minted
<1>21. HeldCurrent'
  BY <1>3, <1>6, <1>12 DEF IInv, HeldCurrent, Holds
<1>22. GrantCurrent'
  <2>1. \A q \in Requests : Reserved(q)' => q # r /\ Reserved(q)
    BY <1>3, <1>6, <1>12 DEF Reserved
  <2> QED
    BY <1>3, <1>6, <2>1 DEF IInv, GrantCurrent
<1>23. TakenCurrent'
  <2>1. \A q \in Requests : Takes(q)' => cookie[q].id \in Sessions /\ Takes(q) /\ q # r
    BY <1>1, <1>3, <1>6, <1>12 DEF Takes, Stages, Cookie
  <2>2. \A q \in Requests : Holds(q)' => Holds(q) /\ q # r
    BY <1>3, <1>6, <1>12 DEF Holds
  <2>3. \A q \in Requests : Takes(q)' => Gone(cookie[q].id)'
    BY <1>3, <1>11, <2>1 DEF IInv, TakenCurrent, Gone, Exists, Creating, Minted
  <2> QED
    BY <1>3, <1>6, <2>1, <2>2, <2>3 DEF IInv, TakenCurrent, Gone, Exists, Creating, Minted
<1> QED
  BY <1>5, <1>7, <1>13, <1>14, <1>15, <1>16, <1>17, <1>18, <1>19, <1>20, <1>21, <1>22, <1>23 DEF IInv

(* The posts of a handler: it goes on to wait for the issuer. *)

\* POST session: the winner posts the credential it was handed.
LEMMA AfterReserveKeeps == ASSUME IInv, NEW r \in Requests, AfterReserve(r) PROVE IInv'
<1>1. CASE reply[r].status # "ok"
  <2>1. kind[r] # "login"
    BY DEF AfterReserve, Replied, IInv, Stages
  <2>2. \E a : Answering(r, a)
    BY <1>1, <2>1 DEF AfterReserve, Replied, Respond, Answering, Answer, netVars
  <2> QED
    BY <2>2, AnsweringKeeps
<1>2. CASE reply[r].status = "ok"
  <2> DEFINE s == cookie[r].id
             p == [op |-> "exchange", owner |-> r, id |-> s, refresh |-> reply[r].refresh]
  <2>1. TypeOK /\ Stages /\ Holds(r) /\ s \in Sessions /\ kind[r] = "refresh" /\ reply[r].refresh \in Nat
    BY <1>2 DEF IInv, AfterReserve, Replied, Holds, Stages, Cookie, TypeOK, Reply
  <2>2. /\ posts' = posts \cup {p} /\ pc' = [pc EXCEPT ![r] = "exchange"]
        /\ reply' = [reply EXCEPT ![r] = NoReply]
        /\ UNCHANGED <<record, tombstone, now, jar, kind, cookie, answer, flights, commands, issuer, signedOut>>
    BY <1>2 DEF AfterReserve, Await, storeVars
  <2>3. p \in Post
    BY <2>1 DEF Post
  <2>4. TypeOK'
    BY <2>1, <2>2, <2>3 DEF TypeOK, Reply, NoReply, Serving, Waiting
  <2>5. /\ pc'[r] = "exchange" /\ reply'[r] = NoReply
        /\ \A q \in Requests \ {r} : pc'[q] = pc[q] /\ reply'[q] = reply[q]
    BY <2>1, <2>2 DEF TypeOK
  <2>6. Stages'
    BY <2>1, <2>2, <2>5 DEF Stages, Holds
  <2>7. /\ reply[r].refresh = issuer[s].current
        /\ \A o \in posts : o.id # s
        /\ \A q \in Requests : cookie[q].id = s => ~Takes(q) /\ (Holds(q) => q = r)
    BY <2>1 DEF IInv, HeldCurrent, TakenCurrent
  <2>8. Reserved(r) \/ Gone(s)
    BY <2>1 DEF IInv, HoldersSole
  <2>9. record[s].state # "active" /\ s \in Minted /\ ~Creating(s)
    BY <2>1, <2>8 DEF Reserved, Gone, Exists, IInv, Unstored, NoRecord
  <2>10. \A q \in Requests : /\ Holds(q)' => Holds(q) /\ q # r
                             /\ Takes(q)' <=> Takes(q)
                             /\ Reserved(q)' <=> Reserved(q)
    BY <2>1, <2>2, <2>5 DEF Holds, Takes, Reserved, NoReply, Waiting
  <2>11. CommandsOwned'
    <3>1. \A c \in commands : c.owner = r => c.op # "finalize"
      BY <2>1 DEF IInv, CommandsOwned, Holds
    <3> QED
      BY <2>1, <2>2, <2>5, <3>1 DEF IInv, CommandsOwned, TypeOK, Command
  <2>12. PostsOwned'
    BY <2>1, <2>2, <2>5 DEF IInv, PostsOwned, TypeOK, Post
  <2>13. Unstored' /\ Logins' /\ Reservations'
    BY <2>1, <2>2, <2>5 DEF IInv, Unstored, Logins, Reservations, Minted, Creating, TypeOK, Record, Holds
  <2>14. ReservePending'
    <3>1. \A c \in commands : c.op = "reserve" => c.owner # r
      BY <2>1 DEF IInv, ReservePending
    <3> QED
      BY <2>1, <2>2, <2>5, <3>1 DEF IInv, ReservePending, TypeOK, Command, Holds
  <2>15. ActiveOwned' /\ NoRefreshReplay'
    BY <2>2, <2>9 DEF IInv, ActiveOwned, NoRefreshReplay
  <2>16. HoldersSole'
    BY <2>1, <2>2, <2>5, <2>10 DEF IInv, HoldersSole, Gone, Exists, Creating, Minted, Holds
  <2>17. HeldCurrent'
    BY <2>2, <2>5, <2>7, <2>10 DEF IInv, HeldCurrent
  <2>18. GrantCurrent'
    <3>1. \A q \in Requests : Reserved(q) /\ q # r => cookie[q].id # s
      BY <2>8, <2>1 DEF Reserved, Gone, Exists
    <3>2. \A c \in commands : ~(c.owner = r /\ c.op = "finalize")
      BY <2>1 DEF IInv, CommandsOwned, Holds
    <3> QED
      BY <2>2, <2>5, <2>7, <2>10, <3>1, <3>2 DEF IInv, GrantCurrent, NoReply, Waiting
  <2>19. TakenCurrent'
    <3>1. \A q \in Requests : Takes(q) => reply'[q] = reply[q] /\ cookie[q].id # s
      BY <2>1, <2>5, <2>7 DEF Takes, Holds
    <3> QED
      BY <2>2, <2>10, <3>1 DEF IInv, TakenCurrent, Gone, Exists, Creating, Minted
  <2>20. PostsCurrent'
    BY <2>2, <2>7 DEF IInv, PostsCurrent, Gone, Exists, Creating, Minted
  <2> QED
    BY <2>4, <2>6, <2>11, <2>12, <2>13, <2>14, <2>15, <2>16, <2>17, <2>18, <2>19, <2>20 DEF IInv
<1> QED
  BY <1>1, <1>2

\* POST signout: the sign-out posts the credential it took.
LEMMA AfterTombstoneKeeps == ASSUME IInv, NEW r \in Requests, AfterTombstone(r) PROVE IInv'
<1>1. CASE reply[r].status # "active"
  <2>1. kind[r] # "login"
    BY DEF AfterTombstone, Replied, IInv, Stages
  <2>2. \E a : Answering(r, a)
    BY <1>1, <2>1 DEF AfterTombstone, Replied, Respond, Answering, Answer, netVars
  <2> QED
    BY <2>2, AnsweringKeeps
<1>2. CASE reply[r].status = "active"
  <2> DEFINE s == cookie[r].id
             p == [op |-> "revoke", owner |-> r, id |-> s, refresh |-> reply[r].refresh]
  <2>1. TypeOK /\ Stages /\ Takes(r) /\ s \in Sessions /\ kind[r] = "signout" /\ reply[r].refresh \in Nat
    BY <1>2 DEF IInv, AfterTombstone, Replied, Takes, Stages, Cookie, TypeOK, Reply
  <2>2. /\ posts' = posts \cup {p} /\ pc' = [pc EXCEPT ![r] = "revoke"]
        /\ reply' = [reply EXCEPT ![r] = NoReply]
        /\ UNCHANGED <<record, tombstone, now, jar, kind, cookie, answer, flights, commands, issuer, signedOut>>
    BY <1>2 DEF AfterTombstone, Await, storeVars
  <2>3. p \in Post
    BY <2>1 DEF Post
  <2>4. TypeOK'
    BY <2>1, <2>2, <2>3 DEF TypeOK, Reply, NoReply, Serving, Waiting
  <2>5. /\ pc'[r] = "revoke" /\ reply'[r] = NoReply
        /\ \A q \in Requests \ {r} : pc'[q] = pc[q] /\ reply'[q] = reply[q]
    BY <2>1, <2>2 DEF TypeOK
  <2>6. Stages'
    BY <2>1, <2>2, <2>5 DEF Stages, Takes
  <2>7. /\ reply[r].refresh = issuer[s].current /\ Gone(s)
        /\ \A o \in posts : o.id # s
        /\ \A q \in Requests : cookie[q].id = s => ~Holds(q) /\ (Takes(q) => q = r)
    BY <2>1 DEF IInv, TakenCurrent
  <2>8. \A q \in Requests : /\ Holds(q)' <=> Holds(q)
                            /\ Takes(q)' => Takes(q) /\ q # r /\ reply'[q] = reply[q]
                            /\ Reserved(q)' <=> Reserved(q)
                            /\ Reserved(q) => cookie[q].id # s
                            /\ pc'[q] # "create" \/ reply'[q] = reply[q]
    BY <2>1, <2>2, <2>5, <2>7 DEF Holds, Takes, Reserved, NoReply, Waiting, Gone, Exists
  <2>9. CommandsOwned' /\ PostsOwned'
    BY <2>1, <2>2, <2>5 DEF IInv, CommandsOwned, PostsOwned, TypeOK, Command, Post
  <2>10. Unstored' /\ Logins' /\ Reservations'
    BY <2>1, <2>2, <2>5 DEF IInv, Unstored, Logins, Reservations, Minted, Creating, TypeOK, Record, Takes
  <2>11. ReservePending'
    <3>1. \A c \in commands : c.op = "reserve" => c.owner # r
      BY <2>1 DEF IInv, ReservePending, Takes
    <3> QED
      BY <2>1, <2>2, <2>5, <3>1 DEF IInv, ReservePending, TypeOK, Command, Holds
  <2>12. ActiveOwned' /\ NoRefreshReplay'
    BY <2>2, <2>7 DEF IInv, ActiveOwned, NoRefreshReplay, Gone, Exists
  <2>13. HoldersSole'
    BY <2>2, <2>5, <2>8 DEF IInv, HoldersSole, Gone, Exists, Creating, Minted, Holds
  <2>14. HeldCurrent'
    BY <2>2, <2>5, <2>7, <2>8 DEF IInv, HeldCurrent, Holds
  <2>15. GrantCurrent'
    BY <2>2, <2>5, <2>8 DEF IInv, GrantCurrent
  <2>16. TakenCurrent'
    BY <2>2, <2>7, <2>8 DEF IInv, TakenCurrent, Gone, Exists, Creating, Minted
  <2>17. PostsCurrent'
    BY <2>2, <2>7 DEF IInv, PostsCurrent, Gone, Exists, Creating, Minted
  <2> QED
    BY <2>4, <2>6, <2>9, <2>10, <2>11, <2>12, <2>13, <2>14, <2>15, <2>16, <2>17 DEF IInv
<1> QED
  BY <1>1, <1>2

-----------------------------------------------------------------------------

\* The invariant holds initially.
LEMMA InitHolds == Init => IInv
<1> SUFFICES ASSUME Init PROVE IInv
  OBVIOUS
<1>1. TypeOK
  BY DEF Init, TypeOK, Record, NoRecord, Nobody, Serving, NoCookie, Reply, NoReply, Waiting, Answer, NoAnswer, Family
<1>2. Stages
  BY DEF Init, Stages, NoAnswer
<1>3. commands = {} /\ posts = {}
  BY DEF Init
<1>4. Unstored
  BY <1>3, SessionAssumption DEF Init, Unstored, Creating, NoCookie
<1>5. CommandsOwned /\ PostsOwned /\ ReservePending /\ PostsCurrent
  BY <1>3 DEF CommandsOwned, PostsOwned, ReservePending, PostsCurrent
<1>6. Logins
  BY <1>3 DEF Logins, Init
<1>7. Reservations /\ ActiveOwned
  BY DEF Init, Reservations, ActiveOwned, NoRecord
<1>8. HoldersSole /\ HeldCurrent /\ GrantCurrent /\ TakenCurrent
  BY DEF Init, HoldersSole, HeldCurrent, GrantCurrent, TakenCurrent, Holds, Takes, Reserved
<1>9. NoRefreshReplay
  BY DEF Init, NoRefreshReplay
<1> QED
  BY <1>1, <1>2, <1>4, <1>5, <1>6, <1>7, <1>8, <1>9 DEF IInv

\* Every step keeps the invariant.
LEMMA NextKeeps == IInv /\ [Next]_vars => IInv'
<1> SUFFICES ASSUME IInv, [Next]_vars PROVE IInv'
  OBVIOUS
<1>1. ASSUME NEW r \in Requests, Browser(r) PROVE IInv'
  BY <1>1, SendKeeps, DeliverKeeps, LoginKeeps DEF Browser
<1>2. ASSUME NEW r \in Requests, Handler(r) PROVE IInv'
  BY <1>2, AfterCreateKeeps, ArriveInspectKeeps, ReadKeeps, RefreshAfterInspectKeeps, AfterReserveKeeps,
     AfterExchangeKeeps, RefreshFailsKeeps, AfterFinalizeKeeps, AfterInvalidateKeeps, ArriveSignoutKeeps,
     AfterTombstoneKeeps, AfterRevokeKeeps, CallFailsKeeps DEF Handler
<1>3. ASSUME NEW f \in flights, Inspector(f) PROVE IInv'
  BY <1>3, InspectExecuteKeeps, InspectSettleKeeps, InspectFailKeeps DEF Inspector
<1>4. ASSUME NEW c \in commands, Redis(c) PROVE IInv'
  BY <1>4, CreateScriptKeeps, ReserveScriptKeeps, FinalizeScriptKeeps, InvalidateScriptKeeps,
     TombstoneScriptKeeps DEF Redis
<1>5. ASSUME NEW p \in posts, Issuer(p) PROVE IInv'
  BY <1>5, IssuerExchangeKeeps, IssuerRevokeKeeps DEF Issuer
<1>6. ASSUME NEW s \in Sessions, RecordExpires(s) PROVE IInv'
  BY <1>6, RecordExpiresKeeps
<1> QED
  BY <1>1, <1>2, <1>3, <1>4, <1>5, <1>6, RestartKeeps, TickKeeps DEF Next

\* The inductive invariant holds in every reachable state.
THEOREM Invariance == Spec => []IInv
  BY InitHolds, NextKeeps, PTL DEF Spec

\* Every variable always has its type, for any number of sessions and requests.
THEOREM TypeCorrect == Spec => []TypeOK
<1>1. IInv => TypeOK
  BY DEF IInv
<1> QED
  BY <1>1, Invariance, PTL

\* reserveRefresh / finalizeRefresh: no refresh credential is ever presented twice to the issuer,
\* for any number of sessions, requests, restarts and lost or late calls.
THEOREM NoReplay == Spec => []NoRefreshReplay
<1>1. IInv => NoRefreshReplay
  BY DEF IInv
<1> QED
  BY <1>1, Invariance, PTL

\* A session the store calls active keeps the issuer's current, unrevoked credential, and nobody is
\* about to spend it.
THEOREM ActiveIsCurrent == Spec => []ActiveCredentialCurrent
<1>1. IInv => ActiveCredentialCurrent
  BY DEF IInv, ActiveOwned, ActiveCredentialCurrent
<1> QED
  BY <1>1, Invariance, PTL

\* tombstoneSession: what a sign-out posts for revocation is the issuer's current credential.
THEOREM RevokedIsCurrent == Spec => []RevokeTakesCurrent
<1>1. IInv => RevokeTakesCurrent
  BY DEF IInv, PostsCurrent, RevokeTakesCurrent
<1> QED
  BY <1>1, Invariance, PTL

(***************************************************************************)
(* The life of a session: ProductSession implements SessionLifecycle, under*)
(* the mapping of ProductSession!Lifetime and with IInv: a record exists   *)
(* only after its createSession was executed, and createSession of an id   *)
(* is sent once.                                                           *)
(***************************************************************************)

\* Nothing happens in the life of any session.
Uneventful ==
    /\ record' = record
    /\ Minted' = Minted
    /\ \A s \in Sessions : Creating(s)' = Creating(s)

\* A step that changes no record and creates nothing is a stutter of SessionLifecycle.
LEMMA UneventfulStutters == ASSUME Uneventful PROVE UNCHANGED Lifetime!vars
<1>1. \A s \in Sessions : Phase(s)' = Phase(s)
  BY DEF Uneventful, Phase, Exists, Creating
<1> QED
  BY <1>1 DEF Uneventful, Lifetime!vars

\* What a handler does itself is not an event of the session's life: only scripts are.
LEMMA HandlerUneventful == ASSUME IInv, NEW r \in Requests, Handler(r) PROVE Uneventful
<1>1. UNCHANGED <<record, kind, cookie>>
  BY DEF Handler, AfterCreate, ArriveInspect, ReadAfterInspect, RefreshAfterInspect, AfterReserve,
     AfterExchange, RefreshFails, AfterFinalize, AfterInvalidate, ArriveSignout, AfterTombstone,
     AfterRevoke, CallFails, storeVars
<1>2. commands' = commands \/ \E c : c.op # "create" /\ commands' = commands \cup {c}
  BY DEF Handler, AfterCreate, ArriveInspect, ReadAfterInspect, RefreshAfterInspect, AfterReserve,
     AfterExchange, RefreshFails, AfterFinalize, AfterInvalidate, ArriveSignout, AfterTombstone,
     AfterRevoke, CallFails, netVars, Call
<1> QED
  BY <1>1, <1>2 DEF Uneventful, Minted, Creating

\* How a change of one session's phase is a Move of SessionLifecycle.
LEMMA MoveOne ==
    ASSUME NEW s \in Sessions, NEW from, NEW to, NEW g,
           Phase(s) \in from, Phase(s)' = to, record'[s].generation = g,
           \A x \in Sessions \ {s} : Phase(x)' = Phase(x) /\ record'[x].generation = record[x].generation
    PROVE  Lifetime!Move(s, from, to, g)
  BY DEF Lifetime!Move

\* A record that disappears: the session was stored, so it is not unborn, and it ends.
LEMMA RecordEnds ==
    ASSUME IInv, NEW s \in Sessions, Exists(s), record' = [record EXCEPT ![s] = NoRecord],
           Minted' = Minted, \A x \in Sessions : Creating(x)' = Creating(x)
    PROVE  Lifetime!End(s)
<1>1. s \in Minted /\ ~Creating(s)
  BY DEF IInv, Unstored, Exists, NoRecord
<1>2. /\ record'[s] = NoRecord
      /\ \A x \in Sessions \ {s} : record'[x] = record[x]
  BY DEF IInv, TypeOK
<1>3. Phase(s) \in {"unborn", "active", "refreshing"}
  BY DEF Phase, Exists, IInv, TypeOK, Record
<1>4. Phase(s)' = "ended" /\ record'[s].generation = 0
  BY <1>1, <1>2 DEF Phase, Exists, NoRecord, Creating
<1>5. \A x \in Sessions \ {s} : Phase(x)' = Phase(x) /\ record'[x].generation = record[x].generation
  BY <1>2 DEF Phase, Exists, Creating
<1> QED
  BY <1>3, <1>4, <1>5, MoveOne DEF Lifetime!End

\* An executed call consumes itself: only createSession stops being on its way.
LEMMA ScriptCreates ==
    ASSUME IInv, NEW c \in commands, Resolve(c, "ok", record[c.id].refresh) \/ \E st, rf : Resolve(c, st, rf)
    PROVE  /\ c \in Command /\ Minted' = Minted
           /\ c.op # "create" => \A x \in Sessions : Creating(x)' = Creating(x)
           /\ \A x \in Sessions : x # c.id => Creating(x)' = Creating(x)
           /\ c.op = "create" => ~Creating(c.id)'
<1>1. c \in Command /\ commands' = commands \ {c} /\ UNCHANGED <<kind, cookie>>
  BY DEF Resolve, IInv, TypeOK
<1> QED
  BY <1>1 DEF Minted, Creating, IInv, Logins

\* createSession creates the session, or fails and the session never is.
LEMMA CreateScriptMoves == ASSUME IInv, NEW c \in commands, CreateScript(c) PROVE Lifetime!Next
<1> DEFINE s == c.id
<1>1. /\ c \in Command /\ s \in Sessions /\ Minted' = Minted /\ c.op = "create" /\ ~Creating(s)'
      /\ \A x \in Sessions : x # s => Creating(x)' = Creating(x)
  BY ScriptCreates DEF CreateScript, Refuse, Command
<1>2. s \in Minted /\ record[s] = NoRecord /\ Phase(s) = "unborn"
  BY <1>1 DEF IInv, Unstored, CommandsOwned, Creating, Minted, Phase, Exists, NoRecord, Command
<1>3. CASE CanCreate(c) /\ record' = [record EXCEPT ![s] = CreatedRecord(c)]
  <2>1. /\ record'[s].state = "active" /\ record'[s].generation = 0
        /\ \A x \in Sessions \ {s} : record'[x] = record[x]
    BY <1>1, <1>3 DEF IInv, TypeOK, CreatedRecord, NoRecord
  <2>2. Phase(s)' = "active" /\ \A x \in Sessions \ {s} : Phase(x)' = Phase(x)
    BY <1>1, <2>1 DEF Phase, Exists, Creating
  <2>3. Lifetime!Create(s)
    BY <1>1, <1>2, <2>1, <2>2, MoveOne DEF Lifetime!Create
  <2> QED
    BY <1>1, <2>3 DEF Lifetime!Next
<1>4. CASE UNCHANGED record
  <2>1. Phase(s)' = "ended" /\ \A x \in Sessions \ {s} : Phase(x)' = Phase(x)
    BY <1>1, <1>2, <1>4 DEF Phase, Exists, Creating, NoRecord
  <2>2. Lifetime!End(s)
    BY <1>1, <1>2, <1>4, <2>1, MoveOne DEF Lifetime!End, NoRecord
  <2> QED
    BY <1>1, <2>2 DEF Lifetime!Next
<1> QED
  BY <1>3, <1>4 DEF CreateScript, Refuse, storeVars

\* reserveRefresh reserves an active session, or changes nothing.
LEMMA ReserveScriptMoves ==
    ASSUME IInv, NEW c \in commands, ReserveScript(c) PROVE Lifetime!Next \/ Uneventful
<1> DEFINE s == c.id
<1>1. /\ c \in Command /\ s \in Sessions /\ Minted' = Minted
      /\ \A x \in Sessions : Creating(x)' = Creating(x)
  BY ScriptCreates DEF ReserveScript, Refuse, Command
<1>2. CASE CanReserve(c) /\ record' = [record EXCEPT ![s] = ReservedRecord(c)]
  <2>1. /\ record'[s].state = "refreshing" /\ record'[s].generation = record[s].generation
        /\ \A x \in Sessions \ {s} : record'[x] = record[x]
    BY <1>1, <1>2 DEF IInv, TypeOK, ReservedRecord, Record
  <2>2. /\ Phase(s) = "active" /\ Phase(s)' = "refreshing"
        /\ \A x \in Sessions \ {s} : Phase(x)' = Phase(x)
    <3>1. Phase(s) = "active"
      BY <1>2 DEF Phase, Exists, CanReserve
    <3>2. Phase(s)' = "refreshing"
      BY <2>1 DEF Phase, Exists
    <3>3. \A x \in Sessions \ {s} : Phase(x)' = Phase(x)
      BY <1>1, <2>1 DEF Phase, Exists, Creating
    <3> QED
      BY <3>1, <3>2, <3>3
  <2>3. Lifetime!Reserve(s)
    BY <1>1, <2>1, <2>2 DEF Lifetime!Reserve, Lifetime!Move
  <2> QED
    BY <1>1, <2>3 DEF Lifetime!Next
<1>3. CASE UNCHANGED record
  BY <1>1, <1>3 DEF Uneventful
<1> QED
  BY <1>2, <1>3 DEF ReserveScript, Refuse, storeVars

\* finalizeRefresh commits a reserved session, or changes nothing.
LEMMA FinalizeScriptMoves ==
    ASSUME IInv, NEW c \in commands, FinalizeScript(c) PROVE Lifetime!Next \/ Uneventful
<1> DEFINE s == c.id
<1>1. /\ c \in Command /\ s \in Sessions /\ Minted' = Minted
      /\ \A x \in Sessions : Creating(x)' = Creating(x)
  BY ScriptCreates DEF FinalizeScript, Refuse, Command
<1>2. CASE CanFinalize(c) /\ record' = [record EXCEPT ![s] = FinalizedRecord(c)]
  <2>1. /\ record'[s].state = "active" /\ record'[s].generation = record[s].generation + 1
        /\ \A x \in Sessions \ {s} : record'[x] = record[x]
    BY <1>1, <1>2 DEF IInv, TypeOK, FinalizedRecord, Record
  <2>2. /\ Phase(s) = "refreshing" /\ Phase(s)' = "active"
        /\ \A x \in Sessions \ {s} : Phase(x)' = Phase(x)
    <3>1. Phase(s) = "refreshing"
      BY <1>2 DEF Phase, Exists, CanFinalize
    <3>2. Phase(s)' = "active"
      BY <2>1 DEF Phase, Exists
    <3>3. \A x \in Sessions \ {s} : Phase(x)' = Phase(x)
      BY <1>1, <2>1 DEF Phase, Exists, Creating
    <3> QED
      BY <3>1, <3>2, <3>3
  <2>3. Lifetime!Commit(s)
    BY <1>1, <2>1, <2>2 DEF Lifetime!Commit, Lifetime!Move
  <2> QED
    BY <1>1, <2>3 DEF Lifetime!Next
<1>3. CASE UNCHANGED record
  BY <1>1, <1>3 DEF Uneventful
<1> QED
  BY <1>2, <1>3 DEF FinalizeScript, Refuse, storeVars

\* invalidatePending ends a reserved session, or changes nothing.
LEMMA InvalidateScriptMoves ==
    ASSUME IInv, NEW c \in commands, InvalidateScript(c) PROVE Lifetime!Next \/ Uneventful
<1>1. /\ c \in Command /\ c.id \in Sessions /\ Minted' = Minted
      /\ \A x \in Sessions : Creating(x)' = Creating(x)
  BY ScriptCreates DEF InvalidateScript, Refuse, Command
<1>2. CASE CanInvalidate(c) /\ record' = [record EXCEPT ![c.id] = NoRecord]
  <2>1. Lifetime!End(c.id)
    BY <1>1, <1>2, RecordEnds DEF CanInvalidate, Exists
  <2> QED
    BY <1>1, <2>1 DEF Lifetime!Next
<1>3. CASE UNCHANGED record
  BY <1>1, <1>3 DEF Uneventful
<1> QED
  BY <1>2, <1>3 DEF InvalidateScript, Refuse, storeVars

\* tombstoneSession ends a stored session, or changes nothing.
LEMMA TombstoneScriptMoves ==
    ASSUME IInv, NEW c \in commands, TombstoneScript(c) PROVE Lifetime!Next \/ Uneventful
<1>1. /\ c \in Command /\ c.id \in Sessions /\ Minted' = Minted
      /\ \A x \in Sessions : Creating(x)' = Creating(x)
  BY ScriptCreates DEF TombstoneScript, Command
<1>2. CASE Exists(c.id) /\ record' = [record EXCEPT ![c.id] = NoRecord]
  <2>1. Lifetime!End(c.id)
    BY <1>1, <1>2, RecordEnds
  <2> QED
    BY <1>1, <2>1 DEF Lifetime!Next
<1>3. CASE UNCHANGED record
  BY <1>1, <1>3 DEF Uneventful
<1>4. CASE ~Exists(c.id) /\ record' = [record EXCEPT ![c.id] = NoRecord]
  <2>1. record[c.id] = NoRecord /\ record \in [Sessions -> Record]
    BY <1>1, <1>4 DEF IInv, Reservations, Exists, TypeOK
  <2>2. UNCHANGED record
    BY <1>1, <1>4, <2>1
  <2> QED
    BY <1>1, <2>2 DEF Uneventful
<1> QED
  BY <1>2, <1>3, <1>4 DEF TombstoneScript, storeVars

\* A new request is no event of a session's life.
LEMMA SendUneventful ==
    ASSUME IInv, NEW r \in Requests, NEW k \in {"read", "refresh", "signout"}, Send(r, k)
    PROVE  Uneventful
<1>1. kind[r] = "none" /\ UNCHANGED <<record, commands>>
  BY NewIsFree DEF Send, storeVars, netVars
<1>2. \A q \in Requests : /\ (kind'[q] = "login") <=> (kind[q] = "login")
                          /\ kind[q] = "login" => cookie'[q] = cookie[q]
  BY <1>1 DEF Send, IInv, TypeOK
<1> QED
  BY <1>1, <1>2 DEF Uneventful, Minted, Creating

\* A session id that is drawn is still unborn: its createSession has not been executed.
LEMMA LoginStutters ==
    ASSUME IInv, NEW r \in Requests, NEW s \in Sessions, Login(r, s)
    PROVE  UNCHANGED Lifetime!vars
<1>1. pc[r] = "new" /\ s \notin Minted /\ UNCHANGED record
  BY DEF Login, storeVars
<1>2. kind[r] = "none" /\ record[s] = NoRecord
  BY <1>1, NewIsFree DEF IInv, Unstored
<1>3. Creating(s)' /\ \A x \in Sessions : x # s => (Creating(x)' <=> Creating(x))
  <2>1. PICK c : c.op = "create" /\ c.id = s /\ commands' = commands \cup {c}
    BY DEF Login
  <2> QED
    BY <2>1 DEF Creating
<1>4. \A q \in Requests : q # r => (kind'[q] = kind[q] /\ cookie'[q] = cookie[q])
  BY DEF Login, IInv, TypeOK
<1>5. kind'[r] = "login" /\ cookie'[r].id = s
  BY DEF Login, IInv, TypeOK
<1>6. Minted' = Minted \cup {s}
  BY <1>2, <1>4, <1>5 DEF Minted
<1>7. Phase(s)' = Phase(s)
  BY <1>1, <1>2, <1>3 DEF Phase, Exists, NoRecord, Creating
<1>8. \A x \in Sessions : x # s => Phase(x)' = Phase(x)
  BY <1>1, <1>3, <1>6 DEF Phase, Exists, Creating
<1> QED
  BY <1>1, <1>7, <1>8 DEF Lifetime!vars

\* Every step is a step of SessionLifecycle or a stutter.
LEMMA NextMoves == IInv /\ [Next]_vars => [Lifetime!Next]_(Lifetime!vars)
<1> SUFFICES ASSUME IInv, [Next]_vars PROVE Lifetime!Next \/ UNCHANGED Lifetime!vars
  OBVIOUS
<1>1. ASSUME NEW r \in Requests, Browser(r) PROVE UNCHANGED Lifetime!vars
  <2>1. ASSUME Deliver(r) PROVE Uneventful
    BY <2>1 DEF Deliver, storeVars, netVars, Uneventful, Minted, Creating
  <2> QED
    BY <1>1, <2>1, SendUneventful, LoginStutters, UneventfulStutters DEF Browser
<1>2. ASSUME NEW r \in Requests, Handler(r) PROVE UNCHANGED Lifetime!vars
  BY <1>2, HandlerUneventful, UneventfulStutters
<1>3. ASSUME NEW f \in flights, Inspector(f) PROVE UNCHANGED Lifetime!vars
  <2>1. Uneventful
    BY <1>3 DEF Inspector, InspectExecute, InspectSettle, InspectFail, storeVars, reqVars, Uneventful,
       Minted, Creating
  <2> QED
    BY <2>1, UneventfulStutters
<1>4. ASSUME NEW c \in commands, Redis(c) PROVE Lifetime!Next \/ UNCHANGED Lifetime!vars
  BY <1>4, CreateScriptMoves, ReserveScriptMoves, FinalizeScriptMoves, InvalidateScriptMoves,
     TombstoneScriptMoves, UneventfulStutters DEF Redis
<1>5. ASSUME NEW p \in posts, Issuer(p) PROVE UNCHANGED Lifetime!vars
  <2>1. Uneventful
    BY <1>5 DEF Issuer, IssuerExchange, IssuerRevoke, storeVars, reqVars, Uneventful, Minted, Creating
  <2> QED
    BY <2>1, UneventfulStutters
<1>6. ASSUME NEW s \in Sessions, RecordExpires(s) PROVE Lifetime!Next
  <2>1. Lifetime!End(s)
    BY <1>6, RecordEnds DEF RecordExpires, reqVars, netVars, Minted, Creating
  <2> QED
    BY <2>1 DEF Lifetime!Next
<1>7. ASSUME Restart \/ Tick \/ UNCHANGED vars PROVE UNCHANGED Lifetime!vars
  <2>1. Uneventful
    BY <1>7 DEF Restart, Tick, vars, storeVars, reqVars, netVars, Uneventful, Minted, Creating
  <2> QED
    BY <2>1, UneventfulStutters
<1> QED
  BY <1>1, <1>2, <1>3, <1>4, <1>5, <1>6, <1>7 DEF Next

\* The store, with all its requests, deadlines and lost calls, implements SessionLifecycle: a session
\* is created at most once, its generation moves by one out of a reservation, and it never comes back.
THEOREM Implements == Spec => LifetimeSpec
<1>1. Init => Lifetime!Init
  BY DEF Init, Lifetime!Init, Phase, Exists, NoRecord, Minted
<1> QED
  BY <1>1, Invariance, NextMoves, PTL DEF Spec, LifetimeSpec, Lifetime!Spec

(***************************************************************************)
(* What the browser can rely on: a session that was signed out stays out   *)
(* of the jar, no cookie is ahead of the store, and the winner of a        *)
(* reservation keeps it.                                                   *)
(*                                                                         *)
(* BInv (ProductSessionInductive) is inductive relative to IInv.  Most     *)
(* steps touch neither the record nor the jar (Untouched) and are proved   *)
(* in one lemma; the scripts that write the record, and the steps that     *)
(* move a cookie, are proved one by one.                                   *)
(***************************************************************************)

\* r was told how its session ended, and has not answered yet.
Ending(r) == \/ pc[r] = "tombstone" /\ reply[r].status \notin {Waiting, "stale"}
             \/ pc[r] = "revoke"

\* A step that touches neither the record nor a cookie, commits nothing and hands nothing out.
Untouched ==
    /\ UNCHANGED <<record, tombstone, jar, kind, cookie, signedOut>>
    /\ now' \in Nat /\ now <= now'
    /\ \A c \in commands' : c \in commands \/ c.op # "create"
    /\ ClaimsCarried'
    /\ \A q \in Requests :
          /\ SetsOut(q)' => SetsOut(q)
          /\ (Holds(q)' \/ pc'[q] = "exchange") => (Holds(q) \/ pc[q] = "exchange")
          /\ Ending(q)' => Ending(q) \/ Gone(cookie[q].id)
          /\ answer'[q].code = "signed_out" =>
                \/ answer'[q] = answer[q]
                \/ /\ answer'[q].effect = "clear"
                   /\ Gone(cookie[q].id) \/ Expired(cookie[q].id)

\* While a session is being stored, nothing of it is on its way to the browser.
LEMMA CreatingSilent ==
    ASSUME IInv, NEW s \in Sessions, s \notin Minted \/ Creating(s), NEW r \in Requests,
           cookie[r].id = s
    PROVE  ~SetsOut(r)
<1>1. /\ kind[r] = "login"
      /\ pc[r] = "create" => reply[r].status # "ok"
      /\ answer[r].effect # "set"
  BY DEF IInv, Unstored
<1>2. pc[r] # "finalize"
  BY <1>1 DEF IInv, Stages
<1> QED
  BY <1>1, <1>2 DEF SetsOut

\* A step that touches nothing keeps the invariant.
LEMMA UntouchedKeeps == ASSUME IInv, BInv, Untouched PROVE BInv'
<1>1. TypeOK
  BY DEF IInv
<1>2. /\ UNCHANGED <<record, tombstone, jar, kind, cookie, signedOut>>
      /\ now \in Nat /\ now' \in Nat /\ now <= now'
  BY <1>1 DEF Untouched, TypeOK
<1>3. Minted' = Minted
  BY <1>2 DEF Minted
<1>4. \A s \in Sessions : Gone(s) => Gone(s)'
  BY <1>2, <1>3 DEF Untouched, Gone, Exists, Creating
<1>5. \A s \in Sessions : Gone(s)' => Gone(s) \/ Creating(s)
  BY <1>2, <1>3 DEF Gone, Exists
<1>6. ASSUME NEW s, Expired(s) PROVE Expired(s)'
  <2>1. ASSUME NEW r \in Requests PROVE cookie[r].expiresAt \in Nat
    BY <1>1 DEF TypeOK, Cookie, NoCookie
  <2>2. jar.expiresAt \in Nat
    BY <1>1 DEF TypeOK, Cookie, NoCookie
  <2> QED
    BY <1>2, <1>3, <1>6, <2>1, <2>2 DEF Expired
<1>7. \A q \in Requests : (SetsOut(q)' => SetsOut(q))
  BY DEF Untouched
<1>8. SameEnd' /\ RecordsHeld' /\ CookieNeverAhead'
  BY <1>2 DEF BInv, SameEnd, RecordsHeld, CookieNeverAhead, Exists
<1>9. ClaimsCarried'
  BY DEF Untouched
<1>10. LoginUnknown' /\ CommitNewest'
  BY <1>2, <1>7 DEF BInv, LoginUnknown, CommitNewest, Exists
<1>11. EndedSilent'
  <2>1. ASSUME NEW s \in Sessions, Gone(s)'
        PROVE  Expired(s)' \/ \A r \in Requests : cookie'[r].id = s => ~SetsOut(r)'
    <3>1. CASE Gone(s)
      BY <1>2, <1>6, <1>7, <3>1 DEF BInv, EndedSilent
    <3>2. CASE Creating(s)
      BY <1>2, <1>7, <3>2, CreatingSilent
    <3> QED
      BY <1>5, <2>1, <3>1, <3>2
  <2> QED
    BY <2>1 DEF EndedSilent
<1>12. SignedOutGone'
  <2>1. ASSUME NEW r \in Requests, Ending(r)' PROVE Gone(cookie[r].id)'
    <3>1. Gone(cookie[r].id)
      BY <2>1 DEF Untouched, BInv, SignedOutGone, Ending
    <3> QED
      BY <1>2, <1>3, <3>1 DEF Untouched, Gone, Exists, Creating
  <2>2. ASSUME NEW r \in Requests, answer'[r].code = "signed_out"
        PROVE  answer'[r].effect = "clear" /\ (Gone(cookie[r].id)' \/ Expired(cookie[r].id)')
    <3>1. answer'[r].effect = "clear" /\ (Gone(cookie[r].id) \/ Expired(cookie[r].id))
      BY <2>2 DEF Untouched, BInv, SignedOutGone
    <3>2. Gone(cookie[r].id) => Gone(cookie[r].id)'
      BY <1>2, <1>3 DEF Untouched, Gone, Exists, Creating
    <3>3. Expired(cookie[r].id) => Expired(cookie[r].id)'
      <4>1. ASSUME NEW s, s = cookie[r].id, Expired(s) PROVE Expired(s)'
        BY <1>6, <4>1
      <4> QED
        BY <1>2, <4>1 DEF Expired
    <3> QED
      BY <3>1, <3>2, <3>3
  <2>3. \A s \in signedOut : Gone(s)' \/ Expired(s)'
    BY <1>1, <1>4, <1>6 DEF BInv, SignedOutGone, TypeOK
  <2> QED
    BY <1>2, <2>1, <2>2, <2>3 DEF SignedOutGone, Ending, Gone, Expired, Exists, Creating, Minted
<1>13. HolderUndisturbed'
  <2>1. ASSUME NEW r \in Requests, Holds(r)' \/ pc'[r] = "exchange", ~Live(cookie[r])
        PROVE  ~Live(cookie[r])'
    <3>1. cookie[r].expiresAt \in Nat
      BY <1>1 DEF TypeOK, Cookie, NoCookie
    <3> QED
      BY <1>2, <2>1, <3>1 DEF Live
  <2> QED
    BY <1>2, <2>1 DEF Untouched, BInv, HolderUndisturbed, Holds, Live
<1>14. SignedOutStaysOut'
  <2>1. Live(jar)' => Live(jar)
    BY <1>1, <1>2 DEF Live, TypeOK, Cookie, NoCookie
  <2> QED
    BY <1>2, <2>1 DEF BInv, SignedOutStaysOut, Live
<1> QED
  BY <1>8, <1>9, <1>10, <1>11, <1>12, <1>13, <1>14 DEF BInv

-----------------------------------------------------------------------------
(* The handlers *)

\* What a step of the handler of r does to the browser's side: it consumes its reply, answers, or
\* sends one call with its own claims.
Handles(r) ==
    /\ UNCHANGED <<record, tombstone, now, jar, kind, cookie, signedOut>>
    /\ \A q \in Requests \ {r} : pc'[q] = pc[q] /\ reply'[q] = reply[q] /\ answer'[q] = answer[q]
    /\ reply'[r].status = Waiting
    /\ answer'[r].effect = "set" => SetsOut(r)
    /\ pc'[r] = "exchange" => Holds(r)
    /\ pc'[r] = "reserve" => pc[r] = "inspect"
    /\ pc'[r] = "revoke" => Ending(r)
    /\ answer'[r].code = "signed_out" =>
          \/ answer'[r] = answer[r]
          \/ answer'[r].effect = "clear" /\ (Ending(r) \/ Expired(cookie[r].id))
    /\ \A c \in commands' :
          \/ c \in commands
          \/ /\ c.owner = r /\ c.generation = cookie[r].generation
             /\ \/ c.op = "tombstone" /\ kind[r] = "signout"
                \/ c.op \in {"reserve", "finalize"} /\ kind[r] = "refresh"
                \/ c.op = "invalidate" /\ kind[r] = "refresh" /\ pc'[r] = "invalidate"

\* A handler keeps the invariant.
LEMMA HandlesKeeps == ASSUME IInv, BInv, NEW r \in Requests, Handles(r) PROVE BInv'
<1>1. TypeOK
  BY DEF IInv
<1>2. /\ UNCHANGED <<record, tombstone, jar, kind, cookie, signedOut>>
      /\ now' \in Nat /\ now <= now'
  BY <1>1 DEF Handles, TypeOK
<1>3. \A c \in commands' : c \in commands \/ c.op # "create"
  BY DEF Handles
<1>4. ClaimsCarried'
  <2>1. \A c \in commands : c.op = "invalidate" => pc'[c.owner] \notin {"reserve", "exchange"}
    <3>1. ASSUME NEW c \in commands, c.op = "invalidate"
          PROVE  /\ c.owner \in Requests /\ pc[c.owner] \notin {"inspect", "reserve", "exchange"}
      BY <1>1, <3>1 DEF IInv, CommandsOwned, BInv, ClaimsCarried, TypeOK, Command
    <3> QED
      BY <3>1 DEF Handles, Holds
  <2>2. \A q \in Requests : kind'[q] = "login" => cookie'[q].generation = 0
    BY <1>2 DEF BInv, ClaimsCarried
  <2>3. ASSUME NEW c \in commands', c \notin commands
        PROVE  /\ c.generation = cookie'[c.owner].generation
               /\ c.op = "create" => c.expiresAt = cookie'[c.owner].expiresAt
               /\ c.op = "tombstone" => kind'[c.owner] = "signout"
               /\ c.op \in {"reserve", "finalize", "invalidate"} => kind'[c.owner] = "refresh"
               /\ c.op = "invalidate" => pc'[c.owner] \notin {"reserve", "exchange"}
    BY <1>2, <2>3 DEF Handles
  <2>4. ASSUME NEW c \in commands
        PROVE  /\ c.generation = cookie'[c.owner].generation
               /\ c.op = "create" => c.expiresAt = cookie'[c.owner].expiresAt
               /\ c.op = "tombstone" => kind'[c.owner] = "signout"
               /\ c.op \in {"reserve", "finalize", "invalidate"} => kind'[c.owner] = "refresh"
    BY <1>2 DEF BInv, ClaimsCarried
  <2> QED
    BY <2>1, <2>2, <2>3, <2>4 DEF ClaimsCarried
<1>5. ASSUME NEW q \in Requests
      PROVE  /\ SetsOut(q)' => SetsOut(q)
             /\ (Holds(q)' \/ pc'[q] = "exchange") => (Holds(q) \/ pc[q] = "exchange")
             /\ Ending(q)' => Ending(q)
             /\ answer'[q].code = "signed_out" =>
                   \/ answer'[q] = answer[q]
                   \/ answer'[q].effect = "clear" /\ (Ending(q) \/ Expired(cookie[q].id))
  BY DEF Handles, SetsOut, Holds, Ending, Waiting
<1>6. \A q \in Requests : Ending(q) => Gone(cookie[q].id)
  BY DEF Ending, BInv, SignedOutGone
<1>7. Untouched
  BY <1>2, <1>3, <1>4, <1>5, <1>6 DEF Untouched
<1> QED
  BY <1>7, UntouchedKeeps

\* A handler that answers.
LEMMA RespondKeeps ==
    ASSUME IInv, BInv, NEW r \in Requests, NEW code, NEW effect, Respond(r, code, effect),
           effect = "set" => SetsOut(r),
           code = "signed_out" => effect = "clear" /\ (Ending(r) \/ Expired(cookie[r].id)),
           UNCHANGED <<record, tombstone, now, jar, kind, cookie, commands, signedOut>>
    PROVE  BInv'
<1>1. TypeOK
  BY DEF IInv
<1>2. /\ pc'[r] = "answered" /\ reply'[r].status = Waiting
      /\ answer'[r] = [code |-> code, effect |-> effect]
      /\ \A q \in Requests \ {r} : pc'[q] = pc[q] /\ reply'[q] = reply[q] /\ answer'[q] = answer[q]
  BY <1>1 DEF Respond, TypeOK, NoReply
<1>3. Handles(r)
  BY <1>2 DEF Handles
<1> QED
  BY <1>3, HandlesKeeps

\* A handler that sends a script call and waits for it.
LEMMA CallKeeps ==
    ASSUME IInv, BInv, NEW r \in Requests, NEW op, NEW refresh, NEW expiresAt,
           Call(r, op, refresh, expiresAt),
           \/ op = "tombstone" /\ kind[r] = "signout"
           \/ op = "reserve" /\ kind[r] = "refresh" /\ pc[r] = "inspect"
           \/ op \in {"finalize", "invalidate"} /\ kind[r] = "refresh",
           UNCHANGED <<record, tombstone, now, jar, kind, cookie, answer, signedOut>>
    PROVE  BInv'
<1>1. TypeOK
  BY DEF IInv
<1> DEFINE c == [op |-> op, owner |-> r, id |-> cookie[r].id, generation |-> cookie[r].generation,
                 refresh |-> refresh, expiresAt |-> expiresAt, at |-> now]
<1>2. commands' = commands \cup {c}
  BY DEF Call
<1>3. /\ pc'[r] = op /\ reply'[r].status = Waiting
      /\ \A q \in Requests \ {r} : pc'[q] = pc[q] /\ reply'[q] = reply[q]
  BY <1>1 DEF Call, Await, TypeOK, NoReply
<1>4. answer[r].effect = "set" => SetsOut(r)
  BY DEF SetsOut
<1>5. c.owner = r /\ c.op = op /\ c.generation = cookie[r].generation
  OBVIOUS
<1> HIDE DEF c
<1>6. Handles(r)
  BY <1>2, <1>3, <1>4, <1>5 DEF Handles
<1> QED
  BY <1>6, HandlesKeeps

\* Every step of a handler keeps the invariant.
LEMMA HandlerKeepsB == ASSUME IInv, BInv, NEW r \in Requests, Handler(r) PROVE BInv'
<1> USE DEF storeVars, netVars
<1>1. CASE AfterCreate(r)
  <2>1. \/ Respond(r, "logged_in", "set") /\ SetsOut(r)
        \/ Respond(r, "unavailable", "keep")
    BY <1>1 DEF AfterCreate, Replied, SetsOut, Respond
  <2>2. UNCHANGED <<record, tombstone, now, jar, kind, cookie, commands, signedOut>>
    BY <1>1 DEF AfterCreate
  <2> QED
    BY <2>1, <2>2, RespondKeeps
<1>2. CASE ArriveInspect(r)
  <2>1. CASE Live(cookie[r])
    <3>1. TypeOK
      BY DEF IInv
    <3>2. /\ pc'[r] = "inspect" /\ reply'[r].status = Waiting /\ answer' = answer
          /\ \A q \in Requests \ {r} : pc'[q] = pc[q] /\ reply'[q] = reply[q]
          /\ UNCHANGED <<record, tombstone, now, jar, kind, cookie, commands, signedOut>>
      BY <1>2, <2>1, <3>1 DEF ArriveInspect, Await, TypeOK, NoReply
    <3>3. Handles(r)
      BY <3>2 DEF Handles, SetsOut
    <3> QED
      BY <3>3, HandlesKeeps
  <2>2. CASE ~Live(cookie[r])
    <3>1. Respond(r, "rejected", "keep")
      BY <1>2, <2>2 DEF ArriveInspect
    <3> QED
      BY <1>2, <3>1, RespondKeeps DEF ArriveInspect
  <2> QED
    BY <2>1, <2>2
<1>3. CASE ReadAfterInspect(r)
  <2>1. PICK code : Respond(r, code, "keep") /\ code # "signed_out"
    <3>1. reply[r].status \in {"active", "refreshing", "stale", "unconfirmed", "absent"}
      BY <1>3 DEF ReadAfterInspect, Replied, IInv, Stages, Lifecycle
    <3> QED
      BY <1>3, <3>1 DEF ReadAfterInspect, RefusalCode, Respond
  <2> QED
    BY <1>3, <2>1, RespondKeeps DEF ReadAfterInspect
<1>4. CASE RefreshAfterInspect(r)
  <2>1. CASE reply[r].status = "active"
    <3>1. Call(r, "reserve", 0, 0)
      BY <1>4, <2>1 DEF RefreshAfterInspect
    <3>2. /\ kind[r] = "refresh" /\ pc[r] = "inspect"
          /\ UNCHANGED <<record, tombstone, now, jar, kind, cookie, answer, signedOut>>
      BY <1>4, <2>1 DEF RefreshAfterInspect, Replied
    <3> QED
      BY <3>1, <3>2, CallKeeps
  <2>2. CASE reply[r].status # "active"
    <3>1. PICK code : Respond(r, code, "keep") /\ code # "signed_out"
      <4>1. reply[r].status \in {"refreshing", "stale", "unconfirmed", "absent"}
        BY <1>4, <2>2 DEF RefreshAfterInspect, Replied, IInv, Stages, Lifecycle
      <4> QED
        BY <1>4, <2>2, <4>1 DEF RefreshAfterInspect, RefusalCode, Respond
    <3>2. UNCHANGED <<record, tombstone, now, jar, kind, cookie, commands, signedOut>>
      BY <1>4, <2>2 DEF RefreshAfterInspect
    <3> QED
      BY <3>1, <3>2, RespondKeeps
  <2> QED
    BY <2>1, <2>2
<1>5. CASE AfterReserve(r)
  <2>1. CASE reply[r].status = "ok"
    <3>1. TypeOK
      BY DEF IInv
    <3>2. /\ pc'[r] = "exchange" /\ reply'[r].status = Waiting /\ answer' = answer /\ Holds(r)
          /\ \A q \in Requests \ {r} : pc'[q] = pc[q] /\ reply'[q] = reply[q]
          /\ UNCHANGED <<record, tombstone, now, jar, kind, cookie, commands, signedOut>>
      BY <1>5, <2>1, <3>1 DEF AfterReserve, Replied, Holds, Await, TypeOK, NoReply
    <3>3. Handles(r)
      BY <3>2 DEF Handles, SetsOut
    <3> QED
      BY <3>3, HandlesKeeps
  <2>2. CASE reply[r].status # "ok"
    <3>1. Respond(r, "conflict", "keep")
      BY <1>5, <2>2 DEF AfterReserve
    <3> QED
      BY <1>5, <3>1, RespondKeeps DEF AfterReserve
  <2> QED
    BY <2>1, <2>2
<1>6. CASE AfterExchange(r)
  <2>1. Call(r, "finalize", reply[r].refresh, 0) /\ kind[r] = "refresh"
    BY <1>6 DEF AfterExchange, Replied, IInv, Stages
  <2>2. PICK refresh : refresh = reply[r].refresh
    OBVIOUS
  <2>3. Call(r, "finalize", refresh, 0)
    BY <2>1, <2>2 DEF Call
  <2>4. UNCHANGED <<record, tombstone, now, jar, kind, cookie, answer, signedOut>>
    BY <1>6 DEF AfterExchange
  <2> QED
    BY <2>1, <2>3, <2>4, CallKeeps
<1>7. CASE RefreshFails(r)
  <2>1. Call(r, "invalidate", 0, 0) /\ kind[r] = "refresh"
    BY <1>7 DEF RefreshFails, Replied, IInv, Stages
  <2>2. UNCHANGED <<record, tombstone, now, jar, kind, cookie, answer, signedOut>>
    BY <1>7 DEF RefreshFails
  <2> QED
    BY <2>1, <2>2, CallKeeps
<1>8. CASE AfterFinalize(r)
  <2>1. \/ Respond(r, "refreshed", "set") /\ SetsOut(r)
        \/ Respond(r, "finalize_conflict", "keep")
    BY <1>8 DEF AfterFinalize, Replied, SetsOut, Respond
  <2>2. UNCHANGED <<record, tombstone, now, jar, kind, cookie, commands, signedOut>>
    BY <1>8 DEF AfterFinalize
  <2> QED
    BY <2>1, <2>2, RespondKeeps
<1>9. CASE AfterInvalidate(r)
  BY <1>9, RespondKeeps DEF AfterInvalidate
<1>10. CASE ArriveSignout(r)
  <2>1. CASE Live(cookie[r])
    <3>1. Call(r, "tombstone", 0, 0) /\ kind[r] = "signout"
      BY <1>10, <2>1 DEF ArriveSignout
    <3>2. UNCHANGED <<record, tombstone, now, jar, kind, cookie, answer, signedOut>>
      BY <1>10, <2>1 DEF ArriveSignout
    <3> QED
      BY <3>1, <3>2, CallKeeps
  <2>2. CASE ~Live(cookie[r])
    <3>1. Respond(r, "signed_out", "clear")
      BY <1>10, <2>2 DEF ArriveSignout
    <3>2. cookie[r].expiresAt <= now
      BY <1>10, <2>2, SessionAssumption
         DEF ArriveSignout, IInv, Stages, TypeOK, Live, Cookie
    <3>3. /\ kind[r] = "signout" /\ cookie[r].id \in Sessions
          /\ cookie[r].id \in Minted
      BY <1>10 DEF ArriveSignout, IInv, Stages, Cookie, Unstored
    <3>4. Expired(cookie[r].id)
      BY <3>2, <3>3 DEF Expired, BInv, SameEnd
    <3> QED
      BY <1>10, <2>2, <3>1, <3>4, RespondKeeps DEF ArriveSignout
  <2> QED
    BY <2>1, <2>2
<1>11. CASE AfterTombstone(r)
  <2>1. CASE reply[r].status = "stale"
    <3>1. Respond(r, "stale_session", "keep")
      BY <1>11, <2>1 DEF AfterTombstone
    <3> QED
      BY <1>11, <3>1, RespondKeeps DEF AfterTombstone
  <2>2. CASE reply[r].status = "active"
    <3>1. TypeOK
      BY DEF IInv
    <3>2. /\ pc'[r] = "revoke" /\ reply'[r].status = Waiting /\ answer' = answer /\ Ending(r)
          /\ \A q \in Requests \ {r} : pc'[q] = pc[q] /\ reply'[q] = reply[q]
          /\ UNCHANGED <<record, tombstone, now, jar, kind, cookie, commands, signedOut>>
      BY <1>11, <2>2, <3>1 DEF AfterTombstone, Replied, Ending, Await, TypeOK, NoReply, Waiting
    <3>3. Handles(r)
      BY <3>2 DEF Handles, SetsOut
    <3> QED
      BY <3>3, HandlesKeeps
  <2>3. CASE reply[r].status \notin {"stale", "active"}
    <3>1. Respond(r, "signed_out", "clear") /\ Ending(r)
      BY <1>11, <2>3 DEF AfterTombstone, Replied, Ending
    <3> QED
      BY <1>11, <2>3, <3>1, RespondKeeps DEF AfterTombstone
  <2> QED
    BY <2>1, <2>2, <2>3
<1>12. CASE AfterRevoke(r)
  <2>1. Respond(r, "signed_out", "clear") /\ Ending(r)
    BY <1>12 DEF AfterRevoke, Ending
  <2> QED
    BY <1>12, <2>1, RespondKeeps DEF AfterRevoke
<1>13. CASE CallFails(r)
  <2>1. PICK code, effect : Respond(r, code, effect) /\ code # "signed_out" /\ effect # "set"
    <3>1. CASE pc[r] \in {"create", "reserve"}
      BY <1>13, <3>1 DEF CallFails, Respond
    <3>2. CASE pc[r] = "invalidate"
      BY <1>13, <3>2 DEF CallFails, Respond
    <3>3. CASE pc[r] = "tombstone"
      BY <1>13, <3>3 DEF CallFails, Respond
    <3> QED
      BY <1>13, <3>1, <3>2, <3>3 DEF CallFails
  <2> QED
    BY <1>13, <2>1, RespondKeeps DEF CallFails
<1> QED
  BY <1>1, <1>2, <1>3, <1>4, <1>5, <1>6, <1>7, <1>8, <1>9, <1>10, <1>11, <1>12, <1>13 DEF Handler

-----------------------------------------------------------------------------
(* Inspections, the issuer, the process and the clock *)

\* Steps that only end waits, deliver refusals or let time pass.
Background ==
    /\ UNCHANGED <<record, tombstone, jar, kind, cookie, signedOut>>
    /\ now' \in Nat /\ now <= now' /\ commands' \subseteq commands
    /\ \A q \in Requests :
          /\ pc'[q] = pc[q] \/ pc'[q] \in {"answered", "done"}
          /\ answer'[q] = answer[q] \/ answer'[q] = [code |-> "unavailable", effect |-> "keep"]
          /\ \/ reply'[q] = reply[q]
             \/ reply'[q].status = Waiting
             \/ pc[q] \in {"inspect", "exchange", "invalidate"}
             \/ reply'[q].status = "refused" /\ pc[q] # "tombstone"

\* Such a step keeps the invariant.
LEMMA BackgroundKeeps == ASSUME IInv, BInv, Background PROVE BInv'
<1>1. /\ UNCHANGED <<record, tombstone, jar, kind, cookie, signedOut>>
      /\ now' \in Nat /\ now <= now' /\ commands' \subseteq commands
  BY DEF Background
<1>2. ASSUME NEW c \in commands PROVE c.owner \in Requests
  BY DEF IInv, TypeOK, Command
<1>3. ClaimsCarried'
  BY <1>1, <1>2 DEF Background, BInv, ClaimsCarried
<1>4. ASSUME NEW q \in Requests
      PROVE  /\ SetsOut(q)' => SetsOut(q)
             /\ (Holds(q)' \/ pc'[q] = "exchange") => (Holds(q) \/ pc[q] = "exchange")
             /\ Ending(q)' => Ending(q)
             /\ answer'[q].code = "signed_out" => answer'[q] = answer[q]
  BY DEF Background, SetsOut, Holds, Ending, Waiting
<1>5. Untouched
  BY <1>1, <1>3, <1>4 DEF Untouched
<1> QED
  BY <1>5, UntouchedKeeps

\* A script that refuses.
LEMMA RefuseKeepsB ==
    ASSUME IInv, BInv, NEW c \in commands, Refuse(c), c.op # "tombstone" PROVE BInv'
<1>1. /\ TypeOK /\ Stages /\ Resolve(c, "refused", 0) /\ UNCHANGED <<record, tombstone>>
  BY DEF IInv, Refuse, storeVars
<1>2. /\ c \in Command /\ commands' = commands \ {c}
      /\ UNCHANGED <<now, jar, kind, pc, cookie, answer, flights, posts, issuer, signedOut>>
      /\ \A q \in Requests :
            \/ reply'[q] = reply[q]
            \/ /\ q = c.owner /\ pc[q] = c.op
               /\ reply'[q] = [status |-> "refused", refresh |-> 0]
  BY <1>1, ResolveTypes DEF Lifecycle
<1>3. Background
  BY <1>1, <1>2 DEF Background, TypeOK
<1> QED
  BY <1>3, BackgroundKeeps

\* Inspections, posts at the issuer, a restart and the clock.
LEMMA BackgroundSteps ==
    ASSUME IInv, BInv,
           \/ \E f \in flights : Inspector(f)
           \/ \E p \in posts : Issuer(p)
           \/ Restart \/ Tick \/ UNCHANGED vars
    PROVE  BInv'
<1> USE DEF storeVars, reqVars, netVars
<1>1. TypeOK /\ now \in Nat
  BY DEF IInv, TypeOK
<1>2. CASE \E f \in flights : Inspector(f)
  <2>1. PICK f \in flights : InspectExecute(f) \/ InspectSettle(f) \/ InspectFail(f)
    BY <1>2 DEF Inspector
  <2>2. /\ UNCHANGED <<record, tombstone, now, jar, kind, cookie, commands, signedOut>>
        /\ \A q \in Requests :
              /\ pc'[q] = pc[q] \/ pc'[q] = "answered"
              /\ answer'[q] = answer[q] \/ answer'[q] = [code |-> "unavailable", effect |-> "keep"]
              /\ reply'[q] = reply[q] \/ pc[q] = "inspect"
    <3>1. CASE InspectExecute(f)
      BY <3>1 DEF InspectExecute
    <3>2. CASE InspectSettle(f)
      BY <3>2 DEF InspectSettle, Waiters
    <3>3. CASE InspectFail(f)
      BY <3>3 DEF InspectFail
    <3> QED
      BY <2>1, <3>1, <3>2, <3>3
  <2>3. Background
    BY <1>1, <2>2 DEF Background
  <2> QED
    BY <2>3, BackgroundKeeps
<1>3. CASE \E p \in posts : Issuer(p)
  <2>1. PICK p \in posts : IssuerExchange(p) \/ IssuerRevoke(p)
    BY <1>3 DEF Issuer
  <2>2. /\ UNCHANGED <<record, tombstone, now, jar, kind, pc, cookie, answer, commands, signedOut>>
        /\ \A q \in Requests : reply'[q] = reply[q] \/ pc[q] = "exchange"
    <3>1. CASE IssuerExchange(p)
      BY <1>1, <3>1 DEF IssuerExchange, TypeOK
    <3>2. CASE IssuerRevoke(p)
      BY <3>2 DEF IssuerRevoke
    <3> QED
      BY <2>1, <3>1, <3>2
  <2>3. Background
    BY <1>1, <2>2 DEF Background
  <2> QED
    BY <2>3, BackgroundKeeps
<1>4. CASE Restart
  <2>1. /\ UNCHANGED <<record, tombstone, now, jar, kind, cookie, answer, commands, signedOut>>
        /\ \A q \in Requests : /\ pc'[q] = pc[q] \/ pc'[q] = "done"
                               /\ reply'[q].status = Waiting
    BY <1>4 DEF Restart, NoReply
  <2>2. Background
    BY <1>1, <2>1 DEF Background
  <2> QED
    BY <2>2, BackgroundKeeps
<1>5. CASE Tick \/ UNCHANGED vars
  <2>1. /\ UNCHANGED <<record, tombstone, jar, kind, pc, cookie, reply, answer, commands, signedOut>>
        /\ now' \in Nat /\ now <= now'
    BY <1>1, <1>5 DEF Tick, vars
  <2>2. Background
    BY <2>1 DEF Background
  <2> QED
    BY <2>2, BackgroundKeeps
<1> QED
  BY <1>2, <1>3, <1>4, <1>5

-----------------------------------------------------------------------------
(* The scripts that write the record *)

\* Nobody is told "signed_out" of a session that is neither gone nor at its end, when sessions that
\* are gone, or at their end, stay so, and no answer is given.
LEMMA SignedOutKept ==
    ASSUME IInv, BInv, UNCHANGED <<kind, cookie, answer, signedOut>>,
           \A s \in Sessions : (Gone(s) => Gone(s)') /\ (Expired(s) => Expired(s)'),
           \A q \in Requests :
              Ending(q)' => (Ending(q) \/ \E s \in Sessions : cookie[q].id = s /\ Gone(s)')
    PROVE  SignedOutGone'
<1>1. TypeOK /\ Stages
  BY DEF IInv
<1>2. ASSUME NEW q \in Requests, NEW s \in Sessions, cookie[q].id = s
      PROVE  /\ Gone(s)' => Gone(cookie[q].id)'
             /\ Expired(s)' => Expired(cookie[q].id)'
             /\ Gone(cookie[q].id) => Gone(s)
             /\ Expired(cookie[q].id) => Expired(s)
  BY <1>2 DEF Gone, Exists, Creating, Minted, Expired
<1>3. ASSUME NEW q \in Requests, Ending(q)' PROVE Gone(cookie[q].id)'
  <2>1. Ending(q) => cookie[q].id \in Sessions /\ Gone(cookie[q].id)
    BY <1>1 DEF BInv, SignedOutGone, Ending, Stages, Cookie
  <2>2. \E s \in Sessions : cookie[q].id = s /\ Gone(s)'
    BY <1>2, <1>3, <2>1
  <2> QED
    BY <1>2, <2>2
<1>4. ASSUME NEW q \in Requests, answer'[q].code = "signed_out"
      PROVE  answer'[q].effect = "clear" /\ (Gone(cookie[q].id)' \/ Expired(cookie[q].id)')
  <2>1. cookie[q].id \in Sessions
    BY <1>1, <1>4 DEF Stages, Cookie, NoAnswer
  <2>2. answer'[q].effect = "clear" /\ (Gone(cookie[q].id) \/ Expired(cookie[q].id))
    BY <1>4 DEF BInv, SignedOutGone
  <2> QED
    BY <1>2, <2>1, <2>2
<1>5. \A s \in signedOut' : Gone(s)' \/ Expired(s)'
  BY <1>1 DEF BInv, SignedOutGone, TypeOK
<1> QED
  BY <1>3, <1>4, <1>5 DEF SignedOutGone, Ending, Gone, Expired, Exists, Creating, Minted

\* createSession: the first cookie of the session is known to its login only.
LEMMA CreateScriptKeepsB == ASSUME IInv, BInv, NEW c \in commands, CreateScript(c) PROVE BInv'
<1>1. CASE Refuse(c)
  BY <1>1, RefuseKeepsB DEF CreateScript
<1>2. CASE CanCreate(c) /\ ~Refuse(c)
  <2> DEFINE s == c.id
             o == c.owner
  <2>1. /\ TypeOK /\ Stages /\ Resolve(c, "ok", 0) /\ c.op = "create" /\ UNCHANGED tombstone
        /\ record' = [record EXCEPT ![s] = CreatedRecord(c)] /\ ~tombstone[s]
    BY <1>2 DEF IInv, CreateScript, CanCreate
  <2>2. /\ c \in Command /\ commands' = commands \ {c}
        /\ UNCHANGED <<now, jar, kind, pc, cookie, answer, flights, posts, issuer, signedOut>>
        /\ \A q \in Requests : reply'[q] = reply[q] \/ (q = o /\ pc[q] = "create")
    BY <2>1, ResolveTypes
  <2>3. /\ s \in Sessions /\ Creating(s) /\ o \in Requests /\ kind[o] = "login" /\ cookie[o].id = s
        /\ c.expiresAt = cookie[o].expiresAt
    BY <2>1, <2>2 DEF Creating, Command, IInv, CommandsOwned, BInv, ClaimsCarried
  <2>4. /\ jar.id # s
        /\ \A q \in Requests : cookie[q].id = s => q = o
    BY <2>3 DEF IInv, Unstored, Logins
  <2>5. /\ record'[s].state = "active" /\ record'[s].expiresAt = c.expiresAt
        /\ record'[s].generation = 0
        /\ \A x \in Sessions \ {s} : record'[x] = record[x]
    BY <2>1, <2>3 DEF TypeOK, CreatedRecord, NoRecord
  <2>6. \A q \in Requests : /\ SetsOut(q)' => SetsOut(q) \/ q = o
                            /\ Holds(q)' => Holds(q)
                            /\ Ending(q)' => Ending(q)
    BY <2>2 DEF SetsOut, Holds, Ending
  <2>7. \A x \in Sessions : Gone(x) => x # s /\ Gone(x)'
    BY <2>2, <2>3, <2>5 DEF Gone, Exists, Creating, Minted
  <2>8. \A x \in Sessions : Gone(x)' => x # s /\ Gone(x)
    <3>1. ASSUME NEW x \in Sessions, x # s, Creating(x) PROVE Creating(x)'
      BY <2>2, <3>1 DEF Creating
    <3> QED
      BY <2>2, <2>5, <3>1 DEF Gone, Exists, Minted
  <2>9. \A x : Expired(x)' <=> Expired(x)
    BY <2>2 DEF Expired, Minted
  <2>10. SameEnd'
    BY <2>2, <2>3, <2>4, <2>5 DEF BInv, SameEnd, Exists
  <2>11. ClaimsCarried'
    BY <2>2 DEF BInv, ClaimsCarried
  <2>12. RecordsHeld'
    BY <2>1, <2>2, <2>5 DEF BInv, RecordsHeld, Exists
  <2>13. LoginUnknown'
    BY <2>2, <2>3, <2>4, <2>6 DEF BInv, LoginUnknown
  <2>14. CommitNewest'
    <3>1. ASSUME NEW q \in Requests, SetsOut(q)', kind[q] # "login" PROVE SetsOut(q) /\ cookie[q].id # s
      BY <2>3, <2>4, <2>6, <3>1
    <3>2. \A x \in Sessions : x # s => (Exists(x)' <=> Exists(x)) /\ record'[x] = record[x]
      BY <2>5 DEF Exists
    <3> QED
      BY <2>2, <2>3, <2>6, <3>1, <3>2 DEF BInv, CommitNewest
  <2>15. EndedSilent'
    BY <2>2, <2>3, <2>6, <2>8, <2>9 DEF BInv, EndedSilent
  <2>16. SignedOutGone'
    BY <2>2, <2>6, <2>7, <2>9, SignedOutKept
  <2>17. HolderUndisturbed'
    <3>1. ASSUME NEW q \in Requests, Holds(q)' \/ pc'[q] = "exchange"
          PROVE  (Holds(q) \/ pc[q] = "exchange") /\ cookie[q].id \in Sessions \ {s}
      <4>1. Holds(q) \/ pc[q] = "exchange"
        BY <2>2, <2>6, <3>1
      <4>2. kind[q] # "login" /\ cookie[q] \in Cookie
        BY <2>1, <4>1 DEF Stages, Holds
      <4> QED
        BY <2>3, <2>4, <4>1, <4>2 DEF Cookie
    <3> QED
      BY <2>1, <2>2, <2>5, <3>1 DEF BInv, HolderUndisturbed, Live, Holds
  <2>18. CookieNeverAhead'
    <3>1. cookie[o].generation = 0
      BY <2>3 DEF BInv, ClaimsCarried
    <3> QED
      BY <2>2, <2>3, <2>4, <2>5, <3>1 DEF BInv, CookieNeverAhead, Exists
  <2>19. SignedOutStaysOut'
    BY <2>2 DEF BInv, SignedOutStaysOut, Live
  <2> QED
    BY <2>10, <2>11, <2>12, <2>13, <2>14, <2>15, <2>16, <2>17, <2>18, <2>19 DEF BInv
<1> QED
  BY <1>1, <1>2 DEF CreateScript

\* reserveRefresh: the record names its winner, a refresh of the generation it found.
LEMMA ReserveScriptKeepsB == ASSUME IInv, BInv, NEW c \in commands, ReserveScript(c) PROVE BInv'
<1>1. CASE Refuse(c)
  BY <1>1, RefuseKeepsB DEF ReserveScript
<1>2. CASE CanReserve(c) /\ ~Refuse(c)
  <2> DEFINE s == c.id
             o == c.owner
  <2>1. /\ TypeOK /\ Stages /\ Resolve(c, "ok", record[s].refresh) /\ c.op = "reserve"
        /\ UNCHANGED tombstone /\ c \in Command
        /\ record' = [record EXCEPT ![s] = ReservedRecord(c)] /\ ~tombstone[s]
        /\ record[s].state = "active" /\ record[s].generation = c.generation
    BY <1>2 DEF IInv, ReserveScript, CanReserve, TypeOK
  <2>2. /\ s \in Sessions /\ o \in Requests /\ kind[o] = "refresh" /\ cookie[o].id = s
        /\ cookie[o].generation = c.generation
    BY <2>1 DEF Command, IInv, CommandsOwned, BInv, ClaimsCarried
  <2>3. record[s].refresh \in Nat
    BY <2>1, <2>2 DEF TypeOK, Record
  <2>4. /\ commands' = commands \ {c}
        /\ UNCHANGED <<now, jar, kind, pc, cookie, answer, flights, posts, issuer, signedOut>>
        /\ \A q \in Requests : reply'[q] = reply[q] \/ (q = o /\ pc[q] = "reserve")
    BY <2>1, <2>3, ResolveTypes
  <2>5. /\ record'[s].state = "refreshing" /\ record'[s].reservation = o
        /\ record'[s].expiresAt = record[s].expiresAt
        /\ record'[s].generation = record[s].generation
        /\ \A x \in Sessions \ {s} : record'[x] = record[x]
    BY <2>1, <2>2 DEF TypeOK, ReservedRecord, Record
  <2>6. \A q \in Requests : /\ SetsOut(q)' => SetsOut(q)
                            /\ Holds(q)' => Holds(q) \/ q = o
                            /\ Ending(q)' => Ending(q)
    BY <2>4 DEF SetsOut, Holds, Ending
  <2>7. \A x \in Sessions : /\ Exists(x)' <=> Exists(x)
                            /\ record'[x].generation = record[x].generation
                            /\ record'[x].expiresAt = record[x].expiresAt
    BY <2>1, <2>5 DEF Exists
  <2>8. \A x : Creating(x)' <=> Creating(x)
    BY <2>1, <2>4 DEF Creating
  <2>9. \A x \in Sessions : Gone(x)' <=> Gone(x)
    BY <2>4, <2>7, <2>8 DEF Gone, Minted
  <2>10. \A x : Expired(x)' <=> Expired(x)
    BY <2>4 DEF Expired, Minted
  <2>11. SameEnd'
    BY <2>4, <2>7 DEF BInv, SameEnd
  <2>12. ClaimsCarried'
    BY <2>4 DEF BInv, ClaimsCarried
  <2>13. RecordsHeld'
    BY <2>1, <2>2, <2>4, <2>5, <2>7 DEF BInv, RecordsHeld
  <2>14. LoginUnknown'
    BY <2>4, <2>6 DEF BInv, LoginUnknown
  <2>15. CommitNewest'
    BY <2>4, <2>6, <2>7 DEF BInv, CommitNewest
  <2>16. EndedSilent'
    BY <2>4, <2>6, <2>9, <2>10 DEF BInv, EndedSilent
  <2>17. SignedOutGone'
    BY <2>4, <2>6, <2>9, <2>10, SignedOutKept
  <2>18. HolderUndisturbed'
    <3>1. ASSUME NEW q \in Requests, Holds(q)' \/ pc'[q] = "exchange", q # o
          PROVE  (Holds(q) \/ pc[q] = "exchange") /\ cookie[q].id \in Sessions
      <4>1. Holds(q) \/ pc[q] = "exchange"
        BY <2>4, <2>6, <3>1
      <4> QED
        BY <2>1, <4>1 DEF Stages, Holds, Cookie
    <3>2. ASSUME NEW q \in Requests, Holds(q)' \/ pc'[q] = "exchange", q # o,
                 record[cookie[q].id].state = "refreshing"
          PROVE  record'[cookie[q].id] = record[cookie[q].id]
      BY <2>1, <2>5, <3>1, <3>2
    <3> QED
      BY <2>1, <2>2, <2>4, <2>5, <3>1, <3>2 DEF BInv, HolderUndisturbed, Live, Holds
  <2>19. CookieNeverAhead'
    BY <2>4, <2>7 DEF BInv, CookieNeverAhead
  <2>20. SignedOutStaysOut'
    BY <2>4 DEF BInv, SignedOutStaysOut, Live
  <2> QED
    BY <2>11, <2>12, <2>13, <2>14, <2>15, <2>16, <2>17, <2>18, <2>19, <2>20 DEF BInv
<1> QED
  BY <1>1, <1>2 DEF ReserveScript

\* While a session is stored and a request carries its current generation, no claims of it are on
\* their way to the browser.
LEMMA Silence ==
    ASSUME IInv, BInv, NEW s \in Sessions, Exists(s), NEW o \in Requests, kind[o] # "login",
           cookie[o].id = s, cookie[o].generation = record[s].generation,
           NEW r \in Requests, cookie[r].id = s
    PROVE  ~SetsOut(r)
<1>1. /\ record[s].generation \in Nat /\ cookie[r].generation \in Nat
  BY DEF IInv, TypeOK, Record, Cookie, NoCookie
<1>2. CASE kind[r] = "login"
  BY <1>2 DEF BInv, LoginUnknown
<1>3. CASE kind[r] # "login"
  BY <1>1, <1>3 DEF BInv, CommitNewest
<1> QED
  BY <1>2, <1>3

\* finalizeRefresh: the winner's next claims succeed every cookie of the session.
LEMMA FinalizeScriptKeepsB == ASSUME IInv, BInv, NEW c \in commands, FinalizeScript(c) PROVE BInv'
<1>1. CASE Refuse(c)
  BY <1>1, RefuseKeepsB DEF FinalizeScript
<1>2. CASE CanFinalize(c) /\ ~Refuse(c)
  <2> DEFINE s == c.id
             o == c.owner
  <2>1. /\ TypeOK /\ Stages /\ Resolve(c, "ok", 0) /\ c.op = "finalize"
        /\ UNCHANGED tombstone /\ c \in Command
        /\ record' = [record EXCEPT ![s] = FinalizedRecord(c)] /\ ~tombstone[s]
        /\ record[s].state = "refreshing" /\ record[s].generation = c.generation
        /\ record[s].reservation = o
    BY <1>2 DEF IInv, FinalizeScript, CanFinalize, TypeOK
  <2>2. /\ s \in Sessions /\ o \in Requests /\ kind[o] = "refresh" /\ cookie[o].id = s
        /\ cookie[o].generation = record[s].generation /\ Exists(s)
        /\ pc[o] \notin {"reserve", "exchange"}
    BY <2>1 DEF Command, IInv, CommandsOwned, BInv, ClaimsCarried, Exists
  <2>3. \A q \in Requests : cookie[q].id = s => ~SetsOut(q)
    BY <2>2, Silence
  <2>4. /\ commands' = commands \ {c}
        /\ UNCHANGED <<now, jar, kind, pc, cookie, answer, flights, posts, issuer, signedOut>>
        /\ \A q \in Requests : reply'[q] = reply[q] \/ (q = o /\ pc[q] = "finalize")
    BY <2>1, ResolveTypes
  <2>5. /\ record'[s].state = "active" /\ record'[s].expiresAt = record[s].expiresAt
        /\ record'[s].generation = record[s].generation + 1 /\ record[s].generation \in Nat
        /\ \A x \in Sessions \ {s} : record'[x] = record[x]
    BY <2>1, <2>2 DEF TypeOK, FinalizedRecord, Record
  <2>6. \A q \in Requests : /\ SetsOut(q)' => SetsOut(q) \/ q = o
                            /\ Holds(q)' => Holds(q)
                            /\ Ending(q)' => Ending(q)
    BY <2>4 DEF SetsOut, Holds, Ending
  <2>7. \A x \in Sessions : /\ Exists(x)' <=> Exists(x)
                            /\ record'[x].expiresAt = record[x].expiresAt
    BY <2>1, <2>5 DEF Exists
  <2>8. \A x : Creating(x)' <=> Creating(x)
    BY <2>1, <2>4 DEF Creating
  <2>9. \A x \in Sessions : Gone(x)' <=> Gone(x)
    BY <2>4, <2>7, <2>8 DEF Gone, Minted
  <2>10. \A x : Expired(x)' <=> Expired(x)
    BY <2>4 DEF Expired, Minted
  <2>11. SameEnd'
    BY <2>4, <2>7 DEF BInv, SameEnd
  <2>12. ClaimsCarried'
    BY <2>4 DEF BInv, ClaimsCarried
  <2>13. RecordsHeld'
    BY <2>1, <2>2, <2>4, <2>5, <2>7 DEF BInv, RecordsHeld
  <2>14. LoginUnknown'
    BY <2>2, <2>4, <2>6 DEF BInv, LoginUnknown
  <2>15. CommitNewest'
    <3>1. ASSUME NEW q \in Requests, SetsOut(q)', kind[q] # "login", q # o
          PROVE  SetsOut(q) /\ cookie[q].id # s
      BY <2>3, <2>6, <3>1
    <3>2. \A q \in Requests : (SetsOut(q)' /\ cookie[q].id = s) => q = o
      BY <2>3, <2>6
    <3>3. /\ \A q \in Requests : cookie[q].id = s => cookie[q].generation <= cookie[o].generation
          /\ jar.id = s => jar.generation <= cookie[o].generation
      BY <2>2 DEF BInv, CookieNeverAhead
    <3>4. cookie[o].generation < record'[s].generation
      BY <2>2, <2>5
    <3>5. \A x \in Sessions : (x # s /\ Exists(x)') => Exists(x) /\ record'[x] = record[x]
      BY <2>5, <2>7
    <3>6. ASSUME NEW q \in Requests, SetsOut(q)', kind[q] # "login", q # o
          PROVE  /\ \A x \in Sessions : (cookie[q].id = x /\ Exists(x)') =>
                       cookie[q].generation < record'[x].generation
                 /\ \A z \in Requests : cookie[z].id = cookie[q].id =>
                       /\ cookie[z].generation <= cookie[q].generation
                       /\ SetsOut(z)' => z = q
                 /\ jar.id = cookie[q].id => jar.generation <= cookie[q].generation
      BY <2>2, <2>6, <3>1, <3>5, <3>6 DEF BInv, CommitNewest
    <3> QED
      BY <2>2, <2>4, <3>2, <3>3, <3>4, <3>6 DEF CommitNewest
  <2>16. EndedSilent'
    <3>1. \A x \in Sessions : Gone(x) => x # s
      BY <2>2 DEF Gone
    <3> QED
      BY <2>2, <2>4, <2>6, <2>9, <2>10, <3>1 DEF BInv, EndedSilent
  <2>17. SignedOutGone'
    BY <2>4, <2>6, <2>9, <2>10, SignedOutKept
  <2>18. HolderUndisturbed'
    <3>1. ASSUME NEW q \in Requests, Holds(q)' \/ pc'[q] = "exchange"
          PROVE  (Holds(q) \/ pc[q] = "exchange") /\ cookie[q].id \in Sessions /\ q # o
      <4>1. Holds(q) \/ pc[q] = "exchange"
        BY <2>4, <2>6, <3>1
      <4> QED
        BY <2>1, <2>2, <4>1 DEF Stages, Holds, Cookie
    <3>2. ASSUME NEW q \in Requests, Holds(q)' \/ pc'[q] = "exchange",
                 record[cookie[q].id].reservation = q
          PROVE  record'[cookie[q].id] = record[cookie[q].id]
      BY <2>1, <2>5, <3>1, <3>2
    <3> QED
      BY <2>1, <2>4, <3>1, <3>2 DEF BInv, HolderUndisturbed, Live, Holds
  <2>19. CookieNeverAhead'
    <3>1. /\ \A q \in Requests : cookie[q].generation \in Nat
          /\ jar.generation \in Nat
      BY <2>1 DEF TypeOK, Cookie, NoCookie
    <3> QED
      BY <2>4, <2>5, <2>7, <3>1 DEF BInv, CookieNeverAhead
  <2>20. SignedOutStaysOut'
    BY <2>4 DEF BInv, SignedOutStaysOut, Live
  <2> QED
    BY <2>11, <2>12, <2>13, <2>14, <2>15, <2>16, <2>17, <2>18, <2>19, <2>20 DEF BInv
<1> QED
  BY <1>1, <1>2 DEF FinalizeScript

\* A session s that ends.  Its claims are not on their way to the browser, or it was at its end; and
\* a winner that loses it loses it to that end or to a sign-out with the same claims.
LEMMA EndKeeps ==
    ASSUME IInv, BInv, NEW s \in Sessions, s \in Minted, ~Creating(s),
           record' = [record EXCEPT ![s] = NoRecord],
           tombstone' = tombstone \/ tombstone' = [tombstone EXCEPT ![s] = TRUE],
           UNCHANGED <<now, jar, kind, pc, cookie, answer, signedOut>>,
           commands' \subseteq commands,
           \A c \in commands : c.op = "create" => c \in commands',
           Expired(s) \/ \A q \in Requests : cookie[q].id = s => ~SetsOut(q),
           \A q \in Requests : /\ SetsOut(q)' => SetsOut(q)
                               /\ Holds(q)' => Holds(q)
                               /\ Ending(q)' => Ending(q) \/ cookie[q].id = s,
           \A q \in Requests :
              (/\ Holds(q) \/ pc[q] = "exchange"
               /\ cookie[q].id = s /\ record[s].state = "refreshing" /\ record[s].reservation = q) =>
                 \/ ~Live(cookie[q])
                 \/ tombstone'[s] /\ \E x \in Requests : kind[x] = "signout" /\ cookie[x] = cookie[q]
    PROVE  BInv'
<1>1. TypeOK /\ Stages
  BY DEF IInv
<1>2. /\ record'[s] = NoRecord /\ ~Exists(s)'
      /\ \A x \in Sessions \ {s} : record'[x] = record[x] /\ (Exists(x)' <=> Exists(x))
      /\ \A x \in Sessions \ {s} : tombstone'[x] = tombstone[x]
      /\ \A x \in Sessions : tombstone[x] => tombstone'[x]
  BY <1>1 DEF TypeOK, Exists, NoRecord
<1>3. \A x : (Creating(x)' <=> Creating(x)) /\ (Expired(x)' <=> Expired(x))
  BY DEF Creating, Expired, Minted
<1>4. \A x \in Sessions : Gone(x)' <=> (Gone(x) \/ x = s)
  BY <1>2, <1>3 DEF Gone, Minted
<1>5. SameEnd'
  BY <1>2 DEF BInv, SameEnd
<1>6. ClaimsCarried'
  BY DEF BInv, ClaimsCarried
<1>7. RecordsHeld'
  BY <1>2 DEF BInv, RecordsHeld, NoRecord
<1>8. LoginUnknown'
  BY DEF BInv, LoginUnknown
<1>9. CommitNewest'
  <2>1. \A x \in Sessions : Exists(x)' => Exists(x) /\ record'[x] = record[x]
    BY <1>2
  <2> QED
    BY <2>1 DEF BInv, CommitNewest
<1>10. EndedSilent'
  BY <1>3, <1>4 DEF BInv, EndedSilent
<1>11. SignedOutGone'
  BY <1>3, <1>4, SignedOutKept
<1>12. HolderUndisturbed'
  <2>1. ASSUME NEW q \in Requests, Holds(q)' \/ pc'[q] = "exchange"
        PROVE  (Holds(q) \/ pc[q] = "exchange") /\ cookie[q].id \in Sessions
    <3>1. Holds(q) \/ pc[q] = "exchange"
      BY <2>1
    <3> QED
      BY <1>1, <3>1 DEF Stages, Holds, Cookie
  <2>2. ASSUME NEW q \in Requests, Holds(q)' \/ pc'[q] = "exchange"
        PROVE  \/ record'[cookie[q].id].state = "refreshing" /\ record'[cookie[q].id].reservation = q
               \/ ~Live(cookie[q])
               \/ /\ tombstone'[cookie[q].id]
                  /\ \E x \in Requests : kind[x] = "signout" /\ cookie[x] = cookie[q]
    <3>1. (Holds(q) \/ pc[q] = "exchange") /\ cookie[q].id \in Sessions
      BY <2>1, <2>2
    <3>2. CASE record[cookie[q].id].state = "refreshing" /\ record[cookie[q].id].reservation = q
      BY <1>2, <3>1, <3>2
    <3>3. CASE ~Live(cookie[q])
      BY <3>3
    <3>4. CASE /\ tombstone[cookie[q].id]
               /\ \E x \in Requests : kind[x] = "signout" /\ cookie[x] = cookie[q]
      BY <1>2, <3>1, <3>4
    <3> QED
      BY <3>1, <3>2, <3>3, <3>4 DEF BInv, HolderUndisturbed
  <2> QED
    BY <2>2 DEF HolderUndisturbed, Live, Holds
<1>13. CookieNeverAhead'
  BY <1>2 DEF BInv, CookieNeverAhead
<1>14. SignedOutStaysOut'
  BY DEF BInv, SignedOutStaysOut, Live
<1> QED
  BY <1>5, <1>6, <1>7, <1>8, <1>9, <1>10, <1>11, <1>12, <1>13, <1>14 DEF BInv

\* invalidatePending: it is the winner itself that gives the session up.
LEMMA InvalidateScriptKeepsB ==
    ASSUME IInv, BInv, NEW c \in commands, InvalidateScript(c) PROVE BInv'
<1>1. CASE Refuse(c)
  BY <1>1, RefuseKeepsB DEF InvalidateScript
<1>2. CASE CanInvalidate(c) /\ ~Refuse(c)
  <2> DEFINE s == c.id
             o == c.owner
  <2>1. /\ TypeOK /\ Stages /\ Resolve(c, "ok", 0) /\ c.op = "invalidate" /\ c \in Command
        /\ record' = [record EXCEPT ![s] = NoRecord] /\ tombstone' = [tombstone EXCEPT ![s] = TRUE]
        /\ record[s].state = "refreshing" /\ record[s].reservation = o
    BY <1>2 DEF IInv, InvalidateScript, CanInvalidate, TypeOK
  <2>2. /\ s \in Sessions /\ o \in Requests /\ kind[o] = "refresh" /\ cookie[o].id = s
        /\ cookie[o].generation = record[s].generation /\ Exists(s)
        /\ pc[o] \notin {"reserve", "exchange"}
    BY <2>1 DEF Command, IInv, CommandsOwned, BInv, ClaimsCarried, RecordsHeld, Exists
  <2>3. \A q \in Requests : cookie[q].id = s => ~SetsOut(q)
    BY <2>2, Silence
  <2>4. s \in Minted /\ ~Creating(s)
    BY <2>2 DEF IInv, Unstored, Exists, NoRecord
  <2>5. /\ commands' = commands \ {c}
        /\ UNCHANGED <<now, jar, kind, pc, cookie, answer, flights, posts, issuer, signedOut>>
        /\ \A q \in Requests : reply'[q] = reply[q] \/ pc[q] = "invalidate"
    BY <2>1, ResolveTypes
  <2>6. \A q \in Requests : /\ SetsOut(q)' => SetsOut(q)
                            /\ Holds(q)' => Holds(q)
                            /\ Ending(q)' => Ending(q)
    BY <2>5 DEF SetsOut, Holds, Ending
  <2>7. \A q \in Requests : (Holds(q) \/ pc[q] = "exchange") => record[s].reservation # q
    BY <2>1, <2>2 DEF Holds
  <2> QED
    BY <2>1, <2>2, <2>3, <2>4, <2>5, <2>6, <2>7, EndKeeps
<1> QED
  BY <1>1, <1>2 DEF InvalidateScript

\* tombstoneSession: a winner under way loses the session to claims equal to its own.
LEMMA TombstoneScriptKeepsB ==
    ASSUME IInv, BInv, NEW c \in commands, TombstoneScript(c) PROVE BInv'
<1> DEFINE s == c.id
           o == c.owner
           status == TombstoneStatus(c)
<1>1. /\ TypeOK /\ Stages /\ c.op = "tombstone" /\ c \in Command /\ s \in Sessions /\ o \in Requests
      /\ kind[o] = "signout" /\ cookie[o].id = s /\ cookie[o].generation = c.generation
      /\ tombstone[s] \in BOOLEAN
  BY DEF IInv, TombstoneScript, TypeOK, Command, CommandsOwned, BInv, ClaimsCarried
<1>2. status \in {"repeat", "missing", "stale", "active", "pending"}
  BY <1>1 DEF TombstoneStatus, TypeOK, Command
<1>3. /\ commands' = commands \ {c}
      /\ UNCHANGED <<now, jar, kind, pc, cookie, answer, flights, posts, issuer, signedOut>>
      /\ \A q \in Requests :
            reply'[q] = reply[q] \/ (q = o /\ pc[q] = "tombstone" /\ reply'[q].status = status)
  <2>1. (IF status = "active" THEN record[s].refresh ELSE 0) \in Nat
    BY <1>1 DEF TypeOK, Record, Command
  <2>2. \A q \in Requests :
           \/ reply'[q] = reply[q]
           \/ /\ q = o /\ pc[q] = "tombstone"
              /\ reply'[q] = [status |-> status,
                              refresh |-> IF status = "active" THEN record[s].refresh ELSE 0]
    BY <1>1, <1>2, <2>1, ResolveTypes DEF TombstoneScript, Lifecycle
  <2>3. /\ commands' = commands \ {c}
        /\ UNCHANGED <<now, jar, kind, pc, cookie, answer, flights, posts, issuer, signedOut>>
    BY <1>1, <1>2, <2>1, ResolveTypes DEF TombstoneScript, Lifecycle
  <2> QED
    BY <2>2, <2>3
<1>4. s \in Minted /\ ~Creating(s)
  BY <1>1 DEF IInv, Unstored
<1>5. \A q \in Requests : /\ SetsOut(q)' => SetsOut(q)
                          /\ Holds(q)' => Holds(q)
                          /\ Ending(q)' => Ending(q) \/ (q = o /\ status # "stale")
  BY <1>3 DEF SetsOut, Holds, Ending
<1>6. CASE status \in {"repeat", "stale"}
  <2>1. UNCHANGED <<record, tombstone>>
    BY <1>6 DEF TombstoneScript, CanEnd, storeVars
  <2>2. status = "repeat" => tombstone[s]
    BY <1>1 DEF TombstoneStatus
  <2>3. status = "repeat" => Gone(cookie[o].id)
    BY <1>1, <1>4, <2>2 DEF BInv, RecordsHeld, Gone, Exists, Creating
  <2>4. now \in Nat /\ ClaimsCarried'
    BY <1>1, <1>3 DEF TypeOK, BInv, ClaimsCarried
  <2>5. Untouched
    BY <1>3, <1>5, <1>6, <2>1, <2>3, <2>4 DEF Untouched
  <2> QED
    BY <2>5, UntouchedKeeps
<1>7. CASE status \in {"missing", "active", "pending"}
  <2>1. record' = [record EXCEPT ![s] = NoRecord] /\ tombstone' = [tombstone EXCEPT ![s] = TRUE]
    BY <1>7 DEF TombstoneScript, CanEnd
  <2>2. Exists(s) => record[s].generation = c.generation
    BY <1>1, <1>7 DEF TombstoneStatus
  <2>3. Expired(s) \/ \A q \in Requests : cookie[q].id = s => ~SetsOut(q)
    <3>1. CASE Exists(s)
      BY <1>1, <2>2, <3>1, Silence
    <3>2. CASE ~Exists(s)
      BY <1>1, <1>4, <3>2 DEF BInv, EndedSilent, Gone
    <3> QED
      BY <3>1, <3>2
  <2>4. ASSUME NEW q \in Requests, Holds(q) \/ pc[q] = "exchange", cookie[q].id = s,
               record[s].state = "refreshing", record[s].reservation = q
        PROVE  cookie[o] = cookie[q]
    <3>1. /\ cookie[q].generation = record[s].generation /\ record[s].generation = c.generation
          /\ cookie[q].expiresAt = cookie[o].expiresAt
      BY <1>1, <2>2, <2>4 DEF BInv, RecordsHeld, SameEnd, Exists
    <3>2. cookie[q] \in Cookie /\ cookie[o] \in Cookie
      BY <1>1, <2>4, SessionAssumption DEF TypeOK, NoCookie
    <3> QED
      BY <1>1, <2>4, <3>1, <3>2 DEF Cookie
  <2>5. tombstone'[s]
    BY <1>1, <2>1 DEF TypeOK
  <2>6. \A q \in Requests : Ending(q)' => Ending(q) \/ cookie[q].id = s
    BY <1>1, <1>5
  <2>7. \A x \in commands : x.op = "create" => x \in commands'
    BY <1>1, <1>3
  <2>8. \A q \in Requests :
           (/\ Holds(q) \/ pc[q] = "exchange"
            /\ cookie[q].id = s /\ record[s].state = "refreshing" /\ record[s].reservation = q) =>
              \/ ~Live(cookie[q])
              \/ tombstone'[s] /\ \E x \in Requests : kind[x] = "signout" /\ cookie[x] = cookie[q]
    BY <1>1, <2>4, <2>5
  <2>9. UNCHANGED <<now, jar, kind, pc, cookie, answer, signedOut>> /\ commands' \subseteq commands
    BY <1>3
  <2>10. \A q \in Requests : /\ SetsOut(q)' => SetsOut(q)
                             /\ Holds(q)' => Holds(q)
                             /\ Ending(q)' => Ending(q) \/ cookie[q].id = s
    BY <1>5, <2>6
  <2> HIDE DEF s, o, status
  <2> QED
    BY <1>1, <1>4, <2>1, <2>3, <2>7, <2>8, <2>9, <2>10, EndKeeps
<1> QED
  BY <1>2, <1>6, <1>7

\* EX / KEEPTTL: the session's end is the end of its cookies.
LEMMA RecordExpiresKeepsB == ASSUME IInv, BInv, NEW s \in Sessions, RecordExpires(s) PROVE BInv'
<1>1. /\ TypeOK /\ Exists(s) /\ record[s].expiresAt <= now
      /\ record' = [record EXCEPT ![s] = NoRecord]
      /\ UNCHANGED <<tombstone, now, jar, kind, pc, cookie, reply, answer, commands, signedOut>>
  BY DEF IInv, RecordExpires, reqVars, netVars
<1>2. s \in Minted /\ ~Creating(s)
  BY <1>1 DEF IInv, Unstored, Exists, NoRecord
<1>3. Expired(s)
  BY <1>1, <1>2 DEF Expired, BInv, SameEnd
<1>4. \A q \in Requests : cookie[q].id = s => ~Live(cookie[q])
  <2>1. ASSUME NEW q \in Requests, cookie[q].id = s PROVE ~(cookie[q].expiresAt > now)
    <3>1. cookie[q].expiresAt \in Nat /\ now \in Nat
      BY <1>1 DEF TypeOK, Cookie, NoCookie
    <3> QED
      BY <1>3, <2>1, <3>1 DEF Expired
  <2> QED
    BY <2>1 DEF Live
<1>5. \A q \in Requests : /\ SetsOut(q)' => SetsOut(q)
                          /\ Holds(q)' => Holds(q)
                          /\ Ending(q)' => Ending(q)
  BY <1>1 DEF SetsOut, Holds, Ending
<1> QED
  BY <1>1, <1>2, <1>3, <1>4, <1>5, EndKeeps

-----------------------------------------------------------------------------
(* The browser and the login *)

\* A tab sends the cookie of the jar: one more copy of the claims the jar holds.
LEMMA SendKeepsB ==
    ASSUME IInv, BInv, NEW r \in Requests, NEW k \in {"read", "refresh", "signout"}, Send(r, k)
    PROVE  BInv'
<1>1. /\ TypeOK /\ Stages /\ pc[r] = "new" /\ Live(jar)
      /\ kind' = [kind EXCEPT ![r] = k] /\ pc' = [pc EXCEPT ![r] = "sent"]
      /\ cookie' = [cookie EXCEPT ![r] = jar]
      /\ UNCHANGED <<record, tombstone, now, jar, reply, answer, commands, signedOut>>
  BY DEF IInv, Send, storeVars, netVars
<1>2. /\ kind[r] = "none" /\ answer[r] = NoAnswer
      /\ \A c \in commands : c.owner # r
      /\ \A s \in Sessions : record[s].reservation # r
  BY <1>1, NewIsFree
<1>3. /\ kind'[r] = k /\ pc'[r] = "sent" /\ cookie'[r] = jar /\ jar.id \in Sessions
      /\ \A q \in Requests \ {r} : kind'[q] = kind[q] /\ pc'[q] = pc[q] /\ cookie'[q] = cookie[q]
  BY <1>1 DEF TypeOK, Live, Cookie, NoCookie
<1>4. ~SetsOut(r) /\ ~SetsOut(r)' /\ \A q \in Requests \ {r} : SetsOut(q)' <=> SetsOut(q)
  BY <1>1, <1>2, <1>3 DEF SetsOut, NoAnswer
<1>5. Minted' = Minted
  BY <1>2, <1>3 DEF Minted
<1>6. \A x : (Gone(x)' <=> Gone(x)) /\ (Creating(x)' <=> Creating(x))
  BY <1>1, <1>5 DEF Gone, Exists, Creating
<1>7. \A x : Expired(x) => Expired(x)'
  BY <1>1, <1>3, <1>5 DEF Expired
<1>8. SameEnd'
  BY <1>1, <1>3 DEF BInv, SameEnd, Exists
<1>9. ClaimsCarried'
  <2>1. \A c \in commands : c.owner \in Requests \ {r}
    BY <1>1, <1>2 DEF TypeOK, Command
  <2> QED
    BY <1>1, <1>3, <2>1 DEF BInv, ClaimsCarried
<1>10. RecordsHeld'
  <2>1. \A s \in Sessions : record[s].state = "refreshing" => record[s].reservation \in Requests \ {r}
    BY <1>1, <1>2 DEF TypeOK, Record, IInv, Reservations
  <2> QED
    BY <1>1, <1>3, <2>1 DEF BInv, RecordsHeld, Exists
<1>11. LoginUnknown'
  BY <1>1, <1>3, <1>4 DEF BInv, LoginUnknown
<1>12. CommitNewest'
  BY <1>1, <1>3, <1>4 DEF BInv, CommitNewest, Exists
<1>13. EndedSilent'
  BY <1>3, <1>4, <1>6, <1>7 DEF BInv, EndedSilent
<1>14. SignedOutGone'
  <2>1. ASSUME NEW q \in Requests, q # r
        PROVE  /\ Ending(q)' => Gone(cookie[q].id)'
               /\ answer'[q].code = "signed_out" =>
                     answer'[q].effect = "clear" /\ (Gone(cookie[q].id)' \/ Expired(cookie[q].id)')
    <3>1. cookie'[q] = cookie[q] /\ pc'[q] = pc[q] /\ reply'[q] = reply[q] /\ answer'[q] = answer[q]
      BY <1>1, <1>3, <2>1
    <3>2. PICK x : x = cookie[q].id
      OBVIOUS
    <3>3. /\ Ending(q) => Gone(x)
          /\ answer[q].code = "signed_out" => answer[q].effect = "clear" /\ (Gone(x) \/ Expired(x))
      BY <3>2 DEF BInv, SignedOutGone, Ending
    <3>4. Ending(q)' => Ending(q)
      BY <3>1 DEF Ending
    <3>5. (Gone(x)' => Gone(cookie[q].id)') /\ (Expired(x)' => Expired(cookie[q].id)')
      BY <3>1, <3>2 DEF Gone, Exists, Creating, Minted, Expired
    <3> QED
      BY <1>6, <1>7, <3>1, <3>3, <3>4, <3>5
  <2>2. ~Ending(r)' /\ answer'[r].code # "signed_out"
    BY <1>1, <1>2, <1>3 DEF Ending, NoAnswer
  <2>3. \A s \in signedOut' : Gone(s)' \/ Expired(s)'
    BY <1>1, <1>6, <1>7 DEF BInv, SignedOutGone
  <2> QED
    BY <2>1, <2>2, <2>3 DEF SignedOutGone, Ending, Gone, Exists, Creating, Minted, Expired
<1>15. HolderUndisturbed'
  <2>1. ASSUME NEW q \in Requests, Holds(q)' \/ pc'[q] = "exchange"
        PROVE  q # r /\ (Holds(q) \/ pc[q] = "exchange")
    BY <1>1, <1>3, <2>1 DEF Holds
  <2> QED
    BY <1>1, <1>2, <1>3, <2>1 DEF BInv, HolderUndisturbed, Live, Holds
<1>16. CookieNeverAhead'
  BY <1>1, <1>3 DEF BInv, CookieNeverAhead, Exists
<1>17. SignedOutStaysOut'
  BY <1>1 DEF BInv, SignedOutStaysOut, Live
<1> QED
  BY <1>8, <1>9, <1>10, <1>11, <1>12, <1>13, <1>14, <1>15, <1>16, <1>17 DEF BInv

\* The browser applies an answer: the claims it sets were committed, and are the newest.
LEMMA DeliverKeepsB == ASSUME IInv, BInv, NEW r \in Requests, Deliver(r) PROVE BInv'
<1> DEFINE effect == answer[r].effect
<1>1. /\ TypeOK /\ Stages /\ pc[r] = "answered" /\ pc' = [pc EXCEPT ![r] = "done"]
      /\ answer' = [answer EXCEPT ![r] = NoAnswer]
      /\ UNCHANGED <<record, tombstone, now, kind, cookie, reply, commands>>
      /\ cookie[r] \in Cookie /\ effect \in {"keep", "clear", "set"}
  BY DEF IInv, Deliver, storeVars, netVars, Stages, TypeOK, Answer
<1>2. /\ effect = "keep" => jar' = jar
      /\ effect = "clear" => jar' = NoCookie
      /\ effect = "set" =>
            /\ jar'.id = cookie[r].id /\ jar'.expiresAt = cookie[r].expiresAt
            /\ jar'.generation = IF kind[r] = "login" THEN 0 ELSE cookie[r].generation + 1
  BY <1>1 DEF Deliver, Cookie
<1>3. effect = "set" => SetsOut(r)
  BY DEF SetsOut
<1>4. /\ pc'[r] = "done" /\ answer'[r] = NoAnswer /\ ~SetsOut(r)' /\ ~Ending(r)'
      /\ \A q \in Requests \ {r} : pc'[q] = pc[q] /\ answer'[q] = answer[q]
      /\ \A q \in Requests \ {r} : (SetsOut(q)' <=> SetsOut(q)) /\ (Ending(q)' <=> Ending(q))
  BY <1>1 DEF TypeOK, NoAnswer, SetsOut, Ending
<1>5. /\ \A q \in Requests : SetsOut(q) => cookie[q].id \in Sessions
      /\ cookie[r].id \in Sessions /\ "none" \notin Sessions
  BY <1>1, SessionAssumption DEF SetsOut, Stages, Cookie, NoAnswer
<1>6. \A x : (Gone(x)' <=> Gone(x)) /\ (Creating(x)' <=> Creating(x))
  BY <1>1 DEF Gone, Exists, Creating, Minted
<1>7. \A x \in Sessions : Expired(x) => Expired(x)'
  BY <1>1, <1>2, <1>5 DEF Expired, Minted, NoCookie
<1>8. SameEnd'
  <2>1. \A q \in Requests : cookie[q].id = "none" => cookie[q].expiresAt = 0
    BY <1>1, <1>5 DEF TypeOK, Cookie, NoCookie
  <2>2. \A q \in Requests : jar'.id = cookie[q].id => jar'.expiresAt = cookie[q].expiresAt
    BY <1>1, <1>2, <2>1 DEF BInv, SameEnd, NoCookie
  <2>3. \A s \in Sessions : (Exists(s) /\ jar'.id = s) => record[s].expiresAt = jar'.expiresAt
    BY <1>1, <1>2, <1>5 DEF BInv, SameEnd, NoCookie
  <2> QED
    BY <1>1, <2>2, <2>3 DEF BInv, SameEnd, Exists
<1>9. ClaimsCarried'
  <2>1. \A c \in commands : c.owner \in Requests
    BY <1>1 DEF TypeOK, Command
  <2> QED
    BY <1>1, <1>4, <2>1 DEF BInv, ClaimsCarried
<1>10. RecordsHeld'
  BY <1>1 DEF BInv, RecordsHeld, Exists
<1>11. LoginUnknown'
  BY <1>1, <1>2, <1>3, <1>4, <1>5 DEF BInv, LoginUnknown, NoCookie
<1>12. CommitNewest'
  BY <1>1, <1>2, <1>3, <1>4, <1>5 DEF BInv, CommitNewest, Exists, NoCookie
<1>13. EndedSilent'
  BY <1>1, <1>4, <1>6, <1>7 DEF BInv, EndedSilent
<1>14. signedOut' = signedOut \/ (effect = "clear" /\ signedOut' = signedOut \cup {cookie[r].id}
                                  /\ (Gone(cookie[r].id) \/ Expired(cookie[r].id)))
  BY DEF Deliver, BInv, SignedOutGone
<1>15. SignedOutGone'
  <2>1. PICK y : y = cookie[r].id
    OBVIOUS
  <2>2. (Gone(cookie[r].id) => Gone(y)) /\ (Expired(cookie[r].id) => Expired(y))
    BY <2>1
  <2>3. \A s \in signedOut' : Gone(s)' \/ Expired(s)'
    BY <1>1, <1>5, <1>6, <1>7, <1>14, <2>1, <2>2 DEF BInv, SignedOutGone, TypeOK
  <2>4. ASSUME NEW q \in Requests, q # r
        PROVE  /\ Ending(q)' => Gone(cookie[q].id)'
               /\ answer'[q].code = "signed_out" =>
                     answer'[q].effect = "clear" /\ (Gone(cookie[q].id)' \/ Expired(cookie[q].id)')
    <3>1. cookie'[q] = cookie[q] /\ answer'[q] = answer[q] /\ (Ending(q)' <=> Ending(q))
      BY <1>1, <1>4, <2>4
    <3>2. PICK x : x = cookie[q].id
      OBVIOUS
    <3>3. /\ Ending(q) => Gone(x)
          /\ answer[q].code = "signed_out" => answer[q].effect = "clear" /\ (Gone(x) \/ Expired(x))
      BY <3>2 DEF BInv, SignedOutGone, Ending
    <3>4. answer[q].code = "signed_out" => x \in Sessions
      BY <1>1, <3>2 DEF Stages, Cookie, NoAnswer
    <3>5. (Gone(x)' => Gone(cookie[q].id)') /\ (Expired(x)' => Expired(cookie[q].id)')
      BY <3>1, <3>2 DEF Gone, Exists, Creating, Minted, Expired
    <3> QED
      BY <1>6, <1>7, <3>1, <3>3, <3>4, <3>5
  <2>5. ~Ending(r)' /\ answer'[r].code # "signed_out"
    BY <1>4 DEF NoAnswer
  <2> QED
    BY <2>3, <2>4, <2>5 DEF SignedOutGone, Ending, Gone, Exists, Creating, Minted, Expired
<1>16. HolderUndisturbed'
  <2>1. ASSUME NEW q \in Requests, Holds(q)' \/ pc'[q] = "exchange"
        PROVE  q # r /\ (Holds(q) \/ pc[q] = "exchange")
    BY <1>1, <1>4, <2>1 DEF Holds
  <2> QED
    BY <1>1, <1>4, <2>1 DEF BInv, HolderUndisturbed, Live, Holds
<1>17. CookieNeverAhead'
  <2>1. ASSUME NEW s \in Sessions, Exists(s), jar'.id = s
        PROVE  jar'.generation <= record[s].generation
    <3>1. record[s].generation \in Nat /\ cookie[r].generation \in Nat
      BY <1>1 DEF TypeOK, Record, Cookie
    <3>2. CASE effect = "set" /\ kind[r] = "login"
      BY <1>2, <3>1, <3>2
    <3>3. CASE effect = "set" /\ kind[r] # "login"
      BY <1>2, <1>3, <2>1, <3>1, <3>3 DEF BInv, CommitNewest
    <3>4. CASE effect # "set"
      BY <1>1, <1>2, <1>5, <2>1, <3>4 DEF BInv, CookieNeverAhead, NoCookie
    <3> QED
      BY <3>2, <3>3, <3>4
  <2> QED
    BY <1>1, <2>1 DEF BInv, CookieNeverAhead, Exists
<1>18. SignedOutStaysOut'
  <2>1. CASE effect = "keep"
    BY <1>1, <1>2, <1>14, <2>1 DEF BInv, SignedOutStaysOut, Live
  <2>2. CASE effect = "clear"
    BY <1>2, <2>2 DEF SignedOutStaysOut, Live, NoCookie
  <2>3. CASE effect = "set"
    <3>1. PICK y \in Sessions : y = cookie[r].id
      BY <1>5
    <3>2. ASSUME y \in signedOut PROVE ~(cookie[r].expiresAt > now)
      <4>1. Gone(y) \/ Expired(y)
        BY <3>2 DEF BInv, SignedOutGone
      <4>2. Expired(y)
        BY <1>3, <2>3, <3>1, <4>1 DEF BInv, EndedSilent
      <4>3. cookie[r].expiresAt <= now /\ cookie[r].expiresAt \in Nat /\ now \in Nat
        BY <1>1, <3>1, <4>2 DEF Expired, TypeOK, Cookie
      <4> QED
        BY <4>3
    <3>3. signedOut' = signedOut /\ jar'.id = y /\ jar'.expiresAt = cookie[r].expiresAt
      BY <1>2, <1>14, <2>3, <3>1
    <3> QED
      BY <1>1, <3>2, <3>3 DEF SignedOutStaysOut, Live
  <2> QED
    BY <1>1, <2>1, <2>2, <2>3
<1> QED
  BY <1>8, <1>9, <1>10, <1>11, <1>12, <1>13, <1>15, <1>16, <1>17, <1>18 DEF BInv

\* A login draws an id nobody knows.
LEMMA LoginKeepsB ==
    ASSUME IInv, BInv, NEW r \in Requests, NEW s \in Sessions, Login(r, s)
    PROVE  BInv'
<1> DEFINE a == [id |-> s, generation |-> 0, expiresAt |-> now + SessionAge]
           c == [op |-> "create", owner |-> r, id |-> s, generation |-> 0,
                 refresh |-> issuer[s].current, expiresAt |-> now + SessionAge, at |-> now]
<1>1. /\ TypeOK /\ Stages /\ pc[r] = "new" /\ s \notin Minted
      /\ kind' = [kind EXCEPT ![r] = "login"] /\ cookie' = [cookie EXCEPT ![r] = a]
      /\ commands' = commands \cup {c}
      /\ pc' = [pc EXCEPT ![r] = "create"] /\ reply' = [reply EXCEPT ![r] = NoReply]
      /\ UNCHANGED <<record, tombstone, now, jar, answer, signedOut>>
  BY DEF IInv, Login, Await, storeVars
<1>2. /\ kind[r] = "none" /\ answer[r] = NoAnswer
      /\ \A d \in commands : d.owner # r
      /\ \A x \in Sessions : record[x].reservation # r
  BY <1>1, NewIsFree
<1>3. /\ kind'[r] = "login" /\ pc'[r] = "create" /\ cookie'[r] = a /\ reply'[r].status = Waiting
      /\ a.id = s /\ a.generation = 0 /\ a.expiresAt = now + SessionAge
      /\ \A q \in Requests \ {r} : /\ kind'[q] = kind[q] /\ pc'[q] = pc[q]
                                   /\ cookie'[q] = cookie[q] /\ reply'[q] = reply[q]
  BY <1>1 DEF TypeOK, NoReply
<1>4. /\ c.op = "create" /\ c.owner = r /\ c.id = s /\ c.generation = 0
      /\ c.expiresAt = a.expiresAt
  OBVIOUS
<1> HIDE DEF a, c
<1>5. /\ ~Exists(s) /\ jar.id # s
      /\ \A q \in Requests : cookie[q].id # s
  BY <1>1 DEF IInv, Unstored, Exists, NoRecord, Minted
<1>6. ~SetsOut(r)' /\ \A q \in Requests \ {r} : SetsOut(q)' <=> SetsOut(q)
  BY <1>1, <1>2, <1>3 DEF SetsOut, NoAnswer, Waiting
<1>7. Minted' = Minted \cup {s}
  BY <1>2, <1>3 DEF Minted
<1>8. \A x : x # s => (Creating(x)' <=> Creating(x))
  BY <1>1, <1>4 DEF Creating
<1>9. Creating(s)' /\ ~Gone(s) /\ ~Gone(s)'
  BY <1>1, <1>4 DEF Creating, Gone
<1>10. \A x : Gone(x)' <=> Gone(x)
  BY <1>1, <1>7, <1>8, <1>9 DEF Gone, Exists
<1>11. \A x : Expired(x) => Expired(x)' /\ x # s
  BY <1>1, <1>3, <1>7 DEF Expired
<1>12. SameEnd'
  BY <1>1, <1>3, <1>5 DEF BInv, SameEnd, Exists
<1>13. ClaimsCarried'
  <2>1. \A d \in commands : d.owner \in Requests \ {r}
    BY <1>1, <1>2 DEF TypeOK, Command
  <2>2. ASSUME NEW d \in commands'
        PROVE  /\ d.generation = cookie'[d.owner].generation
               /\ d.op = "create" => d.expiresAt = cookie'[d.owner].expiresAt
               /\ d.op = "tombstone" => kind'[d.owner] = "signout"
               /\ d.op \in {"reserve", "finalize", "invalidate"} => kind'[d.owner] = "refresh"
               /\ d.op = "invalidate" => pc'[d.owner] \notin {"reserve", "exchange"}
    <3>1. CASE d \in commands
      BY <1>3, <2>1, <3>1 DEF BInv, ClaimsCarried
    <3>2. CASE d = c
      BY <1>3, <1>4, <3>2
    <3> QED
      BY <1>1, <3>1, <3>2
  <2>3. \A q \in Requests : kind'[q] = "login" => cookie'[q].generation = 0
    BY <1>3 DEF BInv, ClaimsCarried
  <2> QED
    BY <2>2, <2>3 DEF ClaimsCarried
<1>14. RecordsHeld'
  <2>1. \A x \in Sessions : record[x].state = "refreshing" => record[x].reservation \in Requests \ {r}
    BY <1>1, <1>2 DEF TypeOK, Record, IInv, Reservations
  <2> QED
    BY <1>1, <1>3, <2>1 DEF BInv, RecordsHeld, Exists
<1>15. LoginUnknown'
  BY <1>1, <1>3, <1>5, <1>6 DEF BInv, LoginUnknown
<1>16. CommitNewest'
  BY <1>1, <1>3, <1>5, <1>6 DEF BInv, CommitNewest, Exists
<1>17. EndedSilent'
  BY <1>3, <1>6, <1>10, <1>11 DEF BInv, EndedSilent
<1>18. SignedOutGone'
  <2>1. ASSUME NEW q \in Requests, q # r
        PROVE  /\ Ending(q)' => Gone(cookie[q].id)'
               /\ answer'[q].code = "signed_out" =>
                     answer'[q].effect = "clear" /\ (Gone(cookie[q].id)' \/ Expired(cookie[q].id)')
    <3>1. cookie'[q] = cookie[q] /\ pc'[q] = pc[q] /\ reply'[q] = reply[q] /\ answer'[q] = answer[q]
      BY <1>1, <1>3, <2>1
    <3>2. PICK x : x = cookie[q].id
      OBVIOUS
    <3>3. /\ Ending(q) => Gone(x)
          /\ answer[q].code = "signed_out" => answer[q].effect = "clear" /\ (Gone(x) \/ Expired(x))
      BY <3>2 DEF BInv, SignedOutGone, Ending
    <3>4. Ending(q)' => Ending(q)
      BY <3>1 DEF Ending
    <3>5. (Gone(x)' => Gone(cookie[q].id)') /\ (Expired(x)' => Expired(cookie[q].id)')
      BY <3>1, <3>2 DEF Gone, Exists, Creating, Minted, Expired
    <3> QED
      BY <1>10, <1>11, <3>1, <3>3, <3>4, <3>5
  <2>2. ~Ending(r)' /\ answer'[r].code # "signed_out"
    BY <1>1, <1>2, <1>3 DEF Ending, NoAnswer
  <2>3. \A x \in signedOut' : Gone(x)' \/ Expired(x)'
    BY <1>1, <1>10, <1>11 DEF BInv, SignedOutGone
  <2> QED
    BY <2>1, <2>2, <2>3 DEF SignedOutGone, Ending, Gone, Exists, Creating, Minted, Expired
<1>19. HolderUndisturbed'
  <2>1. ASSUME NEW q \in Requests, Holds(q)' \/ pc'[q] = "exchange"
        PROVE  q # r /\ (Holds(q) \/ pc[q] = "exchange")
    BY <1>1, <1>3, <2>1 DEF Holds
  <2> QED
    BY <1>1, <1>2, <1>3, <2>1 DEF BInv, HolderUndisturbed, Live, Holds
<1>20. CookieNeverAhead'
  BY <1>1, <1>3, <1>5 DEF BInv, CookieNeverAhead, Exists
<1>21. SignedOutStaysOut'
  BY <1>1 DEF BInv, SignedOutStaysOut, Live
<1> QED
  BY <1>12, <1>13, <1>14, <1>15, <1>16, <1>17, <1>18, <1>19, <1>20, <1>21 DEF BInv

-----------------------------------------------------------------------------
(* The theorems *)

\* Nobody holds anything at first.
LEMMA InitHoldsB == Init => BInv
<1> SUFFICES ASSUME Init PROVE BInv
  OBVIOUS
<1>1. \A r \in Requests : ~SetsOut(r) /\ ~Holds(r) /\ cookie[r] = NoCookie /\ kind[r] = "none"
  BY DEF Init, SetsOut, Holds, NoAnswer
<1>2. \A s \in Sessions : ~Exists(s) /\ record[s] = NoRecord /\ ~tombstone[s]
  BY DEF Init, Exists, NoRecord
<1>3. \A s : ~Gone(s)
  BY <1>1 DEF Gone, Minted
<1>4. SameEnd /\ CookieNeverAhead
  BY <1>1, <1>2 DEF Init, SameEnd, CookieNeverAhead
<1>5. ClaimsCarried /\ RecordsHeld
  BY <1>1, <1>2 DEF Init, ClaimsCarried, RecordsHeld, NoRecord
<1>6. LoginUnknown /\ CommitNewest /\ EndedSilent
  BY <1>1, <1>3 DEF LoginUnknown, CommitNewest, EndedSilent
<1>7. SignedOutGone /\ SignedOutStaysOut
  BY DEF Init, SignedOutGone, SignedOutStaysOut, NoAnswer
<1>8. HolderUndisturbed
  BY <1>1 DEF Init, HolderUndisturbed
<1> QED
  BY <1>4, <1>5, <1>6, <1>7, <1>8 DEF BInv

\* Every step keeps the invariant.
LEMMA NextKeepsB == IInv /\ BInv /\ [Next]_vars => BInv'
<1> SUFFICES ASSUME IInv, BInv, [Next]_vars PROVE BInv'
  OBVIOUS
<1>1. CASE \E r \in Requests : Browser(r)
  BY <1>1, SendKeepsB, DeliverKeepsB, LoginKeepsB DEF Browser
<1>2. CASE \E r \in Requests : Handler(r)
  BY <1>2, HandlerKeepsB
<1>3. CASE \E c \in commands : Redis(c)
  BY <1>3, CreateScriptKeepsB, ReserveScriptKeepsB, FinalizeScriptKeepsB, InvalidateScriptKeepsB,
     TombstoneScriptKeepsB DEF Redis
<1>4. CASE \E s \in Sessions : RecordExpires(s)
  BY <1>4, RecordExpiresKeepsB
<1>5. CASE \/ \E f \in flights : Inspector(f)
           \/ \E p \in posts : Issuer(p)
           \/ Restart \/ Tick \/ UNCHANGED vars
  BY <1>5, BackgroundSteps
<1> QED
  BY <1>1, <1>2, <1>3, <1>4, <1>5 DEF Next

\* BInv always holds: it is inductive relative to IInv.
THEOREM BrowserInvariance == Spec => []BInv
<1>1. Spec => []IInv
  BY Invariance
<1> QED
  BY <1>1, InitHoldsB, NextKeepsB, PTL DEF Spec

\* productAction, POST signout: once the browser was told "signed_out", no late refresh or login
\* answer puts a live cookie of that session back into its jar.
THEOREM SignedOutForGood == Spec => []SignedOutStaysOut
<1>1. BInv => SignedOutStaysOut
  BY DEF BInv
<1> QED
  BY <1>1, BrowserInvariance, PTL

\* finalizeRefresh and createSession commit a generation before any cookie carries it: the jar and
\* every request are at or behind the store.
THEOREM CookieBehindStore == Spec => []CookieNeverAhead
<1>1. BInv => CookieNeverAhead
  BY DEF BInv
<1> QED
  BY <1>1, BrowserInvariance, PTL

\* reserveRefresh: the winner of a reservation keeps it while it exchanges; only a sign-out with the
\* same claims, or the session's end, takes it away.
THEOREM WinnerKeeps == Spec => []WinnerUndisturbed
<1>1. BInv => WinnerUndisturbed
  BY DEF BInv, HolderUndisturbed, WinnerUndisturbed
<1> QED
  BY <1>1, BrowserInvariance, PTL

=============================================================================
