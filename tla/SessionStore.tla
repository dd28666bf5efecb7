---------------------------- MODULE SessionStore ----------------------------
(***************************************************************************)
(* The Redis record of a Product Session and its tombstone, with the Lua   *)
(* scripts of src/lib/server/product-session-store.ts.  Redis runs a       *)
(* script atomically, so each script is one operator over the record and   *)
(* the tombstone of one session id: a guard, the reply and the update.     *)
(*                                                                         *)
(* A command carries what the caller computed before it was sent, in       *)
(* particular the caller's Date.now() ("at"): a script compares deadlines  *)
(* with the time of sending, never with the time of execution.             *)
(*                                                                         *)
(* A refresh credential is a number: the issuer's rotation count when it   *)
(* was granted.  Encryption at rest is left out, except that a credential  *)
(* read back may fail to decrypt (the caller's step, in ProductSession).   *)
(***************************************************************************)
EXTENDS Integers, FiniteSets

CONSTANTS
    Sessions,         \* session ids a login can draw (randomUUID)
    Requests,         \* HTTP requests; each is one attempt, and names its own reservation
    ReservationSpan   \* RESERVATION_MS

ASSUME StoreAssumption ==
    /\ ReservationSpan \in Nat \ {0}
    /\ "nobody" \notin Requests

VARIABLES
    record,    \* record[s]: the JSON value at the session's key, or NoRecord
    tombstone  \* tombstone[s]: the session's tombstone key exists

storeVars == <<record, tombstone>>

Nobody == "nobody"

NoRecord == [state |-> "none", generation |-> 0, refresh |-> 0, expiresAt |-> 0,
             reservation |-> Nobody, deadline |-> 0]

Record == [state : {"none", "active", "refreshing"}, generation : Nat, refresh : Nat,
           expiresAt : Nat, reservation : Requests \cup {Nobody}, deadline : Nat]

\* One script call in flight.  "refresh" and "expiresAt" are read by the scripts that write them.
Command == [op : {"create", "reserve", "finalize", "invalidate", "tombstone"},
            owner : Requests, id : Sessions, generation : Nat,
            refresh : Nat, expiresAt : Nat, at : Nat]

Exists(s) == record[s].state # "none"

-----------------------------------------------------------------------------
(* inspectSessionState: what a caller that holds "generation" and sent the *)
(* script at time "at" is told.                                            *)

Inspection(s, generation, at) ==
    LET v == record[s] IN
    CASE tombstone[s] \/ ~Exists(s) \/ v.expiresAt <= at           -> "absent"
      [] ~tombstone[s] /\ Exists(s) /\ v.expiresAt > at ->
            CASE v.generation # generation                         -> "stale"
              [] v.generation = generation /\ v.state = "active"   -> "active"
              [] v.generation = generation /\ v.state = "refreshing" ->
                    IF v.deadline <= at THEN "unconfirmed" ELSE "refreshing"

-----------------------------------------------------------------------------
(* createSession: SET ... NX unless a tombstone exists.                    *)

CanCreate(c) == ~tombstone[c.id] /\ ~Exists(c.id)

CreatedRecord(c) ==
    [NoRecord EXCEPT !.state = "active", !.refresh = c.refresh, !.expiresAt = c.expiresAt]

-----------------------------------------------------------------------------
(* reserveRefresh: active, same generation, not expired -> refreshing.     *)

\* Mutant: a lapsed reservation may be taken over.
CanReserveLapsed(c) ==
    /\ ~tombstone[c.id]
    /\ \/ record[c.id].state = "active"
       \/ record[c.id].state = "refreshing" /\ record[c.id].deadline <= c.at
    /\ record[c.id].generation = c.generation
    /\ record[c.id].expiresAt > c.at

CanReserve(c) ==
    /\ ~tombstone[c.id]
    /\ record[c.id].state = "active"
    /\ record[c.id].generation = c.generation
    /\ record[c.id].expiresAt > c.at

ReservedRecord(c) ==
    [record[c.id] EXCEPT !.state = "refreshing", !.reservation = c.owner,
                         !.deadline = c.at + ReservationSpan]

-----------------------------------------------------------------------------
(* finalizeRefresh: the reservation's own commit, before its deadline.     *)

CanFinalize(c) ==
    /\ ~tombstone[c.id]
    /\ record[c.id].state = "refreshing"
    /\ record[c.id].generation = c.generation
    /\ record[c.id].reservation = c.owner
    /\ record[c.id].deadline > c.at

\* Mutant: the commit keeps the spent credential.
FinalizedRecordOldRefresh(c) ==
    [record[c.id] EXCEPT !.state = "active", !.generation = @ + 1,
                         !.reservation = Nobody, !.deadline = 0]

\* Mutant: the commit does not advance the generation.
FinalizedRecordSameGeneration(c) ==
    [record[c.id] EXCEPT !.state = "active", !.refresh = c.refresh,
                         !.reservation = Nobody, !.deadline = 0]

FinalizedRecord(c) ==
    [record[c.id] EXCEPT !.state = "active", !.generation = @ + 1, !.refresh = c.refresh,
                         !.reservation = Nobody, !.deadline = 0]

-----------------------------------------------------------------------------
(* invalidatePending: the reservation's own abandonment.                   *)

CanInvalidate(c) ==
    /\ record[c.id].state = "refreshing"
    /\ record[c.id].reservation = c.owner

-----------------------------------------------------------------------------
(* tombstoneSession: the status the sign-out is told; every status but     *)
(* "repeat" and "stale" ends the session.                                  *)

\* Mutant: the generation of the cookie is not compared.
TombstoneStatusAnyGeneration(c) ==
    CASE tombstone[c.id]                                          -> "repeat"
      [] ~tombstone[c.id] /\ ~Exists(c.id)                        -> "missing"
      [] ~tombstone[c.id] /\ Exists(c.id) ->
            IF record[c.id].state = "active" THEN "active" ELSE "pending"

\* Mutant: a credential under reservation is taken like an active one.
TombstoneStatusTakesPending(c) ==
    CASE tombstone[c.id]                                          -> "repeat"
      [] ~tombstone[c.id] /\ ~Exists(c.id)                        -> "missing"
      [] ~tombstone[c.id] /\ Exists(c.id) ->
            IF record[c.id].generation # c.generation THEN "stale" ELSE "active"

TombstoneStatus(c) ==
    CASE tombstone[c.id]                                          -> "repeat"
      [] ~tombstone[c.id] /\ ~Exists(c.id)                        -> "missing"
      [] ~tombstone[c.id] /\ Exists(c.id) ->
            IF record[c.id].generation # c.generation THEN "stale"
            ELSE IF record[c.id].state = "active" THEN "active" ELSE "pending"

CanEnd(c) == TombstoneStatus(c) \in {"missing", "active", "pending"}

=============================================================================
