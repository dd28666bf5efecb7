----------------------- MODULE OidcTransaction_proofs -----------------------
(***************************************************************************)
(* Safety of OidcTransaction, for every number of logins, starts and       *)
(* callbacks and every budget.                                             *)
(*                                                                         *)
(* A record is opened by the one SET of its start, before the browser can  *)
(* know of it, and taken by one callback.  What that callback may do is a  *)
(* right that is held at one place at a time: by the open record, by the   *)
(* callback that was told 1, by the one that exchanges the code, by the    *)
(* createSession on its way; and then by nobody.                           *)
(***************************************************************************)
EXTENDS OidcTransaction, FiniteSetTheorems, TLAPS

Unsent == {"new", "refused", "issuing"}
Owning == {"admitted", "exchanging", "creating", "signed_in", "failed"}

\* Where a start's SET can still be, and what the browser knows only after it.
Issuing ==
    \A s \in Starts :
        /\ start[s].pc \in Unsent => record[s] = "none"
        /\ s \in sets => record[s] = "none" /\ start[s].pc \in {"issuing", "unavailable"}
        /\ start[s].pc \in {"stored", "away"} => record[s] # "none"

\* A callback belongs to a start whose answer the browser applied; a script is sent once.
Returned ==
    \A c \in Callbacks :
        /\ call[c].pc # "new" => call[c].start \in Starts /\ start[call[c].start].pc = "away"
        /\ c \in takes => call[c].pc \in {"taking", "unavailable"}
        /\ c \in creates => call[c].pc \in {"creating", "failed", "done"}
        /\ call[c].pc = "creating" => c \in creates

\* Only a taken record lets a callback go on, and only then are its proofs cleared.
Taken ==
    /\ \A c \in Callbacks : (call[c].pc \in Owning \/ c \in creates) => record[call[c].start] = "taken"
    /\ \A s \in Starts : proof[s] = "cleared" => record[s] = "taken"
    /\ \A s \in Starts : record[s] # "taken" => exchanges[s] = 0

\* c has exchanged the code and has not made the session of it.
Exchanged(c) == call[c].pc = "exchanging" \/ c \in creates

\* The right to exchange, and then the right to make the session, has one holder.
OneHolder ==
    /\ \A c, d \in Callbacks : call[c].start = call[d].start =>
          /\ call[c].pc = "admitted" /\ call[d].pc = "admitted" => c = d
          /\ Exchanged(c) /\ Exchanged(d) => c = d
    /\ \A c \in Callbacks :
          /\ call[c].pc = "admitted" => exchanges[call[c].start] = 0
          /\ Exchanged(c) => exchanges[call[c].start] = 1 /\ call[c].start \notin sessions
    /\ \A s \in Starts : exchanges[s] \in {0, 1} /\ (s \in sessions => exchanges[s] = 1)

\* A cookie the browser is about to apply was counted when it was promised.
Promised == {l \in Logins : page[l] = "answered"}
Underway == {s \in Starts : start[s].pc \in {"issuing", "stored"}}

BudgetKept ==
    ~overlapped => /\ Cardinality(Held(handoff) \cup Promised) <= MaxPending
                   /\ Cardinality(Held(proof) \cup Underway) <= MaxPending

\* The inductive invariant of the transactions.
IInv == TypeOK /\ Issuing /\ Returned /\ Taken /\ OneHolder

-----------------------------------------------------------------------------
(* Types *)

\* Init gives every variable its type.
LEMMA InitTypes == Init => TypeOK
<1> SUFFICES ASSUME Init PROVE TypeOK
  OBVIOUS
<1>1. start \in [Starts -> [login : Logins \cup {"none"},
                          pc : {"new", "issuing", "stored", "away", "refused", "unavailable"}]]
  BY DEF Init, NoStart
<1>2. call \in [Callbacks -> [start : Starts \cup {"none"}, carried : BOOLEAN, denied : BOOLEAN,
                            pc : {"new", "reading", "taking", "admitted", "exchanging", "creating",
                                  "signed_in", "failed", "rejected", "unavailable", "done"}]]
  BY DEF Init, NoCall
<1> QED
  BY <1>1, <1>2 DEF Init, TypeOK, CookieState

\* A step of a login keeps the types.
LEMMA LoginTypes == ASSUME TypeOK, NEW l \in Logins, LoginStep(l) PROVE TypeOK'
<1>1. ASSUME OpenLogin(l) PROVE TypeOK'
  BY <1>1 DEF TypeOK, OpenLogin, CookieState, jarVars, redisVars
<1>2. ASSUME ShowLogin(l) PROVE TypeOK'
  BY <1>2 DEF TypeOK, ShowLogin, CookieState, jarVars, redisVars
<1>3. ASSUME IntentExpires(l) \/ HandoffExpires(l) PROVE TypeOK'
  BY <1>3 DEF TypeOK, IntentExpires, HandoffExpires, CookieState, jarVars, redisVars
<1> QED
  BY <1>1, <1>2, <1>3 DEF LoginStep

\* Where starts and callbacks can be.
StartType == [login : Logins \cup {"none"},
              pc : {"new", "issuing", "stored", "away", "refused", "unavailable"}]
CallPlace == {"new", "reading", "taking", "admitted", "exchanging", "creating", "signed_in", "failed",
              "rejected", "unavailable", "done"}
CallType == [start : Starts \cup {"none"}, carried : BOOLEAN, denied : BOOLEAN, pc : CallPlace]

\* The types of the records by those names, in this state and the next.
LEMMA TypesNamed ==
    /\ TypeOK => start \in [Starts -> StartType] /\ call \in [Callbacks -> CallType]
    /\ TypeOK' => start' \in [Starts -> StartType] /\ call' \in [Callbacks -> CallType]
  BY DEF TypeOK, StartType, CallType, CallPlace

\* A callback that moves on stays a callback.
LEMMA GotoTypes ==
    ASSUME call \in [Callbacks -> CallType], NEW c \in Callbacks, NEW pc \in CallPlace, Goto(c, pc)
    PROVE  call' \in [Callbacks -> CallType]
  BY DEF Goto, CallType

\* A step of a start keeps the types.
LEMMA StartTypes == ASSUME TypeOK, NEW s \in Starts, StartStep(s) PROVE TypeOK'
<1>1. ASSUME NEW l \in Logins, PostLogin(s, l) PROVE TypeOK'
  <2>1. start' \in [Starts -> StartType]
    <3>1. PICK pc \in {"issuing", "refused"} : start' = [start EXCEPT ![s] = [login |-> l, pc |-> pc]]
      BY <1>1 DEF PostLogin
    <3> QED
      BY <3>1, TypesNamed DEF StartType
  <2> QED
    BY <1>1, <2>1 DEF TypeOK, PostLogin, jarVars, StartType
<1>2. ASSUME StoreRecord(s) PROVE TypeOK'
  <2>1. start' \in [Starts -> StartType]
    BY <1>2, TypesNamed DEF StoreRecord, StartType
  <2> QED
    BY <1>2, <2>1 DEF TypeOK, StoreRecord, jarVars, StartType
<1>3. ASSUME StartFails(s) PROVE TypeOK'
  <2>1. start' \in [Starts -> StartType]
    BY <1>3, TypesNamed DEF StartFails, StartType
  <2> QED
    BY <1>3, <2>1 DEF TypeOK, StartFails, jarVars, redisVars, StartType
<1>4. ASSUME LeaveForIssuer(s) PROVE TypeOK'
  <2>1. start' \in [Starts -> StartType]
    BY <1>4, TypesNamed DEF LeaveForIssuer, StartType
  <2> QED
    BY <1>4, <2>1 DEF TypeOK, LeaveForIssuer, CookieState, redisVars, StartType
<1>5. ASSUME ProofExpires(s) PROVE TypeOK'
  BY <1>5 DEF TypeOK, ProofExpires, CookieState, jarVars, redisVars
<1>6. ASSUME RecordExpires(s) PROVE TypeOK'
  BY <1>6 DEF TypeOK, RecordExpires, CookieState, jarVars, redisVars
<1> QED
  BY <1>1, <1>2, <1>3, <1>4, <1>5, <1>6 DEF StartStep

\* A step of a callback keeps the types.
LEMMA CallbackTypes == ASSUME TypeOK, Returned, NEW c \in Callbacks, CallbackStep(c) PROVE TypeOK'
<1>1. call' \in [Callbacks -> CallType]
  <2>1. call \in [Callbacks -> CallType]
    BY TypesNamed
  <2>2. ASSUME NEW s \in Starts, NEW here \in BOOLEAN, NEW denied \in BOOLEAN,
               ReturnFromIssuer(c, s, here, denied)
        PROVE  call' \in [Callbacks -> CallType]
    <3>1. (here /\ proof[s] = "held") \in BOOLEAN
      OBVIOUS
    <3> QED
      BY <2>1, <2>2, <3>1 DEF ReturnFromIssuer, CallType, CallPlace
  <2>3. ASSUME TakeRecord(c) \/ CreateSession(c) PROVE call' \in [Callbacks -> CallType]
    BY <2>1, <2>3 DEF TakeRecord, CreateSession, CallType, CallPlace
  <2>4. ASSUME NEW pc \in CallPlace, Goto(c, pc) PROVE call' \in [Callbacks -> CallType]
    BY <2>1, <2>4, GotoTypes
  <2> QED
    BY <2>2, <2>3, <2>4 DEF CallbackStep, ReadRecord, ConsumeFails, Proceed, Verified, CallbackFails,
       AnswerCallback, CallPlace
<1>2. /\ start' = start /\ page' = page /\ intents' = intents /\ overlapped' = overlapped
      /\ sets' = sets
  BY DEF CallbackStep, ReturnFromIssuer, ReadRecord, TakeRecord, ConsumeFails, Proceed, Verified,
     CreateSession, CallbackFails, AnswerCallback, redisVars
<1>3. /\ takes' \subseteq Callbacks /\ creates' \subseteq Callbacks
      /\ sessions' \subseteq Starts
  <2>1. c \in creates => call[c].start \in Starts
    BY DEF Returned
  <2> QED
    BY <2>1 DEF TypeOK, CallbackStep, ReturnFromIssuer, ReadRecord, TakeRecord, ConsumeFails, Proceed,
       Verified, CreateSession, CallbackFails, AnswerCallback, redisVars
<1>4. record' \in [Starts -> {"none", "open", "taken", "lapsed"}] /\ exchanges' \in [Starts -> Nat]
  <2>1. CASE TakeRecord(c)
    BY <2>1 DEF TypeOK, TakeRecord
  <2>2. CASE Proceed(c)
    BY <2>2 DEF TypeOK, Proceed, redisVars
  <2>3. CASE UNCHANGED <<record, exchanges>>
    BY <2>3 DEF TypeOK
  <2> QED
    BY <2>1, <2>2, <2>3 DEF CallbackStep, ReturnFromIssuer, ReadRecord, ConsumeFails, Verified,
       CreateSession, CallbackFails, AnswerCallback, redisVars
<1>5. /\ handoff' \in [Logins -> CookieState] /\ proof' \in [Starts -> CookieState]
      /\ session' \in Starts \cup {"none"}
  <2>1. CASE AnswerCallback(c)
    BY <2>1 DEF TypeOK, AnswerCallback, ClearTransaction, CookieState
  <2>2. CASE UNCHANGED jarVars
    BY <2>2 DEF TypeOK, jarVars
  <2> QED
    BY <2>1, <2>2 DEF CallbackStep, ReturnFromIssuer, ReadRecord, TakeRecord, ConsumeFails, Proceed,
       Verified, CreateSession, CallbackFails
<1> QED
  BY <1>1, <1>2, <1>3, <1>4, <1>5 DEF TypeOK, CallType, CallPlace

-----------------------------------------------------------------------------
(* The inductive invariant *)

\* It holds initially.
LEMMA InitHolds == Init => IInv
<1> SUFFICES ASSUME Init PROVE IInv
  OBVIOUS
<1>1. TypeOK
  BY InitTypes
<1>2. Issuing
  BY DEF Init, Issuing, NoStart, Unsent
<1>3. Returned /\ Taken /\ OneHolder
  BY DEF Init, Returned, Taken, OneHolder, Exchanged, NoCall, Owning
<1> QED
  BY <1>1, <1>2, <1>3 DEF IInv

\* A step of a login touches only what belongs to it.
LEMMA LoginKeeps == ASSUME IInv, NEW l \in Logins, LoginStep(l) PROVE IInv'
<1>1. UNCHANGED <<proof, start, redisVars, call, exchanges>>
  BY DEF LoginStep, OpenLogin, ShowLogin, IntentExpires, HandoffExpires, jarVars
<1>2. TypeOK'
  BY LoginTypes DEF IInv
<1> QED
  BY <1>1, <1>2 DEF IInv, Issuing, Returned, Taken, OneHolder, Exchanged, redisVars

\* A step of a start: its record is opened once, before its answer, and no other start changes.
LEMMA StartKeeps == ASSUME IInv, NEW s \in Starts, StartStep(s) PROVE IInv'
<1>1. TypeOK /\ TypeOK'
  BY StartTypes DEF IInv
<1>2. UNCHANGED <<takes, creates, sessions, call, exchanges>>
  BY DEF StartStep, PostLogin, StoreRecord, StartFails, LeaveForIssuer, ProofExpires, RecordExpires,
     jarVars, redisVars
<1>3. /\ \A q \in Starts \ {s} : start'[q] = start[q] /\ record'[q] = record[q]
                                 /\ (q \in sets' <=> q \in sets)
      /\ \A q \in Starts : proof'[q] = "cleared" => proof[q] = "cleared"
      /\ start[s].pc = "away" => start'[s].pc = "away"
      /\ record[s] = "taken" => record'[s] = "taken"
  <2>1. ASSUME NEW l \in Logins, PostLogin(s, l) PROVE <1>3!:
    BY <1>1, <2>1 DEF TypeOK, PostLogin, jarVars
  <2>2. ASSUME StoreRecord(s) PROVE <1>3!:
    BY <1>1, <2>2 DEF IInv, Issuing, TypeOK, StoreRecord, jarVars
  <2>3. ASSUME StartFails(s) PROVE <1>3!:
    BY <1>1, <2>3 DEF TypeOK, StartFails, jarVars, redisVars
  <2>4. ASSUME LeaveForIssuer(s) PROVE <1>3!:
    BY <1>1, <2>4 DEF TypeOK, LeaveForIssuer, redisVars
  <2>5. ASSUME ProofExpires(s) \/ RecordExpires(s) PROVE <1>3!:
    BY <1>1, <2>5 DEF TypeOK, ProofExpires, RecordExpires, jarVars, redisVars
  <2> QED
    BY <2>1, <2>2, <2>3, <2>4, <2>5 DEF StartStep
<1>4. Issuing'
  <2>1. /\ start'[s].pc \in Unsent => record'[s] = "none"
        /\ s \in sets' => record'[s] = "none" /\ start'[s].pc \in {"issuing", "unavailable"}
        /\ start'[s].pc \in {"stored", "away"} => record'[s] # "none"
    <3>1. ASSUME NEW l \in Logins, PostLogin(s, l) PROVE <2>1!:
      <4>1. record[s] = "none" /\ record' = record /\ (s \in sets' => start'[s].pc = "issuing")
            /\ start'[s].pc \in {"issuing", "refused"}
        <5>1. start[s].pc = "new" /\ record' = record
          BY <3>1 DEF PostLogin
        <5>2. record[s] = "none" /\ s \notin sets
          BY <5>1 DEF IInv, Issuing, Unsent
        <5>3. PICK pc \in {"issuing", "refused"} :
                 /\ start' = [start EXCEPT ![s] = [login |-> l, pc |-> pc]]
                 /\ sets' = IF pc = "issuing" THEN sets \cup {s} ELSE sets
          BY <3>1 DEF PostLogin
        <5> QED
          BY <1>1, <5>1, <5>2, <5>3 DEF TypeOK
      <4> QED
        BY <4>1
    <3>2. ASSUME StoreRecord(s) PROVE <2>1!:
      BY <1>1, <3>2 DEF IInv, Issuing, TypeOK, StoreRecord, Unsent
    <3>3. ASSUME StartFails(s) PROVE <2>1!:
      BY <1>1, <3>3 DEF IInv, Issuing, TypeOK, StartFails, redisVars, Unsent
    <3>4. ASSUME LeaveForIssuer(s) PROVE <2>1!:
      BY <1>1, <3>4 DEF IInv, Issuing, TypeOK, LeaveForIssuer, redisVars, Unsent
    <3>5. ASSUME ProofExpires(s) \/ RecordExpires(s) PROVE <2>1!:
      BY <1>1, <3>5 DEF IInv, Issuing, TypeOK, ProofExpires, RecordExpires, redisVars, Unsent
    <3> QED
      BY <3>1, <3>2, <3>3, <3>4, <3>5 DEF StartStep
  <2> QED
    BY <1>3, <2>1 DEF IInv, Issuing
<1>5. Returned'
  BY <1>2, <1>3 DEF IInv, Returned
<1>6. \A c \in Callbacks : (call[c].pc \in Owning \/ c \in creates) => call[c].start \in Starts
  BY DEF IInv, Returned, Owning
<1>7. Taken' /\ OneHolder'
  BY <1>2, <1>3, <1>6 DEF IInv, Taken, OneHolder, Exchanged
<1> QED
  BY <1>1, <1>4, <1>5, <1>7 DEF IInv

-----------------------------------------------------------------------------
(* The callbacks *)

\* What a callback leaves alone, and how far it goes.
Alone(c) ==
    /\ UNCHANGED <<start, sets>>
    /\ \A d \in Callbacks \ {c} :
          /\ call'[d] = call[d]
          /\ (d \in takes' <=> d \in takes) /\ (d \in creates' <=> d \in creates)
    /\ call[c].pc # "new" => call'[c].start = call[c].start

\* A step of a callback moves no other callback and no start.
LEMMA CallbackAlone == ASSUME IInv, NEW c \in Callbacks, CallbackStep(c) PROVE Alone(c)
<1>1. TypeOK
  BY DEF IInv
<1>2. ASSUME NEW s \in Starts, NEW here \in BOOLEAN, NEW denied \in BOOLEAN,
             ReturnFromIssuer(c, s, here, denied)
      PROVE  Alone(c)
  BY <1>1, <1>2 DEF TypeOK, Alone, ReturnFromIssuer, redisVars
<1>3. ASSUME ReadRecord(c) PROVE Alone(c)
  BY <1>1, <1>3 DEF TypeOK, Alone, ReadRecord, Goto
<1>4. ASSUME TakeRecord(c) PROVE Alone(c)
  BY <1>1, <1>4 DEF TypeOK, Alone, TakeRecord
<1>5. ASSUME ConsumeFails(c) \/ Proceed(c) \/ CallbackFails(c) \/ AnswerCallback(c) PROVE Alone(c)
  BY <1>1, <1>5 DEF TypeOK, Alone, ConsumeFails, Proceed, CallbackFails, AnswerCallback, Goto, redisVars
<1>6. ASSUME Verified(c) \/ CreateSession(c) PROVE Alone(c)
  BY <1>1, <1>6 DEF TypeOK, Alone, Verified, CreateSession, Goto
<1> QED
  BY <1>2, <1>3, <1>4, <1>5, <1>6 DEF CallbackStep

\* A callback that comes back, is refused or gives up holds nothing.
LEMMA IdleKeeps ==
    ASSUME IInv, TypeOK', NEW c \in Callbacks, Alone(c),
           UNCHANGED <<record, sessions, exchanges>>,
           \A s \in Starts : proof'[s] = "cleared" => proof[s] = "cleared" \/ record[s] = "taken",
           call'[c].pc # "new" => call'[c].start \in Starts /\ start[call'[c].start].pc = "away",
           c \in takes' => call'[c].pc \in {"taking", "unavailable"},
           (c \in creates') <=> (c \in creates),
           c \in creates => call'[c].pc \in {"creating", "failed", "done"},
           call[c].pc = "new" => call'[c].pc \notin Owning,
           call'[c].pc \in Owning => call[c].pc \in Owning,
           call'[c].pc \notin {"admitted", "exchanging", "creating"} \/ call'[c].pc = call[c].pc
    PROVE  IInv'
<1>1. Issuing'
  BY DEF IInv, Issuing, Alone
<1>2. Returned'
  BY DEF IInv, Returned, Alone
<1>3. call[c].pc # "new" => call'[c].start = call[c].start
  BY DEF Alone
<1>4. c \in creates => call[c].pc # "new"
  BY DEF IInv, Returned
<1>5. Taken'
  BY <1>3, <1>4 DEF IInv, Taken, Alone, Owning
<1>6. OneHolder'
  BY <1>3, <1>4 DEF IInv, OneHolder, Exchanged, Alone
<1> QED
  BY <1>1, <1>2, <1>5, <1>6 DEF IInv

\* The browser comes back from the issuer: nothing is owned yet.
LEMMA ReturnKeeps ==
    ASSUME IInv, TypeOK', NEW c \in Callbacks, Alone(c), NEW s \in Starts, NEW here \in BOOLEAN,
           NEW denied \in BOOLEAN, ReturnFromIssuer(c, s, here, denied)
    PROVE  IInv'
<1>1. TypeOK
  BY DEF IInv
<1>2. /\ call[c].pc = "new" /\ start[s].pc = "away"
      /\ call'[c].start = s /\ call'[c].pc = "reading"
      /\ UNCHANGED <<proof, record, sessions, exchanges, takes, creates>>
  BY <1>1 DEF TypeOK, ReturnFromIssuer, jarVars, redisVars
<1>3. c \notin takes /\ c \notin creates
  BY <1>2 DEF IInv, Returned
<1> QED
  BY <1>2, <1>3, IdleKeeps DEF Owning

\* The callback read the record: it asks for it, or rejects.
LEMMA ReadKeeps == ASSUME IInv, TypeOK', NEW c \in Callbacks, Alone(c), ReadRecord(c) PROVE IInv'
<1>1. /\ call[c].pc = "reading" /\ call'[c].pc \in {"taking", "rejected"}
      /\ c \in takes' => c \in takes \/ call'[c].pc = "taking"
      /\ UNCHANGED <<proof, record, sessions, exchanges, creates>>
      /\ call'[c].start = call[c].start
  BY DEF IInv, TypeOK, ReadRecord, Goto, jarVars
<1>2. c \notin takes /\ c \notin creates /\ call[c].start \in Starts /\ start[call[c].start].pc = "away"
  BY <1>1 DEF IInv, Returned
<1> QED
  BY <1>1, <1>2, IdleKeeps DEF Owning

\* A callback gives up: a right it held is lost, and nobody else gets it.
LEMMA GivesUpKeeps ==
    ASSUME IInv, TypeOK', NEW c \in Callbacks, Alone(c), ConsumeFails(c) \/ CallbackFails(c)
    PROVE  IInv'
<1>1. /\ \/ call[c].pc \in {"reading", "taking", "admitted"} /\ call'[c].pc = "unavailable"
         \/ call[c].pc \in {"exchanging", "creating", "signed_in"} /\ call'[c].pc = "failed"
      /\ UNCHANGED <<proof, record, sessions, exchanges, creates, takes>>
      /\ call'[c].start = call[c].start
  BY DEF IInv, TypeOK, ConsumeFails, CallbackFails, Goto, jarVars, redisVars
<1>2. /\ call[c].start \in Starts /\ start[call[c].start].pc = "away"
      /\ c \in takes => call[c].pc \in {"taking", "unavailable"}
      /\ c \in creates => call[c].pc = "creating" \/ call[c].pc \in {"failed", "done"}
  BY <1>1 DEF IInv, Returned
<1> QED
  BY <1>1, <1>2, IdleKeeps DEF Owning

\* The proofs an answer clears are those of a taken record.
LEMMA AnswerKeeps == ASSUME IInv, TypeOK', NEW c \in Callbacks, Alone(c), AnswerCallback(c) PROVE IInv'
<1>1. /\ call[c].pc \in {"failed", "signed_in"} /\ call'[c].pc = "done"
      /\ UNCHANGED <<record, sessions, exchanges, creates, takes>>
      /\ call'[c].start = call[c].start
      /\ proof' = [proof EXCEPT ![call[c].start] = "cleared"]
  BY DEF IInv, TypeOK, AnswerCallback, ClearTransaction, Goto, redisVars
<1>2. /\ call[c].start \in Starts /\ start[call[c].start].pc = "away"
      /\ c \notin takes /\ record[call[c].start] = "taken"
      /\ c \in creates => call[c].pc = "failed"
  BY <1>1 DEF IInv, Returned, Taken, Owning
<1>3. \A s \in Starts : proof'[s] = "cleared" => proof[s] = "cleared" \/ record[s] = "taken"
  BY <1>1, <1>2 DEF IInv, TypeOK
<1> QED
  BY <1>1, <1>2, <1>3, IdleKeeps DEF Owning

\* The script takes the record for one callback: until then nobody owned it.
LEMMA TakeKeeps == ASSUME IInv, TypeOK', NEW c \in Callbacks, Alone(c), TakeRecord(c) PROVE IInv'
<1> DEFINE s == call[c].start
<1>1. /\ c \in takes /\ UNCHANGED <<proof, sessions, exchanges, creates>>
      /\ record' = [record EXCEPT ![s] = IF record[s] = "open" THEN "taken" ELSE @]
      /\ call'[c].start = s
      /\ \/ call'[c].pc = call[c].pc /\ call[c].pc # "taking"
         \/ call[c].pc = "taking" /\ call'[c].pc = "admitted" /\ record[s] = "open"
         \/ call[c].pc = "taking" /\ call'[c].pc = "rejected"
      /\ c \notin takes'
  BY DEF IInv, TypeOK, TakeRecord, jarVars
<1>2. s \in Starts /\ start[s].pc = "away" /\ call[c].pc \in {"taking", "unavailable"} /\ c \notin creates
  BY <1>1 DEF IInv, Returned
<1>3. record[s] # "none" /\ s \notin sets
  BY <1>2 DEF IInv, Issuing
<1>4. /\ \A q \in Starts : q # s => record'[q] = record[q]
      /\ record[s] = "taken" => record'[s] = "taken"
      /\ record[s] = "open" => record'[s] = "taken"
      /\ record'[s] # "none"
  BY <1>1, <1>2, <1>3 DEF IInv, TypeOK
<1>5. Issuing' /\ Returned'
  <2>1. Issuing'
    BY <1>2, <1>3, <1>4 DEF IInv, Issuing, Alone, Unsent
  <2>2. Returned'
    BY <1>1, <1>2 DEF IInv, Returned, Alone
  <2> QED
    BY <2>1, <2>2
<1>6. Taken'
  <2>1. \A d \in Callbacks : (call[d].pc \in Owning \/ d \in creates) => call[d].start \in Starts
    BY DEF IInv, Returned, Owning
  <2> QED
    BY <1>1, <1>2, <1>4, <2>1 DEF IInv, Taken, Alone, Owning
<1>7. OneHolder'
  <2>1. record[s] = "open" => /\ exchanges[s] = 0
                              /\ \A d \in Callbacks : call[d].start = s => call[d].pc # "admitted"
    BY <1>2 DEF IInv, Taken, Owning
  <2> QED
    BY <1>1, <1>2, <2>1 DEF IInv, OneHolder, Exchanged, Alone
<1> QED
  BY <1>5, <1>6, <1>7 DEF IInv

\* The admitted callback exchanges the code, once, or ends.
LEMMA ProceedKeeps == ASSUME IInv, TypeOK', NEW c \in Callbacks, Alone(c), Proceed(c) PROVE IInv'
<1> DEFINE s == call[c].start
<1>1. /\ call[c].pc = "admitted" /\ call'[c].start = s
      /\ UNCHANGED <<proof, record, sessions, creates, takes>>
      /\ \/ call'[c].pc = "failed" /\ exchanges' = exchanges
         \/ call'[c].pc = "exchanging" /\ exchanges' = [exchanges EXCEPT ![s] = @ + 1]
  BY DEF IInv, TypeOK, Proceed, Goto, jarVars, redisVars
<1>2. /\ s \in Starts /\ start[s].pc = "away" /\ c \notin takes /\ c \notin creates
      /\ record[s] = "taken" /\ exchanges[s] = 0 /\ s \notin sessions
      /\ \A d \in Callbacks : call[d].start = s => ~Exchanged(d) /\ (call[d].pc = "admitted" => d = c)
  <2>1. s \in Starts /\ start[s].pc = "away" /\ c \notin takes /\ c \notin creates
    BY <1>1 DEF IInv, Returned
  <2>2. record[s] = "taken" /\ exchanges[s] = 0
    BY <1>1 DEF IInv, Taken, OneHolder, Owning
  <2> QED
    BY <1>1, <2>1, <2>2 DEF IInv, OneHolder
<1>3. Issuing' /\ Returned'
  BY <1>1, <1>2 DEF IInv, Issuing, Returned, Alone
<1>4. Taken'
  BY <1>1, <1>2 DEF IInv, Taken, Alone, Owning, TypeOK
<1>5. OneHolder'
  <2>1. CASE exchanges' = exchanges /\ call'[c].pc = "failed"
    BY <1>1, <1>2, <2>1 DEF IInv, OneHolder, Exchanged, Alone
  <2>2. CASE exchanges' = [exchanges EXCEPT ![s] = @ + 1] /\ call'[c].pc = "exchanging"
    <3>1. exchanges'[s] = 1 /\ \A q \in Starts : q # s => exchanges'[q] = exchanges[q]
      BY <1>2, <2>2 DEF IInv, TypeOK
    <3>2. \A d \in Callbacks : d # c => /\ call'[d] = call[d] /\ (Exchanged(d)' <=> Exchanged(d))
                                        /\ (call[d].pc = "admitted" \/ Exchanged(d)) =>
                                              call[d].start # s /\ call[d].start \in Starts
      BY <1>1, <1>2 DEF Exchanged, Alone, IInv, Returned
    <3> QED
      BY <1>1, <1>2, <2>2, <3>1, <3>2 DEF IInv, OneHolder, Exchanged
  <2> QED
    BY <1>1, <2>1, <2>2
<1> QED
  BY <1>3, <1>4, <1>5 DEF IInv

\* The exchange was verified: the right passes to the createSession on its way.
LEMMA VerifiedKeeps == ASSUME IInv, TypeOK', NEW c \in Callbacks, Alone(c), Verified(c) PROVE IInv'
<1>1. /\ call[c].pc = "exchanging" /\ call'[c].start = call[c].start /\ call'[c].pc = "creating"
      /\ UNCHANGED <<proof, record, sessions, exchanges, takes>> /\ creates' = creates \cup {c}
  BY DEF IInv, TypeOK, Verified, Goto, jarVars
<1>2. call[c].start \in Starts /\ start[call[c].start].pc = "away" /\ c \notin takes
  BY <1>1 DEF IInv, Returned
<1>3. \A d \in Callbacks : Exchanged(d)' => Exchanged(d)
  BY <1>1 DEF Alone, Exchanged
<1>4. Issuing' /\ Returned'
  BY <1>1, <1>2 DEF IInv, Issuing, Returned, Alone
<1>5. Taken'
  BY <1>1 DEF IInv, Taken, Alone, Owning
<1>6. OneHolder'
  BY <1>1, <1>3 DEF IInv, OneHolder, Alone
<1> QED
  BY <1>4, <1>5, <1>6 DEF IInv

\* The createSession is executed: the right is used up.
LEMMA CreateKeeps == ASSUME IInv, TypeOK', NEW c \in Callbacks, Alone(c), CreateSession(c) PROVE IInv'
<1> DEFINE s == call[c].start
<1>1. /\ c \in creates /\ call'[c].start = s /\ creates' = creates \ {c}
      /\ \/ call[c].pc = "creating" /\ call'[c].pc = "signed_in"
         \/ call[c].pc # "creating" /\ call'[c].pc = call[c].pc
      /\ UNCHANGED <<proof, record, exchanges, takes>> /\ sessions' = sessions \cup {s}
  BY DEF IInv, TypeOK, CreateSession, jarVars
<1>2. /\ s \in Starts /\ start[s].pc = "away" /\ c \notin takes
      /\ call[c].pc \in {"creating", "failed", "done"} /\ record[s] = "taken" /\ exchanges[s] = 1
  BY <1>1 DEF IInv, Returned, Taken, OneHolder, Exchanged
<1>3. \A d \in Callbacks : Exchanged(d)' => Exchanged(d) /\ d # c /\ call[d].start # s
  BY <1>1, <1>2 DEF IInv, OneHolder, Exchanged, Alone
<1>4. Issuing' /\ Returned'
  BY <1>1, <1>2 DEF IInv, Issuing, Returned, Alone
<1>5. Taken'
  BY <1>1, <1>2 DEF IInv, Taken, Alone, Owning
<1>6. OneHolder'
  BY <1>1, <1>2, <1>3 DEF IInv, OneHolder, Alone
<1> QED
  BY <1>4, <1>5, <1>6 DEF IInv

\* Every step keeps the invariant.
LEMMA NextKeeps == IInv /\ [Next]_vars => IInv'
<1> SUFFICES ASSUME IInv, [Next]_vars PROVE IInv'
  OBVIOUS
<1>1. ASSUME NEW c \in Callbacks, CallbackStep(c) PROVE IInv'
  <2>1. TypeOK' /\ Alone(c)
    BY <1>1, CallbackTypes, CallbackAlone DEF IInv
  <2> QED
    BY <1>1, <2>1, ReturnKeeps, ReadKeeps, GivesUpKeeps, AnswerKeeps, TakeKeeps, ProceedKeeps,
       VerifiedKeeps, CreateKeeps DEF CallbackStep
<1>2. CASE UNCHANGED vars
  BY <1>2 DEF vars, jarVars, redisVars, IInv, TypeOK, Issuing, Returned, Taken, OneHolder, Exchanged
<1> QED
  BY <1>1, <1>2, LoginKeeps, StartKeeps DEF Next

\* The inductive invariant holds in every state of every behaviour.
THEOREM Invariance == Spec => []IInv
  BY InitHolds, NextKeeps, PTL DEF Spec

\* Every variable always has its type, for any number of logins, starts and callbacks.
THEOREM TypeCorrect == Spec => []TypeOK
<1>1. IInv => TypeOK
  BY DEF IInv
<1> QED
  BY <1>1, Invariance, PTL

\* finish(): no answer clears the proofs of a transaction whose record is still open.
THEOREM ProofsKept == Spec => []PendingKeepsProofs
<1>1. IInv => PendingKeepsProofs
  BY DEF IInv, Taken, PendingKeepsProofs
<1> QED
  BY <1>1, Invariance, PTL

-----------------------------------------------------------------------------
(* The cookie budget *)

Handoffs == Held(handoff) \cup Promised
Proofs == Held(proof) \cup Underway

\* What the budget counts is finite.
LEMMA CountedFinite ==
    ASSUME TypeOK
    PROVE  /\ IsFiniteSet(Held(handoff)) /\ IsFiniteSet(Handoffs)
           /\ IsFiniteSet(Held(proof)) /\ IsFiniteSet(Proofs)
<1>1. /\ Held(handoff) \in SUBSET Logins /\ Handoffs \in SUBSET Logins
      /\ Held(proof) \in SUBSET Starts /\ Proofs \in SUBSET Starts
  BY DEF TypeOK, Held, Handoffs, Proofs, Promised, Underway
<1> QED
  BY <1>1, FS_Subset, OidcAssumption

\* A step that adds nothing to the sets keeps within the budget.
LEMMA FewerKeep ==
    ASSUME TypeOK, BudgetKept, overlapped' = overlapped,
           Handoffs' \subseteq Handoffs, Proofs' \subseteq Proofs
    PROVE  BudgetKept'
<1>1. IsFiniteSet(Handoffs) /\ IsFiniteSet(Proofs)
  BY CountedFinite
<1>2. /\ IsFiniteSet(Handoffs') /\ Cardinality(Handoffs') <= Cardinality(Handoffs)
      /\ IsFiniteSet(Proofs') /\ Cardinality(Proofs') <= Cardinality(Proofs)
  BY <1>1, FS_Subset
<1>3. /\ Cardinality(Handoffs) \in Nat /\ Cardinality(Handoffs') \in Nat
      /\ Cardinality(Proofs) \in Nat /\ Cardinality(Proofs') \in Nat
  BY <1>1, <1>2, FS_CardinalityType
<1>4. ~overlapped => Cardinality(Handoffs) <= MaxPending /\ Cardinality(Proofs) <= MaxPending
  BY DEF BudgetKept, Handoffs, Proofs
<1>5. ~overlapped' => Cardinality(Handoffs') <= MaxPending /\ Cardinality(Proofs') <= MaxPending
  BY <1>2, <1>3, <1>4, OidcAssumption
<1> QED
  BY <1>5 DEF BudgetKept, Handoffs, Proofs

\* One more cookie than a set below the limit is within it.
LEMMA OneMore ==
    ASSUME NEW S, IsFiniteSet(S), Cardinality(S) < MaxPending, NEW x, NEW T, T \subseteq S \cup {x}
    PROVE  Cardinality(T) <= MaxPending
<1>1. Cardinality(S) \in Nat /\ IsFiniteSet(S \cup {x}) /\ Cardinality(S \cup {x}) <= Cardinality(S) + 1
  <2>1. Cardinality(S) \in Nat
    BY FS_CardinalityType
  <2>2. /\ IsFiniteSet(S \cup {x})
        /\ Cardinality(S \cup {x}) = IF x \in S THEN Cardinality(S) ELSE Cardinality(S) + 1
    BY FS_AddElement
  <2> QED
    BY <2>1, <2>2
<1>2. Cardinality(T) <= Cardinality(S \cup {x}) /\ Cardinality(T) \in Nat /\ Cardinality(S \cup {x}) \in Nat
  BY <1>1, FS_Subset, FS_CardinalityType
<1> QED
  BY <1>1, <1>2, OidcAssumption

\* With nobody unanswered, nothing is promised or underway.
LEMMA NobodyWaits == ~Unanswered => Handoffs = Held(handoff) /\ Proofs = Held(proof)
  BY DEF Unanswered, Handoffs, Proofs, Promised, Underway

\* A GET of /login stays within the budget.
LEMMA OpenWithin == ASSUME TypeOK, BudgetKept, NEW l \in Logins, OpenLogin(l) PROVE BudgetKept'
<1>1. CASE overlapped'
  BY <1>1 DEF BudgetKept
<1>2. CASE ~overlapped' /\ Handoffs' \subseteq Handoffs
  <2>1. overlapped' = overlapped /\ Proofs' \subseteq Proofs
    BY <1>2 DEF OpenLogin, TypeOK, jarVars, Proofs, Underway, Held
  <2> QED
    BY <1>2, <2>1, FewerKeep
<1>3. CASE ~overlapped' /\ WithinBudget(TRUE) /\ page' = [page EXCEPT ![l] = "answered"]
  <2>1. ~overlapped /\ ~Unanswered /\ handoff' = handoff /\ proof' = proof /\ start' = start
    BY <1>3 DEF OpenLogin, TypeOK, jarVars
  <2>2. Handoffs' \subseteq Held(handoff) \cup {l} /\ Proofs' = Held(proof)
    BY <1>3, <2>1, NobodyWaits DEF Handoffs, Proofs, Promised, Underway, Held, TypeOK
  <2>3. Cardinality(Held(handoff)) < MaxPending /\ Cardinality(Held(proof)) < MaxPending
    <3>1. Cardinality(Held(handoff)) \in Nat /\ Cardinality(Held(proof)) \in Nat
      BY CountedFinite, FS_CardinalityType
    <3> QED
      BY <1>3, <3>1, OidcAssumption DEF WithinBudget
  <2>4. Cardinality(Handoffs') <= MaxPending /\ Cardinality(Proofs') <= MaxPending
    BY <2>2, <2>3, CountedFinite, OneMore
  <2> QED
    BY <2>4 DEF BudgetKept, Handoffs, Proofs
<1>4. \/ Handoffs' \subseteq Handoffs
      \/ WithinBudget(TRUE) /\ page' = [page EXCEPT ![l] = "answered"]
  BY DEF OpenLogin, TypeOK, Handoffs, Promised, Held, jarVars
<1> QED
  BY <1>1, <1>2, <1>3, <1>4

\* A POST of a form stays within the budget.
LEMMA PostWithin ==
    ASSUME TypeOK, BudgetKept, NEW s \in Starts, NEW l \in Logins, PostLogin(s, l) PROVE BudgetKept'
<1>1. CASE overlapped'
  BY <1>1 DEF BudgetKept
<1>2. CASE ~overlapped' /\ Proofs' \subseteq Proofs
  <2>1. overlapped' = overlapped /\ Handoffs' \subseteq Handoffs
    BY <1>2 DEF PostLogin, TypeOK, jarVars, Handoffs, Promised, Held
  <2> QED
    BY <1>2, <2>1, FewerKeep
<1>3. CASE ~overlapped' /\ WithinBudget(FALSE) /\ start' = [start EXCEPT ![s] = [login |-> l, pc |-> "issuing"]]
  <2>1. ~overlapped /\ ~Unanswered /\ handoff' = handoff /\ proof' = proof /\ page' = page
    BY <1>3 DEF PostLogin, TypeOK, jarVars
  <2>2. Proofs' \subseteq Held(proof) \cup {s} /\ Handoffs' = Handoffs
    BY <1>3, <2>1, NobodyWaits DEF Handoffs, Proofs, Promised, Underway, Held, TypeOK
  <2>3. Cardinality(Held(proof)) < MaxPending
    BY <1>3 DEF WithinBudget
  <2>4. Cardinality(Proofs') <= MaxPending /\ Cardinality(Handoffs') <= MaxPending
    BY <2>1, <2>2, <2>3, CountedFinite, OneMore DEF BudgetKept, Handoffs, Proofs
  <2> QED
    BY <2>4 DEF BudgetKept, Handoffs, Proofs
<1>4. \/ Proofs' \subseteq Proofs
      \/ WithinBudget(FALSE) /\ start' = [start EXCEPT ![s] = [login |-> l, pc |-> "issuing"]]
  <2>1. ASSUME start' = [start EXCEPT ![s] = [login |-> l, pc |-> "refused"]], proof' = proof
        PROVE  Proofs' \subseteq Proofs
    BY <2>1 DEF TypeOK, Proofs, Underway, Held
  <2> QED
    BY <2>1 DEF PostLogin, jarVars
<1> QED
  BY <1>1, <1>2, <1>3, <1>4

\* Every other step applies what was promised, or removes cookies.
LEMMA BudgetNext == TypeOK /\ BudgetKept /\ [Next]_vars => BudgetKept'
<1> SUFFICES ASSUME TypeOK, BudgetKept, [Next]_vars PROVE BudgetKept'
  OBVIOUS
<1>1. ASSUME NEW l \in Logins, LoginStep(l) PROVE BudgetKept'
  <2>1. ASSUME ShowLogin(l) \/ IntentExpires(l) \/ HandoffExpires(l)
        PROVE  overlapped' = overlapped /\ Handoffs' \subseteq Handoffs /\ Proofs' \subseteq Proofs
    BY <2>1 DEF ShowLogin, IntentExpires, HandoffExpires, TypeOK, jarVars, Handoffs, Proofs, Promised,
       Underway, Held
  <2> QED
    BY <1>1, <2>1, OpenWithin, FewerKeep DEF LoginStep
<1>2. ASSUME NEW s \in Starts, StartStep(s) PROVE BudgetKept'
  <2>1. ASSUME StoreRecord(s) \/ StartFails(s) \/ RecordExpires(s)
        PROVE  overlapped' = overlapped /\ Handoffs' \subseteq Handoffs /\ Proofs' \subseteq Proofs
    <3>1. UNCHANGED <<handoff, proof, page, overlapped>>
      BY <2>1 DEF StoreRecord, StartFails, RecordExpires, jarVars
    <3>2. Underway' \subseteq Underway
      <4>1. CASE StoreRecord(s)
        BY <4>1 DEF StoreRecord, TypeOK, Underway
      <4>2. CASE StartFails(s)
        BY <4>2 DEF StartFails, TypeOK, Underway
      <4>3. CASE RecordExpires(s)
        BY <4>3 DEF RecordExpires, Underway
      <4> QED
        BY <2>1, <4>1, <4>2, <4>3
    <3> QED
      BY <3>1, <3>2 DEF Handoffs, Proofs, Promised, Held
  <2>2. ASSUME LeaveForIssuer(s) \/ ProofExpires(s)
        PROVE  overlapped' = overlapped /\ Handoffs' \subseteq Handoffs /\ Proofs' \subseteq Proofs
    BY <2>2 DEF LeaveForIssuer, ProofExpires, TypeOK, Handoffs, Proofs, Promised, Underway, Held
  <2> QED
    BY <1>2, <2>1, <2>2, PostWithin, FewerKeep DEF StartStep
<1>3. ASSUME NEW c \in Callbacks, CallbackStep(c) PROVE BudgetKept'
  <2>1. UNCHANGED <<page, start, overlapped>>
    BY <1>3 DEF CallbackStep, ReturnFromIssuer, ReadRecord, TakeRecord, ConsumeFails, Proceed, Verified,
       CreateSession, CallbackFails, AnswerCallback
  <2>2. Held(handoff)' \subseteq Held(handoff) /\ Held(proof)' \subseteq Held(proof)
    <3>1. CASE AnswerCallback(c)
      BY <3>1 DEF AnswerCallback, ClearTransaction, TypeOK, Held
    <3>2. CASE UNCHANGED jarVars
      BY <3>2 DEF jarVars, Held
    <3> QED
      BY <1>3, <3>1, <3>2 DEF CallbackStep, ReturnFromIssuer, ReadRecord, TakeRecord, ConsumeFails,
         Proceed, Verified, CreateSession, CallbackFails
  <2> QED
    BY <2>1, <2>2, FewerKeep DEF Handoffs, Proofs, Promised, Underway
<1>4. CASE UNCHANGED vars
  BY <1>4 DEF vars, jarVars, BudgetKept, Promised, Underway, Held
<1> QED
  BY <1>1, <1>2, <1>3, <1>4 DEF Next

\* oidcStartWithinCookieBudget: without overlapping starts the jar never holds more than the limit.
THEOREM WithinLimit == Spec => []SerialStartsWithinBudget
<1>1. Init => BudgetKept
  <2> SUFFICES ASSUME Init PROVE BudgetKept
    OBVIOUS
  <2>1. Held(handoff) \cup Promised = {} /\ Held(proof) \cup Underway = {}
    BY DEF Init, Held, Promised, Underway, NoStart
  <2> QED
    BY <2>1, FS_EmptySet, OidcAssumption DEF BudgetKept
<1>2. TypeOK /\ BudgetKept => SerialStartsWithinBudget
  <2> SUFFICES ASSUME TypeOK, BudgetKept, ~overlapped
               PROVE  Cardinality(Held(handoff)) <= MaxPending /\ Cardinality(Held(proof)) <= MaxPending
    BY DEF SerialStartsWithinBudget
  <2>1. /\ Cardinality(Handoffs) <= MaxPending /\ Cardinality(Handoffs) \in Nat
        /\ Cardinality(Held(handoff)) <= Cardinality(Handoffs) /\ Cardinality(Held(handoff)) \in Nat
    BY CountedFinite, FS_Subset, FS_CardinalityType DEF BudgetKept, Handoffs
  <2>2. /\ Cardinality(Proofs) <= MaxPending /\ Cardinality(Proofs) \in Nat
        /\ Cardinality(Held(proof)) <= Cardinality(Proofs) /\ Cardinality(Held(proof)) \in Nat
    BY CountedFinite, FS_Subset, FS_CardinalityType DEF BudgetKept, Proofs
  <2> QED
    BY <2>1, <2>2, OidcAssumption
<1> QED
  BY <1>1, <1>2, BudgetNext, TypeCorrect, PTL DEF Spec

-----------------------------------------------------------------------------
(* The refinement *)

Phase(s) == IF record[s] = "none" THEN "unissued" ELSE record[s]

\* A change of one record is a Move of the abstract transaction.
LEMMA RecordMoves ==
    ASSUME TypeOK, NEW s \in Starts, NEW from, NEW to,
           Phase(s) = from, Phase(s)' = to, \A q \in Starts \ {s} : record'[q] = record[q],
           UNCHANGED <<exchanges, sessions>>
    PROVE  Transaction!Move(s, from, to)
  BY DEF Transaction!Move, Phase

\* Every step is a step of the abstract transaction or a stutter.
LEMMA NextMoves == IInv /\ [Next]_vars => [Transaction!Next]_(Transaction!vars)
<1> SUFFICES ASSUME IInv, [Next]_vars PROVE Transaction!Next \/ UNCHANGED Transaction!vars
  OBVIOUS
<1>1. TypeOK
  BY DEF IInv
<1>2. ASSUME UNCHANGED <<record, exchanges, sessions>> PROVE UNCHANGED Transaction!vars
  BY <1>2 DEF Transaction!vars
<1>3. ASSUME NEW s \in Starts, StartStep(s) PROVE Transaction!Next \/ UNCHANGED Transaction!vars
  <2>1. CASE StoreRecord(s)
    <3>1. record[s] = "none"
      BY <2>1 DEF IInv, Issuing, StoreRecord
    <3>2. Transaction!Open(s)
      BY <1>1, <2>1, <3>1, RecordMoves DEF StoreRecord, TypeOK, Phase, Transaction!Open
    <3> QED
      BY <3>2 DEF Transaction!Next
  <2>2. CASE RecordExpires(s)
    <3>1. Transaction!Lapse(s)
      BY <1>1, <2>2, RecordMoves DEF RecordExpires, TypeOK, Phase, Transaction!Lapse
    <3> QED
      BY <3>1 DEF Transaction!Next
  <2> QED
    BY <1>2, <1>3, <2>1, <2>2 DEF StartStep, PostLogin, StartFails, LeaveForIssuer, ProofExpires, redisVars
<1>4. ASSUME NEW c \in Callbacks, CallbackStep(c) PROVE Transaction!Next \/ UNCHANGED Transaction!vars
  <2> DEFINE s == call[c].start
  <2>1. CASE TakeRecord(c)
    <3>1. PICK q \in Starts : q = s
      BY <2>1 DEF IInv, Returned, TakeRecord
    <3>2. CASE record[q] = "open"
      <4>1. record' = [record EXCEPT ![q] = "taken"] /\ UNCHANGED <<exchanges, sessions>>
        BY <2>1, <3>1, <3>2 DEF TakeRecord
      <4>2. Transaction!Take(q)
        BY <1>1, <3>2, <4>1, RecordMoves DEF TypeOK, Phase, Transaction!Take
      <4> QED
        BY <4>2 DEF Transaction!Next
    <3>3. CASE record[q] # "open"
      BY <1>1, <1>2, <2>1, <3>1, <3>3 DEF TakeRecord, TypeOK
    <3> QED
      BY <3>2, <3>3
  <2>2. CASE Proceed(c) /\ exchanges' = [exchanges EXCEPT ![s] = @ + 1]
    <3>1. s \in Starts /\ record[s] = "taken" /\ exchanges[s] = 0
      BY <2>2 DEF IInv, Returned, Taken, OneHolder, Owning, Proceed
    <3>2. Transaction!Exchange(s)
      BY <1>1, <2>2, <3>1 DEF Proceed, TypeOK, Transaction!Exchange, redisVars
    <3> QED
      BY <3>1, <3>2 DEF Transaction!Next
  <2>3. CASE CreateSession(c)
    <3>1. s \in Starts /\ exchanges[s] = 1 /\ s \notin sessions
      BY <2>3 DEF IInv, Returned, OneHolder, Exchanged, CreateSession
    <3>2. Transaction!Establish(s)
      BY <2>3, <3>1 DEF CreateSession, Transaction!Establish
    <3> QED
      BY <3>1, <3>2 DEF Transaction!Next
  <2> QED
    BY <1>2, <1>4, <2>1, <2>2, <2>3 DEF CallbackStep, ReturnFromIssuer, ReadRecord, ConsumeFails, Proceed,
       Verified, CallbackFails, AnswerCallback, redisVars
<1>5. ASSUME NEW l \in Logins, LoginStep(l) PROVE UNCHANGED Transaction!vars
  BY <1>2, <1>5 DEF LoginStep, OpenLogin, ShowLogin, IntentExpires, HandoffExpires, redisVars
<1>6. CASE UNCHANGED vars
  BY <1>2, <1>6 DEF vars, redisVars
<1> QED
  BY <1>3, <1>4, <1>5, <1>6 DEF Next

\* Records, callbacks and the session store implement TransactionLifecycle: a code is exchanged once
\* at most, after its record was taken, and makes one session at most.
THEOREM Implements == Spec => TransactionSpec
<1>1. Init => Transaction!Init
  BY DEF Init, Transaction!Init
<1> QED
  BY <1>1, Invariance, NextMoves, PTL DEF Spec, TransactionSpec, Transaction!Spec

=============================================================================
