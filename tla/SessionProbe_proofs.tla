------------------------- MODULE SessionProbe_proofs -------------------------
(***************************************************************************)
(* Safety of SessionProbe, for every set of accounts and hooks and every   *)
(* number of changes by other tabs.                                        *)
(*                                                                         *)
(* A step of the document either lets some hooks check (Check) or settles  *)
(* the probe (Settle): each of the two shapes is proved once.  What an     *)
(* answer says is worth something only as long as its probe is not         *)
(* retired; a refresh is dispatched only by a probe that began when no     *)
(* refresh was unconfirmed.                                                *)
(***************************************************************************)
EXTENDS SessionProbe, TLAPS

HookType == [pending : BOOLEAN, fenced : BOOLEAN, recovery : BOOLEAN, boundary : Accounts,
             spent : BOOLEAN, recovering : BOOLEAN, waiting : BOOLEAN]
ReplyType == [mode : {"none", "anonymous", "refresh-required", "authenticated", "confirm"},
              subject : Accounts]
ProbeType == [pc : {"none", "reading", "csrf", "posting", "confirming"},
              index : Accounts \cup {"unreadable"}, retired : BOOLEAN, recovering : BOOLEAN,
              expected : Accounts, reply : ReplyType]

\* A probe that may still dispatch a refresh began when none was unconfirmed.
Confirmed ==
    /\ blind \in {0, 1}
    /\ blind = 1 => unconfirmed
    /\ probe.pc \in {"reading", "csrf"} => probe.recovering = unconfirmed
    /\ probe.pc = "csrf" => ~probe.recovering

\* What an answer in flight says was true since the last identity event, or the probe is retired.
AnswersSeen ==
    /\ server \in seen
    /\ probe.pc = "none" => probe.reply.mode = "none"
    /\ (~probe.retired /\ probe.reply.mode # "none") => probe.reply.subject \in seen

\* An episode that has not spent its recheck has bought none.
Episodes == \A h \in Hooks : bought[h] \in {0, 1} /\ (~hook[h].spent => bought[h] = 0)

\* A suspended document has no probe; events are queued for changes of the marker only.
Suspended == (page = "suspended" => probe.pc = "none") /\ events <= marks

\* The inductive invariant of the probe.
IInv == /\ TypeOK /\ Confirmed /\ AnswersSeen /\ Episodes /\ Suspended
        /\ BoundaryIsCurrent /\ RecheckIsAwaited

-----------------------------------------------------------------------------
(* The records of a hook and of the probe *)

\* The record sets of TypeOK by their names.
LEMMA TypesNamed ==
    /\ TypeOK => hook \in [Hooks -> HookType] /\ probe \in ProbeType
    /\ (hook' \in [Hooks -> HookType] /\ probe' \in ProbeType) =>
          /\ hook' \in [Hooks -> [pending : BOOLEAN, fenced : BOOLEAN, recovery : BOOLEAN,
                           boundary : Accounts, spent : BOOLEAN, recovering : BOOLEAN,
                           waiting : BOOLEAN]]
          /\ probe' \in [pc : {"none", "reading", "csrf", "posting", "confirming"},
                  index : Accounts \cup {"unreadable"}, retired : BOOLEAN, recovering : BOOLEAN,
                  expected : Accounts,
                  reply : [mode : {"none", "anonymous", "refresh-required", "authenticated",
                                   "confirm"}, subject : Accounts]]
  BY DEF TypeOK, HookType, ProbeType, ReplyType

\* Retiring a boundary.
LEMMA UnadmittedType ==
    ASSUME NEW r \in HookType
    PROVE  /\ Unadmitted(r) \in HookType
           /\ Unadmitted(r).boundary = "none" /\ ~Unadmitted(r).waiting
           /\ Unadmitted(r).pending = r.pending /\ Unadmitted(r).fenced = r.fenced
           /\ Unadmitted(r).spent = r.spent
  BY DEF Unadmitted, HookType, Accounts

\* What check does in one hook.
LEMMA CheckingType ==
    ASSUME NEW r \in HookType, NEW index
    PROVE  LET q == Checking(r, index) IN
           /\ q \in HookType
           /\ q.pending /\ q.boundary \in {"none", r.boundary} /\ q.spent = r.spent
           /\ q.waiting => r.waiting
           /\ q.fenced = (r.pending /\ r.fenced)
<1> DEFINE q == RetireChanged(r, index)
<1>1. /\ q \in HookType /\ q.pending = r.pending /\ q.fenced = r.fenced /\ q.spent = r.spent
      /\ q.boundary \in {"none", r.boundary} /\ (q.waiting => r.waiting)
  BY UnadmittedType DEF RetireChanged, HookType
<1>2. CASE q.pending
  BY <1>1, <1>2 DEF Checking, HookType
<1>3. CASE ~q.pending
  <2> DEFINE new == [q EXCEPT !.pending = TRUE, !.fenced = FALSE, !.recovery = q.recovering,
                              !.boundary = IF @ = index THEN @ ELSE "none"]
  <2>1. Checking(r, index) = new
    BY <1>3 DEF Checking
  <2>2. /\ new.pending = TRUE /\ new.fenced = FALSE /\ new.spent = q.spent
        /\ new.waiting = q.waiting /\ new.boundary \in {"none", q.boundary}
    BY <1>1 DEF HookType
  <2>3. new \in HookType
    BY <1>1 DEF HookType, Accounts
  <2> HIDE DEF q, new
  <2> QED
    BY <1>1, <1>3, <2>1, <2>2, <2>3
<1> QED
  BY <1>1, <1>2, <1>3 DEF HookType

\* A probe that starts.
LEMMA NewProbeType ==
    ASSUME TypeOK, NEW index \in Accounts \cup {"unreadable"}
    PROVE  LET p == NewProbe(index) IN
           /\ p \in ProbeType /\ p.pc \in {"reading", "csrf"} /\ p.reply.mode = "none"
           /\ ~p.retired /\ p.recovering = unconfirmed
           /\ p.pc = "csrf" => ~unconfirmed
<1>1. CASE Renews(index)
  BY <1>1, ZenonT(40) DEF NewProbe, NoProbe, ProbeType, ReplyType, TypeOK, Accounts, Renews
<1>2. CASE ~Renews(index)
  BY <1>2, ZenonT(40) DEF NewProbe, NoProbe, ProbeType, ReplyType, TypeOK, Accounts
<1> QED
  BY <1>1, <1>2

\* Every index a check may read.
LEMMA IndexType ==
    ASSUME TypeOK
    PROVE  Index \subseteq Accounts \cup {"unreadable"}
  BY DEF Index, TypeOK

\* Check, from the hook states rs and the probe p: what becomes of the hooks.
LEMMA HooksChecked ==
    ASSUME TypeOK, NEW hs \in SUBSET Hooks, NEW rs \in [Hooks -> HookType], NEW p \in ProbeType,
           Check(hs, rs, p)
    PROVE  /\ hook' \in [Hooks -> HookType]
           /\ \A h \in Hooks :
                /\ hook'[h].boundary \in {"none", rs[h].boundary}
                /\ hook'[h].spent = rs[h].spent
                /\ hook'[h].waiting => rs[h].waiting
                /\ hook'[h].pending <=> (h \in hs \/ rs[h].pending)
                /\ hook'[h].fenced => rs[h].fenced /\ (h \in hs => rs[h].pending)
<1>1. PICK index \in Index :
         hook' = [h \in Hooks |-> IF h \in hs THEN Checking(rs[h], index) ELSE rs[h]]
  BY DEF Check
<1>2. ASSUME NEW h \in Hooks
      PROVE  /\ hook'[h] \in HookType
             /\ hook'[h].boundary \in {"none", rs[h].boundary}
             /\ hook'[h].spent = rs[h].spent
             /\ hook'[h].waiting => rs[h].waiting
             /\ hook'[h].pending <=> (h \in hs \/ rs[h].pending)
             /\ hook'[h].fenced => rs[h].fenced /\ (h \in hs => rs[h].pending)
  <2>0. rs[h] \in HookType
    OBVIOUS
  <2>1. CASE h \in hs
    <3> DEFINE q == Checking(rs[h], index)
    <3>1. hook'[h] = q
      BY <1>1, <2>1
    <3>2. /\ q \in HookType
          /\ q.pending /\ q.boundary \in {"none", rs[h].boundary} /\ q.spent = rs[h].spent
          /\ q.waiting => rs[h].waiting
          /\ q.fenced = (rs[h].pending /\ rs[h].fenced)
      BY <2>0, CheckingType
    <3> HIDE DEF q
    <3>3. q.fenced => rs[h].fenced /\ rs[h].pending
      BY <3>2
    <3> QED
      BY <2>1, <3>1, <3>2, <3>3
  <2>2. CASE h \notin hs
    <3>1. hook'[h] = rs[h]
      BY <1>1, <2>2
    <3> QED
      BY <2>0, <2>2, <3>1
  <2> QED
    BY <2>1, <2>2
<1>3. hook' \in [Hooks -> HookType]
  BY <1>1, <1>2
<1> QED
  BY <1>2, <1>3

\* Check: the shared probe goes on, retired or not, or a new one starts.
LEMMA ProbeChecked ==
    ASSUME TypeOK, NEW hs \in SUBSET Hooks, NEW rs \in [Hooks -> HookType], NEW p \in ProbeType,
           Check(hs, rs, p)
    PROVE  /\ probe' \in ProbeType /\ renewal' \in {"unset", "ahead", "due"}
           /\ UNCHANGED <<admitted, unconfirmed, renewing>>
           /\ \/ /\ p.pc = "none"
                 /\ probe'.pc \in {"reading", "csrf"} /\ probe'.reply.mode = "none"
                 /\ ~probe'.retired /\ probe'.recovering = unconfirmed
                 /\ probe'.pc = "csrf" => ~unconfirmed
              \/ /\ p.pc = "none" => \A h \in hs : rs[h].pending
                 /\ probe'.pc = p.pc /\ probe'.recovering = p.recovering
                 /\ probe'.reply = p.reply /\ (p.retired => probe'.retired)
<1> DEFINE old(index) == [p EXCEPT !.retired = @ \/ (p.pc # "none" /\ index # p.index)]
           starts == p.pc = "none" /\ \E h \in hs : ~rs[h].pending
<1>1. PICK index \in Index :
         /\ probe' = IF starts THEN NewProbe(index) ELSE old(index)
         /\ renewal' = IF starts /\ Renews(index) THEN "ahead" ELSE renewal
  BY DEF Check
<1>2. UNCHANGED <<admitted, unconfirmed, renewing>>
  BY DEF Check
<1>3. renewal' \in {"unset", "ahead", "due"}
  BY <1>1 DEF TypeOK
<1>4. CASE starts
  <2>1. probe' = NewProbe(index)
    BY <1>1, <1>4
  <2>2. index \in Accounts \cup {"unreadable"}
    BY IndexType
  <2> QED
    BY <1>2, <1>3, <1>4, <2>1, <2>2, NewProbeType
<1>5. CASE ~starts
  <2>1. probe' = old(index)
    BY <1>1, <1>5
  <2>2. /\ old(index) \in ProbeType /\ old(index).pc = p.pc /\ old(index).recovering = p.recovering
        /\ old(index).reply = p.reply /\ (p.retired => old(index).retired)
    BY DEF ProbeType
  <2> QED
    BY <1>2, <1>3, <1>5, <2>1, <2>2
<1> QED
  BY <1>4, <1>5

-----------------------------------------------------------------------------
(* The two shapes of a step *)

\* No boundary is new: an action that admits nobody.
AdmitsNobody == \A h \in Hooks : hook'[h].boundary \in {"none", hook[h].boundary}

\* Some hooks check, from the hook states rs and the probe p the task left them.
LEMMA CheckKeeps ==
    ASSUME IInv, NEW hs \in SUBSET Hooks, NEW rs \in [Hooks -> HookType], NEW p \in ProbeType,
           Check(hs, rs, p),
           \A h \in Hooks :
             /\ rs[h].boundary \in {"none", hook[h].boundary}
             /\ rs[h].boundary # "none" => events' = events
             /\ rs[h].waiting => \/ rs[h].pending /\ ~rs[h].fenced
                                 \/ h \in hs /\ ~rs[h].pending
             /\ rs[h].pending => p.pc # "none"
             /\ ~rs[h].spent => bought'[h] = 0
             /\ bought'[h] \in {0, 1},
           bought' \in [Hooks -> Nat],
           p.pc = probe.pc, p.recovering = probe.recovering, p.reply = probe.reply,
           probe.retired => p.retired,
           \/ seen' = seen
           \/ seen' = {server} /\ (p.retired \/ p.pc = "none"),
           page' \in {"visible", "hidden"}, events' \in 0..marks,
           UNCHANGED <<server, marker, sessions, marks, blind>>
    PROVE  IInv' /\ AdmitsNobody
<1> USE DEF IInv
<1>1. /\ hook' \in [Hooks -> HookType]
      /\ \A h \in Hooks :
           /\ hook'[h].boundary \in {"none", rs[h].boundary}
           /\ hook'[h].spent = rs[h].spent
           /\ hook'[h].waiting => rs[h].waiting
           /\ hook'[h].pending <=> (h \in hs \/ rs[h].pending)
           /\ hook'[h].fenced => rs[h].fenced /\ (h \in hs => rs[h].pending)
  BY HooksChecked
<1>2. /\ probe' \in ProbeType /\ renewal' \in {"unset", "ahead", "due"}
      /\ UNCHANGED <<admitted, unconfirmed, renewing>>
      /\ \/ /\ p.pc = "none"
            /\ probe'.pc \in {"reading", "csrf"} /\ probe'.reply.mode = "none"
            /\ ~probe'.retired /\ probe'.recovering = unconfirmed
            /\ probe'.pc = "csrf" => ~unconfirmed
         \/ /\ p.pc = "none" => \A h \in hs : rs[h].pending
            /\ probe'.pc = p.pc /\ probe'.recovering = p.recovering
            /\ probe'.reply = p.reply /\ (p.retired => probe'.retired)
  BY ProbeChecked
<1>3. TypeOK'
  <2>1. /\ server' \in Accounts /\ marker' \in Accounts
        /\ events' \in 0..MaxMarks /\ sessions' \in 0..MaxSessions /\ marks' \in 0..MaxMarks
        /\ page' \in {"visible", "hidden", "suspended"}
        /\ admitted' \in Accounts /\ renewing' \in Accounts /\ unconfirmed' \in BOOLEAN
        /\ blind' \in Nat /\ seen' \subseteq Accounts
    BY <1>2, ProbeAssumption DEF TypeOK
  <2> QED
    BY <1>1, <1>2, <2>1, TypesNamed DEF TypeOK
<1>4. Confirmed'
  BY <1>2 DEF Confirmed
<1>5. AnswersSeen'
  BY <1>2 DEF AnswersSeen
<1>6. Episodes'
  BY <1>1 DEF Episodes
<1>7. Suspended'
  BY ProbeAssumption DEF Suspended, TypeOK
<1>8. BoundaryIsCurrent'
  BY <1>1, <1>2 DEF BoundaryIsCurrent
<1>9. RecheckIsAwaited'
  <2> SUFFICES ASSUME NEW h \in Hooks
               PROVE  /\ hook'[h].waiting => hook'[h].pending /\ ~hook'[h].fenced
                      /\ hook'[h].pending => probe'.pc # "none"
    BY DEF RecheckIsAwaited, Subscribed
  <2>1. hook'[h].pending => probe'.pc # "none"
    BY <1>1, <1>2
  <2>2. hook'[h].waiting => hook'[h].pending /\ ~hook'[h].fenced
    BY <1>1
  <2> QED
    BY <2>1, <2>2
<1>10. AdmitsNobody
  BY <1>1 DEF AdmitsNobody
<1> QED
  BY <1>3, <1>4, <1>5, <1>6, <1>7, <1>8, <1>9, <1>10

\* What Settle leaves: no probe, no pendingCheck; the subscribers take the result.
LEMMA SettleType ==
    ASSUME TypeOK, RecheckIsAwaited, NEW result \in [Hooks -> HookType], Settle(result),
           \A h \in Hooks : ~result[h].waiting
    PROVE  /\ probe' \in ProbeType /\ probe'.pc = "none" /\ probe'.reply.mode = "none"
           /\ hook' \in [Hooks -> HookType]
           /\ \A h \in Hooks :
                /\ ~hook'[h].pending /\ ~hook'[h].waiting
                /\ hook'[h].boundary = IF h \in Subscribed THEN result[h].boundary
                                       ELSE hook[h].boundary
                /\ hook'[h].spent = IF h \in Subscribed THEN result[h].spent ELSE hook[h].spent
<1>1. probe' \in ProbeType /\ probe'.pc = "none" /\ probe'.reply.mode = "none"
  BY DEF Settle, NoProbe, ProbeType, ReplyType, Accounts
<1>2. hook \in [Hooks -> HookType]
  BY TypesNamed
<1>3. ASSUME NEW h \in Hooks
      PROVE  /\ hook'[h] \in HookType
             /\ ~hook'[h].pending /\ ~hook'[h].waiting
             /\ hook'[h].boundary = IF h \in Subscribed THEN result[h].boundary
                                    ELSE hook[h].boundary
             /\ hook'[h].spent = IF h \in Subscribed THEN result[h].spent ELSE hook[h].spent
  <2> DEFINE q == IF h \in Subscribed THEN result[h] ELSE hook[h]
  <2>1. hook'[h] = [q EXCEPT !.pending = FALSE, !.fenced = FALSE]
    BY DEF Settle
  <2>2. q \in HookType /\ ~q.waiting
    BY <1>2 DEF RecheckIsAwaited
  <2>3. /\ q.boundary = IF h \in Subscribed THEN result[h].boundary ELSE hook[h].boundary
        /\ q.spent = IF h \in Subscribed THEN result[h].spent ELSE hook[h].spent
    OBVIOUS
  <2> HIDE DEF q
  <2>4. /\ hook'[h] \in HookType /\ hook'[h].pending = FALSE /\ hook'[h].waiting = q.waiting
        /\ hook'[h].boundary = q.boundary /\ hook'[h].spent = q.spent
    BY <2>1, <2>2 DEF HookType
  <2> QED
    BY <2>2, <2>3, <2>4
<1>4. hook' \in [Hooks -> HookType]
  BY <1>3 DEF Settle
<1> QED
  BY <1>1, <1>3, <1>4

-----------------------------------------------------------------------------
(* Settlement *)

\* An account whose boundary opens was seen since the last identity event.
OnlySeen == \A h \in Hooks : hook'[h].boundary \notin {"none", hook[h].boundary}
                               => hook'[h].boundary \in seen

\* A step that admits nobody admits only who was seen.
LEMMA NobodySeen == ASSUME AdmitsNobody PROVE OnlySeen
  BY DEF AdmitsNobody, OnlySeen

\* A probe that failed closes the boundaries of its subscribers.
LEMMA SettleUnavailableKeeps ==
    ASSUME IInv, SettleUnavailable
    PROVE  IInv' /\ AdmitsNobody
<1> USE DEF IInv
<1> DEFINE result == [h \in Hooks |-> Unadmitted(hook[h])]
<1>1. hook \in [Hooks -> HookType]
  BY TypesNamed
<1>2. /\ result \in [Hooks -> HookType]
      /\ \A h \in Hooks : /\ ~result[h].waiting /\ result[h].boundary = "none"
                          /\ result[h].spent = hook[h].spent
  BY <1>1, UnadmittedType
<1>3. Settle(result) /\ UNCHANGED <<world, page, shared, blind, seen, bought>>
  BY DEF SettleUnavailable
<1> HIDE DEF result
<1>4. /\ probe' \in ProbeType /\ probe'.pc = "none" /\ probe'.reply.mode = "none"
      /\ hook' \in [Hooks -> HookType]
      /\ \A h \in Hooks :
           /\ ~hook'[h].pending /\ ~hook'[h].waiting
           /\ hook'[h].boundary \in {"none", hook[h].boundary}
           /\ hook'[h].spent = hook[h].spent
  BY <1>2, <1>3, SettleType
<1>5. TypeOK'
  BY <1>3, <1>4, TypesNamed DEF TypeOK, world, shared
<1>6. Confirmed' /\ AnswersSeen' /\ Episodes' /\ Suspended'
  BY <1>3, <1>4 DEF Confirmed, AnswersSeen, Episodes, Suspended, world, shared
<1>7. BoundaryIsCurrent' /\ RecheckIsAwaited'
  BY <1>3, <1>4 DEF BoundaryIsCurrent, RecheckIsAwaited, world, shared
<1>8. AdmitsNobody
  BY <1>4 DEF AdmitsNobody
<1> QED
  BY <1>5, <1>6, <1>7, <1>8

\* A signed-out session ends the read episodes of the subscribers.
LEMMA SettleAnonymousKeeps ==
    ASSUME IInv, ~unconfirmed, SettleAnonymous
    PROVE  IInv' /\ AdmitsNobody
<1> USE DEF IInv
<1> DEFINE result == [h \in Hooks |-> SignedOut(hook[h])]
<1>1. hook \in [Hooks -> HookType]
  BY TypesNamed
<1>2. /\ result \in [Hooks -> HookType]
      /\ \A h \in Hooks : /\ ~result[h].waiting /\ result[h].boundary = "none"
                          /\ result[h].spent = FALSE
  <2> SUFFICES ASSUME NEW h \in Hooks
               PROVE  /\ SignedOut(hook[h]) \in HookType /\ ~SignedOut(hook[h]).waiting
                      /\ SignedOut(hook[h]).boundary = "none"
                      /\ SignedOut(hook[h]).spent = FALSE
    OBVIOUS
  <2> DEFINE q == Unadmitted(hook[h])
  <2>1. q \in HookType /\ q.boundary = "none" /\ ~q.waiting
    BY <1>1, UnadmittedType
  <2> HIDE DEF q
  <2>2. SignedOut(hook[h]) = [q EXCEPT !.spent = FALSE, !.recovering = FALSE]
    BY DEF SignedOut, q
  <2> QED
    BY <2>1, <2>2 DEF HookType
<1>3. /\ Settle(result)
      /\ IF Subscribed = {} THEN UNCHANGED shared
         ELSE /\ admitted' = "none" /\ renewal' = "unset"
              /\ unconfirmed' = FALSE /\ renewing' = "none"
      /\ bought' = [h \in Hooks |-> IF h \in Subscribed THEN 0 ELSE bought[h]]
      /\ UNCHANGED <<world, page, blind, seen>>
  BY DEF SettleAnonymous
<1> HIDE DEF result
<1>4. /\ probe' \in ProbeType /\ probe'.pc = "none" /\ probe'.reply.mode = "none"
      /\ hook' \in [Hooks -> HookType]
      /\ \A h \in Hooks :
           /\ ~hook'[h].pending /\ ~hook'[h].waiting
           /\ hook'[h].boundary = IF h \in Subscribed THEN "none" ELSE hook[h].boundary
           /\ hook'[h].spent = IF h \in Subscribed THEN FALSE ELSE hook[h].spent
  <2>1. /\ probe' \in ProbeType /\ probe'.pc = "none" /\ probe'.reply.mode = "none"
        /\ hook' \in [Hooks -> HookType]
        /\ \A h \in Hooks :
             /\ ~hook'[h].pending /\ ~hook'[h].waiting
             /\ hook'[h].boundary = IF h \in Subscribed THEN result[h].boundary
                                    ELSE hook[h].boundary
             /\ hook'[h].spent = IF h \in Subscribed THEN result[h].spent ELSE hook[h].spent
    BY <1>2, <1>3, SettleType
  <2> QED
    BY <1>2, <2>1
<1>5. /\ admitted' \in {"none", admitted} /\ renewing' \in {"none", renewing}
      /\ renewal' \in {"unset", "ahead", "due"} /\ unconfirmed' = FALSE
  BY <1>3 DEF TypeOK, shared
<1>6. TypeOK'
  <2>1. bought' \in [Hooks -> Nat]
    BY <1>3 DEF TypeOK
  <2> QED
    BY <1>3, <1>4, <1>5, <2>1, TypesNamed DEF TypeOK, world, Accounts
<1>7. Confirmed' /\ AnswersSeen' /\ Suspended'
  BY <1>3, <1>4 DEF Confirmed, AnswersSeen, Suspended, world
<1>8. Episodes'
  BY <1>3, <1>4 DEF Episodes
<1>9. BoundaryIsCurrent' /\ RecheckIsAwaited'
  BY <1>3, <1>4, <1>5 DEF BoundaryIsCurrent, RecheckIsAwaited, world
<1>10. AdmitsNobody
  BY <1>4 DEF AdmitsNobody
<1> QED
  BY <1>6, <1>7, <1>8, <1>9, <1>10

\* A document that starts.
LEMMA MountedType ==
    ASSUME TypeOK, NEW index
    PROVE  LET q == Checking(Mounted, index) IN
           /\ q \in HookType /\ q.pending /\ ~q.fenced /\ ~q.waiting
           /\ q.boundary = "none" /\ ~q.spent
<1>1. /\ Mounted \in HookType /\ Mounted.boundary = "none" /\ ~Mounted.spent
      /\ ~Mounted.waiting /\ ~Mounted.pending
  BY DEF Mounted, HookType, Accounts
<1>2. ASSUME NEW q, q = Checking(Mounted, index)
      PROVE  /\ q \in HookType /\ q.pending /\ ~q.fenced /\ ~q.waiting
             /\ q.boundary = "none" /\ ~q.spent
  <2>1. /\ q \in HookType
        /\ q.pending /\ q.boundary \in {"none", Mounted.boundary} /\ q.spent = Mounted.spent
        /\ q.waiting => Mounted.waiting
        /\ q.fenced = (Mounted.pending /\ Mounted.fenced)
    BY <1>1, <1>2, CheckingType
  <2> QED
    BY <1>1, <2>1
<1> QED
  BY <1>2

\* What a hook becomes when an account is admitted.
LEMMA AdmittedType ==
    ASSUME NEW r \in HookType, NEW s \in Accounts, NEW confirmed \in BOOLEAN
    PROVE  /\ Admitted(r, s, confirmed) \in HookType
           /\ Admitted(r, s, confirmed).boundary = s /\ ~Admitted(r, s, confirmed).waiting
           /\ Admitted(r, s, confirmed).spent = (r.spent /\ (~confirmed \/ r.recovery))
<1>1. /\ r.spent \in BOOLEAN /\ r.recovery \in BOOLEAN
      /\ r = [pending |-> r.pending, fenced |-> r.fenced, recovery |-> r.recovery,
              boundary |-> r.boundary, spent |-> r.spent, recovering |-> r.recovering,
              waiting |-> r.waiting]
  BY DEF HookType
<1>2. (r.spent /\ (~confirmed \/ r.recovery)) \in BOOLEAN
  OBVIOUS
<1> DEFINE q == [r EXCEPT !.boundary = s, !.waiting = FALSE, !.recovering = FALSE,
                          !.spent = r.spent /\ (~confirmed \/ r.recovery)]
<1>3. Admitted(r, s, confirmed) = q
  BY DEF Admitted
<1>4. /\ q \in HookType /\ q.boundary = s /\ ~q.waiting
      /\ q.spent = (r.spent /\ (~confirmed \/ r.recovery))
  BY <1>1, <1>2 DEF HookType
<1> QED
  BY <1>3, <1>4

\* A new document starts as the first one did.
LEMMA ReloadKeeps ==
    ASSUME IInv, Reload, marker' \in Accounts, page \in {"visible", "hidden"},
           UNCHANGED <<server, sessions, marks, page>>
    PROVE  IInv' /\ AdmitsNobody
<1> USE DEF IInv
<1>1. /\ admitted' = "none" /\ renewal' = "unset" /\ unconfirmed' = FALSE /\ renewing' = "none"
      /\ events' = 0
      /\ probe' = [NoProbe EXCEPT !.pc = "reading", !.index = marker']
      /\ hook' = [h \in Hooks |-> Checking(Mounted, marker')]
      /\ blind' = 0
      /\ seen' = {server}
      /\ bought' = [h \in Hooks |-> 0]
  BY DEF Reload
<1>2. PICK m \in Accounts : m = marker'
  OBVIOUS
<1>3. /\ hook' \in [Hooks -> HookType]
      /\ \A h \in Hooks : /\ hook'[h].pending /\ ~hook'[h].fenced /\ ~hook'[h].waiting
                          /\ hook'[h].boundary = "none" /\ ~hook'[h].spent
  <2>1. hook' = [h \in Hooks |-> Checking(Mounted, m)]
    BY <1>1, <1>2
  <2>2. ASSUME NEW h \in Hooks
        PROVE  /\ hook'[h] \in HookType /\ hook'[h].pending /\ ~hook'[h].fenced
               /\ ~hook'[h].waiting /\ hook'[h].boundary = "none" /\ ~hook'[h].spent
    BY <2>1, MountedType
  <2> QED
    BY <2>1, <2>2
<1>4. /\ probe' \in ProbeType /\ probe'.pc = "reading" /\ probe'.reply.mode = "none"
      /\ probe'.recovering = FALSE
  BY <1>1 DEF NoProbe, ProbeType, ReplyType, Accounts
<1>5. TypeOK'
  <2>1. bought' \in [Hooks -> Nat] /\ events' \in 0..MaxMarks /\ seen' \subseteq Accounts
    BY <1>1, ProbeAssumption DEF TypeOK
  <2> QED
    BY <1>1, <1>3, <1>4, <2>1, TypesNamed DEF TypeOK, Accounts
<1>6. Confirmed' /\ AnswersSeen' /\ Episodes' /\ Suspended'
  <2>1. Confirmed'
    <3>1. blind' \in {0, 1} /\ (blind' = 1 => unconfirmed')
      BY <1>1
    <3>2. probe'.recovering = unconfirmed'
      BY <1>1, <1>4
    <3>3. probe'.pc # "csrf"
      BY <1>4
    <3> QED
      BY <3>1, <3>2, <3>3 DEF Confirmed
  <2>2. AnswersSeen'
    BY <1>1, <1>4 DEF AnswersSeen
  <2>3. Episodes'
    BY <1>1, <1>3 DEF Episodes
  <2>4. Suspended'
    BY <1>1, ProbeAssumption DEF Suspended, TypeOK
  <2> QED
    BY <2>1, <2>2, <2>3, <2>4
<1>7. BoundaryIsCurrent' /\ RecheckIsAwaited'
  BY <1>3, <1>4 DEF BoundaryIsCurrent, RecheckIsAwaited, Subscribed
<1>8. AdmitsNobody
  BY <1>3 DEF AdmitsNobody
<1> QED
  BY <1>5, <1>6, <1>7, <1>8

\* An answer that names the account s opens the boundaries of the subscribers for s only; it
\* closes the question of a refresh only when it is about that refresh.
LEMMA SettleAuthenticatedKeeps ==
    ASSUME IInv, NEW s \in Accounts, NEW confirmed \in BOOLEAN, confirmed \/ ~unconfirmed,
           probe.pc # "none", SettleAuthenticated(s, confirmed)
    PROVE  /\ IInv'
           /\ \A h \in Hooks : hook'[h].boundary \in {"none", hook[h].boundary, s}
<1> USE DEF IInv
<1>1. PICK ok \in SUBSET Hooks :
        /\ ok \subseteq Subscribed
        /\ marker' = IF ok = {} THEN marker ELSE s
        /\ IF ok # {} /\ admitted \notin {"none", s} THEN Reload
           ELSE /\ Settle([h \in Hooks |-> IF h \in ok THEN Admitted(hook[h], s, confirmed)
                                             ELSE Unadmitted(hook[h])])
                /\ admitted' = IF ok = {} THEN admitted ELSE s
                /\ IF ok # {} /\ (renewal = "unset" \/ confirmed)
                   THEN renewal' = "ahead" /\ unconfirmed' = FALSE /\ renewing' = "none"
                   ELSE UNCHANGED <<renewal, unconfirmed, renewing>>
                /\ blind' = IF confirmed THEN 0 ELSE blind
                /\ bought' = [h \in Hooks |-> IF h \in ok /\ confirmed /\ ~hook[h].recovery
                                               THEN 0 ELSE bought[h]]
                /\ UNCHANGED <<events, seen>>
        /\ UNCHANGED <<server, sessions, marks, page>>
  <2>1. Subscribed \subseteq Hooks
    BY DEF Subscribed
  <2>2. (IF ~Admissible(s) THEN {{}} ELSE IF StorageFails THEN SUBSET Subscribed ELSE {Subscribed})
          \subseteq SUBSET Subscribed
    OBVIOUS
  <2> QED
    BY <2>1, <2>2, Zenon DEF SettleAuthenticated
<1>2. marker' \in Accounts /\ page \in {"visible", "hidden"}
  BY <1>1 DEF TypeOK, Suspended
<1>3. CASE ok # {} /\ admitted \notin {"none", s}
  BY <1>1, <1>2, <1>3, ReloadKeeps DEF AdmitsNobody
<1>4. CASE ~(ok # {} /\ admitted \notin {"none", s})
  <2> DEFINE result == [h \in Hooks |-> IF h \in ok THEN Admitted(hook[h], s, confirmed)
                                          ELSE Unadmitted(hook[h])]
  <2>1. hook \in [Hooks -> HookType]
    BY TypesNamed
  <2>2. /\ result \in [Hooks -> HookType]
        /\ \A h \in Hooks :
             /\ ~result[h].waiting
             /\ result[h].boundary = IF h \in ok THEN s ELSE "none"
             /\ h \in ok => result[h].spent = (hook[h].spent /\ (~confirmed \/ hook[h].recovery))
             /\ h \notin ok => result[h].spent = hook[h].spent
    <3>1. ASSUME NEW h \in Hooks
          PROVE  /\ result[h] \in HookType /\ ~result[h].waiting
                 /\ result[h].boundary = IF h \in ok THEN s ELSE "none"
                 /\ h \in ok => result[h].spent
                                  = (hook[h].spent /\ (~confirmed \/ hook[h].recovery))
                 /\ h \notin ok => result[h].spent = hook[h].spent
      <4>1. CASE h \in ok
        <5>1. result[h] = Admitted(hook[h], s, confirmed)
          BY <4>1
        <5> QED
          BY <2>1, <4>1, <5>1, AdmittedType
      <4>2. CASE h \notin ok
        <5>1. result[h] = Unadmitted(hook[h])
          BY <4>2
        <5> QED
          BY <2>1, <4>2, <5>1, UnadmittedType
      <4> QED
        BY <4>1, <4>2
    <3>2. result \in [Hooks -> HookType]
      BY <3>1
    <3> HIDE DEF result
    <3> QED
      BY <3>1, <3>2
  <2>3. Settle(result)
    BY <1>1, <1>4
  <2> HIDE DEF result
  <2>4. /\ probe' \in ProbeType /\ probe'.pc = "none" /\ probe'.reply.mode = "none"
        /\ hook' \in [Hooks -> HookType]
        /\ \A h \in Hooks :
             /\ ~hook'[h].pending /\ ~hook'[h].waiting
             /\ hook'[h].boundary = IF h \in Subscribed THEN result[h].boundary
                                    ELSE hook[h].boundary
             /\ hook'[h].spent = IF h \in Subscribed THEN result[h].spent ELSE hook[h].spent
    BY <2>2, <2>3, SettleType
  <2>5. \A h \in Hooks : /\ h \in ok => hook'[h].boundary = s
                         /\ h \notin ok => hook'[h].boundary \in {"none", hook[h].boundary}
    BY <1>1, <2>2, <2>4
  <2>6. \A h \in Hooks :
          /\ h \in ok => hook'[h].spent = (hook[h].spent /\ (~confirmed \/ hook[h].recovery))
          /\ h \notin ok => hook'[h].spent = hook[h].spent
    BY <1>1, <2>2, <2>4
  <2>7. /\ admitted' = IF ok = {} THEN admitted ELSE s
        /\ IF ok # {} /\ (renewal = "unset" \/ confirmed)
           THEN renewal' = "ahead" /\ unconfirmed' = FALSE /\ renewing' = "none"
           ELSE UNCHANGED <<renewal, unconfirmed, renewing>>
        /\ blind' = IF confirmed THEN 0 ELSE blind
        /\ bought' = [h \in Hooks |-> IF h \in ok /\ confirmed /\ ~hook[h].recovery
                                       THEN 0 ELSE bought[h]]
        /\ UNCHANGED <<events, seen>>
    BY <1>1, <1>4
  <2>8. TypeOK'
    <3>1. bought' \in [Hooks -> Nat] /\ blind' \in Nat
      BY <2>7 DEF TypeOK
    <3>2. /\ renewal' \in {"unset", "ahead", "due"} /\ unconfirmed' \in BOOLEAN
          /\ renewing' \in Accounts /\ admitted' \in Accounts
      BY <2>7 DEF TypeOK, Accounts
    <3> QED
      BY <1>1, <1>2, <2>4, <2>7, <3>1, <3>2, TypesNamed DEF TypeOK
  <2>9. Confirmed'
    BY <2>4, <2>7 DEF Confirmed
  <2>10. AnswersSeen' /\ Suspended'
    BY <1>1, <2>4, <2>7 DEF AnswersSeen, Suspended
  <2>11. Episodes'
    BY <2>1, <2>6, <2>7 DEF Episodes, HookType
  <2>12. BoundaryIsCurrent'
    BY <1>1, <1>2, <1>4, <2>5, <2>7 DEF BoundaryIsCurrent
  <2>13. RecheckIsAwaited'
    BY <2>4 DEF RecheckIsAwaited
  <2>14. \A h \in Hooks : hook'[h].boundary \in {"none", hook[h].boundary, s}
    BY <2>5
  <2> QED
    BY <2>8, <2>9, <2>10, <2>11, <2>12, <2>13, <2>14
<1> QED
  BY <1>3, <1>4

-----------------------------------------------------------------------------
(* The requests of the probe *)

\* Only the probe moves on: the hooks, the page and the events stay.
LEMMA ProbeMoves ==
    ASSUME IInv, probe' \in ProbeType, probe'.pc # "none", probe.pc # "none", Confirmed',
           renewal' \in {"unset", "ahead", "due"}, unconfirmed' \in BOOLEAN,
           renewing' \in Accounts, blind' \in Nat,
           (~probe'.retired /\ probe'.reply.mode # "none") => probe'.reply.subject \in seen,
           UNCHANGED <<world, page, admitted, hook, seen, bought>>
    PROVE  IInv' /\ AdmitsNobody
<1> USE DEF IInv
<1>1. hook' \in [Hooks -> HookType]
  BY TypesNamed
<1>2. TypeOK'
  BY <1>1, TypesNamed DEF TypeOK, world
<1>3. AnswersSeen' /\ Suspended'
  BY DEF AnswersSeen, Suspended, world
<1>4. Episodes' /\ BoundaryIsCurrent' /\ RecheckIsAwaited'
  BY DEF Episodes, BoundaryIsCurrent, RecheckIsAwaited, Subscribed, world
<1>5. AdmitsNobody
  BY DEF AdmitsNobody
<1> QED
  BY <1>2, <1>3, <1>4, <1>5

\* The server answers with the account it has now.
LEMMA ReplyKeeps ==
    ASSUME IInv, NEW mode \in {"anonymous", "refresh-required", "authenticated", "confirm"},
           probe.pc # "none", Reply(mode),
           UNCHANGED <<world, page, shared, hook, blind, seen, bought>>
    PROVE  IInv' /\ AdmitsNobody
<1>1. PICK now \in Accounts : now = server
  BY DEF IInv, TypeOK
<1>2. probe \in ProbeType
  BY TypesNamed DEF IInv
<1>3. probe' = [probe EXCEPT !.reply = [mode |-> mode, subject |-> now]]
  BY <1>1 DEF Reply
<1>4. /\ probe' \in ProbeType /\ probe'.pc = probe.pc /\ probe'.recovering = probe.recovering
      /\ probe'.reply.subject = now
  BY <1>2, <1>3 DEF ProbeType, ReplyType
<1>5. now \in seen
  BY <1>1 DEF IInv, AnswersSeen
<1>6. Confirmed'
  BY <1>4 DEF IInv, Confirmed, shared
<1>7. /\ renewal' \in {"unset", "ahead", "due"} /\ unconfirmed' \in BOOLEAN
      /\ renewing' \in Accounts /\ blind' \in Nat
  BY DEF IInv, TypeOK, shared
<1>8. UNCHANGED <<world, page, admitted, hook, seen, bought>>
  BY DEF shared
<1> QED
  BY <1>4, <1>5, <1>6, <1>7, <1>8, ProbeMoves

\* The first read and the confirming read at the server.
LEMMA ServeReadKeeps == ASSUME IInv, ServeRead PROVE IInv' /\ AdmitsNobody
<1>1. /\ probe.pc # "none"
      /\ Reply("anonymous") \/ Reply("authenticated") \/ Reply("refresh-required")
      /\ UNCHANGED <<world, page, shared, hook, blind, seen, bought>>
  BY DEF ServeRead
<1> QED
  BY <1>1, ReplyKeeps

\* The rotating POST at the server.
LEMMA ServeRefreshKeeps == ASSUME IInv, ServeRefresh PROVE IInv' /\ AdmitsNobody
<1>1. /\ probe.pc # "none"
      /\ Reply("authenticated") \/ Reply("confirm")
      /\ UNCHANGED <<world, page, shared, hook, blind, seen, bought>>
  BY DEF ServeRefresh
<1> QED
  BY <1>1, ReplyKeeps

\* The answer of a probe that is not retired: an account that was seen.
LEMMA AnswerOpens ==
    ASSUME IInv, ~probe.retired, probe.reply.mode # "none", NEW s \in Accounts,
           s = probe.reply.subject, NEW confirmed \in BOOLEAN, confirmed \/ ~unconfirmed,
           probe.pc # "none", SettleAuthenticated(s, confirmed)
    PROVE  IInv' /\ OnlySeen
<1>1. s \in seen
  BY DEF IInv, AnswersSeen
<1>2. IInv' /\ \A h \in Hooks : hook'[h].boundary \in {"none", hook[h].boundary, s}
  BY SettleAuthenticatedKeeps
<1> QED
  BY <1>1, <1>2 DEF OnlySeen

\* A failed probe admits nobody.
LEMMA UnavailableStep == ASSUME IInv, SettleUnavailable PROVE IInv' /\ OnlySeen
  BY SettleUnavailableKeeps, NobodySeen

\* DeliverRead: the account is admitted, the session is signed out, the check fails, or the
\* refresh it calls for begins with the account the answer named.
LEMMA DeliverReadKeeps == ASSUME IInv, DeliverRead PROVE IInv' /\ OnlySeen
<1>1. probe \in ProbeType
  BY TypesNamed DEF IInv
<1>2. PICK s \in Accounts : s = probe.reply.subject
  BY <1>1 DEF ProbeType, ReplyType
<1>3. /\ probe.pc = "reading" /\ probe.reply.mode # "none"
  BY DEF DeliverRead
<1>4. CASE SettleUnavailable
  BY <1>4, UnavailableStep
<1>5. CASE ~probe.retired /\ SettleAuthenticated(s, TRUE)
  BY <1>2, <1>3, <1>5, AnswerOpens
<1>6. CASE ~probe.retired /\ ~probe.recovering /\ SettleAuthenticated(s, FALSE)
  <2>1. ~unconfirmed
    BY <1>3, <1>6 DEF IInv, Confirmed
  <2> QED
    BY <1>2, <1>3, <1>6, <2>1, AnswerOpens
<1>7. CASE ~probe.recovering /\ SettleAnonymous
  <2>1. ~unconfirmed
    BY <1>3, <1>7 DEF IInv, Confirmed
  <2> QED
    BY <1>7, <2>1, SettleAnonymousKeeps, NobodySeen
<1>8. CASE /\ ~probe.recovering
           /\ probe' = [probe EXCEPT !.pc = "csrf", !.expected = s, !.reply = NoProbe.reply]
           /\ renewal' = "ahead"
           /\ UNCHANGED <<world, page, admitted, unconfirmed, renewing, hook, blind, seen, bought>>
  <2>1. /\ probe' \in ProbeType /\ probe'.pc = "csrf" /\ probe'.recovering = probe.recovering
        /\ probe'.reply.mode = "none"
    BY <1>1, <1>8 DEF ProbeType, ReplyType, NoProbe, Accounts
  <2>2. Confirmed'
    BY <1>3, <1>8, <2>1 DEF IInv, Confirmed
  <2>3. /\ renewal' \in {"unset", "ahead", "due"} /\ unconfirmed' \in BOOLEAN
        /\ renewing' \in Accounts /\ blind' \in Nat
    BY <1>8 DEF IInv, TypeOK
  <2>4. UNCHANGED <<world, page, admitted, hook, seen, bought>>
    BY <1>8
  <2> QED
    BY <1>3, <2>1, <2>2, <2>3, <2>4, ProbeMoves, NobodySeen
<1>9. \/ SettleUnavailable
      \/ ~probe.retired /\ SettleAuthenticated(s, TRUE)
      \/ ~probe.retired /\ ~probe.recovering /\ SettleAuthenticated(s, FALSE)
      \/ ~probe.recovering /\ SettleAnonymous
      \/ /\ ~probe.recovering
         /\ probe' = [probe EXCEPT !.pc = "csrf", !.expected = s, !.reply = NoProbe.reply]
         /\ renewal' = "ahead"
         /\ UNCHANGED <<world, page, admitted, unconfirmed, renewing, hook, blind, seen, bought>>
  BY <1>2, ZenonT(40) DEF DeliverRead, SettleAuthenticated, Admissible
<1> QED
  BY <1>4, <1>5, <1>6, <1>7, <1>8, <1>9

\* DispatchRefresh: the probe began when no refresh was unconfirmed, so this is the only one.
LEMMA DispatchRefreshKeeps == ASSUME IInv, DispatchRefresh PROVE IInv' /\ OnlySeen
<1>1. CASE probe.retired
  BY <1>1, UnavailableStep DEF DispatchRefresh
<1>2. CASE ~probe.retired
  <2>1. /\ probe.pc = "csrf" /\ probe' = [probe EXCEPT !.pc = "posting"]
        /\ unconfirmed' = TRUE /\ renewing' = probe.expected /\ blind' = blind + 1
        /\ UNCHANGED <<world, page, admitted, renewal, hook, seen, bought>>
    BY <1>2 DEF DispatchRefresh
  <2>2. probe \in ProbeType
    BY TypesNamed DEF IInv
  <2>3. /\ probe' \in ProbeType /\ probe'.pc = "posting" /\ probe'.reply = probe.reply
        /\ probe'.retired = probe.retired /\ probe.expected \in Accounts
    BY <2>1, <2>2 DEF ProbeType
  <2>4. blind = 0
    BY <2>1 DEF IInv, Confirmed
  <2>5. Confirmed'
    BY <2>1, <2>3, <2>4 DEF Confirmed
  <2>6. (~probe'.retired /\ probe'.reply.mode # "none") => probe'.reply.subject \in seen
    BY <2>3 DEF IInv, AnswersSeen
  <2>7. /\ renewal' \in {"unset", "ahead", "due"} /\ unconfirmed' \in BOOLEAN
        /\ renewing' \in Accounts /\ blind' \in Nat
    BY <2>1, <2>3, <2>4 DEF IInv, TypeOK
  <2> QED
    BY <2>1, <2>3, <2>5, <2>6, <2>7, ProbeMoves, NobodySeen
<1> QED
  BY <1>1, <1>2

\* DeliverRefresh: the renewed account is the expected one, or a read confirms who won.
LEMMA DeliverRefreshKeeps == ASSUME IInv, DeliverRefresh PROVE IInv' /\ OnlySeen
<1>1. probe \in ProbeType
  BY TypesNamed DEF IInv
<1>2. PICK s \in Accounts : s = probe.expected
  BY <1>1 DEF ProbeType
<1>3. probe.pc = "posting" /\ probe.reply.mode # "none"
  BY DEF DeliverRefresh
<1>4. CASE SettleUnavailable
  BY <1>4, UnavailableStep
<1>5. CASE ~probe.retired /\ probe.reply.subject = s /\ SettleAuthenticated(s, TRUE)
  BY <1>3, <1>5, AnswerOpens
<1>6. CASE /\ probe' = [probe EXCEPT !.pc = "confirming", !.reply = NoProbe.reply]
           /\ UNCHANGED <<world, page, shared, hook, blind, seen, bought>>
  <2>1. probe' \in ProbeType /\ probe'.pc = "confirming" /\ probe'.reply.mode = "none"
    BY <1>1, <1>6 DEF ProbeType, ReplyType, NoProbe, Accounts
  <2>2. Confirmed'
    BY <1>6, <2>1 DEF IInv, Confirmed, shared
  <2>3. /\ renewal' \in {"unset", "ahead", "due"} /\ unconfirmed' \in BOOLEAN
        /\ renewing' \in Accounts /\ blind' \in Nat
    BY <1>6 DEF IInv, TypeOK, shared
  <2>4. UNCHANGED <<world, page, admitted, hook, seen, bought>>
    BY <1>6 DEF shared
  <2> QED
    BY <1>3, <2>1, <2>2, <2>3, <2>4, ProbeMoves, NobodySeen
<1>7. \/ SettleUnavailable
      \/ ~probe.retired /\ probe.reply.subject = s /\ SettleAuthenticated(s, TRUE)
      \/ /\ probe' = [probe EXCEPT !.pc = "confirming", !.reply = NoProbe.reply]
         /\ UNCHANGED <<world, page, shared, hook, blind, seen, bought>>
  BY <1>2 DEF DeliverRefresh, SettleAuthenticated, Admissible
<1> QED
  BY <1>4, <1>5, <1>6, <1>7

\* DeliverConfirmation: only the original account, and only authenticated, is admitted.
LEMMA DeliverConfirmationKeeps == ASSUME IInv, DeliverConfirmation PROVE IInv' /\ OnlySeen
<1>1. probe \in ProbeType
  BY TypesNamed DEF IInv
<1>2. PICK s \in Accounts : s = probe.expected
  BY <1>1 DEF ProbeType
<1>3. probe.pc = "confirming" /\ probe.reply.mode # "none"
  BY DEF DeliverConfirmation
<1>4. CASE SettleUnavailable
  BY <1>4, UnavailableStep
<1>5. CASE ~probe.retired /\ probe.reply.subject = s /\ SettleAuthenticated(s, TRUE)
  BY <1>3, <1>5, AnswerOpens
<1>6. \/ SettleUnavailable
      \/ ~probe.retired /\ probe.reply.subject = s /\ SettleAuthenticated(s, TRUE)
  <2>1. \/ SettleUnavailable
        \/ /\ ~probe.retired /\ SettleAuthenticated(probe.expected, TRUE)
           /\ probe.reply = [mode |-> "authenticated", subject |-> probe.expected]
    BY Zenon DEF DeliverConfirmation
  <2>2. SettleAuthenticated(probe.expected, TRUE) => SettleAuthenticated(s, TRUE)
    BY <1>2 DEF SettleAuthenticated, Admissible
  <2>3. probe.reply = [mode |-> "authenticated", subject |-> probe.expected]
          => probe.reply.subject = s
    BY <1>2
  <2> QED
    BY <2>1, <2>2, <2>3
<1> QED
  BY <1>4, <1>5, <1>6

-----------------------------------------------------------------------------
(* The page, the hooks and the other tabs *)

\* The hooks as they are, and nothing else of the document's bookkeeping, may check.
LEMMA PlainCheckKeeps ==
    ASSUME IInv, NEW hs \in SUBSET Hooks, Check(hs, hook, probe),
           page' \in {"visible", "hidden"}, UNCHANGED <<world, blind, seen, bought>>
    PROVE  IInv' /\ AdmitsNobody
<1>1. hook \in [Hooks -> HookType] /\ probe \in ProbeType
  BY TypesNamed DEF IInv
<1>2. \A h \in Hooks : /\ hook[h].waiting => hook[h].pending /\ ~hook[h].fenced
                       /\ hook[h].pending => probe.pc # "none"
                       /\ ~hook[h].spent => bought'[h] = 0
                       /\ bought'[h] \in {0, 1}
  BY DEF IInv, RecheckIsAwaited, Subscribed, Episodes
<1>3. bought' \in [Hooks -> Nat] /\ events' \in 0..marks
  BY DEF IInv, TypeOK, Suspended, world
<1>4. PICK rs \in [Hooks -> HookType], p \in ProbeType : rs = hook /\ p = probe
  BY <1>1
<1>5. Check(hs, rs, p)
  BY <1>4 DEF Check
<1>6. /\ \A h \in Hooks :
           /\ rs[h].boundary \in {"none", hook[h].boundary}
           /\ rs[h].boundary # "none" => events' = events
           /\ rs[h].waiting => \/ rs[h].pending /\ ~rs[h].fenced
                               \/ h \in hs /\ ~rs[h].pending
           /\ rs[h].pending => p.pc # "none"
           /\ ~rs[h].spent => bought'[h] = 0
           /\ bought'[h] \in {0, 1}
      /\ p.pc = probe.pc /\ p.recovering = probe.recovering /\ p.reply = probe.reply
      /\ (probe.retired => p.retired)
  BY <1>2, <1>4 DEF world
<1>7. UNCHANGED <<server, marker, sessions, marks, blind>> /\ seen' = seen
  BY DEF world
<1> QED
  BY <1>3, <1>5, <1>6, <1>7, CheckKeeps

\* One hook is given the state r, without a subscription, and checks.
LEMMA OneHookKeeps ==
    ASSUME IInv, NEW h \in Hooks, NEW r \in HookType, Check({h}, [hook EXCEPT ![h] = r], probe),
           r.boundary \in {"none", hook[h].boundary}, ~r.pending,
           NEW n \in {0, 1}, ~r.spent => n = 0, bought' = [bought EXCEPT ![h] = n],
           page' \in {"visible", "hidden"}, UNCHANGED <<world, blind, seen>>
    PROVE  IInv' /\ AdmitsNobody
<1>1. hook \in [Hooks -> HookType] /\ probe \in ProbeType /\ bought \in [Hooks -> Nat]
  BY TypesNamed DEF IInv, TypeOK
<1>2. PICK rs \in [Hooks -> HookType], p \in ProbeType :
         rs = [hook EXCEPT ![h] = r] /\ p = probe
  BY <1>1
<1>3. Check({h}, rs, p)
  BY <1>2 DEF Check
<1>4. ASSUME NEW g \in Hooks
      PROVE  /\ rs[g].boundary \in {"none", hook[g].boundary}
             /\ rs[g].waiting => \/ rs[g].pending /\ ~rs[g].fenced
                                 \/ g \in {h} /\ ~rs[g].pending
             /\ rs[g].pending => p.pc # "none"
             /\ ~rs[g].spent => bought'[g] = 0
             /\ bought'[g] \in {0, 1}
  <2>1. CASE g = h
    <3>1. rs[g] = r /\ bought'[g] = n
      BY <1>1, <1>2, <2>1
    <3> QED
      BY <2>1, <3>1
  <2>2. CASE g # h
    <3>1. rs[g] = hook[g] /\ bought'[g] = bought[g]
      BY <1>1, <1>2, <2>2
    <3>2. /\ hook[g].waiting => hook[g].pending /\ ~hook[g].fenced
          /\ hook[g].pending => probe.pc # "none"
          /\ ~hook[g].spent => bought[g] = 0
          /\ bought[g] \in {0, 1}
      BY DEF IInv, RecheckIsAwaited, Subscribed, Episodes
    <3> QED
      BY <1>2, <3>1, <3>2
  <2> QED
    BY <2>1, <2>2
<1>5. bought' \in [Hooks -> Nat] /\ events' \in 0..marks /\ events' = events
  BY <1>1 DEF IInv, TypeOK, Suspended, world
<1>6. /\ p.pc = probe.pc /\ p.recovering = probe.recovering /\ p.reply = probe.reply
      /\ (probe.retired => p.retired)
  BY <1>2
<1>7. UNCHANGED <<server, marker, sessions, marks, blind>> /\ seen' = seen
  BY DEF world
<1>8. {h} \in SUBSET Hooks
  OBVIOUS
<1> QED
  BY <1>3, <1>4, <1>5, <1>6, <1>7, <1>8, CheckKeeps

\* The retry button starts a new read episode.
LEMMA RetryKeeps == ASSUME IInv, NEW h \in Hooks, Retry(h) PROVE IInv' /\ AdmitsNobody
<1> DEFINE new == [Replaced(hook[h]) EXCEPT !.waiting = FALSE, !.spent = FALSE,
                                            !.recovering = FALSE]
<1>1. hook \in [Hooks -> HookType] /\ bought \in [Hooks -> Nat]
  BY TypesNamed DEF IInv, TypeOK
<1>2. new \in HookType /\ ~new.pending /\ new.boundary = hook[h].boundary
  <2>1. PICK r \in HookType : r = hook[h]
    BY <1>1
  <2>2. /\ Replaced(r) \in HookType /\ Replaced(r).pending = FALSE
        /\ Replaced(r).boundary = r.boundary
    BY DEF Replaced, HookType
  <2>3. PICK q \in HookType : q = Replaced(r)
    BY <2>2
  <2>4. new = [q EXCEPT !.waiting = FALSE, !.spent = FALSE, !.recovering = FALSE]
    BY <2>1, <2>3 DEF Replaced
  <2> QED
    BY <2>1, <2>2, <2>3, <2>4 DEF HookType
<1>3. PICK r \in HookType : r = new
  BY <1>2
<1>4. [hook EXCEPT ![h] = [Replaced(@) EXCEPT !.waiting = FALSE, !.spent = FALSE,
                                              !.recovering = FALSE]] = [hook EXCEPT ![h] = r]
  BY <1>1, <1>3
<1>5. /\ page' \in {"visible", "hidden"} /\ UNCHANGED <<world, blind, seen>>
      /\ bought' = [bought EXCEPT ![h] = 0]
      /\ Check({h}, [hook EXCEPT ![h] = r], probe)
  <2> DEFINE rs == [hook EXCEPT ![h] = [Replaced(@) EXCEPT !.waiting = FALSE, !.spent = FALSE,
                                                          !.recovering = FALSE]]
  <2>1. /\ page' \in {"visible", "hidden"} /\ UNCHANGED <<world, blind, seen>>
        /\ bought' = [bought EXCEPT ![h] = 0]
        /\ Check({h}, rs, probe)
    BY DEF Retry
  <2>2. rs = [hook EXCEPT ![h] = r]
    BY <1>4
  <2> HIDE DEF rs
  <2>3. Check({h}, rs, probe) => Check({h}, [hook EXCEPT ![h] = r], probe)
    BY <2>2 DEF Check
  <2> QED
    BY <2>1, <2>3
<1>6. r.boundary \in {"none", hook[h].boundary} /\ ~r.pending
  BY <1>2, <1>3
<1> QED
  BY <1>5, <1>6, OneHookKeeps

\* A view that is entered again starts cold.
LEMMA RemountKeeps == ASSUME IInv, NEW h \in Hooks, Remount(h) PROVE IInv' /\ AdmitsNobody
<1>1. Mounted \in HookType /\ ~Mounted.pending /\ Mounted.boundary = "none"
  BY DEF Mounted, HookType, Accounts
<1>2. /\ page' \in {"visible", "hidden"} /\ UNCHANGED <<world, blind, seen>>
      /\ bought' = [bought EXCEPT ![h] = 0]
      /\ Check({h}, [hook EXCEPT ![h] = Mounted], probe)
  BY DEF Remount
<1> QED
  BY <1>1, <1>2, OneHookKeeps

\* A 401 retires the boundary; it buys a recheck only if the episode has bought none.
LEMMA ReportUnauthorizedKeeps ==
    ASSUME IInv, NEW h \in Hooks, ReportUnauthorized(h) PROVE IInv' /\ AdmitsNobody
<1> DEFINE retired == [hook[h] EXCEPT !.boundary = "none", !.spent = TRUE,
                                      !.recovering = ~hook[h].spent, !.waiting = ~hook[h].spent]
<1>1. hook \in [Hooks -> HookType] /\ probe \in ProbeType /\ bought \in [Hooks -> Nat]
  BY TypesNamed DEF IInv, TypeOK
<1>2. /\ retired \in HookType /\ retired.boundary = "none" /\ retired.spent = TRUE
      /\ retired.waiting = ~hook[h].spent /\ retired.pending = hook[h].pending
  BY <1>1 DEF HookType, Accounts
<1> HIDE DEF retired
<1>3. page \in {"visible", "hidden"} /\ UNCHANGED <<world, page, blind, seen>>
  BY DEF ReportUnauthorized, IInv, TypeOK
<1>4. CASE /\ hook[h].spent
           /\ hook' = [hook EXCEPT ![h] = [retired EXCEPT !.fenced = hook[h].pending]]
           /\ UNCHANGED <<shared, probe, bought>>
  <2> DEFINE new == [retired EXCEPT !.fenced = hook[h].pending]
  <2>1. /\ new \in HookType /\ new.boundary = "none" /\ new.spent = TRUE /\ ~new.waiting
        /\ new.pending = hook[h].pending
    BY <1>1, <1>2, <1>4 DEF HookType
  <2>2. hook' = [hook EXCEPT ![h] = new]
    BY <1>4
  <2> HIDE DEF new
  <2>3. /\ hook' \in [Hooks -> HookType]
        /\ \A g \in Hooks :
             /\ hook'[g].boundary \in {"none", hook[g].boundary}
             /\ hook'[g].pending = hook[g].pending
             /\ hook'[g].waiting => g # h /\ hook'[g] = hook[g]
             /\ ~hook'[g].spent => ~hook[g].spent
    BY <1>1, <2>1, <2>2
  <2>4. TypeOK'
    BY <1>1, <1>3, <1>4, <2>3, TypesNamed DEF IInv, TypeOK, world, shared
  <2>5. Confirmed' /\ AnswersSeen' /\ Suspended'
    BY <1>3, <1>4 DEF IInv, Confirmed, AnswersSeen, Suspended, world, shared
  <2>6. Episodes'
    BY <1>4, <2>3 DEF IInv, Episodes
  <2>7. BoundaryIsCurrent'
    BY <1>3, <1>4, <2>3 DEF IInv, BoundaryIsCurrent, world, shared
  <2>8. RecheckIsAwaited'
    BY <1>4, <2>3 DEF IInv, RecheckIsAwaited, Subscribed
  <2>9. AdmitsNobody
    BY <2>3 DEF AdmitsNobody
  <2> QED
    BY <2>4, <2>5, <2>6, <2>7, <2>8, <2>9 DEF IInv
<1>5. CASE /\ ~hook[h].spent
           /\ bought' = [bought EXCEPT ![h] = @ + 1]
           /\ Check({h}, [hook EXCEPT ![h] = Replaced(retired)], probe)
  <2>1. /\ Replaced(retired) \in HookType /\ ~Replaced(retired).pending
        /\ Replaced(retired).boundary = "none" /\ Replaced(retired).spent
    BY <1>2 DEF Replaced, HookType
  <2>2. PICK r \in HookType : r = Replaced(retired)
    BY <2>1
  <2>3. bought[h] = 0
    BY <1>5 DEF IInv, Episodes
  <2>4. bought' = [bought EXCEPT ![h] = 1]
    BY <1>1, <1>5, <2>3
  <2>5. Check({h}, [hook EXCEPT ![h] = r], probe)
    BY <1>5, <2>2 DEF Check
  <2>6. r.boundary \in {"none", hook[h].boundary} /\ ~r.pending /\ r.spent
    BY <2>1, <2>2
  <2> QED
    BY <1>3, <2>4, <2>5, <2>6, OneHookKeeps
<1>6. \/ /\ hook[h].spent
         /\ hook' = [hook EXCEPT ![h] = [retired EXCEPT !.fenced = hook[h].pending]]
         /\ UNCHANGED <<shared, probe, bought>>
      \/ /\ ~hook[h].spent
         /\ bought' = [bought EXCEPT ![h] = @ + 1]
         /\ Check({h}, [hook EXCEPT ![h] = Replaced(retired)], probe)
  BY DEF ReportUnauthorized, Check, retired
<1> QED
  BY <1>4, <1>5, <1>6

\* A storage event retires every boundary and the probe in flight, then the hooks check.
LEMMA StorageEventKeeps == ASSUME IInv, StorageEvent PROVE IInv' /\ AdmitsNobody
<1> DEFINE rs0 == [h \in Hooks |-> Unadmitted(hook[h])]
           p0 == [probe EXCEPT !.retired = @ \/ probe.pc # "none"]
<1>1. hook \in [Hooks -> HookType] /\ probe \in ProbeType
  BY TypesNamed DEF IInv
<1>2. /\ rs0 \in [Hooks -> HookType]
      /\ \A h \in Hooks :
           /\ rs0[h].boundary = "none" /\ ~rs0[h].waiting /\ rs0[h].pending = hook[h].pending
           /\ rs0[h].spent = hook[h].spent
  BY <1>1, UnadmittedType
<1>3. /\ p0 \in ProbeType /\ p0.pc = probe.pc /\ p0.recovering = probe.recovering
      /\ p0.reply = probe.reply /\ (p0.retired \/ p0.pc = "none")
      /\ probe.retired => p0.retired
  BY <1>1 DEF ProbeType
<1>4. /\ events > 0 /\ page # "suspended" /\ events' = events - 1 /\ seen' = {server}
      /\ UNCHANGED <<server, marker, sessions, marks, page, blind, bought>>
      /\ IF page = "visible" THEN Check(Hooks, rs0, p0)
         ELSE hook' = rs0 /\ probe' = p0 /\ UNCHANGED shared
  BY DEF StorageEvent
<1>5. events' \in 0..marks
  BY <1>4 DEF IInv, TypeOK, Suspended
<1>6. \A h \in Hooks : /\ hook[h].pending => probe.pc # "none"
                       /\ ~hook[h].spent => bought[h] = 0
                       /\ bought[h] \in {0, 1}
  BY DEF IInv, RecheckIsAwaited, Episodes
<1> HIDE DEF rs0, p0
<1>7. CASE page = "visible"
  <2>1. PICK rs \in [Hooks -> HookType], p \in ProbeType : rs = rs0 /\ p = p0
    BY <1>2, <1>3
  <2>2. Check(Hooks, rs, p)
    BY <1>4, <1>7, <2>1 DEF Check
  <2>3. \A h \in Hooks :
          /\ rs[h].boundary \in {"none", hook[h].boundary}
          /\ rs[h].boundary # "none" => events' = events
          /\ rs[h].waiting => \/ rs[h].pending /\ ~rs[h].fenced
                              \/ h \in Hooks /\ ~rs[h].pending
          /\ rs[h].pending => p.pc # "none"
          /\ ~rs[h].spent => bought'[h] = 0
          /\ bought'[h] \in {0, 1}
    BY <1>2, <1>3, <1>4, <1>6, <2>1
  <2>4. /\ p.pc = probe.pc /\ p.recovering = probe.recovering /\ p.reply = probe.reply
        /\ (probe.retired => p.retired) /\ (p.retired \/ p.pc = "none")
    BY <1>3, <2>1
  <2>5. bought' \in [Hooks -> Nat] /\ page' \in {"visible", "hidden"}
    BY <1>4, <1>7 DEF IInv, TypeOK
  <2> QED
    BY <1>4, <1>5, <2>2, <2>3, <2>4, <2>5, CheckKeeps
<1>8. CASE page # "visible"
  <2>1. hook' = rs0 /\ probe' = p0 /\ UNCHANGED shared
    BY <1>4, <1>8
  <2>2. TypeOK'
    <3>1. hook' \in [Hooks -> HookType] /\ probe' \in ProbeType
      BY <1>2, <1>3, <2>1
    <3>2. events' \in 0..MaxMarks /\ seen' \subseteq Accounts
      <4>1. events \in 0..MaxMarks /\ server \in Accounts
        BY DEF IInv, TypeOK
      <4> QED
        BY <1>4, <4>1, ProbeAssumption
    <3> QED
      BY <1>4, <2>1, <3>1, <3>2, TypesNamed DEF IInv, TypeOK, shared
  <2>3. Confirmed'
    BY <1>3, <1>4, <2>1 DEF IInv, Confirmed, shared
  <2>4. AnswersSeen'
    BY <1>3, <1>4, <2>1 DEF IInv, AnswersSeen
  <2>5. Episodes'
    BY <1>2, <1>4, <1>6, <2>1 DEF Episodes
  <2>6. Suspended'
    BY <1>4, <1>5 DEF IInv, Suspended
  <2>7. BoundaryIsCurrent' /\ RecheckIsAwaited'
    BY <1>2, <1>3, <1>6, <2>1 DEF BoundaryIsCurrent, RecheckIsAwaited
  <2>8. AdmitsNobody
    BY <1>2, <2>1 DEF AdmitsNobody
  <2> QED
    BY <2>2, <2>3, <2>4, <2>5, <2>6, <2>7, <2>8 DEF IInv
<1> QED
  BY <1>7, <1>8

\* The back-forward cache: no boundary and no probe outlives the page.
LEMMA PageHideKeeps == ASSUME IInv, PageHide PROVE IInv' /\ AdmitsNobody
<1>1. hook \in [Hooks -> HookType]
  BY TypesNamed DEF IInv
<1>2. /\ page' = "suspended" /\ probe' = NoProbe
      /\ hook' = [h \in Hooks |-> [Unadmitted(hook[h]) EXCEPT !.pending = FALSE, !.fenced = FALSE]]
      /\ seen' = {server} /\ events' \in {0, events}
      /\ UNCHANGED <<server, marker, sessions, marks, shared, blind, bought>>
  BY DEF PageHide
<1>3. /\ probe' \in ProbeType /\ probe'.pc = "none" /\ probe'.reply.mode = "none"
  BY <1>2 DEF NoProbe, ProbeType, ReplyType, Accounts
<1>4. ASSUME NEW h \in Hooks
      PROVE  /\ hook'[h] \in HookType /\ hook'[h].boundary = "none"
             /\ ~hook'[h].pending /\ ~hook'[h].waiting /\ hook'[h].spent = hook[h].spent
  <2> DEFINE q == Unadmitted(hook[h])
  <2>1. q \in HookType /\ q.boundary = "none" /\ ~q.waiting /\ q.spent = hook[h].spent
    BY <1>1, UnadmittedType
  <2>2. hook'[h] = [q EXCEPT !.pending = FALSE, !.fenced = FALSE]
    BY <1>2
  <2> HIDE DEF q
  <2> QED
    BY <2>1, <2>2 DEF HookType
<1>5. hook' \in [Hooks -> HookType]
  BY <1>2, <1>4
<1>6. TypeOK'
  <2>1. events' \in 0..MaxMarks /\ seen' \subseteq Accounts
    <3>1. events \in 0..MaxMarks /\ server \in Accounts
      BY DEF IInv, TypeOK
    <3>2. 0 \in 0..MaxMarks
      BY ProbeAssumption
    <3>3. events' \in {0, events} /\ seen' = {server}
      BY <1>2
    <3> QED
      BY <3>1, <3>2, <3>3
  <2> QED
    BY <1>2, <1>3, <1>5, <2>1, TypesNamed DEF IInv, TypeOK, shared
<1>7. Confirmed'
  BY <1>2, <1>3 DEF IInv, Confirmed, shared
<1>8. AnswersSeen'
  BY <1>2, <1>3 DEF AnswersSeen
<1>9. Episodes'
  BY <1>2, <1>4 DEF IInv, Episodes
<1>10. Suspended'
  <2>1. events <= marks /\ 0 <= marks
    BY ProbeAssumption DEF IInv, Suspended, TypeOK
  <2> QED
    BY <1>2, <1>3, <2>1 DEF Suspended
<1>11. BoundaryIsCurrent' /\ RecheckIsAwaited'
  BY <1>4 DEF BoundaryIsCurrent, RecheckIsAwaited
<1>12. AdmitsNobody
  BY <1>4 DEF AdmitsNobody
<1> QED
  BY <1>6, <1>7, <1>8, <1>9, <1>10, <1>11, <1>12 DEF IInv

\* The page hides, the clock runs, another tab signs in or out: no hook and no probe changes.
LEMMA OutsideKeeps ==
    ASSUME IInv, \/ Hide \/ RenewalComesDue
                 \/ \E s \in Accounts : SessionChanges(s) \/ MarkerChanges(s)
    PROVE  IInv' /\ AdmitsNobody
<1>1. UNCHANGED <<admitted, unconfirmed, renewing, probe, hook, blind, bought>>
  BY DEF Hide, RenewalComesDue, SessionChanges, MarkerChanges, shared
<1>2. AdmitsNobody
  BY <1>1 DEF AdmitsNobody
<1>3. CASE Hide \/ RenewalComesDue
  <2>1. /\ UNCHANGED <<world, seen>> /\ renewal' \in {"unset", "ahead", "due"}
        /\ page' \in {page, "hidden"}
    BY <1>3 DEF Hide, RenewalComesDue, shared, IInv, TypeOK
  <2>2. TypeOK'
    BY <1>1, <2>1 DEF IInv, TypeOK, world
  <2>3. Confirmed' /\ AnswersSeen' /\ Episodes' /\ Suspended'
    BY <1>1, <2>1 DEF IInv, Confirmed, AnswersSeen, Episodes, Suspended, world
  <2>4. BoundaryIsCurrent' /\ RecheckIsAwaited'
    BY <1>1, <2>1 DEF IInv, BoundaryIsCurrent, RecheckIsAwaited, Subscribed, world
  <2> QED
    BY <1>2, <2>2, <2>3, <2>4 DEF IInv
<1>4. ASSUME NEW s \in Accounts, SessionChanges(s)
      PROVE  IInv'
  <2>1. /\ sessions < MaxSessions /\ sessions' = sessions + 1 /\ server' = s
        /\ seen' = seen \cup {s} /\ UNCHANGED <<marker, events, marks, page, renewal>>
    BY <1>4 DEF SessionChanges, shared
  <2>2. TypeOK'
    BY <1>1, <2>1, ProbeAssumption DEF IInv, TypeOK
  <2>3. Confirmed' /\ AnswersSeen' /\ Episodes' /\ Suspended'
    BY <1>1, <2>1 DEF IInv, Confirmed, AnswersSeen, Episodes, Suspended
  <2>4. BoundaryIsCurrent' /\ RecheckIsAwaited'
    BY <1>1, <2>1 DEF IInv, BoundaryIsCurrent, RecheckIsAwaited, Subscribed
  <2> QED
    BY <2>2, <2>3, <2>4 DEF IInv
<1>5. ASSUME NEW s \in Accounts, MarkerChanges(s)
      PROVE  IInv'
  <2>1. /\ marks < MaxMarks /\ marks' = marks + 1 /\ marker' = s
        /\ events' \in {events + 1} \cup (IF page = "suspended" THEN {events} ELSE {})
        /\ UNCHANGED <<server, sessions, page, renewal, seen>>
    BY <1>5 DEF MarkerChanges, shared
  <2>2. events' \in 0..marks' /\ (page # "suspended" => events' > 0)
    BY <2>1 DEF IInv, TypeOK, Suspended
  <2>3. TypeOK'
    <3>1. marks' \in 0..MaxMarks /\ events' \in 0..MaxMarks
      BY <2>1, <2>2, ProbeAssumption DEF IInv, TypeOK
    <3> QED
      BY <1>1, <2>1, <3>1 DEF IInv, TypeOK
  <2>4. Confirmed' /\ AnswersSeen' /\ Episodes'
    BY <1>1, <2>1 DEF IInv, Confirmed, AnswersSeen, Episodes
  <2>5. Suspended'
    BY <1>1, <2>1, <2>2 DEF IInv, Suspended
  <2>6. BoundaryIsCurrent' /\ RecheckIsAwaited'
    BY <1>1, <2>1, <2>2 DEF IInv, BoundaryIsCurrent, RecheckIsAwaited, Subscribed
  <2> QED
    BY <2>3, <2>4, <2>5, <2>6 DEF IInv
<1> QED
  BY <1>2, <1>3, <1>4, <1>5

-----------------------------------------------------------------------------
(* The theorems *)

\* A document starts with its hooks checking and no boundary.
LEMMA InitHolds == Init => IInv
<1> SUFFICES ASSUME Init PROVE IInv
  OBVIOUS
<1>1. PICK m \in Accounts : m = marker
  BY DEF Init
<1>2. /\ server \in Accounts /\ marker \in Accounts
      /\ events = 0 /\ sessions = 0 /\ marks = 0 /\ page = "visible"
      /\ admitted = "none" /\ renewal = "unset" /\ unconfirmed = FALSE /\ renewing = "none"
      /\ probe = [NoProbe EXCEPT !.pc = "reading", !.index = m]
      /\ hook = [h \in Hooks |-> Checking(Mounted, m)]
      /\ blind = 0 /\ seen = {server} /\ bought = [h \in Hooks |-> 0]
  BY <1>1 DEF Init
<1>3. /\ probe \in ProbeType /\ probe.pc = "reading" /\ probe.reply.mode = "none"
      /\ probe.recovering = FALSE
  BY <1>2 DEF NoProbe, ProbeType, ReplyType, Accounts
<1>4. /\ Checking(Mounted, m) \in HookType /\ Checking(Mounted, m).pending
      /\ ~Checking(Mounted, m).fenced /\ ~Checking(Mounted, m).waiting
      /\ Checking(Mounted, m).boundary = "none"
  <2>1. admitted = "none"
    BY <1>2
  <2>2. /\ Mounted \in HookType /\ Mounted.boundary = "none" /\ ~Mounted.waiting
        /\ ~Mounted.pending
    BY DEF Mounted, HookType, Accounts
  <2>3. RetireChanged(Mounted, m) = Mounted
    BY <2>1 DEF RetireChanged
  <2>4. Checking(Mounted, m) = [Mounted EXCEPT !.pending = TRUE, !.fenced = FALSE,
                                  !.recovery = Mounted.recovering, !.boundary = "none"]
    BY <2>2, <2>3 DEF Checking
  <2> QED
    BY <2>2, <2>4 DEF HookType, Accounts
<1>5. /\ hook \in [Hooks -> HookType]
      /\ \A h \in Hooks : /\ hook[h].pending /\ ~hook[h].fenced /\ ~hook[h].waiting
                          /\ hook[h].boundary = "none"
  BY <1>2, <1>4
<1>6. TypeOK
  <2>1. /\ events \in 0..MaxMarks /\ sessions \in 0..MaxSessions /\ marks \in 0..MaxMarks
        /\ bought \in [Hooks -> Nat] /\ seen \subseteq Accounts
    BY <1>2, ProbeAssumption
  <2> QED
    BY <1>2, <1>3, <1>5, <2>1 DEF TypeOK, ProbeType, ReplyType, HookType, Accounts
<1>7. Confirmed
  <2>1. blind = 0 /\ (probe.recovering = unconfirmed) /\ probe.pc # "csrf"
    BY <1>2, <1>3
  <2> QED
    BY <2>1 DEF Confirmed
<1>8. AnswersSeen
  BY <1>2, <1>3 DEF AnswersSeen
<1>9. Episodes /\ Suspended
  BY <1>2 DEF Episodes, Suspended
<1>10. BoundaryIsCurrent /\ RecheckIsAwaited
  BY <1>3, <1>5 DEF BoundaryIsCurrent, RecheckIsAwaited, Subscribed
<1> QED
  BY <1>6, <1>7, <1>8, <1>9, <1>10 DEF IInv

\* Every step keeps the invariant, and admits only an account that was seen.
LEMMA NextKeeps == ASSUME IInv, [Next]_vars PROVE IInv' /\ OnlySeen
<1>1. CASE ServeRead \/ ServeRefresh
  BY <1>1, ServeReadKeeps, ServeRefreshKeeps, NobodySeen
<1>2. CASE DeliverRead \/ DispatchRefresh \/ DeliverRefresh \/ DeliverConfirmation
  BY <1>2, DeliverReadKeeps, DispatchRefreshKeeps, DeliverRefreshKeeps, DeliverConfirmationKeeps
<1>3. CASE ProbeFails
  BY <1>3, UnavailableStep DEF ProbeFails
<1>4. CASE \/ Hide \/ RenewalComesDue
           \/ \E s \in Accounts : SessionChanges(s) \/ MarkerChanges(s)
  BY <1>4, OutsideKeeps, NobodySeen
<1>5. CASE PageHide \/ StorageEvent
  BY <1>5, PageHideKeeps, StorageEventKeeps, NobodySeen
<1>6. ASSUME NEW hs \in SUBSET Hooks, Show \/ PageShow \/ Wake(hs), hs = Hooks \/ Wake(hs)
      PROVE  IInv' /\ OnlySeen
  <2>1. /\ page' \in {"visible", "hidden"} /\ UNCHANGED <<world, blind, seen, bought>>
        /\ Check(hs, hook, probe)
    BY <1>6 DEF Show, PageShow, Wake
  <2> QED
    BY <2>1, PlainCheckKeeps, NobodySeen
<1>7. ASSUME NEW h \in Hooks, Retry(h) \/ ReportUnauthorized(h) \/ Remount(h)
      PROVE  IInv' /\ OnlySeen
  BY <1>7, RetryKeeps, ReportUnauthorizedKeeps, RemountKeeps, NobodySeen
<1>8. CASE UNCHANGED vars
  <2>1. IInv'
    BY <1>8 DEF vars, world, shared, IInv, TypeOK, Confirmed, AnswersSeen, Episodes, Suspended,
                BoundaryIsCurrent, RecheckIsAwaited, Subscribed
  <2>2. OnlySeen
    BY <1>8 DEF vars, OnlySeen
  <2> QED
    BY <2>1, <2>2
<1>9. \/ ServeRead \/ ServeRefresh
      \/ DeliverRead \/ DispatchRefresh \/ DeliverRefresh \/ DeliverConfirmation
      \/ ProbeFails
      \/ (Hide \/ RenewalComesDue \/ \E s \in Accounts : SessionChanges(s) \/ MarkerChanges(s))
      \/ PageHide \/ StorageEvent
      \/ Show \/ PageShow \/ Wake(Hooks) \/ (\E h \in Hooks : Wake({h}))
      \/ \E h \in Hooks : Retry(h) \/ ReportUnauthorized(h) \/ Remount(h)
      \/ UNCHANGED vars
  BY DEF Next, ProbeStep, PageStep, HookStep, Elsewhere
<1>10. CASE Show \/ PageShow \/ Wake(Hooks)
  BY <1>10, <1>6
<1>11. ASSUME NEW h \in Hooks, Wake({h})
       PROVE  IInv' /\ OnlySeen
  <2>1. {h} \in SUBSET Hooks
    OBVIOUS
  <2> QED
    BY <1>6, <1>11, <2>1
<1> QED
  BY <1>1, <1>2, <1>3, <1>4, <1>5, <1>7, <1>8, <1>9, <1>10, <1>11

\* The inductive invariant holds in every reachable state of the probe.
THEOREM Invariance == Spec => []IInv
<1>1. Init => IInv
  BY InitHolds
<1>2. IInv /\ [Next]_vars => IInv'
  BY NextKeeps
<1> QED
  BY <1>1, <1>2, PTL DEF Spec

\* The bookkeeping of the shared probe and of every hook keeps its type.
THEOREM TypeCorrect == Spec => []TypeOK
<1>1. IInv => TypeOK
  BY DEF IInv
<1> QED
  BY <1>1, Invariance, PTL

\* However probes are aborted, retired, joined and retried, no document has two rotating POSTs
\* of which it does not know what became.
THEOREM RefreshIsSingle == Spec => []NoBlindRefresh
<1>1. IInv => NoBlindRefresh
  BY DEF IInv, Confirmed, NoBlindRefresh
<1> QED
  BY <1>1, Invariance, PTL

\* An open boundary belongs to the account of the shared marker, or an event is still queued.
THEOREM BoundaryFollowsMarker == Spec => []BoundaryIsCurrent
<1>1. IInv => BoundaryIsCurrent
  BY DEF IInv
<1> QED
  BY <1>1, Invariance, PTL

\* Reads that keep answering 401 buy one recheck per episode.
THEOREM RecheckIsSingle == Spec => []SingleRecheck
<1>1. IInv => SingleRecheck
  BY DEF IInv, Episodes, SingleRecheck
<1> QED
  BY <1>1, Invariance, PTL

\* Every waiting read and every pendingCheck has a subscription to a probe in flight.
THEOREM WaitingIsAwaited == Spec => []RecheckIsAwaited
<1>1. IInv => RecheckIsAwaited
  BY DEF IInv
<1> QED
  BY <1>1, Invariance, PTL

\* No boundary ever opens for an account the session did not have since the last identity event.
THEOREM AdmissionIsSeen == Spec => AdmitsOnlySeen
<1>1. IInv /\ [Next]_vars => OnlySeen
  BY NextKeeps
<1>2. OnlySeen => \A h \in Hooks : hook'[h].boundary \notin {"none", hook[h].boundary}
                                     => hook'[h].boundary \in seen
  BY DEF OnlySeen
<1> QED
  BY <1>1, <1>2, Invariance, PTL DEF Spec, AdmitsOnlySeen

=============================================================================
