---------------------------- MODULE SessionProbe ----------------------------
(***************************************************************************)
(* useSessionProbe in one document: several hooks share the probe of the   *)
(* Product Session, the admitted subject and the renewal window; each has  *)
(* its own read boundary and its own recovery from a 401.  The cookie jar  *)
(* and localStorage belong to all tabs: another tab signs in or out and    *)
(* moves the marker at any time, its storage event comes later; the tab is *)
(* hidden, put into the back-forward cache and shown again.                *)
(*                                                                         *)
(* One action is one task of the document with its microtasks and the      *)
(* commit that follows: a probe that settles runs the callbacks of its     *)
(* subscribers at once, a replaced effect checks at once.  A number of     *)
(* generationRef is only compared with the one a callback captured, so a   *)
(* hook keeps whether the callback it waits for is still fenced in.  A     *)
(* suspended document runs nothing until pageshow.  The CSRF read is part  *)
(* of the step that dispatches the POST, also where it was prefetched.     *)
(***************************************************************************)
EXTENDS Naturals, FiniteSets

CONSTANTS
    Subjects,      \* accounts
    Hooks,         \* mounted uses of useSessionProbe
    MaxSessions,   \* bound: changes of the session by other tabs
    MaxMarks,      \* bound: changes of the marker by other tabs
    StorageFails   \* localStorage may throw

ASSUME ProbeAssumption ==
    /\ IsFiniteSet(Hooks) /\ Hooks # {}
    /\ "none" \notin Subjects /\ "unreadable" \notin Subjects
    /\ MaxSessions \in Nat /\ MaxMarks \in Nat /\ StorageFails \in BOOLEAN

VARIABLES
    server,     \* the account of the Product Session in the cookie jar
    marker,     \* AUTH_INDEX_SUBJECT_KEY in localStorage
    events,     \* storage events of the marker not delivered yet
    sessions,   \* bound: changes of the session so far
    marks,      \* bound: changes of the marker so far
    page,       \* the tab: visible, hidden or suspended
    admitted,   \* admittedSubject
    renewal,    \* nextRefreshAt: unset, ahead or due
    unconfirmed,\* refreshUnconfirmed
    renewing,   \* refreshSubject
    probe,      \* sessionProbeInflight
    hook,       \* per hook: its state, its pendingCheck, its read episode and its recovery
    blind,      \* history: refreshes dispatched since an answer named their account
    seen,       \* history: accounts of the session since the last identity event or pagehide
    bought      \* bought[h]: history, rechecks a 401 bought since a renewal of its own or a retry

shared == <<admitted, renewal, unconfirmed, renewing>>
world == <<server, marker, events, sessions, marks>>
vars == <<world, page, shared, probe, hook, blind, seen, bought>>

Accounts == Subjects \cup {"none"}

NoProbe == [pc |-> "none", index |-> "none", retired |-> FALSE, recovering |-> FALSE,
            expected |-> "none", reply |-> [mode |-> "none", subject |-> "none"]]

Mounted == [pending |-> FALSE, fenced |-> FALSE, recovery |-> FALSE, boundary |-> "none",
            spent |-> FALSE, recovering |-> FALSE, waiting |-> FALSE]

-----------------------------------------------------------------------------
(* check: join or start a probe *)

\* What readBrowserAuthIndexSubject gives: the marker, or undefined when it throws.
Index == {marker} \cup (IF StorageFails THEN {"unreadable"} ELSE {})

\* The boundary of hook r is retired, and the 401 recovery it was waiting for.
Unadmitted(r) == [r EXCEPT !.boundary = "none", !.waiting = FALSE]

\* retireChangedSubject in one hook.
RetireChanged(r, index) == IF admitted \notin {"none", index} THEN Unadmitted(r) ELSE r

\* check in one hook.
Checking(r, index) ==
    LET q == RetireChanged(r, index) IN
    IF q.pending THEN q
    ELSE [q EXCEPT !.pending = TRUE, !.fenced = FALSE, !.recovery = q.recovering,
                   !.boundary = IF @ = index THEN @ ELSE "none"]

\* requestSessionMode: the first read, or at once the refresh of a due visible session.
Renews(index) == /\ admitted # "none" /\ index = admitted /\ page' = "visible"
                 /\ ~unconfirmed /\ renewal = "due"

\* Mutant: the marker is taken for the account to renew.
NewProbeOfMarker(index) ==
    [NoProbe EXCEPT !.pc = IF Renews(index) THEN "csrf" ELSE "reading", !.index = index,
                    !.recovering = unconfirmed, !.expected = index]

NewProbe(index) ==
    [NoProbe EXCEPT !.pc = IF Renews(index) THEN "csrf" ELSE "reading", !.index = index,
                    !.recovering = unconfirmed,
                    !.expected = IF Renews(index) THEN admitted ELSE "none"]

\* The hooks hs check in one task, starting from the hook states rs and the shared probe p.
Check(hs, rs, p) ==
    \E index \in Index :
        LET old == [p EXCEPT !.retired = @ \/ (p.pc # "none" /\ index # p.index)]
            starts == p.pc = "none" /\ \E h \in hs : ~rs[h].pending IN
        /\ hook' = [h \in Hooks |-> IF h \in hs THEN Checking(rs[h], index) ELSE rs[h]]
        /\ probe' = IF starts THEN NewProbe(index) ELSE old
        /\ renewal' = IF starts /\ Renews(index) THEN "ahead" ELSE renewal
    /\ UNCHANGED <<admitted, unconfirmed, renewing>>

Init ==
    /\ server \in Accounts
    /\ marker \in Accounts
    /\ events = 0 /\ sessions = 0 /\ marks = 0
    /\ page = "visible"
    /\ admitted = "none" /\ renewal = "unset" /\ unconfirmed = FALSE /\ renewing = "none"
    /\ probe = [NoProbe EXCEPT !.pc = "reading", !.index = marker]
    /\ hook = [h \in Hooks |-> Checking(Mounted, marker)]
    /\ blind = 0
    /\ seen = {server}
    /\ bought = [h \in Hooks |-> 0]

-----------------------------------------------------------------------------
(* Settlement: the callbacks of the subscribers of the probe, in the task that settles it *)

Subscribed == {h \in Hooks : hook[h].pending /\ ~hook[h].fenced}

SignedOut(r) == [Unadmitted(r) EXCEPT !.spent = FALSE, !.recovering = FALSE]

\* Mutant: any confirmed renewal buys another recheck.
AdmittedAnew(r, s, confirmed) ==
    [r EXCEPT !.boundary = s, !.waiting = FALSE, !.recovering = FALSE,
              !.spent = @ /\ ~confirmed]

\* A recovery's own success never buys another recheck.
Admitted(r, s, confirmed) ==
    [r EXCEPT !.boundary = s, !.waiting = FALSE, !.recovering = FALSE,
              !.spent = @ /\ (~confirmed \/ r.recovery)]

\* Every subscriber leaves its pendingCheck; result[h] is what the fenced-in ones become.
Settle(result) ==
    /\ probe' = NoProbe
    /\ hook' = [h \in Hooks |-> [IF h \in Subscribed THEN result[h] ELSE hook[h]
                                   EXCEPT !.pending = FALSE, !.fenced = FALSE]]

\* Mutant: a check that fails forgets the refresh nobody answered.
SettleUnavailableForgets ==
    /\ Settle([h \in Hooks |-> Unadmitted(hook[h])])
    /\ unconfirmed' = FALSE
    /\ UNCHANGED <<world, page, admitted, renewal, renewing, blind, seen, bought>>

SettleUnavailable ==
    /\ Settle([h \in Hooks |-> Unadmitted(hook[h])])
    /\ UNCHANGED <<world, page, shared, blind, seen, bought>>

SettleAnonymous ==
    /\ Settle([h \in Hooks |-> SignedOut(hook[h])])
    /\ IF Subscribed = {} THEN UNCHANGED shared
       ELSE /\ admitted' = "none" /\ renewal' = "unset"
            /\ unconfirmed' = FALSE /\ renewing' = "none"
    /\ bought' = [h \in Hooks |-> IF h \in Subscribed THEN 0 ELSE bought[h]]
    /\ UNCHANGED <<world, page, blind, seen>>

\* window.location.reload(): a new document, cold.
Reload ==
    /\ admitted' = "none" /\ renewal' = "unset" /\ unconfirmed' = FALSE /\ renewing' = "none"
    /\ events' = 0
    /\ probe' = [NoProbe EXCEPT !.pc = "reading", !.index = marker']
    /\ hook' = [h \in Hooks |-> Checking(Mounted, marker')]
    /\ blind' = 0
    /\ seen' = {server}
    /\ bought' = [h \in Hooks |-> 0]

\* admitBrowserAuthSessionIndexes refuses when the marker moved to a third account.
Admissible(s) == probe.index # "unreadable" /\ marker \in {probe.index, s}

\* The session was answered to be of s.  A write to storage may fail in any of the callbacks.
SettleAuthenticated(s, confirmed) ==
    \E ok \in (IF ~Admissible(s) THEN {{}}
               ELSE IF StorageFails THEN SUBSET Subscribed ELSE {Subscribed}) :
        /\ marker' = IF ok = {} THEN marker ELSE s
        /\ IF ok # {} /\ admitted \notin {"none", s} THEN Reload
           ELSE /\ Settle([h \in Hooks |-> IF h \in ok THEN Admitted(hook[h], s, confirmed)
                                             ELSE Unadmitted(hook[h])])
                /\ admitted' = IF ok = {} THEN admitted ELSE s
                /\ IF ok # {} /\ (renewal = "unset" \/ confirmed)
                   THEN renewal' = "ahead" /\ unconfirmed' = FALSE /\ renewing' = "none"
                   ELSE UNCHANGED <<renewal, unconfirmed, renewing>>
                /\ blind' = IF confirmed THEN 0 ELSE blind
                /\ bought' = [h \in Hooks |-> IF h \in ok /\ confirmed /\ ~hook[h].recovery
                                               THEN 0 ELSE bought[h]]
                /\ UNCHANGED <<events, seen>>
        /\ UNCHANGED <<server, sessions, marks, page>>

-----------------------------------------------------------------------------
(* The probe's requests *)

Reply(mode) == probe' = [probe EXCEPT !.reply = [mode |-> mode, subject |-> server]]

\* GET /api/auth/session at the server; the access of the session may have expired.
ServeRead ==
    /\ probe.pc \in {"reading", "confirming"} /\ probe.reply.mode = "none"
    /\ \/ server = "none" /\ Reply("anonymous")
       \/ server # "none" /\ Reply("authenticated")
       \/ server # "none" /\ Reply("refresh-required")
    /\ UNCHANGED <<world, page, shared, hook, blind, seen, bought>>

\* The first read; a marker that moved to a third account meanwhile refuses it.
DeliverRead ==
    LET s == probe.reply.subject
        mode == probe.reply.mode
        cold == admitted = "none" IN
    /\ probe.pc = "reading" /\ mode # "none"
    /\ IF probe.retired THEN SettleUnavailable
       ELSE IF probe.recovering
       THEN IF mode = "authenticated" /\ s = renewing
            THEN SettleAuthenticated(s, TRUE) ELSE SettleUnavailable
       ELSE IF mode = "anonymous" THEN SettleAnonymous
       ELSE IF ~cold /\ mode = "authenticated" THEN SettleAuthenticated(s, FALSE)
       ELSE IF (~cold /\ s # admitted) \/ ~Admissible(s) THEN SettleUnavailable
       ELSE /\ probe' = [probe EXCEPT !.pc = "csrf", !.expected = s, !.reply = NoProbe.reply]
            /\ renewal' = "ahead"
            /\ UNCHANGED <<world, page, admitted, unconfirmed, renewing, hook, blind, seen, bought>>

\* The CSRF token arrived: the single rotating POST is dispatched.
DispatchRefresh ==
    /\ probe.pc = "csrf"
    /\ IF probe.retired THEN SettleUnavailable
       ELSE /\ probe' = [probe EXCEPT !.pc = "posting"]
            /\ unconfirmed' = TRUE /\ renewing' = probe.expected
            /\ blind' = blind + 1
            /\ UNCHANGED <<world, page, admitted, renewal, hook, seen, bought>>

\* POST /api/auth/session at the server: it renews, or answers 401 or 409.
ServeRefresh ==
    /\ probe.pc = "posting" /\ probe.reply.mode = "none"
    /\ \/ server # "none" /\ Reply("authenticated")
       \/ Reply("confirm")
    /\ UNCHANGED <<world, page, shared, hook, blind, seen, bought>>

DeliverRefresh ==
    /\ probe.pc = "posting" /\ probe.reply.mode # "none"
    /\ IF probe.retired THEN SettleUnavailable
       ELSE IF probe.reply.mode = "confirm"
       THEN /\ probe' = [probe EXCEPT !.pc = "confirming", !.reply = NoProbe.reply]
            /\ UNCHANGED <<world, page, shared, hook, blind, seen, bought>>
       ELSE IF probe.reply.subject = probe.expected
       THEN SettleAuthenticated(probe.expected, TRUE) ELSE SettleUnavailable

\* Another tab may have won the refresh: one read of the original account.
DeliverConfirmation ==
    /\ probe.pc = "confirming" /\ probe.reply.mode # "none"
    /\ IF ~probe.retired /\ probe.reply = [mode |-> "authenticated", subject |-> probe.expected]
       THEN SettleAuthenticated(probe.expected, TRUE) ELSE SettleUnavailable

\* A request fails, is answered with another status or body, or the 10 s are over.  A POST
\* that was dispatched may still be executed.
ProbeFails ==
    /\ probe.pc # "none"
    /\ SettleUnavailable

-----------------------------------------------------------------------------
(* What makes a hook check *)

\* focus and online reach every hook; its 120 s interval and its recovery timers, one.
Wake(hs) ==
    /\ page = "visible"
    /\ UNCHANGED <<world, page, blind, seen, bought>>
    /\ Check(hs, hook, probe)

Hide ==
    /\ page = "visible"
    /\ page' = "hidden"
    /\ UNCHANGED <<world, shared, probe, hook, blind, seen, bought>>

Show ==
    /\ page = "hidden"
    /\ page' = "visible"
    /\ UNCHANGED <<world, blind, seen, bought>>
    /\ Check(Hooks, hook, probe)

\* Mutant: pendingCheck outlives the probe.
PageHidePending ==
    /\ page # "suspended"
    /\ page' = "suspended"
    /\ probe' = NoProbe
    /\ hook' = [h \in Hooks |-> Unadmitted(hook[h])]
    /\ seen' = {server}
    /\ events' \in {0, events}
    /\ UNCHANGED <<server, marker, sessions, marks, shared, blind, bought>>

\* Into the back-forward cache: the probe is aborted, a queued event may be lost.
PageHide ==
    /\ page # "suspended"
    /\ page' = "suspended"
    /\ probe' = NoProbe
    /\ hook' = [h \in Hooks |-> [Unadmitted(hook[h]) EXCEPT !.pending = FALSE, !.fenced = FALSE]]
    /\ seen' = {server}
    /\ events' \in {0, events}
    /\ UNCHANGED <<server, marker, sessions, marks, shared, blind, bought>>

PageShow ==
    /\ page = "suspended"
    /\ page' = "visible"
    /\ UNCHANGED <<world, blind, seen, bought>>
    /\ Check(Hooks, hook, probe)

\* Mutant: a hidden tab leaves the event to its next check.
StorageEventDeferred ==
    /\ events > 0 /\ page # "suspended"
    /\ events' = events - 1
    /\ seen' = {server}
    /\ UNCHANGED <<server, marker, sessions, marks, page, blind, bought>>
    /\ IF page = "visible"
       THEN Check(Hooks, [h \in Hooks |-> Unadmitted(hook[h])],
                  [probe EXCEPT !.retired = @ \/ probe.pc # "none"])
       ELSE UNCHANGED <<hook, probe, shared>>

\* Mutant: only the marker's present value retires the probe.
StorageEventByValue ==
    /\ events > 0 /\ page # "suspended"
    /\ events' = events - 1
    /\ seen' = {server}
    /\ LET rs == [h \in Hooks |-> Unadmitted(hook[h])] IN
       /\ UNCHANGED <<server, marker, sessions, marks, page, blind, bought>>
       /\ IF page = "visible" THEN Check(Hooks, rs, probe)
          ELSE hook' = rs /\ UNCHANGED <<probe, shared>>

\* The marker may be back at its old value by now: the event itself retires what is in flight.
StorageEvent ==
    /\ events > 0 /\ page # "suspended"
    /\ events' = events - 1
    /\ seen' = {server}
    /\ LET rs == [h \in Hooks |-> Unadmitted(hook[h])]
           p == [probe EXCEPT !.retired = @ \/ probe.pc # "none"] IN
       /\ UNCHANGED <<server, marker, sessions, marks, page, blind, bought>>
       /\ IF page = "visible" THEN Check(Hooks, rs, p)
          ELSE hook' = rs /\ probe' = p /\ UNCHANGED shared

\* A new effect: the subscription of the old one is gone.
Replaced(r) == [r EXCEPT !.pending = FALSE, !.fenced = FALSE]

\* The retry button of an unavailable hook.
Retry(h) ==
    /\ page = "visible" /\ hook[h].boundary = "none"
    /\ bought' = [bought EXCEPT ![h] = 0]
    /\ UNCHANGED <<world, page, blind, seen>>
    /\ Check({h}, [hook EXCEPT ![h] = [Replaced(@) EXCEPT !.waiting = FALSE, !.spent = FALSE,
                                                     !.recovering = FALSE]], probe)

\* reportReadUnauthorized by a read of the current boundary: the boundary is retired, and
\* rechecked once per episode.  A 401 of an older boundary joins its recovery or is ignored.
ReportUnauthorized(h) ==
    LET r == hook[h]
        retired == [r EXCEPT !.boundary = "none", !.spent = TRUE, !.recovering = ~r.spent,
                             !.waiting = ~r.spent] IN
    /\ page # "suspended"
    /\ r.boundary # "none" /\ admitted = r.boundary /\ marker = r.boundary
    /\ UNCHANGED <<world, page, blind, seen>>
    /\ \/ /\ r.spent
          /\ hook' = [hook EXCEPT ![h] = [retired EXCEPT !.fenced = r.pending]]
          /\ UNCHANGED <<shared, probe, bought>>
       \/ /\ ~r.spent
          /\ bought' = [bought EXCEPT ![h] = @ + 1]
          /\ Check({h}, [hook EXCEPT ![h] = Replaced(retired)], probe)

\* The view of a hook is left and entered again.
Remount(h) ==
    /\ page = "visible"
    /\ bought' = [bought EXCEPT ![h] = 0]
    /\ UNCHANGED <<world, page, blind, seen>>
    /\ Check({h}, [hook EXCEPT ![h] = Mounted], probe)

-----------------------------------------------------------------------------
(* Time and the other tabs *)

RenewalComesDue ==
    /\ renewal = "ahead"
    /\ renewal' = "due"
    /\ UNCHANGED <<world, page, admitted, unconfirmed, renewing, probe, hook, blind, seen, bought>>

\* Another tab signs in or out.
SessionChanges(s) ==
    /\ sessions < MaxSessions /\ sessions' = sessions + 1
    /\ server # s
    /\ server' = s
    /\ seen' = seen \cup {s}
    /\ UNCHANGED <<marker, events, marks, page, shared, probe, hook, blind, bought>>

\* Another tab admits an account, or clears the storage.
MarkerChanges(s) ==
    /\ marks < MaxMarks /\ marks' = marks + 1
    /\ marker # s
    /\ marker' = s
    /\ events' \in {events + 1} \cup (IF page = "suspended" THEN {events} ELSE {})
    /\ UNCHANGED <<server, sessions, page, shared, probe, hook, blind, seen, bought>>

-----------------------------------------------------------------------------
ProbeStep == ServeRead \/ DeliverRead \/ DispatchRefresh \/ ServeRefresh \/ DeliverRefresh
             \/ DeliverConfirmation \/ ProbeFails

PageStep == Hide \/ Show \/ PageHide \/ PageShow \/ StorageEvent \/ Wake(Hooks)

HookStep(h) == Wake({h}) \/ Retry(h) \/ ReportUnauthorized(h) \/ Remount(h)

Elsewhere == \/ RenewalComesDue
             \/ \E s \in Accounts : SessionChanges(s) \/ MarkerChanges(s)

Next == ProbeStep \/ PageStep \/ (\E h \in Hooks : HookStep(h)) \/ Elsewhere

Spec == Init /\ [][Next]_vars

-----------------------------------------------------------------------------
(* Properties *)

\* Every variable has its type (the bookkeeping of the shared probe and of the hooks).
TypeOK ==
    /\ server \in Accounts
    /\ marker \in Accounts
    /\ events \in 0..MaxMarks /\ sessions \in 0..MaxSessions /\ marks \in 0..MaxMarks
    /\ page \in {"visible", "hidden", "suspended"}
    /\ admitted \in Accounts /\ renewing \in Accounts
    /\ renewal \in {"unset", "ahead", "due"}
    /\ unconfirmed \in BOOLEAN
    /\ probe \in [pc : {"none", "reading", "csrf", "posting", "confirming"},
                  index : Accounts \cup {"unreadable"}, retired : BOOLEAN, recovering : BOOLEAN,
                  expected : Accounts,
                  reply : [mode : {"none", "anonymous", "refresh-required", "authenticated",
                                   "confirm"}, subject : Accounts]]
    /\ hook \in [Hooks -> [pending : BOOLEAN, fenced : BOOLEAN, recovery : BOOLEAN,
                           boundary : Accounts, spent : BOOLEAN, recovering : BOOLEAN,
                           waiting : BOOLEAN]]
    /\ blind \in Nat
    /\ seen \subseteq Accounts
    /\ bought \in [Hooks -> Nat]

\* The document never sends a second rotating POST while nobody knows what became of the first:
\* whatever is aborted, retired, joined or retried, an answer that names the account lies between.
NoBlindRefresh == blind <= 1

\* A boundary that lets reads through belongs to the account of the marker all tabs share, except
\* while the storage event of a change is still queued; a suspended document has none.  (A hook
\* whose document was found signed out by another hook is left out: each checks on its own timer.)
BoundaryIsCurrent ==
    \A h \in Hooks : hook[h].boundary # "none" =>
        /\ page # "suspended"
        /\ admitted = hook[h].boundary => marker = hook[h].boundary \/ events > 0

\* An account is admitted only on the strength of a session it had after the last identity event
\* or pagehide: an answer asked for before, delivered however late and to whichever hook joined
\* its check, admits nobody, even when the marker is back at its old value.
AdmitsOnlySeen ==
    [][\A h \in Hooks : hook'[h].boundary \notin {"none", hook[h].boundary}
                          => hook'[h].boundary \in seen]_vars

\* A 401 buys one recheck; the next one needs a renewal that was not part of a recheck, a retry of
\* the user, a signed-out session or a new mount.  Otherwise a read that keeps failing would loop.
SingleRecheck == \A h \in Hooks : bought[h] <= 1

\* Nobody waits in vain: a read waiting for its recheck has a subscription, and a hook that
\* skips checks because one is pending has a probe in flight, which 10 s settle.
RecheckIsAwaited ==
    \A h \in Hooks :
        /\ hook[h].waiting => h \in Subscribed
        /\ hook[h].pending => probe.pc # "none"
=============================================================================
