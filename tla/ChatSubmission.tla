--------------------------- MODULE ChatSubmission ---------------------------
(***************************************************************************)
(* One browser tab of the chat: the engine of src/engine/machine.ts with   *)
(* its sessionStorage slots, the create-message calls, snapshot reads and  *)
(* event stream it has in flight, and the conversations of the service     *)
(* behind the BFF (external, OwnerLedger).                                 *)
(*                                                                         *)
(* The engine is single-threaded: a user command, a settled promise or a   *)
(* flushed stream batch is one action.  Whatever it waits for is in flight *)
(* and races with everything else.  The operators on an engine record e    *)
(* are the functions of machine.ts that its handlers share.                *)
(*                                                                         *)
(* An idempotency key also names the message, its echo and the run it      *)
(* admits.  Left out: paused runs and their decisions, message bodies,     *)
(* files and notifications, deletion, regeneration, other tabs.            *)
(***************************************************************************)
EXTENDS SubmissionSlot, OwnerLedger

CONSTANTS
    Convs,     \* conversation ids the tab can draw
    MaxCalls,  \* bound on the create-message calls of a behaviour
    Faults     \* what may go wrong besides delays, lost answers and refusals

NoConv == "none"

ASSUME ChatAssumption ==
    /\ MaxCalls \in Nat
    /\ NoConv \notin Convs
    /\ Faults \subseteq {"lost", "refuse", "drop", "fail", "expire", "disk", "reload",
                         "remount", "forbidden", "vanish"}

VARIABLES
    tab,    \* the engine's variables, and the conversation index in localStorage
    slot,   \* slot[c]: the submission record of conversation c in sessionStorage
    calls,  \* the create-message calls, in the order they were made
    log,    \* log[c]: the service's ledger of c; empty until a message is accepted
    gone,   \* conversations the service no longer knows
    past    \* history: what happened to each key

serverVars == <<log, gone>>
vars == <<tab, slot, calls, serverVars, past>>

NoPending == [key |-> NoKey, id |-> 0]
NoStop == [run |-> NoKey, asked |-> FALSE, cursor |-> 0]
NoRead == [kind |-> "none", at |-> 0, run |-> NoKey, ended |-> {}, cursor |-> 0]

\* A snapshot read that is on its way, and one that found no conversation.
Travelling == -1
Absent == 0

Engine ==
    [active     : Convs \cup {NoConv},  \* store.activeId
     list       : SUBSET Convs,         \* store.conversations
     drafts     : SUBSET Convs,         \* those with localDraft
     drawn      : SUBSET Convs,         \* every id createId drew
     machine    : Machine,
     pending    : [key : Keys \cup {NoKey}, id : 0 .. MaxCalls],  \* pendingSubmission; id is the
                                        \* call that made the object, 0 for one read from the slot
     prepared   : Keys \cup {NoKey},    \* preparedSubmission
     deferred   : BOOLEAN,              \* deferredCreateReceipt, always the pending key's
     retryError : Errors,               \* recoveredSubmissionError, "none" when there is none
     unsaved    : SUBSET Keys,          \* unsavedReceipts
     broken     : BOOLEAN,              \* submissionRecoveryUnavailable
     hydrating  : BOOLEAN,
     recovering : BOOLEAN,              \* recoveringExpiredCursor
     connection : {"connected", "reconnecting", "unavailable"},
     stream     : {"closed", "connecting", "live"},
     position   : Nat,                  \* thread.resumeCursor
     ended      : SUBSET Keys,          \* observedTerminalRuns
     steers     : SUBSET Keys,          \* pendingSteerReceipts
     read       : [kind : {"none", "hydrate", "recover", "sync", "stop"}, at : Nat \cup {Travelling},
                   run : Keys \cup {NoKey}, ended : SUBSET Keys, cursor : Nat],
     timer      : Keys \cup {NoKey},    \* the run reattachTimer is set for
     stop       : [run : Keys \cup {NoKey}, asked : BOOLEAN,       \* cancelIntent, its inFlight, and
                   cursor : Nat]]                                  \* the cursor it was made at

\* "engine": a callback of the running engine waits for the answer; "disposed": one of an engine
\* that was disposed of; "nobody": the page is gone, or the answer was lost.
Call == [key : Keys, conv : Convs, kind : {"create", "steer"},
         status : {"sent", "accepted", "refused", "done"},
         owner : {"engine", "disposed", "nobody"},
         doomed : BOOLEAN]              \* cancelledSubmissions has its key

Past == [home : [Keys -> Convs \cup {NoConv}],  \* the conversation a key was drawn for
         saved : SUBSET Keys,     \* keys that were pending in a slot
         received : SUBSET Keys,  \* keys whose receipt reached a callback
         gaveUp : SUBSET Keys,    \* intents the user abandoned
         cancels : SUBSET Keys]   \* runs cancelled because their intent was given up

EmptyEngine ==
    [active |-> NoConv, list |-> {}, drafts |-> {}, drawn |-> {}, machine |-> IdleMachine,
     pending |-> NoPending, prepared |-> NoKey, deferred |-> FALSE, retryError |-> "none",
     unsaved |-> {}, broken |-> FALSE, hydrating |-> FALSE, recovering |-> FALSE,
     connection |-> "connected", stream |-> "closed", position |-> 0, ended |-> {}, steers |-> {},
     read |-> NoRead, timer |-> NoKey, stop |-> NoStop]

Init ==
    /\ tab = EmptyEngine
    /\ slot = [c \in Convs |-> EmptySlot]
    /\ calls = <<>>
    /\ log = [c \in Convs |-> <<>>]
    /\ gone = {}
    /\ past = [home |-> [k \in Keys |-> NoConv], saved |-> {}, received |-> {}, gaveUp |-> {},
               cancels |-> {}]

\* Whether the browser's storage works at a write.
Works == IF "disk" \in Faults THEN BOOLEAN ELSE {TRUE}

FreshConvs(e) == Convs \ e.drawn
FreshKeys == {k \in Keys : past.home[k] = NoConv}
HasPending(e) == e.pending.key # NoKey

-----------------------------------------------------------------------------
(* Functions the handlers share *)

\* A run of the thread was touched: cancelRun's closing read no longer answers this thread.
Touch(e) == IF e.read.kind = "stop" THEN [e EXCEPT !.read = NoRead] ELSE e

Open(e) == [e EXCEPT !.stream = "connecting"]

\* Mutant: an intent at rest is not looked at.
ExposeNothing(e) == e

\* exposeUnconfirmedSubmission
Expose(e) ==
    IF HasPending(e) /\ e.machine.phase = "idle"
    THEN [e EXCEPT !.machine = FAIL("unknown")]
    ELSE e

\* Mutant: the aborted read is superseded, and its failure ignored.
AbortReadSilently(e) == e

\* fetchSnapshot aborts the read before it; a hydration it aborts fails on the spot.
AbortRead(e) ==
    CASE e.read.kind = "hydrate" -> [e EXCEPT !.hydrating = FALSE, !.machine = FAIL("failed")]
      [] e.read.kind = "recover" -> [e EXCEPT !.recovering = FALSE, !.connection = "unavailable"]
      [] OTHER                   -> e

\* The read after a run settled ("sync") or after a stop was answered ("stop").
ReadOwner(e, kind, run, ended, cursor) ==
    [AbortRead(e) EXCEPT !.read = [kind |-> kind, at |-> Travelling, run |-> run,
                                   ended |-> ended, cursor |-> cursor]]

\* hydrate: a new generation, in which no older read, steer or stop is answered.
Hydrate(e, kind) ==
    [e EXCEPT !.read = [NoRead EXCEPT !.kind = kind, !.at = Travelling],
              !.hydrating = @ \/ kind = "hydrate",
              !.ended = {}, !.steers = {}, !.stop = NoStop]

\* What every view of another conversation starts from.
Cleared(e) ==
    [e EXCEPT !.machine = IdleMachine, !.pending = NoPending, !.deferred = FALSE,
              !.retryError = "none", !.hydrating = FALSE, !.connection = "connected",
              !.stream = "closed", !.position = 0, !.ended = {}, !.steers = {},
              !.read = NoRead, !.timer = NoKey, !.stop = NoStop]

\* restoreSubmission
RestoreSubmission(e, works) ==
    LET s == slot[e.active] IN
    CASE ~works ->
            [e EXCEPT !.broken = TRUE, !.connection = "unavailable", !.machine = FAIL("local")]
      [] works /\ s.state = "pending" ->
            [e EXCEPT !.broken = FALSE, !.pending = [key |-> s.key, id |-> 0],
                      !.machine = FAIL(IF s.code = "none" THEN "unknown" ELSE s.code)]
      [] works /\ s.state # "pending" ->
            [e EXCEPT !.broken = FALSE]

\* Mutant: the next view inherits the recovery of the last one.
ActivateStillRecovering(e, c, hydrate, works) ==
    LET restored == RestoreSubmission([Cleared(e) EXCEPT !.active = c, !.prepared = NoKey], works)
    IN IF hydrate /\ ~restored.broken /\ (HasPending(restored) \/ c \notin e.drafts)
       THEN Hydrate(restored, "hydrate")
       ELSE restored

\* activateConversation.  A local draft has nothing to read, unless a submission was restored.
Activate(e, c, hydrate, works) ==
    LET restored == RestoreSubmission(
            [Cleared(e) EXCEPT !.active = c, !.prepared = NoKey, !.recovering = FALSE], works)
    IN IF hydrate /\ ~restored.broken /\ (HasPending(restored) \/ c \notin e.drafts)
       THEN Hydrate(restored, "hydrate")
       ELSE restored

\* evictActiveConversation: to a conversation that is left, or to a new one that is not read.
EvictTargets(e) ==
    IF e.list \ {e.active} # {} THEN e.list \ {e.active} ELSE FreshConvs(e)

Evict(e, c, works) ==
    LET left == [e EXCEPT !.list = (@ \ {e.active}) \cup {c}, !.drafts = @ \ {e.active},
                          !.drawn = @ \cup {c}]
    IN Activate(left, c, c \in e.list, works)

\* applyRecoveredReceipt
Recovered(e, settled) ==
    LET m == IF settled /\ e.machine.run = NoKey THEN IdleMachine ELSE e.machine IN
    [Touch(e) EXCEPT
        !.pending = NoPending, !.retryError = "none", !.deferred = FALSE,
        !.machine = IF m.phase = "idle" /\ ~settled THEN RECEIPT(SUBMIT(m), e.pending.key) ELSE m]

\* observeSnapshotTerminals
Observe(e, view) == IF HasPending(e) THEN [e EXCEPT !.ended = @ \cup Terminals(view)] ELSE e

\* The owner's run is shown, and unless it was shown already, given reattachTimeoutMs for an event.
Reattached(e, view) ==
    LET head == ExecutionHead(view)
        machine == REATTACH(e.machine, head, HeadState(view))
    IN IF head = NoKey \/ machine = e.machine THEN e
       ELSE [e EXCEPT !.machine = machine, !.timer = head]

\* adoptOwnerSnapshot
Adopt(e, view) ==
    LET adopted == Reattached([Observe(e, view) EXCEPT
                                  !.machine = IdleMachine, !.stream = "closed", !.timer = NoKey,
                                  !.position = Len(view)], view)
    IN Expose(IF ExecutionHead(view) # NoKey THEN Open(adopted)
              ELSE [adopted EXCEPT !.connection = "connected"])

-----------------------------------------------------------------------------
(* Giving an intent up: abandonPendingSubmission *)

Over(call) == [call EXCEPT !.status = "done", !.owner = "nobody", !.doomed = FALSE]

\* Nobody waits for the call any more; one that is still on its way may be accepted.
Deserted(call) ==
    IF call.status = "sent" THEN [call EXCEPT !.owner = "nobody", !.doomed = FALSE] ELSE Over(call)

Intent(e) == IF HasPending(e) THEN e.pending.key ELSE e.prepared

AbandonWorks(e, works) == Intent(e) # NoKey => CanAbandon(slot[e.active], Intent(e), works)

\* Mutant: a deferred receipt is dropped with its intent.
CancelledNothing(e) == {}

\* A deferred receipt is cancelled at once; otherwise the calls in flight are to be cancelled.
Cancelled(e) == IF e.deferred THEN {e.pending.key} ELSE {}

Forgotten(e) ==
    [e EXCEPT !.pending = NoPending, !.prepared = NoKey, !.deferred = FALSE, !.retryError = "none"]

\* The records that abandonment leaves behind.
AbandonRecords(e) ==
    LET k == Intent(e) IN
    /\ slot' = IF k = NoKey THEN slot ELSE [slot EXCEPT ![e.active] = Abandoned(@, k)]
    /\ calls' = [i \in DOMAIN calls |->
                    IF calls[i].owner = "engine" /\ calls[i].kind = "create" /\ calls[i].key = k /\ ~e.deferred
                    THEN [calls[i] EXCEPT !.doomed = TRUE] ELSE calls[i]]
    /\ past' = [past EXCEPT !.gaveUp = @ \cup ({k} \ {NoKey}),
                            !.cancels = @ \cup Cancelled(e)]

-----------------------------------------------------------------------------
(* Messages *)

CanSubmitMessage(e) ==
    /\ ~e.recovering
    /\ ~e.broken
    /\ e.connection = "connected"
    /\ \/ Resting(e.machine) /\ ~HasPending(e)
       \/ e.active # NoConv /\ e.machine.phase \in {"streaming", "queued"}

\* flushReceipts
Flushed(e, s) ==
    [c \in Convs |-> IF s[c].state = "pending" /\ s[c].key \in e.unsaved
                     THEN Acknowledged(s[c], s[c].key) ELSE s[c]]

NewCall(k, c, kind) ==
    Append(calls, [key |-> k, conv |-> c, kind |-> kind, status |-> "sent", owner |-> "engine",
                   doomed |-> FALSE])

\* beginRun, up to its await
Begun(e, k) ==
    [e EXCEPT !.pending = [key |-> k, id |-> Len(calls) + 1], !.prepared = NoKey,
              !.deferred = FALSE, !.retryError = "none", !.machine = SUBMIT(@)]

\* submit at rest.  Whatever is not written (the receipts kept in memory, the intent, the end of the
\* local draft) stops the submission there, with the prepared intent kept for the next attempt.
Submit(c, k) ==
    /\ Len(calls) < MaxCalls
    /\ CanSubmitMessage(tab)
    /\ Resting(tab.machine)
    /\ IF tab.active # NoConv THEN c = tab.active ELSE c \in FreshConvs(tab)
    /\ IF tab.prepared # NoKey THEN k = tab.prepared ELSE k \in FreshKeys
    /\ \E flushes, saves, retires \in Works :
        LET flushed == Flushed(tab, slot)
            opened == IF tab.active # NoConv THEN [tab EXCEPT !.unsaved = {}, !.prepared = k]
                      ELSE [tab EXCEPT !.unsaved = {}, !.prepared = k, !.active = c, !.list = {c},
                                       !.drafts = {c}, !.drawn = @ \cup {c}]
            isSaved == CanSave(flushed[c], k, saves)
            retired == c \in opened.drafts => retires
        IN /\ tab.unsaved # {} => flushes
           /\ slot' = IF isSaved THEN [flushed EXCEPT ![c] = Saved(@, k)] ELSE flushed
           /\ past' = [past EXCEPT !.home[k] = c, !.saved = IF isSaved THEN @ \cup {k} ELSE @]
           /\ IF isSaved /\ retired
              THEN /\ tab' = Begun(Touch([opened EXCEPT !.drafts = @ \ {c}]), k)
                   /\ calls' = NewCall(k, c, "create")
              ELSE /\ tab' = opened
                   /\ UNCHANGED calls
    /\ UNCHANGED serverVars

\* submit while a run is shown: another message for the owner's queue, outside the slot.
Steer(k) ==
    /\ Len(calls) < MaxCalls
    /\ CanSubmitMessage(tab)
    /\ ~Resting(tab.machine)
    /\ k \in FreshKeys
    /\ \E flushes, retires \in Works :
        /\ tab.unsaved # {} => flushes
        /\ tab.active \in tab.drafts => retires
    /\ tab' = Touch([tab EXCEPT !.unsaved = {}, !.steers = @ \cup {k}, !.drafts = @ \ {tab.active}])
    /\ slot' = Flushed(tab, slot)
    /\ calls' = NewCall(k, tab.active, "steer")
    /\ past' = [past EXCEPT !.home[k] = tab.active]
    /\ UNCHANGED serverVars

CanRetryPending(e) ==
    /\ ~e.hydrating
    /\ ~e.recovering
    /\ ~e.broken
    /\ e.connection = "connected"
    /\ e.machine.phase = "error"
    /\ HasPending(e)

\* The receipt of the pending intent is already here: unsavedReceipts, or an acknowledged slot.
KnownReceipt(e) ==
    \/ e.pending.key \in e.unsaved
    \/ slot[e.active].state = "acknowledged" /\ slot[e.active].key = e.pending.key

\* retry of an intent whose receipt is known: reconcileKnownReceipt reads, and posts nothing.
RetryKnown ==
    /\ CanRetryPending(tab)
    /\ KnownReceipt(tab)
    /\ TRUE \in Works
    /\ slot' = [slot EXCEPT ![tab.active] = Acknowledged(@, tab.pending.key)]
    /\ tab' = Hydrate([Forgotten(Touch(tab)) EXCEPT !.unsaved = @ \ {tab.pending.key},
                                                    !.machine = IdleMachine], "hydrate")
    /\ UNCHANGED <<calls, serverVars, past>>

\* retry of an intent whose outcome is unknown: the same key again.
Retry ==
    /\ Len(calls) < MaxCalls
    /\ CanRetryPending(tab)
    /\ ~KnownReceipt(tab)
    /\ CanSave(slot[tab.active], tab.pending.key, TRUE)
    /\ slot' = [slot EXCEPT ![tab.active] = Saved(@, tab.pending.key)]
    /\ tab' = Begun([tab EXCEPT !.drafts = @ \ {tab.active}], tab.pending.key)
    /\ calls' = NewCall(tab.pending.key, tab.active, "create")
    /\ past' = [past EXCEPT !.saved = @ \cup {tab.pending.key}]
    /\ UNCHANGED serverVars

-----------------------------------------------------------------------------
(* Stop and navigation *)

\* cancelRun before the receipt: the intent is given up.
StopSubmission ==
    /\ tab.machine.phase = "submitting"
    /\ HasPending(tab)
    /\ \E works \in Works : AbandonWorks(tab, works)
    /\ AbandonRecords(tab)
    /\ tab' = [Forgotten(tab) EXCEPT !.machine = IdleMachine]
    /\ UNCHANGED serverVars

\* cancelRun of the run shown.  It stays shown until the owner says that it ended; what the command
\* does at the service is Complete, which may come with or without it.
StopRun ==
    /\ tab.machine.run # NoKey
    /\ tab.machine.phase = "cancelling" => tab.machine.error # "none" /\ ~tab.stop.asked
    /\ tab' = [tab EXCEPT !.machine = [CANCEL(@) EXCEPT !.error = "none"],
                          !.stop = [run |-> tab.machine.run, asked |-> TRUE,
                                    cursor |-> tab.position]]
    /\ UNCHANGED <<slot, calls, serverVars, past>>

\* The answer to the cancel command, or its failure: one read follows, for the owner's own word.
StopAnswered ==
    /\ tab.stop.asked
    /\ \E failed \in BOOLEAN :
        LET answered == [tab EXCEPT !.stop.asked = FALSE, !.stop.cursor = 0] IN
        tab' = IF tab.machine.run # tab.stop.run THEN answered
               ELSE ReadOwner(IF failed THEN [answered EXCEPT !.machine.error = "failed"] ELSE answered,
                              "stop", tab.stop.run, {}, tab.stop.cursor)
    /\ UNCHANGED <<slot, calls, serverVars, past>>

\* newConversation: gives up the pending intent and cancels the run shown, for a conversation that
\* is not read.
New(c) ==
    /\ ~tab.broken
    /\ c \in FreshConvs(tab)
    /\ \E works \in Works : AbandonWorks(tab, works)
    /\ AbandonRecords(tab)
    /\ tab' = [Cleared(Forgotten(tab)) EXCEPT !.active = c, !.list = @ \cup {c},
                                              !.drafts = @ \cup {c}, !.drawn = @ \cup {c}]
    /\ UNCHANGED serverVars

\* selectConversation, and openConversation of one in the index: no run is cancelled.
Select(c) ==
    /\ c \in tab.list \ {tab.active}
    /\ \E works \in Works : tab' = Activate(tab, c, TRUE, works)
    /\ UNCHANGED <<slot, calls, serverVars, past>>

\* reconnect: reads the slot again if that is what failed, else the owner.
Reconnect ==
    /\ tab.active # NoConv
    /\ ~tab.recovering
    /\ tab.connection = "unavailable"
    /\ \E works \in Works :
        tab' = IF tab.broken
               THEN LET restored == RestoreSubmission(
                            [tab EXCEPT !.connection = "connected", !.machine = IdleMachine,
                                        !.pending = NoPending], works)
                    IN IF restored.broken THEN restored ELSE Hydrate(restored, "hydrate")
               ELSE Hydrate([tab EXCEPT
                                !.recovering = TRUE, !.connection = "reconnecting", !.stream = "closed",
                                !.timer = NoKey,
                                !.retryError = IF HasPending(tab) /\ tab.machine.phase = "error"
                                               THEN tab.machine.error ELSE "none"], "recover")
    /\ UNCHANGED <<slot, calls, serverVars, past>>

\* A new engine over the same storage: of the old one's variables nothing is left.  After a reload
\* its calls are nobody's; after a new mount in the same page (dispose) their callbacks still run.
Restart(owner) ==
    /\ tab.active # NoConv
    /\ \E works \in Works :
        tab' = Activate([tab EXCEPT !.unsaved = {}], tab.active, TRUE, works)
    /\ calls' = [i \in DOMAIN calls |->
                    IF calls[i].owner = "nobody" THEN calls[i]
                    ELSE IF owner = "nobody" \/ calls[i].kind = "steer" THEN Deserted(calls[i])
                    ELSE [calls[i] EXCEPT !.owner = "disposed"]]
    /\ UNCHANGED <<slot, serverVars, past>>

Reload == "reload" \in Faults /\ Restart("nobody")

\* The page keeps an engine that nobody shows until its submission is settled.
Remount ==
    /\ "remount" \in Faults
    /\ Intent(tab) = NoKey
    /\ Restart("disposed")

-----------------------------------------------------------------------------
(* Answers to create-message calls *)

Settled(i) == [calls EXCEPT ![i] = Over(@)]

\* The first receipt of a cancelled submission consumes the marker of its engine's other calls.
Consumed(i) ==
    [j \in DOMAIN calls |->
        IF j = i THEN Over(calls[i])
        ELSE IF calls[j].key = calls[i].key /\ calls[j].owner = calls[i].owner
        THEN [calls[j] EXCEPT !.doomed = FALSE] ELSE calls[j]]

\* Mutant: an ended run is not remembered.
ReceivedBlindly(e, k) ==
    LET rested == IF e.machine.phase = "error" THEN [e EXCEPT !.machine = IdleMachine] ELSE e
        applied == Recovered(rested, FALSE)
    IN IF e.hydrating \/ e.recovering \/ e.connection # "connected" THEN [e EXCEPT !.deferred = TRUE]
       ELSE IF e.machine.phase = "submitting"
            THEN Open([Forgotten(Touch(e)) EXCEPT !.machine = RECEIPT(@, k)])
       ELSE IF e.machine.run = NoKey /\ applied.machine.run # NoKey THEN Open(applied)
       ELSE applied

\* Mutant: the run of a recovered receipt is not followed.
ReceivedUnfollowed(e, k) ==
    LET rested == IF e.machine.phase = "error" THEN [e EXCEPT !.machine = IdleMachine] ELSE e
    IN IF e.hydrating \/ e.recovering \/ e.connection # "connected" THEN [e EXCEPT !.deferred = TRUE]
       ELSE IF k \in e.ended THEN Recovered(e, TRUE)
       ELSE IF e.machine.phase = "submitting"
            THEN Open([Forgotten(Touch(e)) EXCEPT !.machine = RECEIPT(@, k)])
       ELSE Recovered(rested, FALSE)

\* What the receipt of k does to the engine that still holds its intent.
Received(e, k) ==
    LET rested == IF e.machine.phase = "error" THEN [e EXCEPT !.machine = IdleMachine] ELSE e
        applied == Recovered(rested, FALSE)
    IN IF e.hydrating \/ e.recovering \/ e.connection # "connected" THEN [e EXCEPT !.deferred = TRUE]
       ELSE IF k \in e.ended THEN Recovered(e, TRUE)
       ELSE IF e.machine.phase = "submitting"
            THEN Open([Forgotten(Touch(e)) EXCEPT !.machine = RECEIPT(@, k)])
       ELSE IF e.machine.run = NoKey /\ applied.machine.run # NoKey THEN Open(applied)
       ELSE applied

\* The receipt of a submission.  It is written down first, whoever waits for it.
Receipt(i) ==
    /\ calls[i].kind = "create"
    /\ calls[i].status = "accepted"
    /\ calls[i].owner \in {"engine", "disposed"}
    /\ LET k == calls[i].key
           c == calls[i].conv
           mine == calls[i].owner = "engine"
       IN \E works \in Works :
            LET written == [tab EXCEPT !.unsaved = IF ~mine THEN @
                                                   ELSE IF works THEN @ \ {k} ELSE @ \cup {k}]
            IN /\ slot' = IF works THEN [slot EXCEPT ![c] = Acknowledged(@, k)] ELSE slot
               /\ past' = [past EXCEPT !.received = @ \cup {k},
                                       !.cancels = IF calls[i].doomed THEN @ \cup {k} ELSE @]
               /\ IF calls[i].doomed
                  THEN tab' = written /\ calls' = Consumed(i)
                  ELSE /\ tab' = IF mine /\ tab.pending.key = k /\ tab.active = c
                                 THEN Received(written, k) ELSE written
                       /\ calls' = Settled(i)
    /\ UNCHANGED serverVars

\* A submission's call fails: refused with a code, or without an answer (the service may still get it).
CreateFails(i) ==
    /\ calls[i].kind = "create"
    /\ calls[i].owner \in {"engine", "disposed"}
    /\ "lost" \in Faults \/ calls[i].status = "refused"
    /\ LET refused == calls[i].status = "refused"
           current == /\ calls[i].owner = "engine"
                      /\ tab.pending.id = i
                      /\ tab.machine.phase = "submitting"
                      /\ tab.active = calls[i].conv
       IN /\ tab' = IF ~current THEN tab
                    ELSE [tab EXCEPT !.machine = FAIL("failed"),
                                     !.retryError = IF tab.recovering \/ tab.connection # "connected"
                                                    THEN "failed" ELSE @]
          /\ \E works \in Works :
                slot' = IF current /\ works
                        THEN [slot EXCEPT ![tab.active] =
                                Failed(@, calls[i].key, IF refused THEN "failed" ELSE "unknown")]
                        ELSE slot
          /\ calls' = [calls EXCEPT ![i] = Deserted(@)]
    /\ UNCHANGED <<serverVars, past>>

\* The last steer that could name an ended run takes the memory of ended runs with it.
SteerSettled(e, k) ==
    LET others == e.steers \ {k} IN
    [e EXCEPT !.steers = others, !.ended = IF others = {} /\ ~HasPending(e) THEN {} ELSE @]

\* The receipt of a steer: at rest it admits the run that follows, unless that run ended already.
SteerReceipt(i) ==
    /\ calls[i].kind = "steer"
    /\ calls[i].status = "accepted"
    /\ calls[i].owner = "engine"
    /\ LET k == calls[i].key
           admits == tab.machine.phase = "idle" /\ k \notin tab.ended
           admitted == Open([tab EXCEPT !.machine = RECEIPT(SUBMIT(@), k),
                                        !.read = IF @.kind = "sync" THEN NoRead ELSE @])
       IN tab' = SteerSettled(IF k \notin tab.steers THEN tab
                              ELSE Touch(IF admits THEN admitted ELSE tab), k)
    /\ past' = [past EXCEPT !.received = @ \cup {calls[i].key}]
    /\ calls' = Settled(i)
    /\ UNCHANGED <<slot, serverVars>>

SteerFails(i) ==
    /\ calls[i].kind = "steer"
    /\ calls[i].owner = "engine"
    /\ "lost" \in Faults \/ calls[i].status = "refused"
    /\ tab' = SteerSettled(tab, calls[i].key)
    /\ calls' = [calls EXCEPT ![i] = Deserted(@)]
    /\ UNCHANGED <<slot, serverVars, past>>

-----------------------------------------------------------------------------
(* Snapshot reads *)

Answered(e) == [e EXCEPT !.read = NoRead]
View == Prefix(log[tab.active], tab.read.at)

\* Mutant: an absent conversation ends the loading, and the receipt that waited for it is left.
HydrateAbsentOnly ==
    /\ tab.read.kind = "hydrate"
    /\ tab.read.at = Absent
    /\ tab' = [Answered(tab) EXCEPT !.hydrating = FALSE]
    /\ UNCHANGED <<slot, calls, serverVars, past>>

\* hydrate finds no conversation.  The view it was opened for stays; one whose stream expired is evicted.
HydrateAbsent ==
    /\ tab.read.kind = "hydrate"
    /\ tab.read.at = Absent
    /\ LET shown == [Answered(tab) EXCEPT !.hydrating = FALSE] IN
       tab' = IF tab.deferred THEN Open(Recovered([shown EXCEPT !.machine = IdleMachine], FALSE))
              ELSE shown
    /\ UNCHANGED <<slot, calls, serverVars, past>>

RecoverAbsent ==
    /\ tab.read.kind = "recover"
    /\ tab.read.at = Absent
    /\ \/ /\ \E works \in Works : AbandonWorks(tab, works)
          /\ AbandonRecords(tab)
          /\ \E works \in Works, c \in EvictTargets(tab) :
                tab' = Evict(Forgotten(Answered(tab)), c, works)
       \/ /\ \E works \in Works : ~AbandonWorks(tab, works)
          /\ tab' = [Answered(tab) EXCEPT !.hydrating = FALSE]
          /\ UNCHANGED <<slot, calls, past>>
    /\ UNCHANGED serverVars

\* hydrate finds the conversation: the owner's run is shown first, then the receipt that waited.
HydrateOwner ==
    /\ tab.read.kind \in {"hydrate", "recover"}
    /\ tab.read.at > Absent
    /\ LET recover == tab.read.kind = "recover"
           head == ExecutionHead(View)
           read == [Answered(tab) EXCEPT !.position = Len(View),
                                         !.stream = IF recover THEN "closed" ELSE @,
                                         !.timer = IF recover THEN NoKey ELSE @,
                                         !.machine = IF recover \/ tab.deferred THEN IdleMachine ELSE @]
           shown == [Reattached(Observe(read, View), View) EXCEPT
                        !.recovering = IF recover THEN FALSE ELSE @]
           applied == IF tab.deferred THEN Recovered(shown, tab.pending.key \in Terminals(View))
                      ELSE IF recover /\ HasPending(tab) /\ tab.retryError # "none"
                                      /\ shown.machine.phase = "idle"
                      THEN [shown EXCEPT !.machine = FAIL(tab.retryError)]
                      ELSE shown
           done == [Expose(applied) EXCEPT !.hydrating = FALSE]
       IN tab' = IF head # NoKey \/ done.machine.run # NoKey THEN Open(done)
                 ELSE [done EXCEPT !.stream = "closed", !.timer = NoKey, !.connection = "connected"]
    /\ UNCHANGED <<slot, calls, serverVars, past>>

\* hydrate fails: the deadline, the network, the service.
HydrateFails ==
    /\ "lost" \in Faults
    /\ tab.read.kind \in {"hydrate", "recover"}
    /\ tab' = Answered(AbortRead(tab))
    /\ UNCHANGED <<slot, calls, serverVars, past>>

\* Mutant: the record of a message goes with the conversation that is evicted.
HydrateForbiddenForgets ==
    /\ "forbidden" \in Faults
    /\ tab.read.kind \in {"hydrate", "recover"}
    /\ \E works \in Works, c \in EvictTargets(tab) : tab' = Evict(Answered(tab), c, works)
    /\ slot' = [slot EXCEPT ![tab.active] = EmptySlot]
    /\ UNCHANGED <<calls, serverVars, past>>

\* hydrate is refused: the conversation is another user's.
HydrateForbidden ==
    /\ "forbidden" \in Faults
    /\ tab.read.kind \in {"hydrate", "recover"}
    /\ \E works \in Works, c \in EvictTargets(tab) : tab' = Evict(Answered(tab), c, works)
    /\ UNCHANGED <<slot, calls, serverVars, past>>

\* syncWorkspaceFiles: after a run settled, the owner's word on what comes next.
SyncOwner ==
    /\ tab.read.kind = "sync"
    /\ tab.read.at > Absent
    /\ LET head == ExecutionHead(View)
           quiet == tab.position = tab.read.cursor
           read == Observe(Answered(tab), View)
           asks == \/ read.machine.phase = "idle"
                   \/ HasPending(read) /\ read.machine.error = "unknown"
       IN tab' = IF ~asks \/ (head = NoKey /\ ~quiet) THEN read
                 ELSE IF head = NoKey
                 THEN [read EXCEPT !.stream = "closed", !.connection = "connected"]
                 ELSE IF head \in {tab.read.run} \cup tab.read.ended \cup read.ended
                 THEN [read EXCEPT !.stream = "closed"]
                 ELSE Adopt(read, View)
    /\ UNCHANGED <<slot, calls, serverVars, past>>

SyncAbsent ==
    /\ tab.read.kind = "sync"
    /\ tab.read.at = Absent
    /\ tab' = IF tab.machine.phase = "idle" /\ tab.position = tab.read.cursor
              THEN [Answered(tab) EXCEPT !.stream = "closed"]
              ELSE Answered(tab)
    /\ UNCHANGED <<slot, calls, serverVars, past>>

\* cancelRun's read: it settles the run only when the owner says that this run ended.
StopOwner ==
    /\ tab.read.kind = "stop"
    /\ tab.read.at > Absent
    /\ LET r == tab.read.run
           settles == /\ tab.stop.run = r
                      /\ tab.machine.run = r
                      /\ tab.position = tab.read.cursor
                      /\ ExecutionHead(View) # r
                      /\ r \in Terminals(View)
       IN tab' = IF settles THEN Adopt([Answered(tab) EXCEPT !.stop = NoStop], View)
                 ELSE Answered(tab)
    /\ UNCHANGED <<slot, calls, serverVars, past>>

\* A sync or stop read that fails, and a stop read that finds nothing, change nothing.
ReadFails ==
    /\ tab.read.kind \in {"sync", "stop"}
    /\ "lost" \in Faults \/ tab.read.kind = "stop"
    /\ tab' = Answered(tab)
    /\ UNCHANGED <<slot, calls, serverVars, past>>

-----------------------------------------------------------------------------
(* The event stream *)

StreamConnects ==
    /\ tab.stream = "connecting"
    /\ tab' = [tab EXCEPT !.stream = "live", !.connection = "connected"]
    /\ UNCHANGED <<slot, calls, serverVars, past>>

\* The stream ends or a connection attempt fails: the transport tries again by itself.
StreamDrops ==
    /\ "drop" \in Faults
    /\ tab.stream # "closed"
    /\ tab' = [tab EXCEPT !.stream = "connecting", !.connection = "reconnecting"]
    /\ UNCHANGED <<slot, calls, serverVars, past>>

\* An error the transport does not retry.
StreamFails ==
    /\ "fail" \in Faults
    /\ tab.stream # "closed"
    /\ tab' = [tab EXCEPT !.stream = "closed", !.connection = "unavailable", !.timer = NoKey]
    /\ UNCHANGED <<slot, calls, serverVars, past>>

\* reattachTimeoutMs without an event of the run: the stream, and a read with it, is given up.
ReattachTimesOut ==
    /\ "fail" \in Faults
    /\ tab.timer # NoKey
    /\ tab' = IF tab.machine.run # tab.timer THEN [tab EXCEPT !.timer = NoKey]
              ELSE [AbortRead(tab) EXCEPT !.read = NoRead, !.stream = "closed",
                                          !.connection = "unavailable", !.timer = NoKey]
    /\ UNCHANGED <<slot, calls, serverVars, past>>

\* 410 event_cursor_expired: the engine reads the owner again.
StreamExpires ==
    /\ "expire" \in Faults
    /\ tab.stream = "connecting"
    /\ tab.position > 0
    /\ tab' = Hydrate([tab EXCEPT !.stream = "closed", !.recovering = TRUE, !.timer = NoKey,
                                  !.connection = "reconnecting",
                                  !.retryError = IF tab.machine.phase = "submitting" THEN "none" ELSE @],
                      "recover")
    /\ UNCHANGED <<slot, calls, serverVars, past>>

\* The engine after a batch up to n, whose fold is "reduced".
Advanced(e, n, reduced, ends) ==
    [Touch(e) EXCEPT
        !.machine = reduced.machine, !.position = n,
        !.timer = IF reduced.machine.phase = "streaming" \/ reduced.settled # NoKey
                  THEN NoKey ELSE @,
        !.ended = IF e.steers # {} \/ HasPending(e) THEN @ \cup ends ELSE @,
        !.read.ended = IF e.read.kind = "sync" THEN @ \cup ends ELSE @]

\* handleStreamEvents, for a batch of any length.
StreamEvents ==
    /\ tab.stream = "live"
    /\ \E n \in (tab.position + 1) .. Len(log[tab.active]) :
        LET batch == SubSeq(log[tab.active], tab.position + 1, n)
            ends == Terminals(batch)
            reduced == Reduce(tab.machine, batch)
            exposed == Expose(Advanced(tab, n, reduced, ends))
        IN tab' = IF reduced.settled = NoKey THEN exposed
                  ELSE ReadOwner([exposed EXCEPT
                                    !.stop = IF @.run = reduced.settled THEN NoStop ELSE @],
                                 "sync", reduced.settled, ends, n)
    /\ UNCHANGED <<slot, calls, serverVars, past>>

-----------------------------------------------------------------------------
(* The service (external) *)

\* A message is accepted once per key; its run waits for the runs before it.
Accept(i) ==
    /\ calls[i].status = "sent"
    /\ calls[i].conv \notin gone
    /\ LET c == calls[i].conv IN
       log' = IF calls[i].key \in Queued(log[c]) THEN log
              ELSE [log EXCEPT ![c] = Append(@, [kind |-> "queued", run |-> calls[i].key])]
    /\ calls' = [calls EXCEPT ![i].status = IF calls[i].owner = "nobody" THEN "done" ELSE "accepted"]
    /\ UNCHANGED <<tab, slot, gone, past>>

Refuse(i) ==
    /\ "refuse" \in Faults
    /\ calls[i].status = "sent"
    /\ calls[i].key \notin Queued(log[calls[i].conv])
    /\ calls' = [calls EXCEPT ![i].status = IF calls[i].owner = "nobody" THEN "done" ELSE "refused"]
    /\ UNCHANGED <<tab, slot, serverVars, past>>

Start(c) ==
    /\ Unfinished(log[c]) # {}
    /\ HeadState(log[c]) = "queued"
    /\ log' = [log EXCEPT ![c] = Append(@, [kind |-> "created", run |-> ExecutionHead(log[c])])]
    /\ UNCHANGED <<tab, slot, calls, gone, past>>

\* A run completes, fails, is not dispatched or is cancelled.
Complete(c, k) ==
    /\ k \in Unfinished(log[c])
    /\ log' = [log EXCEPT ![c] = Append(@, [kind |-> "completed", run |-> k])]
    /\ UNCHANGED <<tab, slot, calls, gone, past>>

\* The conversation is deleted elsewhere.
Vanish(c) ==
    /\ "vanish" \in Faults
    /\ log[c] # <<>>
    /\ gone' = gone \cup {c}
    /\ UNCHANGED <<tab, slot, calls, log, past>>

\* A snapshot read is executed; what happens before its answer is taken, the answer does not say.
ReadExecutes ==
    /\ tab.read.at = Travelling
    /\ tab' = [tab EXCEPT !.read.at = IF tab.active \in gone THEN Absent ELSE Len(log[tab.active])]
    /\ UNCHANGED <<slot, calls, serverVars, past>>

-----------------------------------------------------------------------------
User ==
    \/ \E c \in Convs, k \in Keys : Submit(c, k)
    \/ \E k \in Keys : Steer(k)
    \/ RetryKnown \/ Retry \/ StopSubmission \/ StopRun \/ Reconnect \/ Reload \/ Remount
    \/ \E c \in Convs : New(c) \/ Select(c)

Answers ==
    \/ \E i \in DOMAIN calls : Receipt(i) \/ CreateFails(i) \/ SteerReceipt(i) \/ SteerFails(i)
    \/ StopAnswered
    \/ HydrateAbsent \/ RecoverAbsent \/ HydrateOwner \/ HydrateFails \/ HydrateForbidden
    \/ SyncOwner \/ SyncAbsent \/ StopOwner \/ ReadFails

Stream == StreamConnects \/ StreamDrops \/ StreamFails \/ ReattachTimesOut \/ StreamExpires \/ StreamEvents

Service ==
    \/ \E i \in DOMAIN calls : Accept(i) \/ Refuse(i)
    \/ \E c \in Convs : Start(c) \/ Vanish(c) \/ \E k \in Keys : Complete(c, k)
    \/ ReadExecutes

Next == User \/ Answers \/ Stream \/ Service

Spec == Init /\ [][Next]_vars

-----------------------------------------------------------------------------
(* Types of the variables, field by field. *)
TypeOK ==
    /\ tab \in Engine
    /\ slot \in [Convs -> Slot]
    /\ calls \in Seq(Call)
    /\ Len(calls) <= MaxCalls
    /\ log \in [Convs -> Seq(Event)]
    /\ gone \subseteq Convs
    /\ past \in Past

(* A message the user sent is not lost: until its receipt came or the user gave it up, the record of
   its conversation holds it, whatever was sent, switched, reloaded or answered in between. *)
IntentKept ==
    \A k \in past.saved \ (past.received \cup past.gaveUp) : Matches(slot[past.home[k]], k)

(* An intent the user gave up does not run on unseen: if the receipt of its message still comes to the
   page, a cancel command for its run has been sent, or a call that is still awaited will send it. *)
GivenUpIsCancelled ==
    past.gaveUp \cap past.received \subseteq
        past.cancels \cup {calls[i].key : i \in {j \in DOMAIN calls : calls[j].doomed}}

(* An intent the user gave up is not kept: no later view of its conversation offers to send it. *)
GivenUpStaysClosed == \A k \in past.gaveUp : ~Matches(slot[past.home[k]], k)

(* An intent without a receipt is never out of sight: the tab is sending it, shows a run, or shows
   the failure that offers to send it again. *)
NoHiddenPending == HasPending(tab) => tab.machine.phase # "idle"

(* The tab never shows a submitted message's run as going on when what it has read of the ledger
   includes that run's end, whatever order the receipt, the snapshot and the events came in. *)
HasEnded(k) == k \in Terminals(Prefix(log[tab.active], tab.position))

RunNotEnded == tab.machine.run \in past.saved => ~HasEnded(tab.machine.run)

(* A run that is shown is followed: the stream is open, or a read will open it, or the tab says that
   it lost the connection, which offers to reconnect. *)
RunIsFollowed ==
    tab.machine.run # NoKey =>
        tab.stream # "closed" \/ tab.read.kind = "recover" \/ tab.connection = "unavailable"

(* "Loading" begins with the hydration that ends it, and whatever takes the place of a read that would
   end it (another read, a stop, a time-out, the next recovery) ends it too or is such a read itself.
   Only a recovery may leave it behind, in a tab that says that it lost the connection. *)
EndsLoading(e) == e.read.kind \in {"hydrate", "recover"}

LoadingIsRead ==
    [][/\ tab'.hydrating /\ ~tab.hydrating => tab'.read.kind = "hydrate"
       /\ tab'.hydrating /\ EndsLoading(tab) /\ ~EndsLoading(tab') =>
              tab.read.kind = "recover" /\ tab'.connection = "unavailable"]_vars

(* A tab says that it is recovering only as long as the read that ends the recovery is on its way: it
   is not left unable to send or to retry.  But for a conversation that the user has begun meanwhile,
   and for one that is gone and whose intent the storage could not retire. *)
RecoveringIsRead ==
    tab.recovering =>
        \/ tab.read.kind = "recover"
        \/ tab.active \in tab.drafts
        \/ "disk" \in Faults /\ tab.active \in gone

(* A receipt that waits for a recovery is not stranded: a tab that is connected again and reads
   nothing has taken it, and does not go on showing the message as being sent. *)
DeferredIsAwaited ==
    tab.deferred /\ tab.machine.phase = "submitting" =>
        tab.hydrating \/ tab.recovering \/ tab.connection # "connected"

(* A message whose receipt is known is not sent again: retrying it reads, and posts nothing. *)
KnownReceiptNotReposted ==
    [][Len(calls') > Len(calls) => calls'[Len(calls')].key \notin past.received]_vars

(* The slots keep the promise of IntentLifecycle. *)
OpenIntent(c) == IF slot[c].state = "pending" THEN slot[c].key ELSE NoKey
Lifecycle == INSTANCE IntentLifecycle WITH
    Conversations <- Convs, Intents <- Keys, Nothing <- NoKey,
    open <- [c \in Convs |-> OpenIntent(c)],
    closed <- (past.saved \cap (past.received \cup past.gaveUp)) \ {OpenIntent(c) : c \in Convs}

KeepsLifecycle == Lifecycle!Spec

=============================================================================
