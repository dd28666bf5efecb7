------------------------------ MODULE Approvals ------------------------------
(***************************************************************************)
(* The human in the loop of one run (src/engine/machine.ts): the pauses    *)
(* the owner opens, the decisions staged for the items of a pause, the     *)
(* resume command that carries them, its retries, its receipts, the        *)
(* owner's states that settle it, and the reads that replace everything.   *)
(*                                                                         *)
(* The owner's interaction states form a log; a revision is a position in  *)
(* it, and the page shows the state at its cursor.  Every pause asks about *)
(* the same items, as after a failed validation.  A staged decision        *)
(* remembers the pause it was made for, which the code does not.           *)
(***************************************************************************)
EXTENDS Integers, FiniteSets, SequencesExt

CONSTANTS
    Items,        \* the items of a pause
    Answers,      \* the decisions allowed for an item
    MaxPauses,    \* bound: pauses of the run
    MaxCommands,  \* bound: resume commands of the page
    MaxAttempts,  \* bound: calls of the page
    MaxReads,     \* bound: hydrations
    MaxStates,    \* bound: states of the owner before a command is tried again
    MaxFaults     \* bound: answers and reads lost

ASSUME ApprovalsAssumption ==
    /\ Items # {} /\ Answers # {}
    /\ {MaxCommands, MaxAttempts, MaxStates, MaxFaults} \subseteq Nat
    /\ {MaxPauses, MaxReads} \subseteq Nat \ {0}

VARIABLES
    log,         \* the owner's interaction states; the last may be the end of the run
    receipts,    \* the owner's receipts, by command
    sent,        \* the body of every command the page has sent
    cursor,      \* the page shows log[cursor]
    phase,       \* machine.phase
    error,       \* machine.error, as the pause whose command failed; 0 is none
    staging,     \* staging: decisions by item
    frozen,      \* frozenResumes: the command whose intent is frozen, 0 if none
    locked,      \* resumeInFlight
    attempt,     \* resumeAttempts: the last attempt, 0 if none
    calls,       \* calls of resumeRun without an answer
    ownerRead,   \* the snapshot read after a failed receipt, if there is one
    generation,  \* hydrateGeneration
    hydrating,   \* the hydration in flight: none, fresh, or recover
    connection,  \* connected, reconnecting or unavailable
    attempts,    \* bound: calls so far
    faults       \* bound: answers and reads lost so far

owner == <<log, receipts>>
decision == <<staging, frozen, locked, attempt>>
view == <<cursor, phase, error>>
session == <<generation, hydrating, connection>>
bounds == <<attempts, faults>>
vars == <<owner, sent, view, decision, calls, ownerRead, session, bounds>>

Commands == 1..MaxCommands
NoAction == [cmd |-> 0, kind |-> "none"]
State(pause, ph, action) == [pause |-> pause, phase |-> ph, action |-> action]
Now == Last(log)
Shown == log[cursor]

Init ==
    /\ log = <<State(1, "waiting", NoAction)>>
    /\ receipts = [c \in Commands |-> "none"]
    /\ sent = <<>>
    /\ cursor = 1 /\ phase = "waiting" /\ error = 0
    /\ staging = <<>> /\ frozen = 0 /\ locked = FALSE /\ attempt = 0
    /\ calls = {} /\ ownerRead = {}
    /\ generation = 1 /\ hydrating = "none" /\ connection = "connected"
    /\ attempts = 0 /\ faults = 0

Fault == faults < MaxFaults /\ faults' = faults + 1

-----------------------------------------------------------------------------
(* The owner *)

\* The owner's state s is appended.
Say(s) == log' = Append(log, s)

OwnerOnly == UNCHANGED <<sent, view, decision, calls, ownerRead, session, bounds>>

\* A command is decided once; a command sent again gets the same receipt.
DecideCommand(c) ==
    /\ c \in DOMAIN sent /\ receipts[c] = "none"
    /\ \/ /\ Now.phase = "waiting" /\ Now.pause = sent[c].pause
          /\ Say(State(Now.pause, "resuming", [cmd |-> c, kind |-> "accepted"]))
          /\ receipts' = [receipts EXCEPT ![c] = "pending"]
       \/ /\ Now.phase \in {"waiting", "resuming"} /\ ~(Now.phase = "waiting" /\ Now.pause = sent[c].pause)
          /\ receipts' = [receipts EXCEPT ![c] = "failed"] /\ UNCHANGED log
       \/ /\ Now.phase \in {"active", "ended"}
          /\ receipts' = [receipts EXCEPT ![c] = "stale"] /\ UNCHANGED log
    /\ OwnerOnly

\* A command of unknown outcome is tried again when it is sent again.
Redispatch ==
    /\ Now.phase = "resuming" /\ Now.action.kind = "unknown" /\ Len(log) < MaxStates
    /\ \E call \in calls : call.cmd = Now.action.cmd /\ call.id = attempts
    /\ Say([Now EXCEPT !.action.kind = "accepted"])
    /\ UNCHANGED receipts /\ OwnerOnly

\* The agent answers an accepted command, or does not.
AgentUnknown ==
    /\ Now.phase = "resuming" /\ Now.action.kind = "accepted"
    /\ Say([Now EXCEPT !.action.kind = "unknown"])
    /\ UNCHANGED receipts /\ OwnerOnly

AgentConsumes ==
    /\ Now.phase = "resuming"
    /\ Say(State(Now.pause, "active", [Now.action EXCEPT !.kind = "native_consumed"]))
    /\ UNCHANGED receipts /\ OwnerOnly

\* The next pause of the run; straight after a resuming one when the decisions were invalid.
AgentPauses ==
    /\ Now.phase \in {"active", "resuming"} /\ Now.pause < MaxPauses
    /\ Say(State(Now.pause + 1, "waiting", NoAction))
    /\ UNCHANGED receipts /\ OwnerOnly

\* The run completes, fails, or is cancelled by this page or another.
RunEnds ==
    /\ Now.phase # "ended"
    /\ Say(State(Now.pause, "ended", NoAction))
    /\ UNCHANGED receipts /\ OwnerOnly

-----------------------------------------------------------------------------
(* The decisions *)

\* staging, frozenResumes, resumeInFlight and resumeAttempts lose the run.
Clear == staging' = <<>> /\ frozen' = 0 /\ locked' = FALSE /\ attempt' = 0

\* sendResumeIntent
SendResumeIntent(c) ==
    /\ attempts < MaxAttempts
    /\ locked' = TRUE /\ error' = 0
    /\ attempts' = attempts + 1 /\ attempt' = attempts + 1
    /\ calls' = calls \cup {[id |-> attempts + 1, cmd |-> c, generation |-> generation]}

\* stageToolDecision: the guards
Decidable(item) ==
    /\ hydrating = "none" /\ connection = "connected" /\ phase = "waiting"
    /\ Shown.phase = "waiting" /\ ~locked

\* staging with one decision more, or another one for an item already decided
Decided(item, choice) ==
    [x \in DOMAIN staging \cup {item} |->
        IF x = item THEN [choice |-> choice, pause |-> Shown.pause] ELSE staging[x]]

\* Mutant: a frozen intent does not stop a decision.
StageDecisionAnew(item, choice) ==
    /\ Decidable(item)
    /\ LET staged == Decided(item, choice) IN
       /\ staging' = staged
       /\ IF DOMAIN staged # Items
          THEN UNCHANGED <<sent, error, frozen, locked, attempt, calls, attempts>>
          ELSE /\ Len(sent) < MaxCommands
               /\ frozen' = Len(sent) + 1
               /\ sent' = Append(sent, [pause |-> Shown.pause, body |-> staged, generation |-> generation])
               /\ SendResumeIntent(frozen')
    /\ UNCHANGED <<owner, cursor, phase, ownerRead, session, faults>>

\* The first decisions, and the last of them, which freezes the intent and sends it.
StageDecision(item, choice) ==
    /\ Decidable(item) /\ frozen = 0
    /\ LET staged == Decided(item, choice) IN
       /\ staging' = staged
       /\ IF DOMAIN staged # Items
          THEN UNCHANGED <<sent, error, frozen, locked, attempt, calls, attempts>>
          ELSE /\ Len(sent) < MaxCommands
               /\ frozen' = Len(sent) + 1
               /\ sent' = Append(sent, [pause |-> Shown.pause, body |-> staged, generation |-> generation])
               /\ SendResumeIntent(frozen')
    /\ UNCHANGED <<owner, cursor, phase, ownerRead, session, faults>>

\* A frozen intent is sent again only by the decision it holds.
StageAgain(item, choice) ==
    /\ Decidable(item) /\ frozen # 0
    /\ item \in DOMAIN staging /\ staging[item].choice = choice
    /\ SendResumeIntent(frozen)
    /\ UNCHANGED <<owner, sent, cursor, phase, staging, frozen, ownerRead, session, faults>>

StageToolDecision ==
    \E item \in Items, choice \in Answers : StageDecision(item, choice) \/ StageAgain(item, choice)

\* retryResume: an outcome the owner does not know, under the same command.
RetryResume ==
    /\ hydrating = "none" /\ connection = "connected" /\ phase = "resuming"
    /\ frozen # 0 /\ ~locked
    /\ Shown.action = [cmd |-> frozen, kind |-> "unknown"] /\ Shown.pause = sent[frozen].pause
    /\ SendResumeIntent(frozen)
    /\ UNCHANGED <<owner, sent, cursor, phase, staging, frozen, ownerRead, session, faults>>

-----------------------------------------------------------------------------
(* The answers of resumeRun *)

\* current(): the answer is of the last attempt of the intent that is still frozen, in the same
\* reading of the conversation, and about the pause that is shown.
Current(call) ==
    /\ call.generation = generation /\ frozen = call.cmd /\ attempt = call.id
    /\ phase \notin {"cancelling", "idle", "error"}
    /\ Shown.pause = sent[call.cmd].pause

Forget(call) == calls' = calls \ {call}

\* hydrate, outside a recovery
HydrateFresh ==
    /\ generation < MaxReads
    /\ generation' = generation + 1 /\ hydrating' = "fresh" /\ ownerRead' = {}

\* An answer that is not current, or that only acknowledges the command, changes nothing.
AnswerIgnored(call) ==
    /\ ~Current(call) \/ receipts[call.cmd] = "pending"
    /\ receipts[call.cmd] # "none"
    /\ UNCHANGED <<view, decision, ownerRead, session>>

\* A failed command releases the lock; the owner is read for what replaced the pause.
AnswerFailed(call) ==
    /\ Current(call) /\ receipts[call.cmd] = "failed"
    /\ locked' = FALSE /\ error' = sent[call.cmd].pause
    /\ ownerRead' = {[call |-> call, at |-> cursor]}
    /\ UNCHANGED <<cursor, phase, staging, frozen, attempt, session>>

\* The run has no such pause any more: everything is dropped and read again.
AnswerStale(call) ==
    /\ Current(call) /\ receipts[call.cmd] = "stale"
    /\ phase' = "idle" /\ error' = 0
    /\ Clear
    /\ HydrateFresh
    /\ UNCHANGED <<cursor, connection>>

Answer ==
    \E call \in calls :
        /\ AnswerIgnored(call) \/ AnswerFailed(call) \/ AnswerStale(call)
        /\ Forget(call)
        /\ UNCHANGED <<owner, sent, bounds>>

\* Mutant: the error of any call is shown.
AnswerLostAny ==
    /\ Fault
    /\ \E call \in calls :
        /\ Forget(call)
        /\ IF phase \notin {"idle", "error"}
           THEN locked' = FALSE /\ error' = sent[call.cmd].pause
           ELSE UNCHANGED <<locked, error>>
    /\ UNCHANGED <<owner, sent, cursor, phase, staging, frozen, attempt, ownerRead, session,
                   attempts>>

\* The outcome is not known: the lock is released, the intent stays frozen.
AnswerLost ==
    /\ Fault
    /\ \E call \in calls :
        /\ Forget(call)
        /\ IF Current(call)
           THEN locked' = FALSE /\ error' = sent[call.cmd].pause
           ELSE UNCHANGED <<locked, error>>
    /\ UNCHANGED <<owner, sent, cursor, phase, staging, frozen, attempt, ownerRead, session,
                   attempts>>

-----------------------------------------------------------------------------
(* The owner's states reach the page *)

\* Mutant: the owner's word is the phase.
PhaseOfVerbatim(s) == IF s.phase = "ended" THEN "idle" ELSE s.phase

\* machine.phase for a state of the owner, when nothing holds it.
PhaseOf(s) == CASE s.phase = "active" -> "streaming"
                [] s.phase = "ended"  -> "idle"
                [] OTHER              -> s.phase

\* Mutant: a new pause keeps what was decided for the last one.
StreamEventKeeps ==
    /\ hydrating = "none" /\ connection = "connected" /\ phase \notin {"idle", "error"}
    /\ cursor < Len(log)
    /\ LET next == log[cursor + 1] IN
       /\ cursor' = cursor + 1
       /\ IF next.phase \in {"active", "ended"}
          THEN Clear
          ELSE /\ locked' = (locked /\ next.action.kind # "unknown")
               /\ UNCHANGED <<staging, frozen, attempt>>
       /\ IF phase = "cancelling" /\ next.phase # "ended"
          THEN UNCHANGED <<phase, error>>
          ELSE phase' = PhaseOf(next) /\ error' = 0
    /\ UNCHANGED <<owner, sent, calls, ownerRead, session, bounds>>

\* Mutant: consumption does not clear the decisions.
StreamEventHeld ==
    /\ hydrating = "none" /\ connection = "connected" /\ phase \notin {"idle", "error"}
    /\ cursor < Len(log)
    /\ LET next == log[cursor + 1] IN
       /\ cursor' = cursor + 1
       /\ IF next.pause # Shown.pause \/ next.phase = "ended"
          THEN Clear
          ELSE /\ locked' = (locked /\ next.action.kind # "unknown")
               /\ UNCHANGED <<staging, frozen, attempt>>
       /\ IF phase = "cancelling" /\ next.phase # "ended"
          THEN UNCHANGED <<phase, error>>
          ELSE phase' = PhaseOf(next) /\ error' = 0
    /\ UNCHANGED <<owner, sent, calls, ownerRead, session, bounds>>

\* handleStreamEvents, interaction.state and the end of the run: decisions live as long as the
\* pause they were made for; an outcome the owner does not know only releases the lock.
StreamEvent ==
    /\ hydrating = "none" /\ connection = "connected" /\ phase \notin {"idle", "error"}
    /\ cursor < Len(log)
    /\ LET next == log[cursor + 1] IN
       /\ cursor' = cursor + 1
       /\ IF next.pause # Shown.pause \/ next.phase \in {"active", "ended"}
          THEN Clear
          ELSE /\ locked' = (locked /\ next.action.kind # "unknown")
               /\ UNCHANGED <<staging, frozen, attempt>>
       /\ IF phase = "cancelling" /\ next.phase # "ended"
          THEN UNCHANGED <<phase, error>>
          ELSE phase' = PhaseOf(next) /\ error' = 0
    /\ UNCHANGED <<owner, sent, calls, ownerRead, session, bounds>>

\* The read after a failed receipt, when the page has not moved: adoptOwnerSnapshot keeps the
\* intent of a pause that is still open, and the failure is shown for as long.
OwnerRead ==
    /\ ownerRead' = {}
    /\ \E r \in ownerRead :
          IF Current(r.call) /\ cursor = r.at
          THEN /\ cursor' = Len(log) /\ phase' = PhaseOf(Now)
               /\ IF Now.pause # Shown.pause \/ Now.phase \in {"active", "ended"}
                  THEN Clear /\ error' = 0
                  ELSE error' = sent[frozen].pause /\ UNCHANGED decision
          ELSE UNCHANGED <<view, decision>>
    /\ UNCHANGED <<owner, sent, calls, session, bounds>>

OwnerReadFails ==
    /\ ownerRead # {} /\ Fault
    /\ ownerRead' = {}
    /\ UNCHANGED <<owner, sent, view, decision, calls, session, attempts>>

\* hydrate: the page shows the owner's present state.  A recovery drops the decisions now, a
\* fresh hydration dropped them when it began.
Hydrated ==
    /\ hydrating # "none"
    /\ hydrating' = "none"
    /\ cursor' = Len(log) /\ phase' = PhaseOf(Now) /\ error' = 0
    /\ IF hydrating = "recover" THEN Clear ELSE UNCHANGED decision
    /\ connection' = IF Now.phase = "ended" THEN "connected" ELSE connection
    /\ UNCHANGED <<owner, sent, calls, ownerRead, generation, bounds>>

HydrateFails ==
    /\ hydrating # "none" /\ Fault
    /\ hydrating' = "none"
    /\ IF hydrating = "recover" THEN connection' = "unavailable" /\ UNCHANGED phase
       ELSE phase' = "error" /\ UNCHANGED connection
    /\ UNCHANGED <<owner, sent, cursor, error, decision, calls, ownerRead, generation, attempts>>

-----------------------------------------------------------------------------
(* The connection and the user's other moves *)

Disconnected ==
    /\ hydrating = "none" /\ connection = "connected" /\ phase # "idle"
    /\ connection' = "reconnecting"
    /\ UNCHANGED <<owner, sent, view, decision, calls, ownerRead, generation, hydrating, bounds>>

Reconnected ==
    /\ hydrating = "none" /\ connection = "reconnecting"
    /\ connection' = "connected"
    /\ UNCHANGED <<owner, sent, view, decision, calls, ownerRead, generation, hydrating, bounds>>

\* The cursor of the stream has expired, or the stream was lost for good and the user reconnects.
Recover ==
    /\ hydrating = "none" /\ connection # "connected" /\ generation < MaxReads
    /\ generation' = generation + 1 /\ hydrating' = "recover" /\ ownerRead' = {}
    /\ connection' = "reconnecting"
    /\ UNCHANGED <<owner, sent, view, decision, calls, bounds>>

\* activateConversation: the user leaves and is back.
ActivateConversation ==
    /\ HydrateFresh
    /\ connection' = "connected" /\ phase' = "idle" /\ error' = 0
    /\ Clear
    /\ UNCHANGED <<owner, sent, cursor, calls, bounds>>

CancelRun ==
    /\ hydrating # "fresh" /\ phase \in {"waiting", "resuming", "streaming"}
    /\ phase' = "cancelling" /\ error' = 0
    /\ UNCHANGED <<owner, sent, cursor, decision, calls, ownerRead, session, bounds>>

-----------------------------------------------------------------------------
Next ==
    \/ \E c \in Commands : DecideCommand(c)
    \/ Redispatch \/ AgentUnknown \/ AgentConsumes \/ AgentPauses \/ RunEnds
    \/ StageToolDecision \/ RetryResume \/ Answer \/ AnswerLost
    \/ StreamEvent \/ OwnerRead \/ OwnerReadFails \/ Hydrated \/ HydrateFails
    \/ Disconnected \/ Reconnected \/ Recover
    \/ ActivateConversation \/ CancelRun

\* Calls are answered, the owner decides and the agent moves, the stream and the reads go on.
Fairness ==
    /\ \A c \in Commands : WF_vars(DecideCommand(c))
    /\ WF_vars(AgentConsumes) /\ WF_vars(Answer) /\ WF_vars(StreamEvent) /\ WF_vars(Hydrated)

Spec == Init /\ [][Next]_vars /\ Fairness

-----------------------------------------------------------------------------
(* Properties *)

Staged == [choice : Answers, pause : 1..MaxPauses]
OwnerState == [pause : 1..MaxPauses, phase : {"waiting", "resuming", "active", "ended"},
               action : [cmd : 0..MaxCommands, kind : {"none", "accepted", "unknown", "native_consumed"}]]
Call == [id : 1..MaxAttempts, cmd : Commands, generation : 1..MaxReads]

\* Every variable has its type: in particular only whole decisions are ever sent.
TypeOK ==
    /\ log \in Seq(OwnerState) /\ receipts \in [Commands -> {"none", "pending", "failed", "stale"}]
    /\ sent \in Seq([pause : 1..MaxPauses, body : [Items -> Staged], generation : 1..MaxReads])
    /\ cursor \in DOMAIN log
    /\ phase \in {"waiting", "resuming", "streaming", "cancelling", "idle", "error"}
    /\ error \in 0..MaxPauses
    /\ DOMAIN staging \subseteq Items /\ \A item \in DOMAIN staging : staging[item] \in Staged
    /\ frozen \in 0..Len(sent) /\ locked \in BOOLEAN /\ attempt \in 0..attempts
    /\ calls \subseteq Call
    /\ ownerRead \subseteq [call : Call, at : DOMAIN log]
    /\ generation \in 1..MaxReads /\ hydrating \in {"none", "fresh", "recover"}
    /\ connection \in {"connected", "reconnecting", "unavailable"}
    /\ attempts \in 0..MaxAttempts /\ faults \in 0..MaxFaults

\* A decision is sent to the pause it was made for: what was staged for one pause, in part or in
\* whole, never travels with a command for the next one, whose items may have the same names.
SentForItsPause ==
    \A c \in DOMAIN sent : \A item \in Items : sent[c].body[item].pause = sent[c].pause

\* Within one reading of the conversation a pause is answered under one command and one body,
\* whatever is lost, refused, retried or said again.
OneCommandPerPause ==
    \A c, d \in DOMAIN sent :
        sent[c].pause = sent[d].pause /\ sent[c].generation = sent[d].generation => c = d

\* The failure shown is about the pause shown, never about the one before it.
ErrorIsCurrent == error # 0 => error = Shown.pause /\ phase # "cancelling"

\* No lock is for ever: on a page that stays connected the owner's word or an answer ends it.
LockIsReleased == locked ~> (~locked \/ connection # "connected" \/ phase = "cancelling")
=============================================================================
