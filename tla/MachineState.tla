---------------------------- MODULE MachineState ----------------------------
(***************************************************************************)
(* The run state machine of src/engine/machine-state.ts: one state and one *)
(* operator per event of "transition", and the fold of a stream batch in   *)
(* src/engine/event-reducer.ts.  A run is named by the idempotency key of  *)
(* the message that admitted it.  The pause phases (waiting, resuming) and *)
(* the events that lead to them are left out.                              *)
(***************************************************************************)
EXTENDS Integers, Sequences

CONSTANT Keys   \* idempotency keys; also the runs they admit

NoKey == "none"

ASSUME KeysAssumption == NoKey \notin Keys

Phases == {"idle", "submitting", "queued", "streaming", "cancelling", "error"}

\* "unknown" is submission_outcome_unknown, "local" is local_recovery_unavailable,
\* "failed" is every other text.
Errors == {"none", "unknown", "failed", "local"}

Machine == [phase : Phases, run : Keys \cup {NoKey}, error : Errors]

Running(phase, k) == [phase |-> phase, run |-> k, error |-> "none"]

IdleMachine == Running("idle", NoKey)

Resting(m) == m.phase \in {"idle", "error"}

SUBMIT(m) == IF Resting(m) THEN Running("submitting", NoKey) ELSE m

RECEIPT(m, k) == IF m.phase = "submitting" THEN Running("queued", k) ELSE m

REATTACH(m, k, state) ==
    IF Resting(m) THEN Running(IF state = "active" THEN "streaming" ELSE state, k) ELSE m

CANCEL(m) == IF m.run # NoKey THEN [m EXCEPT !.phase = "cancelling"] ELSE m

FAIL(error) == [phase |-> "error", run |-> NoKey, error |-> error]

-----------------------------------------------------------------------------
(* STREAM_EVENT.  An event of another run is heard only when it admits a   *)
(* run and the machine rests.                                              *)

Event == [kind : {"queued", "created", "completed"}, run : Keys]

Heard(m, ev) == ev.run = m.run \/ (ev.kind # "completed" /\ Resting(m))

STREAM_EVENT(m, ev) ==
    CASE Heard(m, ev) /\ ev.kind = "completed"                                  -> IdleMachine
      [] Heard(m, ev) /\ ev.kind = "created" /\ m.phase \in {"queued", "idle"}  -> Running("streaming", ev.run)
      [] Heard(m, ev) /\ ev.kind = "queued" /\ m.phase \in {"queued", "idle"}   -> Running("queued", ev.run)
      [] OTHER                                                                  -> m

\* One event of the fold: the machine after it, and the last run that went to rest so far.
ReduceEvent(r, ev) ==
    LET next == STREAM_EVENT(r.machine, ev) IN
    [machine |-> next,
     settled |-> IF r.machine.phase # "idle" /\ next.phase = "idle" THEN ev.run ELSE r.settled]

\* reduceProjectionEvents: the machine after the batch, and the last run that went to rest in it.
Reduce(m, batch) ==
    LET start == [machine |-> m, settled |-> NoKey]
        after[n \in 0 .. Len(batch)] ==
            IF n = 0 THEN start ELSE ReduceEvent(after[n - 1], batch[n])
    IN after[Len(batch)]

=============================================================================
