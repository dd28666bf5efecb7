--------------------------- MODULE SubmissionSlot ---------------------------
(***************************************************************************)
(* One conversation's record in sessionStorage, as written by              *)
(* src/ui/shell/browser-submission-recovery.ts: the pending intent, or the *)
(* fact that an intent was acknowledged or abandoned.  The frozen request  *)
(* is named by its key.  "works" says whether the browser's storage obeys  *)
(* (no exception, no retired subject, and the write reads back).           *)
(***************************************************************************)
EXTENDS MachineState

Slot == [state : {"none", "pending", "acknowledged", "abandoned"}, key : Keys \cup {NoKey},
         code : {"none", "unknown", "failed"}]

EmptySlot == [state |-> "none", key |-> NoKey, code |-> "none"]

Matches(s, k) == s.state = "pending" /\ s.key = k

Closed(s, k) == s.state \in {"acknowledged", "abandoned"} /\ s.key = k

CanSave(s, k, works) ==
    /\ works
    /\ s.state = "pending" => s.key = k
    /\ ~Closed(s, k)

Saved(s, k) == IF Matches(s, k) THEN s ELSE [state |-> "pending", key |-> k, code |-> "none"]

Failed(s, k, code) == IF Matches(s, k) THEN [s EXCEPT !.code = code] ELSE s

\* Mutant: a late receipt takes the slot whatever it holds.
AcknowledgedOver(s, k) == [state |-> "acknowledged", key |-> k, code |-> "none"]

\* Mutant: the record of an acknowledged intent is removed.
AcknowledgedRemoves(s, k) == IF Matches(s, k) THEN EmptySlot ELSE s

\* acknowledge: an intent already closed, and a successor's intent, are left alone.
Acknowledged(s, k) ==
    IF s.state = "none" \/ Matches(s, k)
    THEN [state |-> "acknowledged", key |-> k, code |-> "none"]
    ELSE s

CanAbandon(s, k, works) ==
    /\ works
    /\ s.state = "none" \/ Matches(s, k) \/ Closed(s, k)

\* Mutant: only an open record with a refusal in it is retired.
AbandonedIfFailed(s, k) ==
    IF Closed(s, k) \/ s.code = "none" THEN s ELSE [state |-> "abandoned", key |-> k, code |-> "none"]

Abandoned(s, k) ==
    IF Closed(s, k) THEN s ELSE [state |-> "abandoned", key |-> k, code |-> "none"]

=============================================================================
