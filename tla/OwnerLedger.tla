---------------------------- MODULE OwnerLedger ----------------------------
(***************************************************************************)
(* What the service behind the BFF (external) tells a browser about a      *)
(* conversation, as src/engine reads it: an append-only ledger of run      *)
(* events, and a snapshot, which is the reading of a prefix of the ledger. *)
(* The length of the prefix stands for the opaque cursor.                  *)
(***************************************************************************)
EXTENDS MachineState

Happened(ledger, kind) == {ledger[i].run : i \in {j \in DOMAIN ledger : ledger[j].kind = kind}}

Queued(ledger) == Happened(ledger, "queued")

\* The runs whose assistant message is completed or failed.
Terminals(ledger) == Happened(ledger, "completed")

Unfinished(ledger) == Queued(ledger) \ Terminals(ledger)

Place(ledger, k) == CHOOSE i \in DOMAIN ledger : ledger[i] = [kind |-> "queued", run |-> k]

\* execution_head: the first admitted run that has not ended.
ExecutionHead(ledger) ==
    IF Unfinished(ledger) = {} THEN NoKey
    ELSE CHOOSE k \in Unfinished(ledger) :
            \A other \in Unfinished(ledger) : Place(ledger, k) <= Place(ledger, other)

HeadState(ledger) == IF ExecutionHead(ledger) \in Happened(ledger, "created") THEN "active" ELSE "queued"

Prefix(ledger, n) == SubSeq(ledger, 1, n)

=============================================================================
