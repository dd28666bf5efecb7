--------------------------- MODULE IntentLifecycle ---------------------------
(***************************************************************************)
(* What the submission records promise: a conversation holds at most one   *)
(* open intent; an intent leaves its record only by being closed (its      *)
(* receipt was written down, or the user gave it up), and a closed intent  *)
(* is never opened again, so its message is not sent a second time.        *)
(***************************************************************************)
CONSTANTS Conversations, Intents, Nothing

VARIABLES
    open,    \* open[c]: the intent conversation c holds, or Nothing
    closed   \* the intents that were closed

Init ==
    /\ open = [c \in Conversations |-> Nothing]
    /\ closed = {}

Occupied == {c \in Conversations : open[c] # Nothing}

Without(S) == [c \in Conversations |-> IF c \in S THEN Nothing ELSE open[c]]

Close(S) ==
    /\ open' = Without(S)
    /\ closed' = closed \cup {open[c] : c \in S}

\* A new intent is opened in the step that writes down the receipts the tab still had in memory.
Open(S, c, k) ==
    /\ c \in S \/ open[c] = Nothing
    /\ k \notin closed
    /\ \A other \in Conversations : open[other] # k
    /\ open' = [Without(S) EXCEPT ![c] = k]
    /\ closed' = closed \cup {open[d] : d \in S}

Next == \E S \in SUBSET Occupied :
            Close(S) \/ \E c \in Conversations, k \in Intents : Open(S, c, k)

Spec == Init /\ [][Next]_<<open, closed>>

=============================================================================
