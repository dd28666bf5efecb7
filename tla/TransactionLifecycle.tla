------------------------ MODULE TransactionLifecycle ------------------------
(***************************************************************************)
(* What the RP promises of a sign-in transaction, with no browser and no   *)
(* network: it is opened at most once, it ends by being taken or by        *)
(* lapsing, only a taken one is exchanged at the issuer, at most once, and *)
(* only an exchanged one becomes a Product Session.                        *)
(***************************************************************************)
EXTENDS Naturals

CONSTANT Starts

VARIABLES
    phase,      \* phase[s]: where the record of transaction s is in its life
    exchanges,  \* exchanges[s]: how often its code was posted to the issuer
    sessions    \* transactions whose Product Session was created

vars == <<phase, exchanges, sessions>>

Init ==
    /\ phase = [s \in Starts |-> "unissued"]
    /\ exchanges = [s \in Starts |-> 0]
    /\ sessions = {}

Move(s, from, to) ==
    /\ phase[s] = from
    /\ phase' = [phase EXCEPT ![s] = to]
    /\ UNCHANGED <<exchanges, sessions>>

Open(s) == Move(s, "unissued", "open")
Take(s) == Move(s, "open", "taken")
Lapse(s) == Move(s, "open", "lapsed")

Exchange(s) ==
    /\ phase[s] = "taken"
    /\ exchanges[s] = 0
    /\ exchanges' = [exchanges EXCEPT ![s] = 1]
    /\ UNCHANGED <<phase, sessions>>

Establish(s) ==
    /\ exchanges[s] = 1
    /\ s \notin sessions
    /\ sessions' = sessions \cup {s}
    /\ UNCHANGED <<phase, exchanges>>

Next == \E s \in Starts : Open(s) \/ Take(s) \/ Lapse(s) \/ Exchange(s) \/ Establish(s)

Spec == Init /\ [][Next]_vars

=============================================================================
