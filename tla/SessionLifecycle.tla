-------------------------- MODULE SessionLifecycle --------------------------
(***************************************************************************)
(* What the Product Session store promises, with no requests, no network   *)
(* and no clock: a session is created at most once, its generation moves   *)
(* by one and only out of a reservation, a reservation is taken only from  *)
(* the active state, and an ended session never comes back.                *)
(***************************************************************************)
EXTENDS Naturals

CONSTANT Sessions

VARIABLES
    phase,      \* phase[s]: where session s is in its life
    generation  \* generation[s]: the committed generation while s lives, else 0

vars == <<phase, generation>>

Init ==
    /\ phase = [s \in Sessions |-> "unborn"]
    /\ generation = [s \in Sessions |-> 0]

Move(s, from, to, g) ==
    /\ phase[s] \in from
    /\ phase' = [phase EXCEPT ![s] = to]
    /\ generation' = [generation EXCEPT ![s] = g]

Create(s) == Move(s, {"unborn"}, "active", 0)
Reserve(s) == Move(s, {"active"}, "refreshing", generation[s])
Commit(s) == Move(s, {"refreshing"}, "active", generation[s] + 1)
End(s) == Move(s, {"unborn", "active", "refreshing"}, "ended", 0)

Next == \E s \in Sessions : Create(s) \/ Reserve(s) \/ Commit(s) \/ End(s)

Spec == Init /\ [][Next]_vars

=============================================================================
