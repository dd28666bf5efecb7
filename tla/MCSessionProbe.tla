--------------------------- MODULE MCSessionProbe ---------------------------
(* SessionProbe on small instances: accounts and hooks are interchangeable. *)
EXTENDS SessionProbe, TLC

Symmetry == Permutations(Subjects) \cup Permutations(Hooks)
=============================================================================
