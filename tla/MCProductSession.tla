-------------------------- MODULE MCProductSession --------------------------
(* Small instances of ProductSession and its inductive invariant for TLC. *)
EXTENDS ProductSessionInductive, TLC

Symmetry == Permutations(Requests) \cup Permutations(Sessions)
=============================================================================
