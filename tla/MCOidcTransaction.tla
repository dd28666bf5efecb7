------------------------- MODULE MCOidcTransaction -------------------------
(* OidcTransaction on small instances: logins, starts and callbacks are interchangeable. *)
EXTENDS OidcTransaction, TLC

Symmetry == Permutations(Logins) \cup Permutations(Starts) \cup Permutations(Callbacks)
=============================================================================
