------------------------- MODULE MCChatSubmission -------------------------
(* ChatSubmission on small instances: conversations and keys are interchangeable. *)
EXTENDS ChatSubmission, TLC

Symmetry == Permutations(Convs) \cup Permutations(Keys)

SymmetryOfKeys == Permutations(Keys)

=============================================================================
