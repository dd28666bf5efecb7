---- MODULE MCApprovals ----
(* The human in the loop on a small instance. *)
EXTENDS Approvals
====
