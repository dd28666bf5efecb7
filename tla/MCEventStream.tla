---- MODULE MCEventStream ----
(* EventStream on small instances: the bounds are in the configurations. *)
EXTENDS EventStream
====
