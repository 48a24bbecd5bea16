----------------------------- MODULE MCEmailRule -----------------------------
(* Instances of EmailRule for TLC. *)
EXTENDS EmailRule, MCSessions
=============================================================================
