----------------------------- MODULE MCCheckout -----------------------------
(* Instances of Checkout for TLC. *)
EXTENDS Checkout, MCStore

\* Requests are interchangeable.  Used by runs without liveness only.
ProcSymmetry == Permutations(Procs)
=============================================================================
