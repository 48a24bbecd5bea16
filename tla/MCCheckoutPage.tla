--------------------------- MODULE MCCheckoutPage ---------------------------
(* Instances of CheckoutPage for TLC. *)
EXTENDS CheckoutPage, TLC

CONSTANTS w1, q1, f1, f2

\* One run looks at several small instances: the references the server has left
\* for the page (the others expired before it was first opened), the flows that
\* may overlap and the e-mail checks in flight.
VARIABLE bound

Bounds == {
  [refs |-> {w1},     flows |-> {f1, f2}, checks |-> 0],
  [refs |-> {w1, q1}, flows |-> {f1},     checks |-> 0],
  [refs |-> {q1},     flows |-> {f1},     checks |-> 1]}

Within ==
  /\ page.checks <= bound.checks
  /\ \A f \in Flows \ bound.flows : flow[f] = Idle
  /\ page.picked \in {"wallet"} \cup {Method(r) : r \in bound.refs}

BoundedInit ==
  /\ bound \in Bounds
  /\ key = [r \in Refs |-> IF r \in bound.refs THEN "unused" ELSE "gone"]
  /\ session = [r \in Refs |-> "none"]
  /\ paid = {} /\ sent = {} /\ landed = {}
  /\ page = Blank /\ stored = None
  /\ flow = [f \in Flows |-> Idle]
  /\ popup = [r \in Refs |-> "none"]
  /\ posted = {} /\ cancels = {}

BoundedSpec ==
  /\ BoundedInit
  /\ [][Next /\ UNCHANGED bound /\ Within']_<<vars, bound>>
  /\ Fairness
=============================================================================
