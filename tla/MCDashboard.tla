---------------------------- MODULE MCDashboard ----------------------------
(* Instances of Dashboard for TLC. *)
EXTENDS Dashboard, TLC
CONSTANTS e1, e2

\* One run looks at several small instances: the events there are at the start, the
\* functions that may be under way, and whether the host may sign out, import or be paid.
VARIABLE bound

Bounds == {
  [start |-> {e1},     jobs |-> {"sign-in", "create", "refresh"}, more |-> {"import"}],
  [start |-> {e1},     jobs |-> {"sign-in", "create", "delete"},  more |-> {}],
  [start |-> {e1},     jobs |-> {"sign-in", "update", "delete"},  more |-> {"pay"}],
  [start |-> {e1, e2}, jobs |-> {"sign-in", "delete"},            more |-> {}],
  [start |-> {e1},     jobs |-> {"sign-in", "create"},            more |-> {"sign out"}],
  [start |-> {e1},     jobs |-> {"sign-in"},                      more |-> {"sign out", "register"}]}

Within ==
  /\ \A j \in Jobs \ bound.jobs : ~Busy(j)
  /\ "sign out" \in bound.more \/ page.user # "out"
  /\ "register" \in bound.more \/ (page.auth = "login" /\ signing \subseteq {"login"})
  /\ Cardinality(filling) <= IF "import" \in bound.more THEN 1 ELSE 0
  /\ "pay" \in bound.more \/ paid = {}

BoundedInit == Init /\ bound \in Bounds /\ Live = bound.start

BoundedSpec ==
  /\ BoundedInit
  /\ [][Next /\ UNCHANGED bound /\ Within']_<<vars, bound>>
  /\ Fairness
=============================================================================
