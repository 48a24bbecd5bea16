----------------------------- MODULE MCSessions -----------------------------
(* Instances of PaymentSessions for TLC. *)
EXTENDS PaymentSessions, MCStore

\* The requests of an interface are interchangeable, and so are the keys.
SessionSymmetry == Permutations(Procs) \cup Permutations(Reqs) \cup Permutations(Keys)

Running == {p \in Procs : ~At(p, "idle")} \cup {q \in Reqs : ~VAt(q, "idle")}

\* The run sessions looks at two instances.  In the first, requests run at once on
\* one reference and nobody gives an address; in the second, one request at a time
\* has two references and one address.
OneReference ==
  /\ quote[r2] = None /\ Cardinality(attempts) <= 1
  /\ \A p \in Procs : proc[p].ref # r2
  /\ \A q \in Reqs : req[q].ref # r2 /\ req[q].sig # s3
  /\ \A q \in Reqs : req[q].inv # None => req[q].inv.email = None
  /\ quote[r1] # None => quote[r1].email = None

OneAtATime ==
  /\ Cardinality(Running) <= 1 /\ attempts = {} /\ s2 \notin landed
  /\ \A p \in Procs : At(p, "idle") \/ proc[p].op = "detect"
  /\ \A q \in Reqs : req[q].op # "cancel" /\ req[q].sig # s2
  /\ \A q \in Reqs : req[q].inv # None => req[q].inv.email # None
  /\ \A r \in Refs : quote[r] # None => quote[r].email # None

EitherInstance == OneReference \/ OneAtATime

\* The run session_rules looks at two instances.  In the first, v1 creates and cancels
\* run at once and share keys and references; in the second, two requests at a time,
\* of either interface, pay for checkouts of one address.
KeysShared ==
  /\ landed = {} /\ \A p \in Procs : At(p, "idle")
  /\ \A q \in Reqs : req[q].op # "none" => req[q].op \in {"create", "cancel"}
  /\ \A q \in Reqs : req[q].inv # None => req[q].inv.email = None
  /\ \A r \in Refs : quote[r] # None => quote[r].email = None

AddressShared ==
  /\ Cardinality(Running) <= 2 /\ attempts = {}
  /\ \A q \in Reqs : req[q].inv # None => req[q].inv.email # None
  /\ \A r \in Refs : quote[r] # None => quote[r].email # None
  /\ \A q \in Reqs : req[q].op # "cancel" /\ req[q].key = None
  /\ \A r \in Refs : session[r].state # "cancelled" /\ session[r].key = None

EitherRule == KeysShared \/ AddressShared
=============================================================================
