------------------------------- MODULE EmailRule -------------------------------
(***************************************************************************)
(* The rule of one paid checkout per e-mail and event.  finalizePaidCheckout *)
(* asks with one query and writes with a later statement, under no lock: *)
(* two requests can both find the address free.  These are the sessions,   *)
(* with a history variable that tells this race from every other way to    *)
(* break the rule.                                                         *)
(***************************************************************************)
EXTENDS PaymentSessions

VARIABLE
  overtaken   \* for each reference, the ones that became paid since a request that
              \* is still to write its checkout has asked whether the e-mail is free

evars == <<svars, overtaken>>

\* Some request of either interface has asked about r and is still to write it.
Deciding(r) ==
  \/ \E p \in Procs : proc[p].ref = r /\ proc[p].pc \in {"put_invoice", "put_checkout"}
  \/ \E q \in Reqs : req[q].ref = r /\ req[q].pc \in {"put_invoice", "put_checkout"}

\* The references this step makes paid.
BecomesPaid == {r \in Refs : ~Paid(r) /\ Paid(r)'}

EInit == SInit /\ overtaken = [r \in Refs |-> {}]

\* What becomes paid while somebody decides about r overtakes it.
Overtakes ==
  overtaken' = [r \in Refs |-> IF Deciding(r)' THEN overtaken[r] \cup BecomesPaid ELSE {}]

ESpec == EInit /\ [][SNext /\ Overtakes]_evars

-----------------------------------------------------------------------------
\* Two checkouts of one address and one event, of which o's is found by the query:
\* it compares the trimmed new address with the stored one, blanks included.
Rivals(r, o) ==
  /\ o # r /\ quote[o].event = quote[r].event
  /\ {quote[r].email, quote[o].email} \subseteq Emails /\ quote[o].email \notin Padded
  /\ Address[quote[o].email] = Address[quote[r].email]

\* "Bound rule: 1 email = 1 paid transaction per event" is broken by a request only
\* in a race: when it writes the second paid checkout of an address, the first was
\* written after this one's own query for it, whatever requests of both interfaces
\* did before, with which references, and whatever failed or crashed.  Open: a rival
\* stored with blanks, which the query does not find (Rivals), and manual-verify and
\* the reconciler, which do not ask.
OnlyRacesRepeat == [][\A r \in BecomesPaid :
  UNCHANGED sweep /\ quote[r].how # "manual"
    => \A o \in Refs : Paid(o) /\ Rivals(r, o) => o \in overtaken[r]]_evars
=============================================================================
