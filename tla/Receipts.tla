------------------------------ MODULE Receipts ------------------------------
(***************************************************************************)
(* What the checkout promises its users, without the handlers: a reference *)
(* is quoted once, a receipt is issued for it only against a confirmed     *)
(* transfer that pays the quote, and a receipt is never taken back.        *)
(***************************************************************************)
CONSTANTS Refs, Sigs, Quotes, None,
          Pays(_, _, _)     \* Pays(s, r, q): transaction s pays reference r on quote q

VARIABLES
  landed,     \* confirmed transactions
  quote,      \* the quote of each reference, or None
  receipt     \* the signature of the transfer each receipt shows, or None

rvars == <<landed, quote, receipt>>

\* The chain confirms a transaction.
Confirm(s) ==
  /\ landed' = landed \cup {s}
  /\ UNCHANGED <<quote, receipt>>

\* A reference is handed out; its quote is final.
Quote(r, q) ==
  /\ quote[r] = None
  /\ quote' = [quote EXCEPT ![r] = q]
  /\ UNCHANGED <<landed, receipt>>

\* A receipt is issued, or reissued for another transfer that pays as well.
Settle(r, s) ==
  /\ quote[r] # None
  /\ s \in landed /\ Pays(s, r, quote[r])
  /\ receipt' = [receipt EXCEPT ![r] = s]
  /\ UNCHANGED <<landed, quote>>

RInit ==
  /\ landed = {}
  /\ quote \in [Refs -> Quotes \cup {None}]
  /\ receipt = [r \in Refs |-> None]

RNext ==
  \/ \E s \in Sigs : Confirm(s)
  \/ \E r \in Refs, q \in Quotes : Quote(r, q)
  \/ \E r \in Refs, s \in Sigs : Settle(r, s)

RSpec == RInit /\ [][RNext]_rvars
=============================================================================
