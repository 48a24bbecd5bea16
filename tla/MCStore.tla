------------------------------- MODULE MCStore -------------------------------
(* Values for the constants of PaymentStore that a .cfg cannot write down. *)
EXTENDS PaymentStore, TLC

CONSTANTS e1, r1, r2, s1, s2, s3, a1, merchant, alice, m1, m2

MCTerms == [amount |-> a1, merchant |-> merchant]
MCPrice == e1 :> MCTerms

\* Two ways to type one address.
MCAddress == [m \in Emails |-> m1]

\* No transactions.
NoTx == << >>

\* s1 pays r1.
OnceTx == s1 :> [memo |-> {r1}, terms |-> MCTerms, payer |-> alice]

\* s1 pays r1, s2 pays r2.
EachTx ==
  s1 :> [memo |-> {r1}, terms |-> MCTerms, payer |-> alice] @@
  s2 :> [memo |-> {r2}, terms |-> MCTerms, payer |-> alice]

\* s1 and s2 both pay r1 (a second attempt of the same checkout), s3 names no reference
\* (for manual-verify).
ThriceTx ==
  s1 :> [memo |-> {r1}, terms |-> MCTerms, payer |-> alice] @@
  s2 :> [memo |-> {r1}, terms |-> MCTerms, payer |-> alice] @@
  s3 :> [memo |-> {}, terms |-> MCTerms, payer |-> alice]

\* s1 pays r1, s2 is a transfer of the same terms that names no reference, s3 pays r2.
DirectTx ==
  s1 :> [memo |-> {r1}, terms |-> MCTerms, payer |-> alice] @@
  s2 :> [memo |-> {}, terms |-> MCTerms, payer |-> alice] @@
  s3 :> [memo |-> {r2}, terms |-> MCTerms, payer |-> alice]
=============================================================================
