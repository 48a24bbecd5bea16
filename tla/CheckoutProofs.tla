---------------------------- MODULE CheckoutProofs ----------------------------
(***************************************************************************)
(* What Checkout guarantees for any number of requests, references,        *)
(* events, participants and transactions.                                  *)
(***************************************************************************)
EXTENDS Checkout, TLAPS

USE StoreAssumption DEF storeVars

\* Past its first lookups a request knows its reference.
RefKnown == \A p \in Procs :
  proc[p].pc \notin {"idle", "create_hset", "manual_verify"} => proc[p].ref \in Refs

-----------------------------------------------------------------------------
(* Types. *)

LEMMA InitType == Init => TypeOK
<1>1. NoRow \in InvoiceSet /\ NoRow \in CheckoutSet
  BY DEF NoRow, InvoiceSet, CheckoutSet
<1>2. [status |-> "pending", sig |-> None] \in InvoiceSet
  BY DEF InvoiceSet
<1>3. LegacyRows \subseteq CheckoutSet
  BY DEF LegacyRows, CheckoutSet
<1>4. LegacyQuotes \subseteq QuoteSet
  BY DEF LegacyQuotes, QuoteSet
<1>5. Idle \in ProcSet
  BY DEF Idle, ProcSet
<1>6. \A e \in Events : [exists |-> TRUE, open |-> TRUE, terms |-> Price[e]] \in EventSet
  BY DEF EventSet
<1> QED
  BY <1>1, <1>2, <1>3, <1>4, <1>5, <1>6 DEF Init, StoreInit, TypeOK, StoreTypeOK

\* Each step keeps the types; what a request may do to its own record and to
\* the two tables is listed once.
LEMMA ProcType ==
  ASSUME TypeOK, NEW p \in Procs
  PROVE  /\ Return(p) => proc' \in [Procs -> ProcSet]
         /\ \A pc \in {"cancel_redis", "put_invoice", "put_checkout", "finish",
                       "manual_checkout"} : Goto(p, pc) => proc' \in [Procs -> ProcSet]
<1>1. Idle \in ProcSet
  BY DEF Idle, ProcSet
<1> QED
  BY <1>1 DEF TypeOK, Return, Goto, ProcSet

LEMMA BeginType ==
  ASSUME TypeOK, NEW p \in Procs, NEW op, NEW pc, NEW r \in Refs \cup {None},
         NEW s \in Sigs \cup {None}, NEW inv \in QuoteSet \cup {None},
         <<op, pc>> \in {<<"create", "create_hset">>, <<"cancel", "cancel_invoice">>,
                         <<"confirm", "verify">>, <<"recheck", "verify">>,
                         <<"detect", "verify">>, <<"manual", "manual_verify">>},
         Begin(p, op, pc, r, s, inv)
  PROVE  proc' \in [Procs -> ProcSet]
<1>1. [pc |-> pc, op |-> op, ref |-> r, sig |-> s, inv |-> inv] \in ProcSet
  BY DEF ProcSet
<1> QED
  BY <1>1 DEF TypeOK, Begin

LEMMA PutType ==
  ASSUME TypeOK, NEW r, NEW s \in Sigs \cup {None}
  PROVE  /\ \A status \in {"paid", "error"} : PutInvoice(r, status, s) => invoice' \in [Refs -> InvoiceSet]
         /\ PutCheckoutPaid(r, s) => checkout' \in [Refs -> CheckoutSet]
         /\ DelRedis(r) => redis' \in [Refs -> {"absent", "expiring", "persistent"}]
<1>1. \A status \in {"paid", "error"} : [status |-> status, sig |-> s] \in InvoiceSet
  BY DEF InvoiceSet
<1>2. [status |-> "paid", sig |-> s] \in CheckoutSet
  BY DEF CheckoutSet
<1>3. ASSUME NEW status \in {"paid", "error"}, PutInvoice(r, status, s)
      PROVE  invoice' \in [Refs -> InvoiceSet]
  <2> DEFINE row == [status |-> status, sig |-> s]
  <2>1. row \in InvoiceSet
    BY <1>1
  <2>2. invoice' = [invoice EXCEPT ![r] = row]
    BY <1>3 DEF PutInvoice
  <2> HIDE DEF row
  <2> QED
    BY <2>1, <2>2 DEF TypeOK, StoreTypeOK
<1>4. ASSUME PutCheckoutPaid(r, s)
      PROVE  checkout' \in [Refs -> CheckoutSet]
  <2> DEFINE row == [status |-> "paid", sig |-> s]
  <2>1. row \in CheckoutSet
    BY <1>2
  <2>2. checkout' = [checkout EXCEPT ![r] = row]
    BY <1>4 DEF PutCheckoutPaid
  <2> HIDE DEF row
  <2> QED
    BY <2>1, <2>2 DEF TypeOK, StoreTypeOK
<1>5. DelRedis(r) => redis' \in [Refs -> {"absent", "expiring", "persistent"}]
  BY DEF TypeOK, StoreTypeOK, DelRedis
<1> QED
  BY <1>3, <1>4, <1>5

LEMMA NextType == TypeOK /\ RefKnown /\ [Next]_vars => TypeOK'
<1> SUFFICES ASSUME TypeOK, RefKnown, [Next]_vars PROVE TypeOK'
  OBVIOUS
<1> USE DEF TypeOK, StoreTypeOK
<1>1. ASSUME NEW p \in Procs, CreateStart(p) PROVE TypeOK'
  <2>1. PICK e \in Events, m \in Emails \cup {None} :
          Begin(p, "create", "create_hset", None, None,
                [how |-> "invoice", event |-> e, terms |-> event[e].terms, email |-> m, payer |-> None])
    BY <1>1 DEF CreateStart
  <2>2. event[e].terms \in TermSet
    BY DEF EventSet
  <2>3. [how |-> "invoice", event |-> e, terms |-> event[e].terms, email |-> m, payer |-> None] \in QuoteSet
    BY <2>2 DEF QuoteSet
  <2>4. proc' \in [Procs -> ProcSet]
    BY <2>1, <2>3, BeginType
  <2> QED
    BY <1>1, <2>4 DEF CreateStart
<1>2. ASSUME NEW p \in Procs, CreateHSet(p) PROVE TypeOK'
  <2>1. PICK r \in Refs : At(p, "create_hset") /\ PutRedis(r, proc[p].inv)
                          /\ proc' = [proc EXCEPT ![p].pc = "create_expire", ![p].ref = r]
    BY <1>2 DEF CreateHSet
  <2>2. proc[p] \in ProcSet /\ proc[p].inv \in QuoteSet \cup {None}
    BY DEF ProcSet
  <2>3. [proc[p] EXCEPT !.pc = "create_expire", !.ref = r] \in ProcSet
    BY <2>2 DEF ProcSet
  <2>4. proc' \in [Procs -> ProcSet]
    BY <2>1, <2>3
  <2> QED
    BY <1>2, <2>1, <2>2, <2>4 DEF CreateHSet, PutRedis
<1>3. ASSUME NEW p \in Procs, CreateExpire(p) PROVE TypeOK'
  BY <1>3, ProcType DEF CreateExpire, SetTTL
<1>4. ASSUME NEW p \in Procs, CancelStart(p) PROVE TypeOK'
  <2>1. proc' \in [Procs -> ProcSet]
    BY <1>4, BeginType DEF CancelStart
  <2>2. NoRow \in CheckoutSet
    BY DEF NoRow, CheckoutSet
  <2> QED
    BY <1>4, <2>1, <2>2 DEF CancelStart
<1>5. ASSUME NEW p \in Procs, CancelInvoice(p) PROVE TypeOK'
  BY <1>5, ProcType DEF CancelInvoice, NoRow, InvoiceSet
<1>6. ASSUME NEW p \in Procs, CancelRedis(p) PROVE TypeOK'
  BY <1>6, ProcType, PutType DEF CancelRedis, DelRedis
<1>7. ASSUME NEW p \in Procs, ConfirmStart(p) \/ RecheckStart(p) PROVE TypeOK'
  <2>1. proc' \in [Procs -> ProcSet]
    BY <1>7, BeginType DEF ConfirmStart, RecheckStart
  <2> QED
    BY <1>7, <2>1 DEF ConfirmStart, RecheckStart
<1>8. ASSUME NEW p \in Procs, NEW r \in Refs, DetectStart(p, r) PROVE TypeOK'
  <2>1. proc' \in [Procs -> ProcSet]
    BY <1>8, BeginType DEF DetectStart
  <2> QED
    BY <1>8, <2>1 DEF DetectStart
<1>9. ASSUME NEW p \in Procs, VerifyOk(p) PROVE TypeOK'
  <2>1. PICK s \in Sigs : proc' = [proc EXCEPT ![p].pc = "email", ![p].sig = s]
    BY <1>9 DEF VerifyOk
  <2>2. proc[p] \in ProcSet
    OBVIOUS
  <2>3. [proc[p] EXCEPT !.pc = "email", !.sig = s] \in ProcSet
    BY <2>2 DEF ProcSet
  <2> QED
    BY <1>9, <2>1, <2>3 DEF VerifyOk
<1>10. ASSUME NEW p \in Procs, VerifyFail(p) PROVE TypeOK'
  BY <1>10, ProcType, PutType DEF VerifyFail, ProcSet
<1>11. ASSUME NEW p \in Procs, EmailChecked(p) \/ Fail(p) PROVE TypeOK'
  BY <1>11, ProcType DEF EmailChecked, Fail
<1>12. ASSUME NEW p \in Procs, WriteInvoice(p) PROVE TypeOK'
  BY <1>12, ProcType, PutType DEF WriteInvoice, ProcSet
<1>13. ASSUME NEW p \in Procs, WriteCheckout(p) PROVE TypeOK'
  BY <1>13, ProcType, PutType DEF WriteCheckout, ProcSet
<1>14. ASSUME NEW p \in Procs, Finish(p) PROVE TypeOK'
  <2>1. proc[p].ref \in Refs
    BY <1>14 DEF Finish, At, RefKnown
  <2>2. told' \subseteq Refs
    BY <1>14, <2>1 DEF Finish
  <2> QED
    BY <1>14, <2>2, ProcType, PutType DEF Finish, ProcSet
<1>15. ASSUME NEW p \in Procs, ManualStart(p) PROVE TypeOK'
  <2>1. PICK e \in Events, s \in Sigs, w \in Wallets, m \in Emails \cup {None} :
          Begin(p, "manual", "manual_verify", None, s,
                [how |-> "manual", event |-> e, terms |-> event[e].terms, email |-> m, payer |-> w])
    BY <1>15 DEF ManualStart
  <2>2. event[e].terms \in TermSet
    BY DEF EventSet
  <2>3. [how |-> "manual", event |-> e, terms |-> event[e].terms, email |-> m, payer |-> w] \in QuoteSet
    BY <2>2 DEF QuoteSet
  <2>4. proc' \in [Procs -> ProcSet]
    BY <2>1, <2>3, BeginType
  <2> QED
    BY <1>15, <2>4 DEF ManualStart
<1>16. ASSUME NEW p \in Procs, ManualVerified(p) PROVE TypeOK'
  <2>1. PICK r \in Refs : quote' = [quote EXCEPT ![r] = proc[p].inv]
                          /\ proc' = [proc EXCEPT ![p].pc = "manual_invoice", ![p].ref = r]
    BY <1>16 DEF ManualVerified
  <2>2. proc[p] \in ProcSet /\ proc[p].inv \in QuoteSet \cup {None}
    BY DEF ProcSet
  <2>3. [proc[p] EXCEPT !.pc = "manual_invoice", !.ref = r] \in ProcSet
    BY <2>2 DEF ProcSet
  <2> QED
    BY <1>16, <2>1, <2>2, <2>3 DEF ManualVerified
<1>17. ASSUME NEW p \in Procs, ManualInvoice(p) PROVE TypeOK'
  BY <1>17, ProcType, PutType DEF ManualInvoice, ProcSet
<1>18. ASSUME NEW p \in Procs, ManualCheckout(p) PROVE TypeOK'
  <2>1. proc[p].ref \in Refs
    BY <1>18 DEF ManualCheckout, At, RefKnown
  <2>2. told' \subseteq Refs
    BY <1>18, <2>1 DEF ManualCheckout
  <2> QED
    BY <1>18, <2>2, ProcType, PutType DEF ManualCheckout, ProcSet
<1>19. ASSUME NEW r \in Refs, ReportPaid(r) PROVE TypeOK'
  BY <1>19 DEF ReportPaid
<1>20. CASE SweepStart
  BY <1>20 DEF SweepStart, CheckoutSet
<1>21. ASSUME NEW r \in Refs, SweepPaid(r) PROVE TypeOK'
  BY <1>21 DEF SweepPaid, CheckoutSet
<1>22. ASSUME NEW r \in Refs, SweepFail(r) PROVE TypeOK'
  <2>1. checkout[r] \in CheckoutSet
    OBVIOUS
  <2>2. \A status \in {checkout[r].status, "failed"} :
          [checkout[r] EXCEPT !.status = status] \in CheckoutSet
    BY <2>1 DEF CheckoutSet
  <2>3. checkout' \in [Refs -> CheckoutSet]
    BY <1>22, <2>2 DEF SweepFail
  <2> QED
    BY <1>22, <2>3 DEF SweepFail
<1>23. CASE World
  <2>1. ASSUME NEW e \in Events, CloseWindow(e) PROVE event' \in [Events -> EventSet]
    <3>1. event[e] \in EventSet
      OBVIOUS
    <3>2. [event[e] EXCEPT !.open = FALSE] \in EventSet
      BY <3>1 DEF EventSet
    <3> QED
      BY <2>1, <3>2 DEF CloseWindow
  <2>2. ASSUME NEW r \in Refs, ExpireKey(r) PROVE TypeOK'
    BY <1>23, <2>2, PutType DEF World, AgeOut, ExpireKey
  <2>3. ASSUME NEW e \in Events, EditEvent(e) PROVE event' \in [Events -> EventSet]
    <3>1. event[e] \in EventSet
      OBVIOUS
    <3>2. \A t \in TermSet, open \in BOOLEAN :
            [event[e] EXCEPT !.terms = t, !.open = open] \in EventSet
      BY <3>1 DEF EventSet
    <3>3. PICK t \in TermSet, open \in BOOLEAN :
            event' = [event EXCEPT ![e] = [event[e] EXCEPT !.terms = t, !.open = open]]
      BY <2>3, <3>1 DEF EditEvent, EventSet
    <3> QED
      BY <3>2, <3>3
  <2> QED
    BY <1>23, <2>1, <2>2, <2>3 DEF World, AgeOut, Environment, Land, CloseWindow, EditEvent
<1>24. CASE Crash
  BY <1>24 DEF Crash, Idle, ProcSet
<1>25. CASE UNCHANGED vars
  BY <1>25 DEF vars
<1> QED
  BY <1>1, <1>2, <1>3, <1>4, <1>5, <1>6, <1>7, <1>8, <1>9, <1>10, <1>11, <1>12, <1>13,
     <1>14, <1>15, <1>16, <1>17, <1>18, <1>19, <1>20, <1>21, <1>22, <1>23, <1>24, <1>25
     DEF Next, Serve, Handler, Starts, Continue, Answered, Watcher

LEMMA NextRefKnown == TypeOK /\ RefKnown /\ [Next]_vars => RefKnown'
<1> SUFFICES ASSUME TypeOK, RefKnown, [Next]_vars, NEW q \in Procs,
                    proc'[q].pc \notin {"idle", "create_hset", "manual_verify"}
             PROVE  proc'[q].ref \in Refs
  BY DEF RefKnown
<1> USE DEF TypeOK
<1>1. ASSUME NEW p \in Procs, Return(p) PROVE proc'[q].ref \in Refs
  BY <1>1 DEF Return, Idle, RefKnown
<1>2. ASSUME NEW p \in Procs, NEW pc, Goto(p, pc),
             proc[p].pc \notin {"idle", "create_hset", "manual_verify"}
      PROVE  proc'[q].ref \in Refs
  BY <1>2 DEF Goto, RefKnown, ProcSet
<1>3. ASSUME NEW p \in Procs, NEW op, NEW pc, NEW r, NEW s, NEW inv, Begin(p, op, pc, r, s, inv),
             pc \in {"create_hset", "manual_verify"} \/ r \in Refs
      PROVE  proc'[q].ref \in Refs
  BY <1>3 DEF Begin, RefKnown
<1>4. CASE UNCHANGED proc
  BY <1>4 DEF RefKnown
<1>5. ASSUME NEW p \in Procs, CreateStart(p) \/ CreateHSet(p) \/ CreateExpire(p)
      PROVE  proc'[q].ref \in Refs
  <2>1. CASE CreateStart(p)
    BY <1>3, <2>1 DEF CreateStart
  <2>2. CASE CreateHSet(p)
    BY <2>2 DEF CreateHSet, RefKnown, ProcSet
  <2>3. CASE CreateExpire(p)
    BY <1>1, <2>3 DEF CreateExpire
  <2> QED
    BY <1>5, <2>1, <2>2, <2>3
<1>6. ASSUME NEW p \in Procs, CancelStart(p) \/ CancelInvoice(p) \/ CancelRedis(p)
      PROVE  proc'[q].ref \in Refs
  BY <1>1, <1>2, <1>3, <1>6 DEF CancelStart, CancelInvoice, CancelRedis, At
<1>7. ASSUME NEW p \in Procs, ConfirmStart(p) \/ RecheckStart(p) \/ \E r \in Refs : DetectStart(p, r)
      PROVE  proc'[q].ref \in Refs
  BY <1>3, <1>7 DEF ConfirmStart, RecheckStart, DetectStart
<1>8. ASSUME NEW p \in Procs, VerifyOk(p) PROVE proc'[q].ref \in Refs
  <2>1. proc[p].ref \in Refs
    BY <1>8 DEF VerifyOk, At, RefKnown
  <2> QED
    BY <1>8, <2>1 DEF VerifyOk, RefKnown, ProcSet
<1>9. ASSUME NEW p \in Procs, VerifyFail(p) \/ Finish(p) \/ ManualCheckout(p) \/ Fail(p)
      PROVE  proc'[q].ref \in Refs
  BY <1>1, <1>9 DEF VerifyFail, Finish, ManualCheckout, Fail
<1>10. ASSUME NEW p \in Procs, EmailChecked(p) \/ WriteInvoice(p) \/ WriteCheckout(p) \/ ManualInvoice(p)
       PROVE  proc'[q].ref \in Refs
  BY <1>1, <1>2, <1>10 DEF EmailChecked, WriteInvoice, WriteCheckout, ManualInvoice, At
<1>11. ASSUME NEW p \in Procs, ManualStart(p) \/ ManualVerified(p) PROVE proc'[q].ref \in Refs
  <2>1. CASE ManualStart(p)
    BY <1>3, <2>1 DEF ManualStart
  <2>2. CASE ManualVerified(p)
    BY <2>2 DEF ManualVerified, RefKnown, ProcSet
  <2> QED
    BY <1>11, <2>1, <2>2
<1>12. CASE Crash
  BY <1>12 DEF Crash, Idle
<1>13. CASE (\E r \in Refs : ReportPaid(r)) \/ Watcher \/ World \/ UNCHANGED vars
  BY <1>4, <1>13 DEF ReportPaid, Watcher, SweepStart, SweepPaid, SweepFail, World, AgeOut, vars
<1> QED
  BY <1>5, <1>6, <1>7, <1>8, <1>9, <1>10, <1>11, <1>12, <1>13 DEF Next, Serve, Handler, Starts, Continue, Answered

\* The state keeps its types: TypeOK.
THEOREM TypeCorrect == Spec => []TypeOK
<1>1. Init => RefKnown
  BY DEF Init, RefKnown, Idle
<1> QED
  BY <1>1, InitType, NextType, NextRefKnown, PTL DEF Spec

-----------------------------------------------------------------------------
(* What a step may do to each part of the stores. *)

\* A quote is final, a confirmed transaction stays confirmed, and no step of the
\* checkout changes the terms of an event.
LEMMA QuoteSteps ==
  ASSUME TypeOK, [Next]_vars, NEW r \in Refs
  PROVE  \/ quote'[r] = quote[r]
         \/ /\ quote[r] = None
            /\ \E p \in Procs : /\ At(p, "create_hset") \/ At(p, "manual_verify")
                               /\ quote'[r] = proc[p].inv
<1> USE DEF TypeOK, StoreTypeOK
<1>1. CASE UNCHANGED quote
  BY <1>1
<1>2. ASSUME NEW p \in Procs, CreateHSet(p) \/ ManualVerified(p)
      PROVE  \/ quote'[r] = quote[r]
             \/ /\ quote[r] = None
                /\ At(p, "create_hset") \/ At(p, "manual_verify")
                /\ quote'[r] = proc[p].inv
  BY <1>2 DEF CreateHSet, ManualVerified, PutRedis, FreshRef
<1> QED
  BY <1>1, <1>2 DEF Next, Serve, Handler, Starts, Continue, Answered, vars,
     CreateStart, CreateExpire, CancelStart, CancelInvoice, CancelRedis, ConfirmStart,
     RecheckStart, DetectStart, VerifyOk, VerifyFail, EmailChecked, WriteInvoice,
     WriteCheckout, Finish, ManualStart, ManualInvoice, ManualCheckout, Fail,
     ReportPaid, Watcher, SweepStart, SweepPaid, SweepFail, World, AgeOut, Environment, Land,
     ExpireKey, CloseWindow, EditEvent, Crash

LEMMA LandedSteps ==
  ASSUME TypeOK, [Next]_vars
  PROVE  /\ landed \subseteq landed'
         /\ \A r \in Refs : quote[r] # None /\ quote[r].how = "legacy" /\ quote[r].event \in Events
              => event'[quote[r].event].terms = event[quote[r].event].terms
<1> USE DEF TypeOK, StoreTypeOK
<1>1. CASE UNCHANGED <<landed, event>>
  BY <1>1
<1>2. ASSUME NEW s \in Sigs, Land(s) PROVE landed \subseteq landed' /\ UNCHANGED event
  BY <1>2 DEF Land
<1>3. ASSUME NEW e \in Events, CloseWindow(e)
      PROVE  UNCHANGED landed /\ \A d \in Events : event'[d].terms = event[d].terms
  BY <1>3 DEF CloseWindow, EventSet
<1>4. ASSUME NEW e \in Events, EditEvent(e), NEW r \in Refs,
             quote[r] # None, quote[r].how = "legacy", quote[r].event \in Events
      PROVE  event'[quote[r].event] = event[quote[r].event]
  <2>1. quote[r].event # e
    BY <1>4 DEF EditEvent
  <2>2. PICK t \in TermSet, open \in BOOLEAN :
          event' = [event EXCEPT ![e] = [event[e] EXCEPT !.terms = t, !.open = open]]
    BY <1>4 DEF EditEvent, EventSet
  <2> QED
    BY <1>4, <2>1, <2>2
<1>5. ASSUME NEW e \in Events, EditEvent(e) PROVE UNCHANGED landed
  BY <1>5 DEF EditEvent
<1> QED
  BY <1>1, <1>2, <1>3, <1>4, <1>5 DEF Next, Serve, Handler, Starts, Continue, Answered, vars,
     CreateStart, CreateHSet, CreateExpire, CancelStart, CancelInvoice, CancelRedis, ConfirmStart,
     RecheckStart, DetectStart, VerifyOk, VerifyFail, EmailChecked, WriteInvoice,
     WriteCheckout, Finish, ManualStart, ManualVerified, ManualInvoice, ManualCheckout, Fail,
     ReportPaid, Watcher, SweepStart, SweepPaid, SweepFail, World, AgeOut, Environment, ExpireKey, Crash

\* Only a create gives a reference a Redis key.
LEMMA RedisSteps ==
  ASSUME TypeOK, [Next]_vars, NEW r \in Refs, redis'[r] # "absent"
  PROVE  \/ redis[r] # "absent"
         \/ \E p \in Procs : At(p, "create_hset") /\ quote'[r] = proc[p].inv
<1> USE DEF TypeOK, StoreTypeOK
<1>1. CASE UNCHANGED redis
  BY <1>1
<1>2. ASSUME NEW p \in Procs, CreateHSet(p)
      PROVE  redis[r] # "absent" \/ (At(p, "create_hset") /\ quote'[r] = proc[p].inv)
  BY <1>2 DEF CreateHSet, PutRedis
<1>3. ASSUME NEW p \in Procs, CreateExpire(p) PROVE redis[r] # "absent"
  BY <1>3 DEF CreateExpire, SetTTL
<1>4. ASSUME NEW p \in Procs, CancelRedis(p) \/ Finish(p) PROVE redis[r] # "absent"
  BY <1>4 DEF CancelRedis, Finish, DelRedis
<1>5. ASSUME NEW k \in Refs, ExpireKey(k) PROVE redis[r] # "absent"
  BY <1>5 DEF ExpireKey, DelRedis
<1> QED
  BY <1>1, <1>2, <1>3, <1>4, <1>5 DEF Next, Serve, Handler, Starts, Continue, Answered, vars,
     CreateStart, CancelStart, CancelInvoice, ConfirmStart,
     RecheckStart, DetectStart, VerifyOk, VerifyFail, EmailChecked, WriteInvoice,
     WriteCheckout, ManualStart, ManualVerified, ManualInvoice, ManualCheckout, Fail,
     ReportPaid, Watcher, SweepStart, SweepPaid, SweepFail, World, AgeOut, Environment, Land,
     CloseWindow, EditEvent, Crash

\* Only finalize and manual-verify write a paid invoice, with their signature.
LEMMA InvoiceSteps ==
  ASSUME TypeOK, [Next]_vars, NEW r \in Refs, invoice'[r].status = "paid"
  PROVE  \/ invoice'[r] = invoice[r]
         \/ \E p \in Procs : /\ At(p, "put_invoice") \/ At(p, "manual_invoice")
                            /\ proc[p].ref = r /\ invoice'[r].sig = proc[p].sig
<1> USE DEF TypeOK, StoreTypeOK
<1>1. CASE UNCHANGED invoice
  BY <1>1
<1>2. ASSUME NEW p \in Procs, CancelInvoice(p) \/ VerifyFail(p)
      PROVE  invoice'[r] = invoice[r]
  BY <1>2 DEF CancelInvoice, VerifyFail, PutInvoice, NoRow
<1>3. ASSUME NEW p \in Procs, WriteInvoice(p) \/ ManualInvoice(p)
      PROVE  \/ invoice'[r] = invoice[r]
             \/ /\ At(p, "put_invoice") \/ At(p, "manual_invoice")
                /\ proc[p].ref = r /\ invoice'[r].sig = proc[p].sig
  BY <1>3 DEF WriteInvoice, ManualInvoice, PutInvoice
<1> QED
  BY <1>1, <1>2, <1>3 DEF Next, Serve, Handler, Starts, Continue, Answered, vars,
     CreateStart, CreateHSet, CreateExpire, CancelStart, CancelRedis, ConfirmStart,
     RecheckStart, DetectStart, VerifyOk, EmailChecked,
     WriteCheckout, Finish, ManualStart, ManualVerified, ManualCheckout, Fail,
     ReportPaid, Watcher, SweepStart, SweepPaid, SweepFail, World, AgeOut, Environment, Land,
     ExpireKey, CloseWindow, EditEvent, Crash

\* A checkout row changes in four ways: a cancel deletes it while it is pending,
\* finalize or manual-verify makes it paid, the reconciler makes it paid with the
\* signature it has verified, or failed if it is not paid.
LEMMA CheckoutSteps ==
  ASSUME TypeOK, [Next]_vars, NEW r \in Refs
  PROVE  \/ checkout'[r] = checkout[r]
         \/ checkout[r].status = "pending_payment" /\ checkout'[r] = NoRow
         \/ /\ checkout'[r].status = "paid"
            /\ \E p \in Procs : /\ At(p, "put_checkout") \/ At(p, "manual_checkout")
                               /\ proc[p].ref = r /\ checkout'[r].sig = proc[p].sig
         \/ /\ sweep[r] # None /\ Verifies(sweep[r], r, SweepTerms(r))
            /\ checkout'[r].status = "paid" /\ checkout'[r].sig = sweep[r]
         \/ /\ checkout[r].status \in {"pending_payment", "failed"}
            /\ checkout'[r].status = "failed"
<1> USE DEF TypeOK, StoreTypeOK
<1>1. CASE UNCHANGED checkout
  BY <1>1
<1>2. ASSUME NEW p \in Procs, CancelStart(p)
      PROVE  \/ checkout'[r] = checkout[r]
             \/ checkout[r].status = "pending_payment" /\ checkout'[r] = NoRow
  BY <1>2 DEF CancelStart
<1>3. ASSUME NEW p \in Procs, WriteCheckout(p) \/ ManualCheckout(p)
      PROVE  \/ checkout'[r] = checkout[r]
             \/ /\ checkout'[r].status = "paid"
                /\ At(p, "put_checkout") \/ At(p, "manual_checkout")
                /\ proc[p].ref = r /\ checkout'[r].sig = proc[p].sig
  BY <1>3 DEF WriteCheckout, ManualCheckout, PutCheckoutPaid
<1>4. ASSUME NEW k \in Refs, SweepPaid(k)
      PROVE  \/ checkout'[r] = checkout[r]
             \/ /\ sweep[r] # None /\ Verifies(sweep[r], r, SweepTerms(r))
                /\ checkout'[r].status = "paid" /\ checkout'[r].sig = sweep[r]
  BY <1>4 DEF SweepPaid
<1>5. ASSUME NEW k \in Refs, SweepFail(k)
      PROVE  \/ checkout'[r] = checkout[r]
             \/ /\ checkout[r].status \in {"pending_payment", "failed"}
                /\ checkout'[r].status = "failed"
  BY <1>5 DEF SweepFail, CheckoutSet
<1> QED
  BY <1>1, <1>2, <1>3, <1>4, <1>5 DEF Next, Serve, Handler, Starts, Continue, Answered, vars,
     CreateStart, CreateHSet, CreateExpire, CancelInvoice, CancelRedis, ConfirmStart,
     RecheckStart, DetectStart, VerifyOk, VerifyFail, EmailChecked, WriteInvoice,
     Finish, ManualStart, ManualVerified, ManualInvoice, Fail,
     ReportPaid, Watcher, SweepStart, World, AgeOut, Environment, Land, ExpireKey, CloseWindow, EditEvent, Crash

\* The reconciler's result set holds what it read from recoverable rows.
LEMMA SweepSteps ==
  ASSUME TypeOK, [Next]_vars, NEW r \in Refs, sweep'[r] # None
  PROVE  sweep'[r] = sweep[r] \/ Recoverable(r)
<1> USE DEF TypeOK, StoreTypeOK
<1>1. CASE UNCHANGED sweep
  BY <1>1
<1>2. CASE SweepStart
  BY <1>2 DEF SweepStart
<1>3. ASSUME NEW k \in Refs, SweepPaid(k) \/ SweepFail(k) PROVE sweep'[r] = sweep[r]
  BY <1>3 DEF SweepPaid, SweepFail
<1>4. CASE Crash
  BY <1>4 DEF Crash
<1> QED
  BY <1>1, <1>2, <1>3, <1>4 DEF Next, Serve, Handler, Starts, Continue, Answered, vars,
     CreateStart, CreateHSet, CreateExpire, CancelStart, CancelInvoice, CancelRedis, ConfirmStart,
     RecheckStart, DetectStart, VerifyOk, VerifyFail, EmailChecked, WriteInvoice,
     WriteCheckout, Finish, ManualStart, ManualVerified, ManualInvoice, ManualCheckout, Fail,
     ReportPaid, Watcher, World, AgeOut

-----------------------------------------------------------------------------
(* The inductive invariant behind PaidIsVerified. *)

\* Rows with an unsettled status were left by the earlier release.
LegacyRowsKnown == \A r \in Refs :
  checkout[r].status \in {"pending_payment", "failed"} \/ sweep[r] # None
    => quote[r] # None /\ quote[r].how = "legacy"

\* Their quote is still what the reconciler reads from the row and the event.
LegacyTerms == \A r \in Refs :
  quote[r] # None /\ quote[r].how = "legacy"
    => quote[r].event \in Events /\ quote[r].terms = event[quote[r].event].terms

\* A Redis key describes a reference that a checkout drew.
RedisKnown == \A r \in Refs : redis[r] # "absent" => quote[r] # None /\ quote[r].how # "manual"

Verified == {"email", "put_invoice", "put_checkout", "finish", "manual_invoice", "manual_checkout"}

\* What a request carries between its reads and its writes.
Carries(p) ==
  /\ At(p, "create_hset")   => proc[p].inv \in QuoteSet /\ proc[p].inv.how = "invoice"
  /\ At(p, "manual_verify") => /\ proc[p].inv \in QuoteSet /\ proc[p].inv.how = "manual"
                              /\ proc[p].sig \in Sigs
  /\ At(p, "verify") => quote[proc[p].ref] # None /\ quote[proc[p].ref].how # "manual"
  /\ proc[p].pc \in Verified => Backed(proc[p].ref, proc[p].sig)

InFlight == \A p \in Procs : Carries(p)

IInv == TypeOK /\ RefKnown /\ LegacyRowsKnown /\ LegacyTerms /\ RedisKnown /\ InFlight /\ PaidIsVerified

LEMMA InitIInv == Init => IInv
<1> SUFFICES ASSUME Init PROVE IInv
  OBVIOUS
<1>1. TypeOK
  BY InitType
<1>2. RefKnown /\ InFlight
  BY DEF Init, RefKnown, InFlight, Carries, At, Idle, Verified
<1>3. \A q \in LegacyQuotes : q.how = "legacy" /\ q.event \in Events /\ q.terms = Price[q.event]
  BY DEF LegacyQuotes
<1>4. \A e \in Events : event[e].terms = Price[e]
  BY DEF Init, StoreInit
<1>5. LegacyTerms
  BY <1>3, <1>4 DEF Init, StoreInit, LegacyTerms
<1>6. LegacyRowsKnown
  BY <1>3 DEF Init, StoreInit, LegacyRowsKnown, NoRow
<1>7. RedisKnown
  BY <1>3 DEF Init, StoreInit, RedisKnown, LegacyDrawn
<1>8. PaidIsVerified
  BY DEF Init, StoreInit, PaidIsVerified, Paid, NoRow, LegacyRows
<1> QED
  BY <1>1, <1>2, <1>5, <1>6, <1>7, <1>8 DEF IInv

\* Quotes are final and confirmations too, so what is backed stays backed.
LEMMA Stable ==
  ASSUME TypeOK, [Next]_vars, NEW r \in Refs, quote[r] # None
  PROVE  /\ quote'[r] = quote[r]
         /\ \A s : Backed(r, s) => Backed(r, s)'
<1>1. quote'[r] = quote[r]
  BY QuoteSteps
<1>2. landed \subseteq landed'
  BY LandedSteps
<1> QED
  BY <1>1, <1>2 DEF Backed

LEMMA NextLegacy == IInv /\ [Next]_vars => LegacyRowsKnown' /\ LegacyTerms'
<1> SUFFICES ASSUME IInv, [Next]_vars, NEW r \in Refs
             PROVE  /\ checkout'[r].status \in {"pending_payment", "failed"} \/ sweep'[r] # None
                        => quote'[r] # None /\ quote'[r].how = "legacy"
                    /\ quote'[r] # None /\ quote'[r].how = "legacy"
                        => /\ quote'[r].event \in Events
                           /\ quote'[r].terms = event'[quote'[r].event].terms
  BY DEF LegacyRowsKnown, LegacyTerms
<1>1. checkout'[r].status \in {"pending_payment", "failed"}
        => checkout[r].status \in {"pending_payment", "failed"}
  <2>1. TypeOK
    BY DEF IInv
  <2>2. NoRow.status = "none"
    BY DEF NoRow
  <2>3. \/ checkout'[r] = checkout[r]
        \/ checkout'[r] = NoRow
        \/ checkout'[r].status = "paid"
        \/ checkout[r].status \in {"pending_payment", "failed"}
    BY <2>1, CheckoutSteps
  <2> QED
    BY <2>2, <2>3
<1>2. sweep'[r] # None => sweep[r] # None \/ checkout[r].status \in {"pending_payment", "failed"}
  BY SweepSteps DEF IInv, Recoverable
<1>3. checkout'[r].status \in {"pending_payment", "failed"} \/ sweep'[r] # None
        => quote'[r] # None /\ quote'[r].how = "legacy"
  BY <1>1, <1>2, Stable DEF IInv, LegacyRowsKnown
<1>4. quote'[r] = quote[r] \/ quote'[r].how \in {"invoice", "manual"}
  BY QuoteSteps DEF IInv, InFlight, Carries
<1>5. quote[r] # None /\ quote[r].how = "legacy" =>
         /\ quote'[r] = quote[r] /\ quote[r].event \in Events
         /\ event'[quote[r].event].terms = event[quote[r].event].terms
  BY LandedSteps, Stable DEF IInv, LegacyTerms
<1>6. quote'[r] # quote[r] /\ quote'[r] # None => quote'[r].how \in {"invoice", "manual"}
  BY <1>4
<1> QED
  BY <1>3, <1>5, <1>6 DEF IInv, LegacyTerms

LEMMA NextRedisKnown == IInv /\ [Next]_vars => RedisKnown'
<1> SUFFICES ASSUME IInv, [Next]_vars, NEW r \in Refs, redis'[r] # "absent"
             PROVE  quote'[r] # None /\ quote'[r].how # "manual"
  BY DEF RedisKnown
<1>1. CASE redis[r] # "absent"
  BY <1>1, Stable DEF IInv, RedisKnown
<1>2. ASSUME NEW p \in Procs, At(p, "create_hset"), quote'[r] = proc[p].inv
      PROVE  quote'[r] # None /\ quote'[r].how # "manual"
  BY <1>2 DEF IInv, InFlight, Carries
<1> QED
  BY <1>1, <1>2, RedisSteps DEF IInv

LEMMA NextInFlight == IInv /\ [Next]_vars => InFlight'
<1> SUFFICES ASSUME IInv, [Next]_vars, NEW q \in Procs PROVE Carries(q)'
  BY DEF InFlight
<1> USE DEF IInv, TypeOK, StoreTypeOK
<1>0. Carries(q)
  BY DEF InFlight
<1>1. ASSUME proc'[q] = proc[q] PROVE Carries(q)'
  <2>1. CASE proc[q].ref \in Refs /\ quote[proc[q].ref] # None
    BY <1>0, <1>1, <2>1, Stable DEF Carries, At
  <2>2. CASE ~(proc[q].ref \in Refs /\ quote[proc[q].ref] # None)
    BY <1>0, <1>1, <2>2 DEF Carries, At, RefKnown, Verified, Backed
  <2> QED
    BY <2>1, <2>2
<1>2. ASSUME proc'[q] = Idle PROVE Carries(q)'
  BY <1>2 DEF Carries, At, Idle, Verified
<1>3. ASSUME NEW p \in Procs, Return(p) PROVE Carries(q)'
  BY <1>1, <1>2, <1>3 DEF Return
<1>4. ASSUME NEW p \in Procs, NEW pc, Goto(p, pc), pc \in {"cancel_redis"} \cup Verified,
             pc \in Verified => proc[p].pc \in Verified
      PROVE  Carries(q)'
  <2>1. CASE q # p
    BY <1>1, <1>4, <2>1 DEF Goto
  <2>2. CASE q = p
    <3>1. proc'[p].pc = pc /\ proc'[p].ref = proc[p].ref /\ proc'[p].sig = proc[p].sig
      BY <1>4 DEF Goto, ProcSet
    <3>2. CASE pc \in Verified
      <4>1. Backed(proc[p].ref, proc[p].sig) /\ proc[p].ref \in Refs
        BY <1>0, <1>4, <2>2, <3>2 DEF Carries, RefKnown, Verified
      <4>2. Backed(proc[p].ref, proc[p].sig)'
        BY <3>1, <4>1, Stable DEF Backed
      <4> QED
        BY <2>2, <3>1, <3>2, <4>2 DEF Carries, At, Verified
    <3>3. CASE pc = "cancel_redis"
      BY <2>2, <3>1, <3>3 DEF Carries, At, Verified
    <3> QED
      BY <1>4, <3>2, <3>3
  <2> QED
    BY <2>1, <2>2
<1>5. ASSUME NEW p \in Procs, CreateStart(p) \/ CancelStart(p) \/ ManualStart(p) PROVE Carries(q)'
  <2>1. CASE q # p
    BY <1>1, <1>5, <2>1 DEF CreateStart, CancelStart, ManualStart, Begin
  <2>2. CASE q = p /\ CreateStart(p)
    <3>1. PICK e \in Events, m \in Emails \cup {None} :
            Begin(p, "create", "create_hset", None, None,
              [how |-> "invoice", event |-> e, terms |-> event[e].terms, email |-> m, payer |-> None])
      BY <2>2 DEF CreateStart
    <3>2. event[e].terms \in TermSet
      BY DEF EventSet
    <3>3. [how |-> "invoice", event |-> e, terms |-> event[e].terms, email |-> m, payer |-> None] \in QuoteSet
      BY <3>2 DEF QuoteSet
    <3> QED
      BY <2>2, <3>1, <3>3 DEF Begin, Carries, At, Verified
  <2>3. CASE q = p /\ CancelStart(p)
    BY <2>3 DEF CancelStart, Begin, Carries, At, Verified
  <2>4. CASE q = p /\ ManualStart(p)
    <3>1. PICK e \in Events, s \in Sigs, w \in Wallets, m \in Emails \cup {None} :
            Begin(p, "manual", "manual_verify", None, s,
              [how |-> "manual", event |-> e, terms |-> event[e].terms, email |-> m, payer |-> w])
      BY <2>4 DEF ManualStart
    <3>2. event[e].terms \in TermSet
      BY DEF EventSet
    <3>3. [how |-> "manual", event |-> e, terms |-> event[e].terms, email |-> m, payer |-> w] \in QuoteSet
      BY <3>2 DEF QuoteSet
    <3> QED
      BY <2>4, <3>1, <3>3 DEF Begin, Carries, At, Verified
  <2> QED
    BY <1>5, <2>1, <2>2, <2>3, <2>4
<1>6. ASSUME NEW p \in Procs, CreateHSet(p) PROVE Carries(q)'
  <2>1. CASE q # p
    BY <1>1, <1>6, <2>1 DEF CreateHSet
  <2>2. CASE q = p
    BY <1>6, <2>2 DEF CreateHSet, ProcSet, Carries, At, Verified
  <2> QED
    BY <2>1, <2>2
<1>7. ASSUME NEW p \in Procs, ConfirmStart(p) \/ RecheckStart(p) \/ \E r \in Refs : DetectStart(p, r)
      PROVE  Carries(q)'
  <2>1. PICK r \in Refs, op \in {"confirm", "recheck", "detect"}, s \in Sigs \cup {None} :
          redis[r] # "absent" /\ Begin(p, op, "verify", r, s, None) /\ UNCHANGED quote
    BY <1>7 DEF ConfirmStart, RecheckStart, DetectStart
  <2>2. CASE q # p
    BY <1>1, <2>1, <2>2 DEF Begin
  <2>3. CASE q = p
    <3>1. proc'[q].pc = "verify" /\ proc'[q].ref = r
      BY <2>1, <2>3 DEF Begin
    <3>2. quote'[r] # None /\ quote'[r].how # "manual"
      BY <2>1 DEF RedisKnown
    <3> QED
      BY <3>1, <3>2 DEF Carries, At, Verified
  <2> QED
    BY <2>2, <2>3
<1>8. ASSUME NEW p \in Procs, VerifyOk(p) PROVE Carries(q)'
  <2>1. CASE q # p
    BY <1>1, <1>8, <2>1 DEF VerifyOk
  <2>2. CASE q = p
    <3>1. PICK s \in Sigs : /\ Verifies(s, proc[p].ref, quote[proc[p].ref].terms)
                            /\ proc' = [proc EXCEPT ![p].pc = "email", ![p].sig = s]
      BY <1>8 DEF VerifyOk
    <3>2. quote[proc[p].ref] # None /\ quote[proc[p].ref].how # "manual"
      BY <1>0, <1>8, <2>2 DEF VerifyOk, Carries
    <3>3. Backed(proc[p].ref, s)
      BY <3>1, <3>2 DEF Backed, Verifies, PaysQuote
    <3>4. proc'[p].pc = "email" /\ proc'[p].ref = proc[p].ref /\ proc'[p].sig = s
      BY <3>1 DEF ProcSet
    <3>5. Backed(proc[p].ref, s)' /\ UNCHANGED <<quote, landed>>
      BY <1>8, <3>3, <3>4 DEF VerifyOk, Backed
    <3>6. Backed(proc[p].ref, proc[p].sig)'
      BY <3>4, <3>5 DEF Backed
    <3> QED
      BY <2>2, <3>4, <3>6 DEF Carries, At, Verified
  <2> QED
    BY <2>1, <2>2
<1>9. ASSUME NEW p \in Procs, ManualVerified(p) PROVE Carries(q)'
  <2>1. CASE q # p
    BY <1>1, <1>9, <2>1 DEF ManualVerified
  <2>2. CASE q = p
    <3>1. PICK r \in Refs : /\ VerifiesDirect(proc[p].sig, proc[p].inv.terms, proc[p].inv.payer)
                            /\ quote' = [quote EXCEPT ![r] = proc[p].inv]
                            /\ proc' = [proc EXCEPT ![p].pc = "manual_invoice", ![p].ref = r]
      BY <1>9 DEF ManualVerified
    <3>2. proc[p].inv # None /\ proc[p].inv.how = "manual"
      BY <1>0, <1>9, <2>2 DEF ManualVerified, Carries
    <3>3. proc'[p].pc = "manual_invoice" /\ proc'[p].ref = r /\ proc'[p].sig = proc[p].sig
      BY <3>1 DEF ProcSet
    <3>4. quote'[r] = proc[p].inv
      BY <3>1
    <3>5. landed' = landed
      BY <1>9 DEF ManualVerified
    <3>6. Backed(proc[p].ref, proc[p].sig)'
      BY <3>1, <3>2, <3>3, <3>4, <3>5 DEF Backed, PaysQuote, VerifiesDirect
    <3> QED
      BY <2>2, <3>3, <3>6 DEF Carries, At, Verified
  <2> QED
    BY <2>1, <2>2
<1>10. ASSUME NEW p \in Procs, EmailChecked(p) \/ WriteInvoice(p) \/ WriteCheckout(p) \/ ManualInvoice(p)
                              \/ CancelInvoice(p)
       PROVE  Carries(q)'
  BY <1>3, <1>4, <1>10
     DEF EmailChecked, WriteInvoice, WriteCheckout, ManualInvoice, CancelInvoice, At, Verified
<1>11. ASSUME NEW p \in Procs, CreateExpire(p) \/ CancelRedis(p) \/ VerifyFail(p) \/ Finish(p)
                              \/ ManualCheckout(p) \/ Fail(p)
       PROVE  Carries(q)'
  BY <1>3, <1>11 DEF CreateExpire, CancelRedis, VerifyFail, Finish, ManualCheckout, Fail
<1>12. CASE Crash
  BY <1>2, <1>12 DEF Crash
<1>13. CASE (\E r \in Refs : ReportPaid(r)) \/ Watcher \/ World \/ UNCHANGED vars
  BY <1>1, <1>13 DEF ReportPaid, Watcher, SweepStart, SweepPaid, SweepFail, World, AgeOut, vars
<1> QED
  BY <1>5, <1>6, <1>7, <1>8, <1>9, <1>10, <1>11, <1>12, <1>13 DEF Next, Serve, Handler, Starts, Continue, Answered

LEMMA NextPaid == IInv /\ [Next]_vars => PaidIsVerified'
<1> SUFFICES ASSUME IInv, [Next]_vars, NEW r \in Refs
             PROVE  /\ checkout'[r].status = "paid" => Backed(r, checkout[r].sig)'
                    /\ invoice'[r].status = "paid" => Backed(r, invoice[r].sig)'
  BY DEF PaidIsVerified, Paid
<1>1. TypeOK /\ RefKnown
  BY DEF IInv
<1>2. \A s : Backed(r, s) => Backed(r, s)'
  BY <1>1, Stable DEF Backed
<1>3. \A p \in Procs : proc[p].pc \in Verified => Backed(proc[p].ref, proc[p].sig)
  BY DEF IInv, InFlight, Carries
<1>4. ASSUME checkout'[r].status = "paid" PROVE Backed(r, checkout[r].sig)'
  <2>1. CASE checkout'[r] = checkout[r]
    <3>1. Backed(r, checkout[r].sig)
      BY <1>4, <2>1 DEF IInv, PaidIsVerified, Paid
    <3> QED
      BY <1>2, <2>1, <3>1 DEF Backed
  <2>2. ASSUME NEW p \in Procs, At(p, "put_checkout") \/ At(p, "manual_checkout"),
               proc[p].ref = r, checkout'[r].sig = proc[p].sig
        PROVE  Backed(r, checkout[r].sig)'
    <3>1. Backed(r, proc[p].sig)
      BY <1>3, <2>2 DEF At, Verified
    <3> QED
      BY <1>2, <2>2, <3>1 DEF Backed
  <2>3. ASSUME sweep[r] # None, Verifies(sweep[r], r, SweepTerms(r)),
               checkout'[r].sig = sweep[r]
        PROVE  Backed(r, checkout[r].sig)'
    <3>1. quote[r] # None /\ quote[r].how = "legacy"
      BY <2>3 DEF IInv, LegacyRowsKnown
    <3>2. quote[r].terms = event[quote[r].event].terms /\ quote[r].terms \in TermSet
      BY <3>1 DEF IInv, LegacyTerms, TypeOK, StoreTypeOK, QuoteSet
    <3>3. SweepTerms(r) = quote[r].terms
      BY <3>2 DEF SweepTerms, TermSet
    <3>4. Backed(r, sweep[r])
      BY <2>3, <3>1, <3>3 DEF Backed, PaysQuote, Verifies
    <3>5. checkout'[r].sig = sweep[r]
      BY <2>3
    <3> QED
      BY <1>2, <3>4, <3>5 DEF Backed
  <2> QED
    BY <1>1, <1>4, <2>1, <2>2, <2>3, CheckoutSteps DEF NoRow
<1>5. ASSUME invoice'[r].status = "paid" PROVE Backed(r, invoice[r].sig)'
  <2>1. CASE invoice'[r] = invoice[r]
    <3>1. Backed(r, invoice[r].sig)
      BY <1>5, <2>1 DEF IInv, PaidIsVerified
    <3> QED
      BY <1>2, <2>1, <3>1 DEF Backed
  <2>2. ASSUME NEW p \in Procs, At(p, "put_invoice") \/ At(p, "manual_invoice"),
               proc[p].ref = r, invoice'[r].sig = proc[p].sig
        PROVE  Backed(r, invoice[r].sig)'
    <3>1. Backed(r, proc[p].sig)
      BY <1>3, <2>2 DEF At, Verified
    <3> QED
      BY <1>2, <2>2, <3>1 DEF Backed
  <2> QED
    BY <1>1, <1>5, <2>1, <2>2, InvoiceSteps
<1> QED
  BY <1>4, <1>5

LEMMA Inductive == Spec => []IInv
<1>1. IInv /\ [Next]_vars => IInv'
  BY NextType, NextRefKnown, NextLegacy, NextRedisKnown, NextInFlight, NextPaid DEF IInv
<1> QED
  BY <1>1, InitIInv, PTL DEF Spec

\* No row of either table is paid without a confirmed transfer that pays its
\* quote: PaidIsVerified, whatever handlers interleave, fail or crash.
THEOREM PaidVerified == Spec => []PaidIsVerified
<1>1. IInv => PaidIsVerified
  BY DEF IInv
<1> QED
  BY <1>1, Inductive, PTL

-----------------------------------------------------------------------------
(* Checkout implements Receipts. *)

LEMMA InitReceipts == Init => R!RInit
<1>1. LegacyQuotes \subseteq QuoteSet
  BY DEF LegacyQuotes, QuoteSet
<1>2. Init => \A r \in Refs : ~Paid(r)
  BY DEF Init, StoreInit, Paid, NoRow, LegacyRows
<1> QED
  BY <1>1, <1>2 DEF Init, StoreInit, R!RInit, receiptBar

\* Writing a paid row with a backed signature issues a receipt.
LEMMA Issue ==
  ASSUME TypeOK, NEW r \in Refs, NEW s \in Sigs, UNCHANGED <<landed, quote>>, Backed(r, s),
         checkout' = [checkout EXCEPT ![r] = [status |-> "paid", sig |-> s]]
  PROVE  R!Settle(r, s)
<1>1. \A o \in Refs : receiptBar'[o] = IF o = r THEN s ELSE receiptBar[o]
  BY DEF receiptBar, Paid, TypeOK, StoreTypeOK
<1>2. receiptBar' = [receiptBar EXCEPT ![r] = s]
  BY <1>1 DEF receiptBar
<1> QED
  BY <1>2 DEF R!Settle, Backed

LEMMA NextReceipts == IInv /\ [Next]_vars => [R!RNext]_(R!rvars)
<1> SUFFICES ASSUME IInv, [Next]_vars PROVE R!RNext \/ UNCHANGED <<landed, quote, receiptBar>>
  BY DEF R!rvars
<1>0. TypeOK /\ RefKnown
  BY DEF IInv
<1> USE <1>0 DEF TypeOK, StoreTypeOK
<1>1. ASSUME NEW s \in Sigs, World, Land(s) PROVE R!RNext
  <2>1. receiptBar' = receiptBar /\ R!Confirm(s)
    BY <1>1 DEF Land, receiptBar, Paid, R!Confirm
  <2> QED
    BY <2>1 DEF R!RNext
<1>2. ASSUME NEW p \in Procs, CreateHSet(p) \/ ManualVerified(p) PROVE R!RNext
  <2>1. PICK r \in Refs : quote[r] = None /\ quote' = [quote EXCEPT ![r] = proc[p].inv]
    BY <1>2 DEF CreateHSet, ManualVerified, PutRedis, FreshRef
  <2>2. proc[p].inv \in QuoteSet
    BY <1>2 DEF CreateHSet, ManualVerified, IInv, InFlight, Carries
  <2>3. receiptBar' = receiptBar /\ landed' = landed
    BY <1>2 DEF CreateHSet, ManualVerified, receiptBar, Paid
  <2>4. R!Quote(r, proc[p].inv)
    BY <2>1, <2>3 DEF R!Quote
  <2> QED
    BY <2>2, <2>4 DEF R!RNext
<1>3. ASSUME NEW p \in Procs, WriteCheckout(p) \/ ManualCheckout(p) PROVE R!RNext \/ UNCHANGED <<landed, quote, receiptBar>>
  <2>1. UNCHANGED <<landed, quote>>
    BY <1>3 DEF WriteCheckout, ManualCheckout
  <2>2. proc[p].ref \in Refs /\ Backed(proc[p].ref, proc[p].sig)
    BY <1>3 DEF WriteCheckout, ManualCheckout, At, RefKnown, IInv, InFlight, Carries, Verified
  <2>3. proc[p].sig \in Sigs
    BY <2>2 DEF Backed
  <2>4. CASE checkout' = checkout
    BY <2>1, <2>4 DEF receiptBar, Paid
  <2>5. CASE PutCheckoutPaid(proc[p].ref, proc[p].sig)
    <3>1. R!Settle(proc[p].ref, proc[p].sig)
      BY <2>1, <2>2, <2>3, <2>5, Issue DEF PutCheckoutPaid
    <3> QED
      BY <2>2, <2>3, <3>1 DEF R!RNext
  <2> QED
    BY <1>3, <2>4, <2>5 DEF WriteCheckout, ManualCheckout
<1>4. ASSUME NEW r \in Refs, SweepPaid(r) PROVE R!RNext \/ UNCHANGED <<landed, quote, receiptBar>>
  <2>1. UNCHANGED <<landed, quote>>
    BY <1>4 DEF SweepPaid
  <2>2. quote[r] # None /\ quote[r].how = "legacy"
    BY <1>4 DEF SweepPaid, IInv, LegacyRowsKnown
  <2>3. quote[r].terms = event[quote[r].event].terms /\ quote[r].terms \in TermSet
    BY <2>2 DEF IInv, LegacyTerms, QuoteSet
  <2>4. SweepTerms(r) = quote[r].terms
    BY <2>3 DEF SweepTerms, TermSet
  <2>5. Backed(r, sweep[r]) /\ sweep[r] \in Sigs
    BY <1>4, <2>2, <2>4 DEF SweepPaid, Backed, PaysQuote, Verifies
  <2>6. CASE checkout[r].status = "none"
    <3>1. checkout' = checkout
      BY <1>4, <2>6 DEF SweepPaid
    <3> QED
      BY <2>1, <3>1 DEF receiptBar, Paid
  <2>7. CASE checkout[r].status # "none"
    <3>1. checkout' = [checkout EXCEPT ![r] = [status |-> "paid", sig |-> sweep[r]]]
      BY <1>4, <2>7 DEF SweepPaid
    <3>2. R!Settle(r, sweep[r])
      BY <2>1, <2>5, <3>1, Issue
    <3> QED
      BY <2>5, <3>2 DEF R!RNext
  <2> QED
    BY <2>6, <2>7
<1>5. ASSUME NEW p \in Procs, CancelStart(p) PROVE UNCHANGED <<landed, quote, receiptBar>>
  <2>1. NoRow.status = "none"
    BY DEF NoRow
  <2>2. ASSUME NEW o \in Refs
        PROVE  \/ checkout'[o] = checkout[o]
               \/ checkout[o].status = "pending_payment" /\ checkout'[o] = NoRow
    BY <1>5 DEF CancelStart
  <2>3. \A o \in Refs : (checkout'[o].status = "paid" <=> checkout[o].status = "paid")
                       /\ (checkout[o].status = "paid" => checkout'[o] = checkout[o])
    BY <2>1, <2>2
  <2>4. receiptBar' = receiptBar
    BY <2>3 DEF receiptBar, Paid
  <2> QED
    BY <1>5, <2>4 DEF CancelStart
<1>6. ASSUME NEW r \in Refs, SweepFail(r) PROVE UNCHANGED <<landed, quote, receiptBar>>
  <2>1. UNCHANGED <<landed, quote>>
    BY <1>6 DEF SweepFail
  <2>2. ASSUME NEW o \in Refs
        PROVE  \/ checkout'[o] = checkout[o]
               \/ /\ checkout[o].status \in {"pending_payment", "failed"}
                  /\ checkout'[o].status = "failed"
    BY <1>6 DEF SweepFail, CheckoutSet
  <2>3. \A o \in Refs : (checkout'[o].status = "paid" <=> checkout[o].status = "paid")
                       /\ (checkout[o].status = "paid" => checkout'[o] = checkout[o])
    BY <2>2
  <2>4. receiptBar' = receiptBar
    BY <2>3 DEF receiptBar, Paid
  <2> QED
    BY <2>1, <2>4
<1>7. CASE UNCHANGED <<landed, quote, checkout>>
  BY <1>7 DEF receiptBar, Paid
<1> QED
  BY <1>1, <1>2, <1>3, <1>4, <1>5, <1>6, <1>7 DEF Next, Serve, Handler, Starts, Continue, Answered, vars,
     CreateStart, CreateExpire, CancelInvoice, CancelRedis, ConfirmStart,
     RecheckStart, DetectStart, VerifyOk, VerifyFail, EmailChecked, WriteInvoice,
     Finish, ManualStart, ManualInvoice, Fail, ReportPaid, Watcher, SweepStart,
     World, AgeOut, Environment, ExpireKey, CloseWindow, EditEvent, Crash

\* The checkout issues a receipt only for a confirmed transfer that pays the
\* quote, and no handler, cancel or reconciler pass withdraws it: ImplementsReceipts.
THEOREM CheckoutImplementsReceipts == Spec => ImplementsReceipts
<1>1. IInv /\ [Next]_vars => [R!RNext]_(R!rvars)
  BY NextReceipts
<1> QED
  BY <1>1, InitReceipts, Inductive, PTL DEF Spec, ImplementsReceipts, R!RSpec

-----------------------------------------------------------------------------
(* The two tables, and what clients have been told. *)

\* A settled invoice row stays settled: a late confirm turns paid into error, and
\* a cancel deletes pending rows only.
LEMMA SettledStays ==
  ASSUME TypeOK, [Next]_vars, NEW r \in Refs, invoice[r].status \in {"paid", "error"}
  PROVE  invoice'[r].status \in {"paid", "error"}
<1> USE DEF TypeOK, StoreTypeOK
<1>1. CASE UNCHANGED invoice
  BY <1>1
<1>2. ASSUME NEW p \in Procs, CancelInvoice(p) PROVE invoice'[r].status \in {"paid", "error"}
  BY <1>2 DEF CancelInvoice
<1>3. ASSUME NEW p \in Procs, VerifyFail(p) PROVE invoice'[r].status \in {"paid", "error"}
  BY <1>3 DEF VerifyFail, PutInvoice
<1>4. ASSUME NEW p \in Procs, WriteInvoice(p) \/ ManualInvoice(p)
      PROVE  invoice'[r].status \in {"paid", "error"}
  BY <1>4 DEF WriteInvoice, ManualInvoice, PutInvoice
<1> QED
  BY <1>1, <1>2, <1>3, <1>4 DEF Next, Serve, Handler, Starts, Continue, Answered, vars,
     CreateStart, CreateHSet, CreateExpire, CancelStart, CancelRedis, ConfirmStart,
     RecheckStart, DetectStart, VerifyOk, EmailChecked,
     WriteCheckout, Finish, ManualStart, ManualVerified, ManualCheckout, Fail,
     ReportPaid, Watcher, SweepStart, SweepPaid, SweepFail, World, AgeOut, Environment, Land,
     ExpireKey, CloseWindow, EditEvent, Crash

\* A paid checkout stays paid.
LEMMA PaidStays ==
  ASSUME TypeOK, [Next]_vars, NEW r \in Refs, Paid(r)
  PROVE  Paid(r)'
  BY CheckoutSteps DEF Paid

\* A client is told of a row that is paid, or by manual-verify.
LEMMA ToldSteps ==
  ASSUME TypeOK, [Next]_vars, NEW r \in Refs, r \in told'
  PROVE  \/ r \in told
         \/ Paid(r)
         \/ \E p \in Procs : At(p, "manual_checkout") /\ proc[p].ref = r
<1>1. CASE UNCHANGED told
  BY <1>1
<1>2. ASSUME NEW o \in Refs, ReportPaid(o) PROVE r \in told \/ Paid(r)
  BY <1>2 DEF ReportPaid
<1>3. ASSUME NEW p \in Procs, Finish(p) PROVE r \in told \/ Paid(r)
  BY <1>3 DEF Finish
<1>4. ASSUME NEW p \in Procs, ManualCheckout(p)
      PROVE  r \in told \/ (At(p, "manual_checkout") /\ proc[p].ref = r)
  BY <1>4 DEF ManualCheckout
<1> QED
  BY <1>1, <1>2, <1>3, <1>4 DEF Next, Serve, Handler, Starts, Continue, Answered, vars,
     CreateStart, CreateHSet, CreateExpire, CancelStart, CancelInvoice, CancelRedis, ConfirmStart,
     RecheckStart, DetectStart, VerifyOk, VerifyFail, EmailChecked, WriteInvoice,
     WriteCheckout, ManualStart, ManualVerified, ManualInvoice, Fail,
     Watcher, SweepStart, SweepPaid, SweepFail, World, AgeOut, Environment, Land,
     ExpireKey, CloseWindow, EditEvent, Crash

\* How a request comes to write a checkout row.
Writing == {"put_checkout", "manual_invoice", "manual_checkout"}

LEMMA WritingSteps ==
  ASSUME TypeOK, [Next]_vars, NEW q \in Procs, proc'[q].pc \in Writing
  PROVE  \/ proc'[q] = proc[q]
         \/ WriteInvoice(q) /\ proc'[q].pc = "put_checkout" /\ proc'[q].ref = proc[q].ref
         \/ /\ ManualVerified(q) /\ proc'[q].ref \in Refs
            /\ quote'[proc'[q].ref] = proc[q].inv /\ proc'[q].pc = "manual_invoice"
         \/ ManualInvoice(q) /\ proc'[q].pc = "manual_checkout" /\ proc'[q].ref = proc[q].ref
<1> USE DEF TypeOK, StoreTypeOK
<1> DEFINE Goal ==
         \/ proc'[q] = proc[q]
         \/ WriteInvoice(q) /\ proc'[q].pc = "put_checkout" /\ proc'[q].ref = proc[q].ref
         \/ /\ ManualVerified(q) /\ proc'[q].ref \in Refs
            /\ quote'[proc'[q].ref] = proc[q].inv /\ proc'[q].pc = "manual_invoice"
         \/ ManualInvoice(q) /\ proc'[q].pc = "manual_checkout" /\ proc'[q].ref = proc[q].ref
<1>1. ASSUME NEW p \in Procs, Return(p) PROVE proc'[q] = proc[q]
  BY <1>1 DEF Return, Idle, Writing
<1>2. ASSUME NEW p \in Procs, NEW pc, Goto(p, pc), pc \notin Writing PROVE proc'[q] = proc[q]
  BY <1>2 DEF Goto, ProcSet
<1>3. ASSUME NEW p \in Procs, NEW op, NEW pc, NEW r, NEW s, NEW inv, Begin(p, op, pc, r, s, inv),
             pc \notin Writing
      PROVE  proc'[q] = proc[q]
  BY <1>3 DEF Begin
<1>4. ASSUME NEW p \in Procs, CreateStart(p) \/ CancelStart(p) \/ ManualStart(p) PROVE Goal
  <2>1. CASE CreateStart(p)
    <3>1. PICK e \in Events, m \in Emails \cup {None} :
            Begin(p, "create", "create_hset", None, None,
                  [how |-> "invoice", event |-> e, terms |-> event[e].terms, email |-> m, payer |-> None])
      BY <2>1 DEF CreateStart
    <3> QED
      BY <1>3, <3>1 DEF Writing
  <2>2. CASE CancelStart(p)
    <3>1. PICK r \in Refs : Begin(p, "cancel", "cancel_invoice", r, None, None)
      BY <2>2 DEF CancelStart
    <3> QED
      BY <1>3, <3>1 DEF Writing
  <2>3. CASE ManualStart(p)
    <3>1. PICK e \in Events, s \in Sigs, w \in Wallets, m \in Emails \cup {None} :
            Begin(p, "manual", "manual_verify", None, s,
                  [how |-> "manual", event |-> e, terms |-> event[e].terms, email |-> m, payer |-> w])
      BY <2>3 DEF ManualStart
    <3> QED
      BY <1>3, <3>1 DEF Writing
  <2> QED
    BY <1>4, <2>1, <2>2, <2>3
<1>5. ASSUME NEW p \in Procs, ConfirmStart(p) \/ RecheckStart(p) \/ \E r \in Refs : DetectStart(p, r)
      PROVE  Goal
  BY <1>3, <1>5 DEF ConfirmStart, RecheckStart, DetectStart, Writing
<1>6. ASSUME NEW p \in Procs, CreateHSet(p) \/ VerifyOk(p) PROVE Goal
  <2>1. CASE q = p
    BY <1>6, <2>1 DEF CreateHSet, VerifyOk, ProcSet, Writing
  <2>2. CASE q # p
    BY <1>6, <2>2 DEF CreateHSet, VerifyOk
  <2> QED
    BY <2>1, <2>2
<1>7. ASSUME NEW p \in Procs, CancelInvoice(p) \/ EmailChecked(p) PROVE Goal
  BY <1>1, <1>2, <1>7 DEF CancelInvoice, EmailChecked, Writing
<1>8. ASSUME NEW p \in Procs, WriteCheckout(p) PROVE Goal
  BY <1>2, <1>8 DEF WriteCheckout, Writing
<1>9. ASSUME NEW p \in Procs, CreateExpire(p) \/ CancelRedis(p) \/ VerifyFail(p) \/ Finish(p)
                              \/ ManualCheckout(p) \/ Fail(p)
      PROVE  Goal
  BY <1>1, <1>9 DEF CreateExpire, CancelRedis, VerifyFail, Finish, ManualCheckout, Fail
<1>10. ASSUME NEW p \in Procs, WriteInvoice(p) \/ ManualInvoice(p) PROVE Goal
  <2>1. CASE q = p
    BY <1>10, <2>1 DEF WriteInvoice, ManualInvoice, Goto, ProcSet
  <2>2. CASE q # p
    BY <1>10, <2>2 DEF WriteInvoice, ManualInvoice, Goto
  <2> QED
    BY <2>1, <2>2
<1>11. ASSUME NEW p \in Procs, ManualVerified(p) PROVE Goal
  <2>1. CASE q = p
    <3>1. PICK r \in Refs : /\ quote' = [quote EXCEPT ![r] = proc[p].inv]
                           /\ proc' = [proc EXCEPT ![p].pc = "manual_invoice", ![p].ref = r]
      BY <1>11 DEF ManualVerified
    <3>2. quote'[r] = proc[p].inv
      BY <3>1
    <3>3. proc'[p] = [proc[p] EXCEPT !.pc = "manual_invoice", !.ref = r]
      BY <3>1
    <3>4. proc[p] \in ProcSet
      OBVIOUS
    <3>5. proc'[p].ref = r /\ proc'[p].pc = "manual_invoice"
      BY <3>3, <3>4 DEF ProcSet
    <3> QED
      BY <1>11, <2>1, <3>2, <3>5
  <2>2. CASE q # p
    BY <1>11, <2>2 DEF ManualVerified
  <2> QED
    BY <2>1, <2>2
<1>12. CASE Crash
  BY <1>12 DEF Crash, Idle, Writing
<1>13. CASE (\E r \in Refs : ReportPaid(r)) \/ Watcher \/ World \/ UNCHANGED vars
  BY <1>13 DEF ReportPaid, Watcher, SweepStart, SweepPaid, SweepFail, World, AgeOut, vars
<1> QED
  BY <1>4, <1>5, <1>6, <1>7, <1>8, <1>9, <1>10, <1>11, <1>12, <1>13
     DEF Next, Serve, Handler, Starts, Continue, Answered

\* The inductive invariant behind PaidHasInvoice and ToldIsPaid: a request that is
\* about to write the checkout has written the invoice, or verifies by hand.
InvoiceFirst == \A p \in Procs :
  At(p, "put_checkout") => invoice[proc[p].ref].status \in {"paid", "error"}

ByHand == \A p \in Procs :
  At(p, "manual_invoice") \/ At(p, "manual_checkout") => quote[proc[p].ref].how = "manual"

ToldOnce == \A r \in told : quote[r] # None /\ (quote[r].how # "manual" => Paid(r))

Told == InvoiceFirst /\ ByHand /\ PaidHasInvoice /\ ToldOnce

LEMMA InitTold == Init => Told
<1> SUFFICES ASSUME Init PROVE Told
  OBVIOUS
<1>1. InvoiceFirst /\ ByHand
  BY DEF Init, InvoiceFirst, ByHand, At, Idle
<1>2. PaidHasInvoice
  BY DEF Init, StoreInit, PaidHasInvoice, Paid, NoRow, LegacyRows
<1>3. ToldOnce
  BY DEF Init, StoreInit, ToldOnce
<1> QED
  BY <1>1, <1>2, <1>3 DEF Told

\* What a request carries is quoted, once it is past its verification.
LEMMA VerifiedQuoted ==
  ASSUME IInv, NEW p \in Procs, proc[p].pc \in Verified
  PROVE  proc[p].ref \in Refs /\ quote[proc[p].ref] # None
  BY DEF IInv, InFlight, Carries, Backed, RefKnown, Verified

LEMMA NextWriting == IInv /\ Told /\ [Next]_vars => InvoiceFirst' /\ ByHand'
<1> SUFFICES ASSUME IInv, Told, [Next]_vars, NEW q \in Procs, proc'[q].pc \in Writing
             PROVE  /\ proc'[q].pc = "put_checkout" => invoice'[proc'[q].ref].status \in {"paid", "error"}
                    /\ proc'[q].pc # "put_checkout" => quote'[proc'[q].ref].how = "manual"
  BY DEF InvoiceFirst, ByHand, At, Writing
<1>0. TypeOK
  BY DEF IInv
<1>1. CASE proc'[q] = proc[q]
  <2>1. proc[q].ref \in Refs /\ quote[proc[q].ref] # None
    BY <1>1, VerifiedQuoted DEF Writing, Verified
  <2>2. quote'[proc[q].ref] = quote[proc[q].ref]
    BY <1>0, <2>1, Stable
  <2>3. CASE proc[q].pc = "put_checkout"
    <3>1. invoice[proc[q].ref].status \in {"paid", "error"}
      BY <2>3 DEF Told, InvoiceFirst, At
    <3> QED
      BY <1>0, <1>1, <2>1, <2>3, <3>1, SettledStays
  <2>4. CASE proc[q].pc # "put_checkout"
    BY <1>1, <2>2, <2>4 DEF Told, ByHand, At, Writing
  <2> QED
    BY <2>3, <2>4
<1>2. CASE WriteInvoice(q) /\ proc'[q].pc = "put_checkout" /\ proc'[q].ref = proc[q].ref
  <2>1. proc[q].ref \in Refs
    BY <1>2, VerifiedQuoted DEF WriteInvoice, At, Verified
  <2>2. invoice' = [invoice EXCEPT ![proc[q].ref] = [status |-> "paid", sig |-> proc[q].sig]]
    BY <1>2 DEF WriteInvoice, PutInvoice
  <2>3. invoice'[proc[q].ref].status = "paid"
    BY <1>0, <2>1, <2>2 DEF TypeOK, StoreTypeOK
  <2> QED
    BY <1>2, <2>3
<1>3. CASE /\ ManualVerified(q) /\ proc'[q].ref \in Refs
           /\ quote'[proc'[q].ref] = proc[q].inv /\ proc'[q].pc = "manual_invoice"
  BY <1>3 DEF ManualVerified, IInv, InFlight, Carries
<1>4. CASE ManualInvoice(q) /\ proc'[q].pc = "manual_checkout" /\ proc'[q].ref = proc[q].ref
  <2>1. quote[proc[q].ref].how = "manual"
    BY <1>4 DEF ManualInvoice, Told, ByHand
  <2>2. quote' = quote
    BY <1>4 DEF ManualInvoice
  <2> QED
    BY <1>4, <2>1, <2>2
<1> QED
  BY <1>0, <1>1, <1>2, <1>3, <1>4, WritingSteps

LEMMA NextPaidHasInvoice == IInv /\ Told /\ [Next]_vars => PaidHasInvoice'
<1> SUFFICES ASSUME IInv, Told, [Next]_vars, NEW r \in Refs,
                    checkout'[r].status = "paid", quote'[r].how = "invoice"
             PROVE  invoice'[r].status \in {"paid", "error"}
  BY DEF PaidHasInvoice, Paid
<1>0. TypeOK
  BY DEF IInv
<1>1. quote[r] # None => quote'[r] = quote[r]
  BY <1>0, Stable
<1>2. CASE Paid(r)
  <2>1. quote[r] # None
    BY <1>2 DEF IInv, PaidIsVerified, Backed
  <2>2. invoice[r].status \in {"paid", "error"}
    BY <1>1, <1>2, <2>1 DEF Told, PaidHasInvoice
  <2> QED
    BY <1>0, <2>2, SettledStays
<1>3. ASSUME NEW p \in Procs, At(p, "put_checkout"), proc[p].ref = r
      PROVE  invoice'[r].status \in {"paid", "error"}
  <2>1. invoice[r].status \in {"paid", "error"}
    BY <1>3 DEF Told, InvoiceFirst
  <2> QED
    BY <1>0, <2>1, SettledStays
<1>4. ASSUME NEW p \in Procs, At(p, "manual_checkout"), proc[p].ref = r PROVE FALSE
  <2>1. quote[r] # None
    BY <1>4, VerifiedQuoted DEF At, Verified
  <2>2. quote[r].how = "manual"
    BY <1>4 DEF Told, ByHand
  <2> QED
    BY <1>1, <2>1, <2>2
<1>5. ASSUME sweep[r] # None PROVE FALSE
  BY <1>1, <1>5 DEF IInv, LegacyRowsKnown
<1> QED
  BY <1>0, <1>2, <1>3, <1>4, <1>5, CheckoutSteps DEF Paid, NoRow

LEMMA NextToldOnce == IInv /\ Told /\ [Next]_vars => ToldOnce'
<1> SUFFICES ASSUME IInv, Told, [Next]_vars, NEW r \in told'
             PROVE  quote'[r] # None /\ (quote'[r].how # "manual" => Paid(r)')
  BY DEF ToldOnce
<1>0. TypeOK /\ r \in Refs
  BY NextType DEF IInv, TypeOK, StoreTypeOK
<1>1. quote[r] # None => quote'[r] = quote[r]
  BY <1>0, Stable
<1>2. CASE Paid(r)
  <2>1. quote[r] # None
    BY <1>0, <1>2 DEF IInv, PaidIsVerified, Backed
  <2> QED
    BY <1>0, <1>1, <1>2, <2>1, PaidStays
<1>3. CASE r \in told
  <2>1. quote[r] # None /\ (quote[r].how # "manual" => Paid(r))
    BY <1>3 DEF Told, ToldOnce
  <2> QED
    BY <1>0, <1>1, <2>1, PaidStays
<1>4. ASSUME NEW p \in Procs, At(p, "manual_checkout"), proc[p].ref = r
      PROVE  quote'[r] # None /\ quote'[r].how = "manual"
  <2>1. quote[r] # None
    BY <1>4, VerifiedQuoted DEF At, Verified
  <2> QED
    BY <1>1, <1>4, <2>1 DEF Told, ByHand
<1> QED
  BY <1>0, <1>2, <1>3, <1>4, ToldSteps

LEMMA InductiveTold == Spec => []Told
<1>1. IInv /\ Told /\ [Next]_vars => Told'
  BY NextWriting, NextPaidHasInvoice, NextToldOnce DEF Told
<1> QED
  BY <1>1, InitTold, Inductive, PTL DEF Spec

\* A paid checkout that an invoice created has its row in table invoice, however
\* finalizations, late confirms, cancels and crashes interleave: PaidHasInvoice.
THEOREM PaidIsInvoiced == Spec => []PaidHasInvoice
<1>1. Told => PaidHasInvoice
  BY DEF Told
<1> QED
  BY <1>1, InductiveTold, PTL

\* What a client was told is paid stays recorded as paid, manual-verify apart:
\* ToldIsPaid.
THEOREM ToldStaysPaid == Spec => []ToldIsPaid
<1>1. Told => ToldIsPaid
  BY DEF Told, ToldOnce, ToldIsPaid
<1> QED
  BY <1>1, InductiveTold, PTL
=============================================================================
