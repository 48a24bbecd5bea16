--------------------------- MODULE EmailRuleProofs ---------------------------
(***************************************************************************)
(* The rule of one paid checkout per e-mail and event.  The code breaks it *)
(* (OneEmailPerEvent, run checkout_race); proved here is that a request    *)
(* breaks it only in the race between finalize's query and its write, with *)
(* any number of requests, references, events and addresses.               *)
(***************************************************************************)
EXTENDS EmailRule, PaymentSessionsProofs

USE StoreAssumption, VOpsAssumption DEF storeVars

\* A request that has passed finalize's query and not yet written the checkout.
PDeciding(p) == proc[p].pc \in {"put_invoice", "put_checkout"}
VDeciding(q) == req[q].pc \in {"put_invoice", "put_checkout"}

\* A checkout that a request is about to make paid has no paid rival that its query
\* could have found: what makes the theorem inductive.
RivalsOvertook == \A r, o \in Refs :
  Deciding(r) /\ Paid(o) /\ Rivals(r, o) => o \in overtaken[r]

-----------------------------------------------------------------------------
(* Who makes a checkout paid, and how a request comes to decide. *)

LEMMA NewlyPaid ==
  ASSUME TypeOK, [Next]_vars, NEW r \in Refs, ~Paid(r), Paid(r)'
  PROVE  \/ \E p \in Procs : (WriteCheckout(p) \/ ManualCheckout(p)) /\ proc[p].ref = r
         \/ sweep'[r] # sweep[r]
<1> USE DEF TypeOK, StoreTypeOK
<1>1. ASSUME UNCHANGED checkout PROVE FALSE
  BY <1>1 DEF Paid
<1>2. ASSUME NEW p \in Procs, WriteCheckout(p) \/ ManualCheckout(p) PROVE proc[p].ref = r
  BY <1>2 DEF WriteCheckout, ManualCheckout, PutCheckoutPaid, Paid
<1>3. ASSUME NEW p \in Procs, CancelStart(p) PROVE FALSE
  BY <1>3 DEF CancelStart, NoRow, Paid
<1>4. ASSUME NEW o \in Refs, SweepPaid(o) PROVE sweep'[r] # sweep[r]
  BY <1>4 DEF SweepPaid, Paid
<1>5. ASSUME NEW o \in Refs, SweepFail(o) PROVE FALSE
  BY <1>5 DEF SweepFail, CheckoutSet, Paid
<1> QED
  BY <1>1, <1>2, <1>3, <1>4, <1>5 DEF Next, Serve, Handler, Starts, Continue, Answered, vars,
     CreateStart, CreateHSet, CreateExpire, CancelInvoice, CancelRedis, ConfirmStart,
     RecheckStart, DetectStart, VerifyOk, VerifyFail, EmailChecked, WriteInvoice,
     Finish, ManualStart, ManualVerified, ManualInvoice, Fail,
     ReportPaid, Watcher, SweepStart, World, AgeOut, Environment, Land, ExpireKey, CloseWindow, EditEvent, Crash

LEMMA ProcSteps ==
  ASSUME TypeOK, [Next]_vars, NEW p \in Procs
  PROVE  proc'[p] = proc[p] \/ Handler(p) \/ proc'[p] = Idle
<1> USE DEF TypeOK
<1>1. ASSUME NEW o \in Procs, Handler(o), o # p PROVE proc'[p] = proc[p]
  BY <1>1 DEF Handler, Starts, Continue, Answered,
     CreateStart, CreateHSet, CreateExpire, CancelStart, CancelInvoice, CancelRedis, ConfirmStart,
     RecheckStart, DetectStart, VerifyOk, VerifyFail, EmailChecked, WriteInvoice,
     WriteCheckout, Finish, ManualStart, ManualVerified, ManualInvoice, ManualCheckout, Fail,
     Begin, Goto, Return
<1>2. CASE Crash
  BY <1>2 DEF Crash
<1>3. CASE (\E r \in Refs : ReportPaid(r)) \/ Watcher \/ World \/ UNCHANGED vars
  BY <1>3 DEF ReportPaid, Watcher, SweepStart, SweepPaid, SweepFail, World, AgeOut, vars
<1> QED
  BY <1>1, <1>2, <1>3 DEF Next, Serve

LEMMA DecidingSteps ==
  ASSUME TypeOK, [Next]_vars, NEW p \in Procs, PDeciding(p)'
  PROVE  \/ proc'[p] = proc[p]
         \/ /\ UNCHANGED <<quote, checkout>> /\ proc'[p].ref = proc[p].ref
            /\ PDeciding(p) \/ ~EmailTaken(proc[p].ref)
<1> USE DEF TypeOK
<1>1. CASE EmailChecked(p) \/ WriteInvoice(p)
  <2>1. ~Return(p)
    BY DEF Return, Idle, PDeciding
  <2>2. /\ UNCHANGED <<quote, checkout>>
        /\ Goto(p, "put_invoice") \/ Goto(p, "put_checkout")
        /\ At(p, "put_invoice") \/ ~EmailTaken(proc[p].ref)
    BY <1>1, <2>1 DEF EmailChecked, WriteInvoice
  <2>3. proc'[p].ref = proc[p].ref
    BY <2>2 DEF Goto, ProcSet
  <2> QED
    BY <2>2, <2>3 DEF PDeciding, At
<1>2. CASE Handler(p) /\ ~EmailChecked(p) /\ ~WriteInvoice(p)
  <2>1. FALSE
    BY <1>2 DEF PDeciding, ProcSet, Handler, Starts, Continue, Answered,
       CreateStart, CreateHSet, CreateExpire, CancelStart, CancelInvoice, CancelRedis, ConfirmStart,
       RecheckStart, DetectStart, VerifyOk, VerifyFail,
       WriteCheckout, Finish, ManualStart, ManualVerified, ManualInvoice, ManualCheckout, Fail,
       Begin, Goto, Return, Idle
  <2> QED
    BY <2>1
<1>3. CASE proc'[p] = Idle
  BY <1>3 DEF PDeciding, Idle
<1> QED
  BY <1>1, <1>2, <1>3, ProcSteps

LEMMA VDecidingSteps ==
  ASSUME SInv, NEW q \in Reqs, VHandler(q), VDeciding(q)'
  PROVE  /\ UNCHANGED <<quote, checkout>> /\ req'[q].ref = req[q].ref
         /\ VDeciding(q) \/ ~EmailTaken(req[q].ref)
<1> USE DEF SInv, STypeOK
<1>1. CASE VEmailFree(q) \/ VWriteInvoice(q)
  <2>1. /\ UNCHANGED <<quote, checkout>>
        /\ VGoto(q, "put_invoice") \/ VGoto(q, "put_checkout")
        /\ VAt(q, "put_invoice") \/ ~EmailTaken(req[q].ref)
    BY <1>1 DEF VEmailFree, VWriteInvoice, vars
  <2>2. req'[q].ref = req[q].ref
    BY <2>1 DEF VGoto, ReqSet
  <2> QED
    BY <2>1, <2>2 DEF VDeciding, VAt
<1>2. CASE ~VEmailFree(q) /\ ~VWriteInvoice(q)
  <2>1. FALSE
    BY <1>2 DEF VDeciding, ReqSet, VHandler, VCreateStart, VCreateHSet, VCreateExpire, VCreateInsert,
       VCreateRefused, VCreateSave, VSubmitStart, VSubmitMark, VDetectStart, VVerifyOk,
       VVerifyFail, VEmailRefused, VFinalizeFail, GiveUp, VWriteCheckout,
       VSettle, VFinish, VCancelStart, VCancelMark, VCancelRows, VFail, VBegin, VGoto, VReturn, Free
  <2> QED
    BY <2>1
<1> QED
  BY <1>1, <1>2

\* Quotes are final in the composition too.
LEMMA SStable ==
  ASSUME SInv, [SNext]_svars, NEW r \in Refs, quote[r] # None
  PROVE  quote'[r] = quote[r]
<1>1. TypeOK
  BY DEF SInv, STypeOK
<1>2. CASE SCrash
  BY <1>2 DEF SCrash
<1> QED
  BY <1>1, <1>2, StepKinds, Stable, VStable

\* A reference that is decided about was drawn.
LEMMA DecidingQuoted ==
  ASSUME SInv, NEW r \in Refs, Deciding(r)
  PROVE  quote[r] # None
<1>1. IInv
  BY DEF SInv
<1>2. ASSUME NEW p \in Procs, PDeciding(p), proc[p].ref = r PROVE quote[r] # None
  BY <1>1, <1>2, VerifiedQuoted DEF PDeciding, Verified
<1>3. ASSUME NEW q \in Reqs, VDeciding(q), req[q].ref = r PROVE quote[r] # None
  BY <1>3 DEF SInv, VInFlight, VCarries, VDeciding, VVerified, Creating, Backed
<1> QED
  BY <1>2, <1>3 DEF Deciding, PDeciding, VDeciding

\* A request that decides did so before, or has just found the address free.
LEMMA DecidingBefore ==
  ASSUME SInv, [SNext]_svars, NEW r \in Refs, Deciding(r)'
  PROVE  Deciding(r) \/ (UNCHANGED <<quote, checkout>> /\ ~EmailTaken(r))
<1>0. IInv /\ TypeOK
  BY DEF SInv, STypeOK
<1>1. ASSUME NEW p \in Procs, PDeciding(p)', proc'[p].ref = r, proc'[p] = proc[p] PROVE Deciding(r)
  BY <1>1 DEF PDeciding, Deciding
<1>2. ASSUME NEW q \in Reqs, VDeciding(q)', req'[q].ref = r, req'[q] = req[q] PROVE Deciding(r)
  BY <1>2 DEF VDeciding, Deciding
<1>3. ASSUME NEW p \in Procs, PDeciding(p)', proc'[p].ref = r, [Next]_vars
      PROVE  Deciding(r) \/ (UNCHANGED <<quote, checkout>> /\ ~EmailTaken(r))
  <2>1. CASE /\ UNCHANGED <<quote, checkout>> /\ proc'[p].ref = proc[p].ref
             /\ PDeciding(p) \/ ~EmailTaken(proc[p].ref)
    BY <1>3, <2>1 DEF PDeciding, Deciding
  <2> QED
    BY <1>0, <1>1, <1>3, <2>1, DecidingSteps
<1>4. ASSUME NEW q \in Reqs, VDeciding(q)', req'[q].ref = r, VHandler(q)
      PROVE  Deciding(r) \/ (UNCHANGED <<quote, checkout>> /\ ~EmailTaken(r))
  <2>1. /\ UNCHANGED <<quote, checkout>> /\ req'[q].ref = req[q].ref
        /\ VDeciding(q) \/ ~EmailTaken(req[q].ref)
    BY <1>4, VDecidingSteps
  <2> QED
    BY <1>4, <2>1 DEF VDeciding, Deciding
<1>5. \/ \E p \in Procs : PDeciding(p)' /\ proc'[p].ref = r
      \/ \E q \in Reqs : VDeciding(q)' /\ req'[q].ref = r
  BY DEF Deciding, PDeciding, VDeciding
<1>6. CASE [Next]_vars /\ UNCHANGED sessionVars
  BY <1>2, <1>3, <1>5, <1>6 DEF sessionVars
<1>7. CASE SCrash
  BY <1>5, <1>7 DEF SCrash, PDeciding, VDeciding, Idle, Free
<1>8. ASSUME NEW q \in Reqs, VHandler(q)
      PROVE  Deciding(r) \/ (UNCHANGED <<quote, checkout>> /\ ~EmailTaken(r))
  <2>1. \A p \in Procs : proc'[p] = proc[p]
    BY <1>8, VQuoteSteps
  <2>2. \A w \in Reqs : w # q => req'[w] = req[w]
    BY <1>8, OthersStay DEF SInv
  <2> QED
    BY <1>1, <1>2, <1>4, <1>5, <1>8, <2>1, <2>2
<1> QED
  BY <1>6, <1>7, <1>8, StepKinds

\* Whoever makes a checkout paid has decided about it, unless it is the reconciler or
\* manual-verify.
LEMMA WriterDecides ==
  ASSUME SInv, STold, [SNext]_svars, UNCHANGED sweep,
         NEW r \in Refs, r \in BecomesPaid, quote[r].how # "manual"
  PROVE  Deciding(r)
<1>0. IInv /\ TypeOK /\ Told
  BY DEF SInv, STypeOK, STold
<1> USE DEF BecomesPaid
<1>1. CASE [Next]_vars
  <2>1. ASSUME NEW p \in Procs, ManualCheckout(p), proc[p].ref = r PROVE FALSE
    BY <1>0, <2>1 DEF ManualCheckout, Told, ByHand
  <2>2. ASSUME NEW p \in Procs, WriteCheckout(p), proc[p].ref = r PROVE Deciding(r)
    BY <2>2 DEF WriteCheckout, At, Deciding
  <2> QED
    BY <1>0, <1>1, <2>1, <2>2, NewlyPaid
<1>2. CASE SCrash
  BY <1>2 DEF SCrash, Paid
<1>3. ASSUME NEW q \in Reqs, VHandler(q) PROVE Deciding(r)
  <2>1. NoRow.status = "none"
    BY DEF NoRow
  <2>2. VWriteCheckout(q) /\ req[q].ref = r
    BY <1>3, <2>1, VCheckoutSteps DEF Paid
  <2> QED
    BY <2>2 DEF VWriteCheckout, VAt, Deciding
<1> QED
  BY <1>1, <1>2, <1>3, StepKinds

-----------------------------------------------------------------------------
(* The invariant, and the theorem. *)

LEMMA NextRivalsOvertook ==
  ASSUME SInv, RivalsOvertook, [SNext /\ Overtakes]_evars
  PROVE  RivalsOvertook'
<1> SUFFICES ASSUME NEW r \in Refs, NEW o \in Refs, Deciding(r)', Paid(o)', Rivals(r, o)'
             PROVE  o \in overtaken'[r]
  BY DEF RivalsOvertook
<1>1. CASE UNCHANGED evars
  BY <1>1 DEF evars, svars, vars, sessionVars, RivalsOvertook, Deciding, Paid, Rivals
<1>2. CASE SNext /\ Overtakes
  <2>1. overtaken'[r] = overtaken[r] \cup BecomesPaid
    BY <1>2 DEF Overtakes
  <2>2. CASE ~Paid(o)
    BY <2>1, <2>2 DEF BecomesPaid
  <2>3. CASE Paid(o)
    <3>1. quote'[o] = quote[o]
      BY <1>2, <2>3, SStable DEF Overtakes, SInv, IInv, PaidIsVerified, Backed
    <3>2. CASE Deciding(r)
      <4>1. quote'[r] = quote[r]
        BY <1>2, <3>2, SStable, DecidingQuoted DEF Overtakes
      <4>2. Rivals(r, o)
        BY <3>1, <4>1 DEF Rivals
      <4> QED
        BY <2>1, <2>3, <3>2, <4>2 DEF RivalsOvertook
    <3>3. CASE UNCHANGED <<quote, checkout>> /\ ~EmailTaken(r)
      <4>1. Rivals(r, o)
        BY <3>3 DEF Rivals
      <4>2. SameEmail(quote[o].email, quote[r].email)
        BY <4>1 DEF Rivals, SameEmail
      <4> QED
        BY <2>3, <3>3, <4>1, <4>2 DEF EmailTaken, Rivals
    <3> QED
      BY <1>2, <3>2, <3>3, DecidingBefore DEF Overtakes
  <2> QED
    BY <2>2, <2>3
<1> QED
  BY <1>1, <1>2

\* A request writes a second paid checkout of an address only if the first was written
\* after the request's own query for it.
THEOREM RacesOnly == ESpec => OnlyRacesRepeat
<1>1. EInit => SInit /\ RivalsOvertook
  BY DEF EInit, SInit, Init, StoreInit, RivalsOvertook, Paid, NoRow, LegacyRows
<1>2. [SNext /\ Overtakes]_evars => [SNext]_svars
  BY DEF Overtakes, evars
<1>3. SInv /\ RivalsOvertook /\ [SNext /\ Overtakes]_evars => RivalsOvertook'
  BY NextRivalsOvertook
<1>4. SInv /\ STold /\ RivalsOvertook /\ [SNext /\ Overtakes]_evars
        => [\A r \in BecomesPaid : UNCHANGED sweep /\ quote[r].how # "manual"
             => \A o \in Refs : Paid(o) /\ Rivals(r, o) => o \in overtaken[r]]_evars
  BY <1>2, WriterDecides DEF RivalsOvertook, BecomesPaid
<1> QED
  BY <1>1, <1>2, <1>3, <1>4, SInductive, SToldInductive, PTL DEF ESpec, SSpec, OnlyRacesRepeat
=============================================================================
