------------------------------- MODULE Checkout -------------------------------
(***************************************************************************)
(* The legacy public checkout: the handlers of backend/api/checkout.go and *)
(* the reconciler of backend/watcher, run by concurrent requests.  A       *)
(* request is a process; each of its steps is one call to Redis,           *)
(* PostgreSQL or the RPC node, and requests interleave between the steps,  *)
(* for the code holds no lock and opens no transaction.                    *)
(***************************************************************************)
EXTENDS PaymentStore

CONSTANTS
  Procs,      \* requests in flight at the same time
  Ops         \* the handlers clients call, and "watcher" if it runs

ASSUME OpsAssumption ==
  Ops \subseteq {"create", "cancel", "confirm", "recheck", "detect", "manual", "watcher"}

VARIABLES
  proc,       \* the state of each request
  sweep,      \* the reconciler's result set: the signature of each row to try
  recent      \* the rows created within the last 24 hours

vars == <<event, quote, redis, invoice, checkout, landed, told, proc, sweep, recent>>

\* A handler's local variables: where it is, its reference and signature, and
\* the event and participant it has read but not yet stored.
ProcSet == [
  pc  : {"idle", "create_hset", "create_expire", "cancel_invoice", "cancel_redis",
         "verify", "email", "put_invoice", "put_checkout", "finish",
         "manual_verify", "manual_invoice", "manual_checkout"},
  op  : {"none", "create", "cancel", "confirm", "recheck", "detect", "manual"},
  ref : Refs \cup {None},
  sig : Sigs \cup {None},
  inv : QuoteSet \cup {None}]

Idle == [pc |-> "idle", op |-> "none", ref |-> None, sig |-> None, inv |-> None]

TypeOK ==
  /\ StoreTypeOK
  /\ proc \in [Procs -> ProcSet]
  /\ sweep \in [Refs -> Sigs \cup {None}]
  /\ recent \subseteq Refs

-----------------------------------------------------------------------------
(* Moving a request. *)

At(p, pc)   == proc[p].pc = pc
Goto(p, pc) == proc' = [proc EXCEPT ![p].pc = pc]
Return(p)   == proc' = [proc EXCEPT ![p] = Idle]
Begin(p, op, pc, r, s, inv) ==
  /\ op \in Ops /\ At(p, "idle")
  /\ proc' = [proc EXCEPT ![p] = [pc |-> pc, op |-> op, ref |-> r, sig |-> s, inv |-> inv]]

-----------------------------------------------------------------------------
(* CreateCheckoutInvoice. *)

\* The event is active and its window open, and the e-mail is not used.
CreateStart(p) == \E e \in Events, m \in Emails \cup {None} :
  /\ event[e].exists /\ event[e].open
  /\ ~EmailUsed(e, m)
  /\ Begin(p, "create", "create_hset", None, None,
           [how |-> "invoice", event |-> e, terms |-> event[e].terms, email |-> m, payer |-> None])
  /\ UNCHANGED <<storeVars, sweep, recent>>

CreateHSet(p) == \E r \in Refs :
  /\ At(p, "create_hset") /\ FreshRef(r)
  /\ PutRedis(r, proc[p].inv)
  /\ proc' = [proc EXCEPT ![p].pc = "create_expire", ![p].ref = r]
  /\ UNCHANGED <<event, invoice, checkout, landed, told, sweep, recent>>

CreateExpire(p) ==
  /\ At(p, "create_expire")
  /\ SetTTL(proc[p].ref)
  /\ Return(p)
  /\ UNCHANGED <<event, quote, invoice, checkout, landed, told, sweep, recent>>

-----------------------------------------------------------------------------
(* CancelCheckoutInvoice: three statements whose errors are ignored. *)

\* A slip: DELETE without its condition on the status.
CancelStartAnyStatus(p) == \E r \in Refs :
  /\ Begin(p, "cancel", "cancel_invoice", r, None, None)
  /\ checkout' = [checkout EXCEPT ![r] = NoRow]
  /\ UNCHANGED <<event, quote, redis, invoice, landed, told, sweep, recent>>

CancelStart(p) == \E r \in Refs :
  /\ Begin(p, "cancel", "cancel_invoice", r, None, None)
  /\ \/ /\ checkout[r] = [status |-> "pending_payment", sig |-> None]
        /\ checkout' = [checkout EXCEPT ![r] = NoRow]
     \/ UNCHANGED checkout
  /\ UNCHANGED <<event, quote, redis, invoice, landed, told, sweep, recent>>

\* The same slip in table invoice.
CancelInvoiceAnyStatus(p) ==
  /\ At(p, "cancel_invoice")
  /\ invoice' = [invoice EXCEPT ![proc[p].ref] = NoRow]
  /\ Goto(p, "cancel_redis")
  /\ UNCHANGED <<event, quote, redis, checkout, landed, told, sweep, recent>>

CancelInvoice(p) ==
  /\ At(p, "cancel_invoice")
  /\ \/ /\ invoice[proc[p].ref] = [status |-> "pending", sig |-> None]
        /\ invoice' = [invoice EXCEPT ![proc[p].ref] = NoRow]
     \/ UNCHANGED invoice
  /\ Goto(p, "cancel_redis")
  /\ UNCHANGED <<event, quote, redis, checkout, landed, told, sweep, recent>>

CancelRedis(p) ==
  /\ At(p, "cancel_redis")
  /\ DelRedis(proc[p].ref) \/ UNCHANGED redis
  /\ Return(p)
  /\ UNCHANGED <<event, quote, invoice, checkout, landed, told, sweep, recent>>

-----------------------------------------------------------------------------
(* ConfirmCheckoutPayment, RecheckCheckoutPayment and DetectCheckoutPayment:   *)
(* each reads the invoice from Redis, verifies a transaction and finalizes.    *)

ConfirmStart(p) == \E r \in Refs, s \in Sigs :
  /\ redis[r] # "absent"
  /\ Begin(p, "confirm", "verify", r, s, None)
  /\ UNCHANGED <<storeVars, sweep, recent>>

\* Recheck and detect answer at once if they find the row paid (ReportPaid), but go
\* on if the query for it fails: nothing keeps them from a row that is paid.
RecheckStart(p) == \E r \in Refs, s \in Sigs :
  /\ redis[r] # "absent"
  /\ Begin(p, "recheck", "verify", r, s, None)
  /\ UNCHANGED <<storeVars, sweep, recent>>

DetectStart(p, r) ==
  /\ redis[r] # "absent"
  /\ Begin(p, "detect", "verify", r, None, None)
  /\ UNCHANGED <<storeVars, sweep, recent>>

\* A handler that finds the checkout paid says so at once: recheck, detect,
\* and the status endpoints.
ReportPaid(r) ==
  /\ Paid(r)
  /\ told' = told \cup {r}
  /\ UNCHANGED <<event, quote, redis, invoice, checkout, landed, proc, sweep, recent>>

\* detect finds a signature among the merchant's recent transactions; the
\* others verify the one they were given.
VerifyOk(p) == \E s \in Sigs :
  /\ At(p, "verify")
  /\ proc[p].op # "detect" => s = proc[p].sig
  /\ Verifies(s, proc[p].ref, quote[proc[p].ref].terms)
  /\ proc' = [proc EXCEPT ![p].pc = "email", ![p].sig = s]
  /\ UNCHANGED <<storeVars, sweep, recent>>

\* A slip: the status the other table uses.
VerifyFailAsFailed(p) ==
  /\ At(p, "verify")
  /\ proc[p].op = "confirm" /\ PutInvoice(proc[p].ref, "failed", proc[p].sig)
  /\ Return(p)
  /\ UNCHANGED <<event, quote, redis, checkout, landed, told, sweep, recent>>

\* Verification can always fail: the node may be down, slow or behind.  Only
\* confirm keeps a trace, and ignores whether it was written.
VerifyFail(p) ==
  /\ At(p, "verify")
  /\ \/ proc[p].op = "confirm" /\ PutInvoice(proc[p].ref, "error", proc[p].sig)
     \/ UNCHANGED invoice
  /\ Return(p)
  /\ UNCHANGED <<event, quote, redis, checkout, landed, told, sweep, recent>>

-----------------------------------------------------------------------------
(* finalizePaidCheckout: three statements, without a transaction. *)

\* A slip: finalize trusts the check made when the invoice was created.
EmailUnchecked(p) ==
  /\ At(p, "email")
  /\ Goto(p, "put_invoice")
  /\ UNCHANGED <<storeVars, sweep, recent>>

EmailChecked(p) ==
  /\ At(p, "email")
  /\ IF EmailTaken(proc[p].ref) THEN Return(p) ELSE Goto(p, "put_invoice")
  /\ UNCHANGED <<storeVars, sweep, recent>>

WriteInvoice(p) ==
  /\ At(p, "put_invoice")
  /\ PutInvoice(proc[p].ref, "paid", proc[p].sig)
  /\ Goto(p, "put_checkout")
  /\ UNCHANGED <<event, quote, redis, checkout, landed, told, sweep, recent>>

WriteCheckout(p) ==
  /\ At(p, "put_checkout")
  /\ PutCheckoutPaid(proc[p].ref, proc[p].sig)
  /\ Goto(p, "finish")
  /\ UNCHANGED <<event, quote, redis, invoice, landed, told, sweep, recent>>

\* Back in the handler: the Redis key is deleted, its error ignored, and the
\* response carries the row's status.
Finish(p) ==
  /\ At(p, "finish")
  /\ DelRedis(proc[p].ref) \/ UNCHANGED redis
  /\ told' = IF Paid(proc[p].ref) THEN told \cup {proc[p].ref} ELSE told
  /\ Return(p)
  /\ UNCHANGED <<event, quote, invoice, checkout, landed, sweep, recent>>

-----------------------------------------------------------------------------
(* ManualVerifyCheckoutPayment: a transfer without a reference. *)

ManualStart(p) == \E e \in Events, s \in Sigs, w \in Wallets, m \in Emails \cup {None} :
  /\ event[e].exists
  /\ Begin(p, "manual", "manual_verify", None, s,
           [how |-> "manual", event |-> e, terms |-> event[e].terms, email |-> m, payer |-> w])
  /\ UNCHANGED <<storeVars, sweep, recent>>

ManualVerified(p) == \E r \in Refs :
  /\ At(p, "manual_verify") /\ FreshRef(r)
  /\ VerifiesDirect(proc[p].sig, proc[p].inv.terms, proc[p].inv.payer)
  /\ quote' = [quote EXCEPT ![r] = proc[p].inv]
  /\ proc' = [proc EXCEPT ![p].pc = "manual_invoice", ![p].ref = r]
  /\ UNCHANGED <<event, redis, invoice, checkout, landed, told, sweep, recent>>

\* Both inserts ignore their errors.
ManualInvoice(p) ==
  /\ At(p, "manual_invoice")
  /\ PutInvoice(proc[p].ref, "paid", proc[p].sig) \/ UNCHANGED invoice
  /\ Goto(p, "manual_checkout")
  /\ UNCHANGED <<event, quote, redis, checkout, landed, told, sweep, recent>>

ManualCheckout(p) ==
  /\ At(p, "manual_checkout")
  /\ PutCheckoutPaid(proc[p].ref, proc[p].sig) \/ UNCHANGED checkout
  /\ told' = told \cup {proc[p].ref}
  /\ Return(p)
  /\ UNCHANGED <<event, quote, redis, invoice, landed, sweep, recent>>

-----------------------------------------------------------------------------
(* RecoverErrorInvoices, the reconciler, one pass at a time. *)

\* A slip: the reconciler passes over what an earlier pass marked failed.
RecoverablePending(r) ==
  r \in recent /\ checkout[r].status = "pending_payment" /\ checkout[r].sig # None

Recoverable(r) ==
  r \in recent /\ checkout[r].status \in {"pending_payment", "failed"} /\ checkout[r].sig # None

SweepStart ==
  /\ "watcher" \in Ops
  /\ \A r \in Refs : sweep[r] = None
  /\ \E r \in Refs : Recoverable(r)
  /\ sweep' = [r \in Refs |-> IF Recoverable(r) THEN checkout[r].sig ELSE None]
  /\ UNCHANGED <<storeVars, proc, recent>>

\* The amount is the row's, the merchant the event's.
SweepTerms(r) == [quote[r].terms EXCEPT !.merchant = event[quote[r].event].terms.merchant]

\* A slip: a row with a signature is taken for a row whose transfer was verified.
SweepPaidUnverified(r) ==
  /\ sweep[r] # None
  /\ checkout' = [checkout EXCEPT ![r] =
       IF @.status = "none" THEN @ ELSE [status |-> "paid", sig |-> sweep[r]]]
  /\ sweep' = [sweep EXCEPT ![r] = None]
  /\ UNCHANGED <<event, quote, redis, invoice, landed, told, proc, recent>>

\* markCheckoutPaid: by row id, whatever the row's status is by then.
SweepPaid(r) ==
  /\ sweep[r] # None
  /\ Verifies(sweep[r], r, SweepTerms(r))
  /\ checkout' = [checkout EXCEPT ![r] =
       IF @.status = "none" THEN @ ELSE [status |-> "paid", sig |-> sweep[r]]]
  /\ sweep' = [sweep EXCEPT ![r] = None]
  /\ UNCHANGED <<event, quote, redis, invoice, landed, told, proc, recent>>

\* A slip: marked failed without looking at the status again.
SweepFailUnguarded(r) ==
  /\ sweep[r] # None
  /\ checkout' = [checkout EXCEPT ![r].status = IF @ = "none" THEN @ ELSE "failed"]
  /\ sweep' = [sweep EXCEPT ![r] = None]
  /\ UNCHANGED <<event, quote, redis, invoice, landed, told, proc, recent>>

\* Still not verified (or the update failed): a row older than an hour is
\* marked failed, unless it is paid.
SweepFail(r) ==
  /\ sweep[r] # None
  /\ checkout' = [checkout EXCEPT ![r].status =
       IF @ \in {"none", "paid"} THEN @ ELSE "failed"] \/ UNCHANGED checkout
  /\ sweep' = [sweep EXCEPT ![r] = None]
  /\ UNCHANGED <<event, quote, redis, invoice, landed, told, proc, recent>>

-----------------------------------------------------------------------------
(* Time and faults. *)

\* A row turns 24 hours old: the reconciler no longer looks at it.
AgeOut(r) ==
  /\ r \in recent
  /\ recent' = recent \ {r}
  /\ UNCHANGED <<storeVars, proc, sweep>>

\* A statement or a call fails and the handler returns its error.
Fail(p) ==
  /\ proc[p].pc \in {"create_hset", "create_expire", "email", "put_invoice",
                     "put_checkout", "manual_verify"}
  /\ Return(p)
  /\ UNCHANGED <<storeVars, sweep, recent>>

\* The server stops and is started again.
Crash ==
  /\ \E p \in Procs : ~At(p, "idle")
  /\ proc' = [p \in Procs |-> Idle]
  /\ sweep' = [r \in Refs |-> None]
  /\ UNCHANGED <<storeVars, recent>>

-----------------------------------------------------------------------------
Init ==
  /\ StoreInit
  /\ proc = [p \in Procs |-> Idle]
  /\ sweep = [r \in Refs |-> None]
  /\ recent = LegacyDrawn

Starts(p) ==
  \/ CreateStart(p) \/ CancelStart(p) \/ ManualStart(p)
  \/ ConfirmStart(p) \/ RecheckStart(p) \/ \E r \in Refs : DetectStart(p, r)

Answered(p) ==
  \/ CreateHSet(p) \/ CreateExpire(p) \/ CancelInvoice(p) \/ CancelRedis(p)
  \/ VerifyOk(p)
  \/ EmailChecked(p) \/ WriteInvoice(p) \/ WriteCheckout(p) \/ Finish(p)
  \/ ManualVerified(p) \/ ManualInvoice(p) \/ ManualCheckout(p)

Continue(p) == Answered(p) \/ VerifyFail(p) \/ Fail(p)

Handler(p) == Starts(p) \/ Continue(p)

Watcher == SweepStart \/ \E r \in Refs : SweepPaid(r) \/ SweepFail(r)

World ==
  \/ Environment /\ UNCHANGED <<proc, sweep, recent>>
  \/ \E r \in Refs : AgeOut(r)

Serve ==
  \/ \E p \in Procs : Handler(p)
  \/ \E r \in Refs : ReportPaid(r)
  \/ Watcher
  \/ World

Next == Serve \/ Crash

Spec == Init /\ [][Next]_vars

-----------------------------------------------------------------------------
(* Fairness.  A request, once begun, goes on until it returns, for every call *)
(* it makes has a timeout; the reconciler's ticker keeps firing; and an       *)
(* outage ends: from some time on every step is one of a calm time, when      *)
(* calls succeed where they can and the server stays up.  Nothing is assumed  *)
(* of the clients, of Redis' clock or of the chain.                           *)
Calm ==
  \/ \E p \in Procs :
       \/ Starts(p) \/ Answered(p)
       \/ VerifyFail(p) /\ ~ENABLED VerifyOk(p)
       \/ Fail(p) /\ At(p, "manual_verify")
  \/ \E r \in Refs :
       \/ ReportPaid(r) \/ SweepPaid(r)
       \/ SweepFail(r) /\ ~ENABLED SweepPaid(r)
  \/ SweepStart
  \/ World

Fairness ==
  /\ \A p \in Procs : WF_vars(Continue(p))
  /\ WF_vars(SweepStart)
  /\ \A r \in Refs : WF_vars(SweepPaid(r) \/ SweepFail(r))
  /\ <>[][Calm]_vars

FairSpec == Spec /\ Fairness

-----------------------------------------------------------------------------
(* Properties. *)

\* The transfer s pays reference r on the quote q.
PaysQuote(s, r, q) ==
  IF q.how = "manual" THEN PaysDirect(s, q.terms, q.payer) ELSE PaysRef(s, r, q.terms)

Backed(r, s) == quote[r] # None /\ s \in landed /\ PaysQuote(s, r, quote[r])

\* A paid row, of either table, carries the signature of a confirmed transfer of
\* the quoted amount to the quoted merchant that names the reference (or comes
\* from the claimed wallet): whatever requests interleave, fail or crash, no
\* handler writes 'paid' before its own verification succeeded.
PaidIsVerified == \A r \in Refs :
  /\ Paid(r) => Backed(r, checkout[r].sig)
  /\ invoice[r].status = "paid" => Backed(r, invoice[r].sig)

\* The two upserts of finalizePaidCheckout are not one transaction, but they are
\* ordered: a paid checkout created by an invoice always has its row in table
\* invoice, which never falls back to pending or disappears.
PaidHasInvoice == \A r \in Refs :
  Paid(r) /\ quote[r].how = "invoice" => invoice[r].status \in {"paid", "error"}

\* What a client has been told is paid stays recorded as paid, through cancels of
\* the same reference, late confirms, reconciler passes and crashes.  Not for
\* manual-verify, whose inserts ignore their errors.
ToldIsPaid == \A r \in told : quote[r].how # "manual" => Paid(r)

\* "Bound rule: 1 email = 1 paid transaction per event."  Two checkouts of one
\* address are never both paid.
OneEmailPerEvent == \A r, o \in Refs :
  Paid(r) /\ Paid(o) /\ r # o /\ quote[r].event = quote[o].event
    => \/ None \in {quote[r].email, quote[o].email}
       \/ Address[quote[r].email] # Address[quote[o].email]

\* The checkout implements the receipts it promises: a paid row is a receipt, and
\* no step of any handler withdraws one or issues one that no transfer backs.
receiptBar == [r \in Refs |-> IF Paid(r) THEN checkout[r].sig ELSE None]

R == INSTANCE Receipts WITH Quotes <- QuoteSet, Pays <- PaysQuote, receipt <- receiptBar

ImplementsReceipts == R!RSpec

\* The page asks detect about r.
Polls(r) == \E p \in Procs : DetectStart(p, r)

\* A confirmed transfer for a reference whose page goes on polling is recorded,
\* unless the Redis key goes first (20 minutes, or a cancel) or the e-mail was
\* used: no interleaving makes the polls miss it for ever.
LandedIsRecorded == \A r \in Refs : []<><<Polls(r)>>_vars =>
  ((quote[r] # None /\ redis[r] # "absent" /\ \E s \in Sigs : Verifies(s, r, quote[r].terms))
     ~> (Paid(r) \/ redis[r] = "absent" \/ EmailTaken(r)))

\* A checkout left with a signature and no verdict is recovered by the reconciler
\* once its transfer is confirmed, if that happens within its first 24 hours.
SignedIsRecovered == \A r \in Refs :
  (Recoverable(r) /\ Verifies(checkout[r].sig, r, SweepTerms(r)))
    ~> (Paid(r) \/ r \notin recent)

\* The same for a confirm that left its invoice in error.
ErrorIsRecovered == \A r \in Refs :
  (invoice[r].status = "error" /\ Verifies(invoice[r].sig, r, quote[r].terms)) ~> Paid(r)
=============================================================================
