---------------------------- MODULE PaymentSessions ----------------------------
(***************************************************************************)
(* The v1 payment sessions of backend/api/v1_payment.go, run beside the    *)
(* public checkout.  A session adds to a reference a row of its own, with  *)
(* a state the handlers read, write without a condition and do not write   *)
(* in one transaction with the receipt.                                    *)
(***************************************************************************)
EXTENDS Checkout

CONSTANTS
  Reqs,       \* v1 requests in flight at the same time
  VOps,       \* the v1 handlers clients call
  Keys        \* values of the Idempotency-Key header; None for a request without

ASSUME VOpsAssumption ==
  /\ VOps \subseteq {"create", "submit", "cancel", "detect"}
  /\ None \notin Keys

VARIABLES
  session,    \* table payment_sessions, by reference
  attempts,   \* table payment_attempts
  saved,      \* table idempotency_records: the reference each answer is about
  req         \* the state of each v1 request

sessionVars == <<session, attempts, saved, req>>
svars == <<vars, sessionVars>>

\* One session per reference, so the reference stands for the session's id.
\* The owner is always "public_checkout": the routes carry no user.
SessionSet == [state : {"none", "awaiting_payment", "verifying", "paid", "failed", "cancelled"},
               key : Keys \cup {None}, sig : Sigs \cup {None}]

NoSession == [state |-> "none", key |-> None, sig |-> None]

AttemptSet == [ref : Refs, sig : Sigs, status : {"failed", "paid"}]
SavedSet   == [create : Refs \cup {None}, submit : Refs \cup {None}, cancel : Refs \cup {None}]

ReqSet == [
  pc  : {"idle", "hset", "expire", "insert", "save", "mark", "verify", "email",
         "put_invoice", "put_checkout", "settle", "finish", "cancel", "cancel_rows"},
  op  : {"none", "create", "submit", "cancel", "detect"},
  ref : Refs \cup {None},
  sig : Sigs \cup {None},
  key : Keys \cup {None},
  inv : QuoteSet \cup {None}]

Free == [pc |-> "idle", op |-> "none", ref |-> None, sig |-> None, key |-> None, inv |-> None]

STypeOK ==
  /\ TypeOK
  /\ session \in [Refs -> SessionSet]
  /\ attempts \subseteq AttemptSet
  /\ saved \in [Keys -> SavedSet]
  /\ req \in [Reqs -> ReqSet]

-----------------------------------------------------------------------------
(* Moving a request, and its reads and writes of the session tables. *)

VAt(q, pc)   == req[q].pc = pc
VGoto(q, pc) == req' = [req EXCEPT ![q].pc = pc]
VReturn(q)   == req' = [req EXCEPT ![q] = Free]
VBegin(q, op, pc, r, s, k, inv) ==
  /\ op \in VOps /\ VAt(q, "idle")
  /\ req' = [req EXCEPT ![q] = [pc |-> pc, op |-> op, ref |-> r, sig |-> s, key |-> k, inv |-> inv]]

Exists(r) == session[r].state # "none"

\* loadIdempotentResponse: a saved answer is replayed and nothing else is done.
Unanswered(k, endpoint) == k # None => saved[k][endpoint] = None

\* saveIdempotentResponse, its error ignored.
Save(k, endpoint, r) ==
  \/ k # None /\ saved' = [saved EXCEPT ![k][endpoint] = r]
  \/ UNCHANGED saved

\* UPDATE payment_sessions SET state: by id, whatever the state is by then, and
\* its error ignored.
SetState(r, state) == session' = [session EXCEPT ![r].state = state] \/ UNCHANGED session

\* INSERT INTO payment_attempts, its error ignored.
Attempt(r, s, status) ==
  attempts' = attempts \cup {[ref |-> r, sig |-> s, status |-> status]} \/ UNCHANGED attempts

-----------------------------------------------------------------------------
(* V1CreatePaymentSession. *)

VCreateStart(q) == \E e \in Events, m \in Emails \cup {None}, k \in Keys \cup {None} :
  /\ Unanswered(k, "create")
  /\ event[e].exists /\ event[e].open
  /\ ~EmailUsed(e, m)
  /\ VBegin(q, "create", "hset", None, None, k,
            [how |-> "invoice", event |-> e, terms |-> event[e].terms, email |-> m, payer |-> None])
  /\ UNCHANGED <<vars, session, attempts, saved>>

VCreateHSet(q) == \E r \in Refs :
  /\ VAt(q, "hset") /\ FreshRef(r)
  /\ PutRedis(r, req[q].inv)
  /\ req' = [req EXCEPT ![q].pc = "expire", ![q].ref = r]
  /\ UNCHANGED <<event, invoice, checkout, landed, told, proc, sweep, recent, session, attempts, saved>>

\* Unlike the public create, this one ignores that EXPIRE failed.
VCreateExpire(q) ==
  /\ VAt(q, "expire")
  /\ SetTTL(req[q].ref) \/ UNCHANGED redis
  /\ VGoto(q, "insert")
  /\ UNCHANGED <<event, quote, invoice, checkout, landed, told, proc, sweep, recent,
                 session, attempts, saved>>

\* A slip: no unique index, only the lookup made at the start.
NoIndex(k) == TRUE

\* The unique index on the owner and the key: a request without a key stores the
\* empty string, not NULL, and the index covers it like any other.
KeyFree(k) == \A r \in Refs : Exists(r) => session[r].key # k

\* The foreign key makes the INSERT fail once the event is gone.
VCreateInsert(q) ==
  /\ VAt(q, "insert")
  /\ KeyFree(req[q].key)
  /\ event[quote[req[q].ref].event].exists
  /\ session' = [session EXCEPT ![req[q].ref] =
                   [state |-> "awaiting_payment", key |-> req[q].key, sig |-> None]]
  /\ VGoto(q, "save")
  /\ UNCHANGED <<vars, attempts, saved>>

VCreateRefused(q) ==
  /\ VAt(q, "insert") /\ ~KeyFree(req[q].key)
  /\ VReturn(q)
  /\ UNCHANGED <<vars, session, attempts, saved>>

VCreateSave(q) ==
  /\ VAt(q, "save")
  /\ Save(req[q].key, "create", req[q].ref)
  /\ VReturn(q)
  /\ UNCHANGED <<vars, session, attempts>>

-----------------------------------------------------------------------------
(* V1SubmitSignature. *)

VSubmitStart(q) == \E r \in Refs, s \in Sigs, k \in Keys \cup {None} :
  /\ session[r].state \in {"awaiting_payment", "verifying"}
  /\ Unanswered(k, "submit")
  /\ VBegin(q, "submit", "mark", r, s, k, None)
  /\ UNCHANGED <<vars, session, attempts, saved>>

\* The state becomes verifying, and the invoice is read from Redis; without it
\* the request ends there.
VSubmitMark(q) ==
  /\ VAt(q, "mark")
  /\ SetState(req[q].ref, "verifying")
  /\ IF redis[req[q].ref] = "absent" THEN VReturn(q) ELSE VGoto(q, "verify")
  /\ UNCHANGED <<vars, attempts, saved>>

\* submit records that it failed, detect does not.
GiveUp(q) ==
  /\ \/ /\ req[q].op = "submit"
        /\ Attempt(req[q].ref, req[q].sig, "failed")
        /\ SetState(req[q].ref, "failed")
     \/ req[q].op = "detect" /\ UNCHANGED <<attempts, session>>
  /\ VReturn(q)
  /\ UNCHANGED <<vars, saved>>

-----------------------------------------------------------------------------
(* V1DetectPayment, and what submit and detect have in common. *)

\* Only a paid session is turned away; a failed or cancelled one is not.
VDetectStart(q, r) ==
  /\ Exists(r) /\ session[r].state # "paid" /\ redis[r] # "absent"
  /\ VBegin(q, "detect", "verify", r, None, None, None)
  /\ UNCHANGED <<vars, session, attempts, saved>>

\* Slips: the transaction is not looked up; or it is, but its memo is not read.
VVerifyOkUnseen(q) == \E s \in Sigs :
  /\ VAt(q, "verify")
  /\ req[q].op = "submit" => s = req[q].sig
  /\ req' = [req EXCEPT ![q].pc = "email", ![q].sig = s]
  /\ UNCHANGED <<vars, session, attempts, saved>>

VVerifyOkAnyMemo(q) == \E s \in Sigs :
  /\ VAt(q, "verify")
  /\ req[q].op = "submit" => s = req[q].sig
  /\ s \in landed /\ Tx[s].terms = quote[req[q].ref].terms
  /\ req' = [req EXCEPT ![q].pc = "email", ![q].sig = s]
  /\ UNCHANGED <<vars, session, attempts, saved>>

VVerifyOk(q) == \E s \in Sigs :
  /\ VAt(q, "verify")
  /\ req[q].op = "submit" => s = req[q].sig
  /\ Verifies(s, req[q].ref, quote[req[q].ref].terms)
  /\ req' = [req EXCEPT ![q].pc = "email", ![q].sig = s]
  /\ UNCHANGED <<vars, session, attempts, saved>>

\* The node refuses or cannot be reached, the e-mail is used, or a statement of
\* finalizePaidCheckout fails.
VVerifyFail(q) == VAt(q, "verify") /\ GiveUp(q)
VEmailRefused(q) == VAt(q, "email") /\ EmailTaken(req[q].ref) /\ GiveUp(q)
VFinalizeFail(q) == req[q].pc \in {"email", "put_invoice", "put_checkout"} /\ GiveUp(q)

VEmailFree(q) ==
  /\ VAt(q, "email") /\ ~EmailTaken(req[q].ref)
  /\ VGoto(q, "put_invoice")
  /\ UNCHANGED <<vars, session, attempts, saved>>

\* A slip: the session is settled before the receipt is written.
VWriteInvoiceLast(q) ==
  /\ VAt(q, "put_invoice")
  /\ PutInvoice(req[q].ref, "paid", req[q].sig)
  /\ VGoto(q, "settle")
  /\ UNCHANGED <<event, quote, redis, checkout, landed, told, proc, sweep, recent,
                 session, attempts, saved>>

VWriteInvoice(q) ==
  /\ VAt(q, "put_invoice")
  /\ PutInvoice(req[q].ref, "paid", req[q].sig)
  /\ VGoto(q, "put_checkout")
  /\ UNCHANGED <<event, quote, redis, checkout, landed, told, proc, sweep, recent,
                 session, attempts, saved>>

VWriteCheckout(q) ==
  /\ VAt(q, "put_checkout")
  /\ PutCheckoutPaid(req[q].ref, req[q].sig)
  /\ VGoto(q, "settle")
  /\ UNCHANGED <<event, quote, redis, invoice, landed, told, proc, sweep, recent,
                 session, attempts, saved>>

\* The attempt is logged and the session becomes paid, again ignoring errors.
VSettle(q) ==
  /\ VAt(q, "settle")
  /\ Attempt(req[q].ref, req[q].sig, "paid")
  /\ \/ session' = [session EXCEPT ![req[q].ref].state = "paid", ![req[q].ref].sig = req[q].sig]
     \/ UNCHANGED session
  /\ VGoto(q, "finish")
  /\ UNCHANGED <<vars, saved>>

\* The Redis key is deleted, the answer saved, the webhook and the client told.
VFinish(q) ==
  /\ VAt(q, "finish")
  /\ DelRedis(req[q].ref) \/ UNCHANGED redis
  /\ told' = told \cup {req[q].ref}
  /\ IF req[q].op = "submit" THEN Save(req[q].key, "submit", req[q].ref) ELSE UNCHANGED saved
  /\ VReturn(q)
  /\ UNCHANGED <<event, quote, invoice, checkout, landed, proc, sweep, recent, session, attempts>>

-----------------------------------------------------------------------------
(* V1CancelPaymentSession. *)

VCancelStart(q) == \E r \in Refs, k \in Keys \cup {None} :
  /\ Exists(r) /\ session[r].state # "paid"
  /\ Unanswered(k, "cancel")
  /\ VBegin(q, "cancel", "cancel", r, None, k, None)
  /\ UNCHANGED <<vars, session, attempts, saved>>

\* A slip: another spelling.
VCancelMarkCanceled(q) ==
  /\ VAt(q, "cancel")
  /\ SetState(req[q].ref, "canceled")
  /\ VGoto(q, "cancel_rows")
  /\ UNCHANGED <<vars, attempts, saved>>

VCancelMark(q) ==
  /\ VAt(q, "cancel")
  /\ SetState(req[q].ref, "cancelled")
  /\ VGoto(q, "cancel_rows")
  /\ UNCHANGED <<vars, attempts, saved>>

\* A slip: DELETE without its condition on the status.
VCancelRowsAnyStatus(q) ==
  /\ VAt(q, "cancel_rows")
  /\ checkout' = [checkout EXCEPT ![req[q].ref] = NoRow]
  /\ DelRedis(req[q].ref) \/ UNCHANGED redis
  /\ Save(req[q].key, "cancel", req[q].ref)
  /\ VReturn(q)
  /\ UNCHANGED <<event, quote, invoice, landed, told, proc, sweep, recent, session, attempts>>

\* The pending row and the Redis key go, and the answer is saved; the row only
\* exists for a reference of the earlier release, which has no session.
VCancelRows(q) ==
  /\ VAt(q, "cancel_rows")
  /\ \/ /\ checkout[req[q].ref] = [status |-> "pending_payment", sig |-> None]
        /\ checkout' = [checkout EXCEPT ![req[q].ref] = NoRow]
     \/ UNCHANGED checkout
  /\ DelRedis(req[q].ref) \/ UNCHANGED redis
  /\ Save(req[q].key, "cancel", req[q].ref)
  /\ VReturn(q)
  /\ UNCHANGED <<event, quote, invoice, landed, told, proc, sweep, recent, session, attempts>>

-----------------------------------------------------------------------------
\* The client stops, or HSET fails before there is anything to undo.
VFail(q) ==
  /\ req[q].pc \in {"hset", "insert"}
  /\ VReturn(q)
  /\ UNCHANGED <<vars, session, attempts, saved>>

\* The server stops with every request in it, of both interfaces.
SCrash ==
  /\ (\E p \in Procs : ~At(p, "idle")) \/ (\E q \in Reqs : ~VAt(q, "idle"))
  /\ proc' = [p \in Procs |-> Idle]
  /\ sweep' = [r \in Refs |-> None]
  /\ req' = [q \in Reqs |-> Free]
  /\ UNCHANGED <<storeVars, recent, session, attempts, saved>>

SInit ==
  /\ Init
  /\ session = [r \in Refs |-> NoSession]
  /\ attempts = {}
  /\ saved = [k \in Keys |-> [create |-> None, submit |-> None, cancel |-> None]]
  /\ req = [q \in Reqs |-> Free]

VHandler(q) ==
  \/ VCreateStart(q) \/ VCreateHSet(q) \/ VCreateExpire(q)
  \/ VCreateInsert(q) \/ VCreateRefused(q) \/ VCreateSave(q)
  \/ VSubmitStart(q) \/ VSubmitMark(q) \/ \E r \in Refs : VDetectStart(q, r)
  \/ VVerifyOk(q) \/ VVerifyFail(q) \/ VEmailFree(q) \/ VEmailRefused(q) \/ VFinalizeFail(q)
  \/ VWriteInvoice(q) \/ VWriteCheckout(q) \/ VSettle(q) \/ VFinish(q)
  \/ VCancelStart(q) \/ VCancelMark(q) \/ VCancelRows(q)
  \/ VFail(q)

SNext ==
  \/ \E q \in Reqs : VHandler(q)
  \/ Serve /\ UNCHANGED sessionVars
  \/ SCrash

SSpec == SInit /\ [][SNext]_svars

-----------------------------------------------------------------------------
(* Properties.  PaidIsVerified, ToldIsPaid and ImplementsReceipts are checked  *)
(* of the composition too: v1 requests write the same tables.                  *)

\* A session that says paid has its receipt: the session's row is written last,
\* by a request whose three other writes other requests interleave with.
SessionPaidHasReceipt == \A r \in Refs :
  session[r].state = "paid" => Paid(r) /\ session[r].sig \in Sigs

\* A create repeated with the same key is answered with the same session, though
\* the lookup, the INSERT and the save are three statements and two creates may
\* run at once.
SameAnswer == [][\A k \in Keys :
  saved[k].create # None => saved'[k].create = saved[k].create]_svars

\* "cancels unpaid session": a session that was paid is never cancelled.
PaidNotCancelled == [][\A r \in Refs :
  session[r].state = "paid" => session'[r].state # "cancelled"]_svars
=============================================================================
