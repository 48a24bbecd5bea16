------------------------ MODULE PaymentSessionsProofs ------------------------
(***************************************************************************)
(* What PaymentSessions guarantees for any number of v1 requests beside    *)
(* any number of requests of the public checkout.  The invariants of       *)
(* CheckoutProofs are carried to the composition: the two interfaces write *)
(* the same tables.                                                        *)
(***************************************************************************)
EXTENDS PaymentSessions, CheckoutProofs

USE StoreAssumption, VOpsAssumption DEF storeVars

\* A step is a step of the public checkout, a crash of both interfaces, or a
\* step of one v1 request.
LEMMA StepKinds ==
  ASSUME [SNext]_svars
  PROVE  \/ [Next]_vars /\ UNCHANGED sessionVars
         \/ SCrash
         \/ \E q \in Reqs : VHandler(q)
  BY DEF SNext, svars, sessionVars, Next

\* Six actions of a v1 request write what the public checkout reads.
LEMMA SharedWrites ==
  ASSUME NEW q \in Reqs, VHandler(q)
  PROVE  \/ UNCHANGED vars
         \/ VCreateHSet(q) \/ VCreateExpire(q) \/ VWriteInvoice(q)
         \/ VWriteCheckout(q) \/ VFinish(q) \/ VCancelRows(q)
  BY DEF VHandler, VCreateStart, VCreateInsert, VCreateRefused, VCreateSave, VSubmitStart,
         VSubmitMark, VDetectStart, VVerifyOk, VVerifyFail, VEmailFree, VEmailRefused,
         VFinalizeFail, GiveUp, VSettle, VCancelStart, VCancelMark, VFail

-----------------------------------------------------------------------------
(* What the v1 requests know: the invariant that the others rest on. *)

\* A session is inserted for a reference that a create has drawn.
SessionKnown == \A r \in Refs : Exists(r) => quote[r] # None /\ quote[r].how = "invoice"

Creating  == {"expire", "insert"}
VVerified == {"email", "put_invoice", "put_checkout", "settle", "finish"}

\* What a request carries between its reads and its writes.  A create owns its
\* reference until the INSERT; later the session exists, whatever its state.
VCarries(q) ==
  /\ VAt(q, "hset") => req[q].inv \in QuoteSet /\ req[q].inv.how = "invoice"
  /\ req[q].pc \in Creating =>
       /\ req[q].ref \in Refs /\ ~Exists(req[q].ref)
       /\ quote[req[q].ref] # None /\ quote[req[q].ref].how = "invoice"
  /\ req[q].pc \notin Creating \cup {"idle", "hset"} => req[q].ref \in Refs /\ Exists(req[q].ref)
  /\ VAt(q, "mark") => req[q].op = "submit"
  /\ req[q].op = "submit" => req[q].sig \in Sigs
  /\ req[q].pc \in VVerified => Backed(req[q].ref, req[q].sig)

VInFlight == \A q \in Reqs : VCarries(q)

\* No two creates have drawn the same reference.
Apart == \A q, w \in Reqs :
  req[q].pc \in Creating /\ req[w].pc \in Creating /\ req[q].ref = req[w].ref => q = w

SInv == IInv /\ STypeOK /\ SessionKnown /\ VInFlight /\ Apart

-----------------------------------------------------------------------------
(* Types. *)

LEMMA SInitType == SInit => STypeOK
<1> SUFFICES ASSUME SInit PROVE STypeOK
  OBVIOUS
<1>1. TypeOK
  BY InitType DEF SInit
<1>2. NoSession \in SessionSet
  BY DEF NoSession, SessionSet
<1>3. [create |-> None, submit |-> None, cancel |-> None] \in SavedSet
  BY DEF SavedSet
<1>4. Free \in ReqSet
  BY DEF Free, ReqSet
<1> QED
  BY <1>1, <1>2, <1>3, <1>4 DEF SInit, STypeOK

LEMMA ReqType ==
  ASSUME STypeOK, NEW q \in Reqs
  PROVE  /\ VReturn(q) => req' \in [Reqs -> ReqSet]
         /\ \A pc \in {"insert", "save", "verify", "put_invoice", "put_checkout",
                       "settle", "finish", "cancel_rows"} : VGoto(q, pc) => req' \in [Reqs -> ReqSet]
<1>1. Free \in ReqSet
  BY DEF Free, ReqSet
<1> QED
  BY <1>1 DEF STypeOK, VReturn, VGoto, ReqSet

LEMMA VBeginType ==
  ASSUME STypeOK, NEW q \in Reqs, NEW op, NEW pc, NEW r \in Refs \cup {None},
         NEW s \in Sigs \cup {None}, NEW k \in Keys \cup {None}, NEW inv \in QuoteSet \cup {None},
         <<op, pc>> \in {<<"create", "hset">>, <<"submit", "mark">>,
                         <<"detect", "verify">>, <<"cancel", "cancel">>},
         VBegin(q, op, pc, r, s, k, inv)
  PROVE  req' \in [Reqs -> ReqSet]
<1>1. [pc |-> pc, op |-> op, ref |-> r, sig |-> s, key |-> k, inv |-> inv] \in ReqSet
  BY DEF ReqSet
<1> QED
  BY <1>1 DEF STypeOK, VBegin

\* The statements on the session tables.
LEMMA SetStateType ==
  ASSUME STypeOK, NEW r \in Refs, NEW state \in {"verifying", "failed", "cancelled"},
         SetState(r, state)
  PROVE  session' \in [Refs -> SessionSet]
<1>1. session[r] \in SessionSet
  BY DEF STypeOK
<1>2. [session[r] EXCEPT !.state = state] \in SessionSet
  BY <1>1 DEF SessionSet
<1> QED
  BY <1>2 DEF STypeOK, SetState

LEMMA AttemptType ==
  ASSUME STypeOK, NEW r \in Refs, NEW s \in Sigs, NEW status \in {"failed", "paid"},
         Attempt(r, s, status)
  PROVE  attempts' \subseteq AttemptSet
<1>1. [ref |-> r, sig |-> s, status |-> status] \in AttemptSet
  BY DEF AttemptSet
<1> QED
  BY <1>1 DEF STypeOK, Attempt

LEMMA SaveType ==
  ASSUME STypeOK, NEW r \in Refs, NEW k \in Keys \cup {None},
         Save(k, "create", r) \/ Save(k, "submit", r) \/ Save(k, "cancel", r)
  PROVE  saved' \in [Keys -> SavedSet]
<1>1. ASSUME k \in Keys, NEW endpoint \in {"create", "submit", "cancel"}
      PROVE  [saved[k] EXCEPT ![endpoint] = r] \in SavedSet
  BY <1>1 DEF STypeOK, SavedSet
<1> QED
  BY <1>1 DEF STypeOK, Save

LEMMA NextSType == STypeOK /\ RefKnown /\ VInFlight /\ [SNext]_svars => STypeOK'
<1> SUFFICES ASSUME STypeOK, RefKnown, VInFlight, [SNext]_svars PROVE STypeOK'
  OBVIOUS
<1>0. TypeOK
  BY DEF STypeOK
<1>a. ASSUME TypeOK', UNCHANGED sessionVars PROVE STypeOK'
  BY <1>a DEF STypeOK, sessionVars
<1>b. ASSUME NEW q \in Reqs, UNCHANGED <<vars, session, attempts, saved>>, req' \in [Reqs -> ReqSet]
      PROVE  STypeOK'
  BY <1>b DEF STypeOK, TypeOK, StoreTypeOK, vars
<1>c. ASSUME UNCHANGED vars PROVE TypeOK'
  BY <1>c, <1>0 DEF TypeOK, StoreTypeOK, vars
<1>1. CASE [Next]_vars /\ UNCHANGED sessionVars
  BY <1>0, <1>1, <1>a, NextType
<1>2. CASE SCrash
  BY <1>2, <1>0 DEF SCrash, STypeOK, TypeOK, StoreTypeOK, Idle, ProcSet, Free, ReqSet
<1>3. ASSUME NEW q \in Reqs, VCreateStart(q) PROVE STypeOK'
  <2>1. PICK e \in Events, m \in Emails \cup {None}, k \in Keys \cup {None} :
          VBegin(q, "create", "hset", None, None, k,
                 [how |-> "invoice", event |-> e, terms |-> event[e].terms, email |-> m, payer |-> None])
    BY <1>3 DEF VCreateStart
  <2>2. event[e].terms \in TermSet
    BY <1>0 DEF TypeOK, StoreTypeOK, EventSet
  <2>3. [how |-> "invoice", event |-> e, terms |-> event[e].terms, email |-> m, payer |-> None] \in QuoteSet
    BY <2>2 DEF QuoteSet
  <2> QED
    BY <1>3, <1>b, <2>1, <2>3, VBeginType DEF VCreateStart
<1>4. ASSUME NEW q \in Reqs, VCreateHSet(q) PROVE STypeOK'
  <2>1. PICK r \in Refs : /\ PutRedis(r, req[q].inv)
                         /\ req' = [req EXCEPT ![q].pc = "expire", ![q].ref = r]
    BY <1>4 DEF VCreateHSet
  <2>2. req[q] \in ReqSet /\ req[q].inv \in QuoteSet \cup {None}
    BY DEF STypeOK, ReqSet
  <2>3. [req[q] EXCEPT !.pc = "expire", !.ref = r] \in ReqSet
    BY <2>2 DEF ReqSet
  <2>4. TypeOK'
    BY <1>0, <1>4, <2>1, <2>2 DEF VCreateHSet, PutRedis, TypeOK, StoreTypeOK
  <2> QED
    BY <1>4, <2>1, <2>3, <2>4 DEF VCreateHSet, STypeOK
<1>5. ASSUME NEW q \in Reqs, VCreateExpire(q) PROVE STypeOK'
  <2>1. redis' \in [Refs -> {"absent", "expiring", "persistent"}]
    BY <1>0, <1>5 DEF VCreateExpire, SetTTL, TypeOK, StoreTypeOK
  <2>2. TypeOK'
    BY <1>0, <1>5, <2>1 DEF VCreateExpire, TypeOK, StoreTypeOK
  <2> QED
    BY <1>5, <2>2, ReqType DEF VCreateExpire, STypeOK
<1>6. ASSUME NEW q \in Reqs, VCreateInsert(q) PROVE STypeOK'
  <2>1. req[q].key \in Keys \cup {None}
    BY DEF STypeOK, ReqSet
  <2>2. [state |-> "awaiting_payment", key |-> req[q].key, sig |-> None] \in SessionSet
    BY <2>1 DEF SessionSet
  <2>3. session' \in [Refs -> SessionSet]
    BY <1>6, <2>2 DEF VCreateInsert, STypeOK
  <2> QED
    BY <1>6, <1>c, <2>3, ReqType DEF VCreateInsert, STypeOK
<1>7. ASSUME NEW q \in Reqs, VCreateSave(q) PROVE STypeOK'
  <2>1. req[q].key \in Keys \cup {None} /\ req[q].ref \in Refs
    BY <1>7 DEF STypeOK, ReqSet, VInFlight, VCarries, VCreateSave, VAt, Creating
  <2>2. saved' \in [Keys -> SavedSet]
    BY <1>7, <2>1, SaveType DEF VCreateSave
  <2> QED
    BY <1>7, <1>c, <2>2, ReqType DEF VCreateSave, STypeOK
<1>8. ASSUME NEW q \in Reqs, VSubmitStart(q) PROVE STypeOK'
  <2>1. PICK r \in Refs, s \in Sigs, k \in Keys \cup {None} : VBegin(q, "submit", "mark", r, s, k, None)
    BY <1>8 DEF VSubmitStart
  <2> QED
    BY <1>8, <1>b, <2>1, VBeginType DEF VSubmitStart
<1>9. ASSUME NEW q \in Reqs, VSubmitMark(q) \/ VCancelMark(q) PROVE STypeOK'
  <2>1. req[q].ref \in Refs
    BY <1>9 DEF VInFlight, VCarries, VSubmitMark, VCancelMark, VAt, Creating
  <2>2. session' \in [Refs -> SessionSet]
    BY <1>9, <2>1, SetStateType DEF VSubmitMark, VCancelMark
  <2> QED
    BY <1>9, <1>c, <2>2, ReqType DEF VSubmitMark, VCancelMark, STypeOK
<1>10. ASSUME NEW q \in Reqs, VVerifyFail(q) \/ VEmailRefused(q) \/ VFinalizeFail(q) PROVE STypeOK'
  <2>1. GiveUp(q)
    BY <1>10 DEF VVerifyFail, VEmailRefused, VFinalizeFail
  <2>2. req[q].pc \in {"verify", "email", "put_invoice", "put_checkout"}
    BY <1>10 DEF VVerifyFail, VEmailRefused, VFinalizeFail, VAt
  <2>3. req[q].ref \in Refs /\ (req[q].op = "submit" => req[q].sig \in Sigs)
    BY <2>2 DEF VInFlight, VCarries, Creating
  <2>4. session' \in [Refs -> SessionSet] /\ attempts' \subseteq AttemptSet
    BY <2>1, <2>3, SetStateType, AttemptType DEF GiveUp, STypeOK
  <2> QED
    BY <1>c, <2>1, <2>4, ReqType DEF GiveUp, STypeOK
<1>11. ASSUME NEW q \in Reqs, NEW r \in Refs, VDetectStart(q, r) PROVE STypeOK'
  BY <1>11, <1>b, VBeginType DEF VDetectStart
<1>12. ASSUME NEW q \in Reqs, VVerifyOk(q) PROVE STypeOK'
  <2>1. PICK s \in Sigs : req' = [req EXCEPT ![q].pc = "email", ![q].sig = s]
    BY <1>12 DEF VVerifyOk
  <2>2. req[q] \in ReqSet
    BY DEF STypeOK
  <2>3. [req[q] EXCEPT !.pc = "email", !.sig = s] \in ReqSet
    BY <2>2 DEF ReqSet
  <2>4. req' \in [Reqs -> ReqSet]
    BY <2>1, <2>3 DEF STypeOK
  <2> QED
    BY <1>12, <1>b, <2>4 DEF VVerifyOk
<1>13. ASSUME NEW q \in Reqs, VWriteInvoice(q) \/ VWriteCheckout(q) PROVE STypeOK'
  <2>1. req[q].sig \in Sigs \cup {None}
    BY DEF STypeOK, ReqSet
  <2>2. TypeOK'
    BY <1>0, <1>13, <2>1, PutType DEF VWriteInvoice, VWriteCheckout, TypeOK, StoreTypeOK
  <2> QED
    BY <1>13, <2>2, ReqType DEF VWriteInvoice, VWriteCheckout, STypeOK
<1>14. ASSUME NEW q \in Reqs, VSettle(q) PROVE STypeOK'
  <2>1. req[q].ref \in Refs /\ req[q].sig \in Sigs
    BY <1>0, <1>14 DEF VInFlight, VCarries, VSettle, VAt, Creating, VVerified, Backed, TypeOK, StoreTypeOK
  <2>2. session[req[q].ref] \in SessionSet
    BY <2>1 DEF STypeOK
  <2>3. [session[req[q].ref] EXCEPT !.state = "paid", !.sig = req[q].sig] \in SessionSet
    BY <2>1, <2>2 DEF SessionSet
  <2>4. session' \in [Refs -> SessionSet]
    BY <1>14, <2>1, <2>3 DEF VSettle, STypeOK
  <2> QED
    BY <1>14, <1>c, <2>1, <2>4, ReqType, AttemptType DEF VSettle, STypeOK
<1>15. ASSUME NEW q \in Reqs, VFinish(q) PROVE STypeOK'
  <2>1. req[q].ref \in Refs /\ req[q].key \in Keys \cup {None}
    BY <1>15 DEF STypeOK, ReqSet, VInFlight, VCarries, VFinish, VAt, Creating
  <2>2. TypeOK'
    BY <1>0, <1>15, <2>1, PutType DEF VFinish, TypeOK, StoreTypeOK
  <2>3. saved' \in [Keys -> SavedSet]
    BY <1>15, <2>1, SaveType DEF VFinish, STypeOK
  <2> QED
    BY <1>15, <2>2, <2>3, ReqType DEF VFinish, STypeOK
<1>16. ASSUME NEW q \in Reqs, VCancelStart(q) PROVE STypeOK'
  <2>1. PICK r \in Refs, k \in Keys \cup {None} : VBegin(q, "cancel", "cancel", r, None, k, None)
    BY <1>16 DEF VCancelStart
  <2> QED
    BY <1>16, <1>b, <2>1, VBeginType DEF VCancelStart
<1>17. ASSUME NEW q \in Reqs, VCancelRows(q) PROVE STypeOK'
  <2>1. req[q].ref \in Refs /\ req[q].key \in Keys \cup {None}
    BY <1>17 DEF STypeOK, ReqSet, VInFlight, VCarries, VCancelRows, VAt, Creating
  <2>2. checkout' \in [Refs -> CheckoutSet]
    BY <1>0, <1>17 DEF VCancelRows, NoRow, CheckoutSet, TypeOK, StoreTypeOK
  <2>3. TypeOK'
    BY <1>0, <1>17, <2>2, PutType DEF VCancelRows, TypeOK, StoreTypeOK
  <2>4. saved' \in [Keys -> SavedSet]
    BY <1>17, <2>1, SaveType DEF VCancelRows
  <2> QED
    BY <1>17, <2>3, <2>4, ReqType DEF VCancelRows, STypeOK
<1>18. ASSUME NEW q \in Reqs, VCreateRefused(q) \/ VEmailFree(q) \/ VFail(q) PROVE STypeOK'
  BY <1>18, <1>b, ReqType DEF VCreateRefused, VEmailFree, VFail
<1> QED
  BY <1>1, <1>2, <1>3, <1>4, <1>5, <1>6, <1>7, <1>8, <1>9, <1>10, <1>11, <1>12, <1>13, <1>14,
     <1>15, <1>16, <1>17, <1>18, StepKinds DEF VHandler

-----------------------------------------------------------------------------
(* The two interfaces. *)

\* A v1 request draws references as an invoice does, and for the rest leaves the
\* quotes, the chain and the requests of the public checkout alone.
LEMMA VQuoteSteps ==
  ASSUME SInv, NEW q \in Reqs, VHandler(q)
  PROVE  /\ UNCHANGED <<event, landed, proc, sweep, recent>>
         /\ \A r \in Refs :
              \/ quote'[r] = quote[r]
              \/ /\ VCreateHSet(q) /\ req'[q].ref = r /\ VAt(q, "hset")
                 /\ quote[r] = None /\ quote'[r] \in QuoteSet /\ quote'[r].how = "invoice"
<1> USE DEF SInv, STypeOK, TypeOK, StoreTypeOK
<1>1. CASE VCreateHSet(q)
  <2>1. PICK o \in Refs : /\ FreshRef(o) /\ PutRedis(o, req[q].inv) /\ VAt(q, "hset")
                         /\ req' = [req EXCEPT ![q].pc = "expire", ![q].ref = o]
    BY <1>1 DEF VCreateHSet
  <2>2. req[q].inv \in QuoteSet /\ req[q].inv.how = "invoice"
    BY <2>1 DEF VInFlight, VCarries
  <2>3. req'[q].ref = o
    BY <2>1 DEF ReqSet
  <2>4. \A r \in Refs : \/ quote'[r] = quote[r]
                         \/ /\ r = o /\ quote[r] = None
                            /\ quote'[r] \in QuoteSet /\ quote'[r].how = "invoice"
    BY <2>1, <2>2 DEF PutRedis, FreshRef
  <2>5. UNCHANGED <<event, landed, proc, sweep, recent>>
    BY <1>1 DEF VCreateHSet
  <2> QED
    BY <1>1, <2>1, <2>3, <2>4, <2>5
<1>2. CASE ~VCreateHSet(q)
  <2>1. UNCHANGED <<event, landed, proc, sweep, recent, quote>>
    BY <1>2, SharedWrites DEF vars, VCreateExpire, VWriteInvoice, VWriteCheckout, VFinish, VCancelRows
  <2> QED
    BY <2>1
<1> QED
  BY <1>1, <1>2

\* Only a create gives a reference a Redis key.
LEMMA VRedisSteps ==
  ASSUME SInv, NEW q \in Reqs, VHandler(q), NEW r \in Refs, redis'[r] # "absent"
  PROVE  redis[r] # "absent" \/ (quote'[r] \in QuoteSet /\ quote'[r].how = "invoice")
<1> USE DEF SInv, STypeOK, TypeOK, StoreTypeOK
<1>1. CASE UNCHANGED redis
  BY <1>1
<1>2. CASE VCreateHSet(q)
  <2>1. PICK o \in Refs : PutRedis(o, req[q].inv) /\ VAt(q, "hset")
    BY <1>2 DEF VCreateHSet
  <2>2. req[q].inv \in QuoteSet /\ req[q].inv.how = "invoice"
    BY <2>1 DEF VInFlight, VCarries
  <2> QED
    BY <2>1, <2>2 DEF PutRedis
<1>3. CASE VCreateExpire(q) \/ VFinish(q) \/ VCancelRows(q)
  BY <1>3 DEF VCreateExpire, SetTTL, VFinish, VCancelRows, DelRedis
<1> QED
  BY <1>1, <1>2, <1>3, SharedWrites DEF vars, VWriteInvoice, VWriteCheckout

\* Only finalize writes a paid invoice, and it writes nothing else.
LEMMA VInvoiceSteps ==
  ASSUME SInv, NEW q \in Reqs, VHandler(q), NEW r \in Refs
  PROVE  \/ invoice'[r] = invoice[r]
         \/ /\ VAt(q, "put_invoice") /\ req[q].ref = r
            /\ invoice'[r].status = "paid" /\ invoice'[r].sig = req[q].sig
<1> USE DEF SInv, STypeOK, TypeOK, StoreTypeOK
<1>1. CASE UNCHANGED invoice
  BY <1>1
<1>2. CASE VWriteInvoice(q)
  BY <1>2 DEF VWriteInvoice, PutInvoice
<1> QED
  BY <1>1, <1>2, SharedWrites DEF vars, VCreateHSet, VCreateExpire, VWriteCheckout, VFinish, VCancelRows

\* A checkout row is made paid by finalize, or deleted while it is pending.
LEMMA VCheckoutSteps ==
  ASSUME SInv, NEW q \in Reqs, VHandler(q), NEW r \in Refs
  PROVE  \/ checkout'[r] = checkout[r]
         \/ checkout[r].status = "pending_payment" /\ checkout'[r] = NoRow
         \/ /\ VWriteCheckout(q) /\ VAt(q, "put_checkout") /\ req[q].ref = r
            /\ checkout'[r].status = "paid" /\ checkout'[r].sig = req[q].sig
<1> USE DEF SInv, STypeOK, TypeOK, StoreTypeOK
<1>1. CASE UNCHANGED checkout
  BY <1>1
<1>2. CASE VWriteCheckout(q)
  BY <1>2 DEF VWriteCheckout, PutCheckoutPaid
<1>3. CASE VCancelRows(q)
  BY <1>3 DEF VCancelRows
<1> QED
  BY <1>1, <1>2, <1>3, SharedWrites DEF vars, VCreateHSet, VCreateExpire, VWriteInvoice, VFinish

LEMMA VStable ==
  ASSUME SInv, NEW q \in Reqs, VHandler(q), NEW r \in Refs, quote[r] # None
  PROVE  quote'[r] = quote[r] /\ \A s : Backed(r, s) <=> Backed(r, s)'
<1>1. quote'[r] = quote[r] /\ landed' = landed
  BY VQuoteSteps
<1> QED
  BY <1>1 DEF Backed

\* The invariant of the public checkout survives the steps of the v1 requests.
LEMMA VKeepsIInv ==
  ASSUME SInv, NEW q \in Reqs, VHandler(q), TypeOK'
  PROVE  IInv'
<1>0. IInv /\ VInFlight /\ UNCHANGED <<event, landed, proc, sweep, recent>>
  BY VQuoteSteps DEF SInv
<1>a. NoRow.status = "none"
  BY DEF NoRow
<1>1. RefKnown'
  BY <1>0 DEF IInv, RefKnown
<1>2. \A r \in Refs : \/ quote'[r] = quote[r]
                      \/ quote[r] = None /\ quote'[r] \in QuoteSet /\ quote'[r].how = "invoice"
  BY VQuoteSteps
<1>3. LegacyRowsKnown'
  <2> SUFFICES ASSUME NEW r \in Refs,
                      checkout'[r].status \in {"pending_payment", "failed"} \/ sweep'[r] # None
               PROVE  quote'[r] # None /\ quote'[r].how = "legacy"
    BY DEF LegacyRowsKnown
  <2>1. checkout[r].status \in {"pending_payment", "failed"} \/ sweep[r] # None
    BY <1>0, <1>a, VCheckoutSteps
  <2> QED
    BY <1>0, <2>1, VStable DEF IInv, LegacyRowsKnown
<1>4. LegacyTerms'
  BY <1>0, <1>2 DEF IInv, LegacyTerms
<1>5. RedisKnown'
  <2> SUFFICES ASSUME NEW r \in Refs, redis'[r] # "absent"
               PROVE  quote'[r] # None /\ quote'[r].how # "manual"
    BY DEF RedisKnown
  <2> QED
    BY <1>0, VRedisSteps, VStable DEF IInv, RedisKnown
<1>6. InFlight'
  <2> SUFFICES ASSUME NEW p \in Procs PROVE Carries(p)'
    BY DEF InFlight
  <2>1. Carries(p) /\ proc'[p] = proc[p]
    BY <1>0 DEF IInv, InFlight
  <2>2. CASE proc[p].ref \in Refs /\ quote[proc[p].ref] # None
    BY <2>1, <2>2, VStable DEF Carries, At
  <2>3. CASE ~(proc[p].ref \in Refs /\ quote[proc[p].ref] # None)
    <3>1. proc[p].pc \notin Verified \cup {"verify"}
      BY <1>0, <2>1, <2>3 DEF IInv, RefKnown, Carries, At, Verified, Backed
    <3> QED
      BY <2>1, <3>1 DEF Carries, At
  <2> QED
    BY <2>2, <2>3
<1>7. PaidIsVerified'
  <2> SUFFICES ASSUME NEW r \in Refs
               PROVE  /\ checkout'[r].status = "paid" => Backed(r, checkout[r].sig)'
                      /\ invoice'[r].status = "paid" => Backed(r, invoice[r].sig)'
    BY DEF PaidIsVerified, Paid
  <2>1. Backed(r, checkout'[r].sig) => Backed(r, checkout[r].sig)'
    BY <1>0, VStable DEF Backed
  <2>5. Backed(r, invoice'[r].sig) => Backed(r, invoice[r].sig)'
    BY <1>0, VStable DEF Backed
  <2>2. req[q].pc \in {"put_invoice", "put_checkout"} => Backed(req[q].ref, req[q].sig)
    BY <1>0 DEF VInFlight, VCarries, VVerified
  <2>3. checkout'[r].status = "paid" => Backed(r, checkout'[r].sig)
    BY <1>0, <1>a, <2>2, VCheckoutSteps DEF IInv, PaidIsVerified, Paid, VAt
  <2>4. invoice'[r].status = "paid" => Backed(r, invoice'[r].sig)
    BY <1>0, <2>2, VInvoiceSteps DEF IInv, PaidIsVerified, VAt
  <2> QED
    BY <2>1, <2>3, <2>4, <2>5
<1> QED
  BY <1>1, <1>3, <1>4, <1>5, <1>6, <1>7 DEF IInv

\* A crash of both interfaces leaves the stores alone.
LEMMA CrashKeepsIInv ==
  ASSUME IInv, SCrash, TypeOK'
  PROVE  IInv'
<1>1. \A p \in Procs : proc'[p].pc = "idle"
  BY DEF SCrash, Idle
<1>2. RefKnown' /\ InFlight'
  BY <1>1 DEF RefKnown, InFlight, Carries, At, Verified
<1>3. LegacyRowsKnown' /\ LegacyTerms' /\ RedisKnown' /\ PaidIsVerified'
  BY DEF SCrash, IInv, LegacyRowsKnown, LegacyTerms, RedisKnown, PaidIsVerified, Paid, Backed
<1> QED
  BY <1>2, <1>3 DEF IInv

LEMMA NextIInv == IInv /\ [Next]_vars => IInv'
  BY NextType, NextRefKnown, NextLegacy, NextRedisKnown, NextInFlight, NextPaid DEF IInv

LEMMA SNextIInv == SInv /\ [SNext]_svars => IInv' /\ STypeOK'
<1> SUFFICES ASSUME SInv, [SNext]_svars PROVE IInv' /\ STypeOK'
  OBVIOUS
<1>1. STypeOK'
  BY NextSType DEF SInv, IInv
<1>2. TypeOK'
  BY <1>1 DEF STypeOK
<1> QED
  BY <1>1, <1>2, StepKinds, NextIInv, CrashKeepsIInv, VKeepsIInv DEF SInv

-----------------------------------------------------------------------------
(* What a step may do to the sessions and the requests. *)

LEMMA SessionSteps ==
  ASSUME SInv, NEW q \in Reqs, VHandler(q), NEW r \in Refs
  PROVE  \/ session'[r] = session[r]
         \/ /\ Exists(r) /\ session'[r].key = session[r].key
            /\ session'[r].state \in {"verifying", "failed", "cancelled"}
         \/ /\ VSettle(q) /\ req[q].ref = r /\ Exists(r) /\ session'[r].key = session[r].key
            /\ session'[r].state = "paid" /\ session'[r].sig = req[q].sig
         \/ /\ VCreateInsert(q) /\ req[q].ref = r
            /\ session'[r].state = "awaiting_payment" /\ session'[r].key = req[q].key
<1> DEFINE Goal ==
         \/ session'[r] = session[r]
         \/ /\ Exists(r) /\ session'[r].key = session[r].key
            /\ session'[r].state \in {"verifying", "failed", "cancelled"}
         \/ /\ VSettle(q) /\ req[q].ref = r /\ Exists(r) /\ session'[r].key = session[r].key
            /\ session'[r].state = "paid" /\ session'[r].sig = req[q].sig
         \/ /\ VCreateInsert(q) /\ req[q].ref = r
            /\ session'[r].state = "awaiting_payment" /\ session'[r].key = req[q].key
<1>0. session \in [Refs -> SessionSet] /\ VCarries(q)
  BY DEF SInv, STypeOK, VInFlight
<1>1. CASE UNCHANGED session
  BY <1>1
<1>2. ASSUME NEW state \in {"verifying", "failed", "cancelled"}, SetState(req[q].ref, state),
             Exists(req[q].ref)
      PROVE  Goal
  BY <1>0, <1>2 DEF SetState, SessionSet
<1>3. CASE VSubmitMark(q) \/ VCancelMark(q)
  BY <1>0, <1>2, <1>3 DEF VSubmitMark, VCancelMark, VCarries, VAt, Creating
<1>4. CASE VVerifyFail(q) \/ VEmailRefused(q) \/ VFinalizeFail(q)
  <2>1. GiveUp(q) /\ req[q].pc \in {"verify", "email", "put_invoice", "put_checkout"}
    BY <1>4 DEF VVerifyFail, VEmailRefused, VFinalizeFail, VAt
  <2>2. Exists(req[q].ref)
    BY <1>0, <2>1 DEF VCarries, Creating
  <2> QED
    BY <1>1, <1>2, <2>1, <2>2 DEF GiveUp
<1>5. CASE VSettle(q)
  <2>1. Exists(req[q].ref) /\ req[q].ref \in Refs
    BY <1>0, <1>5 DEF VSettle, VCarries, VAt, Creating
  <2> QED
    BY <1>0, <1>5, <2>1 DEF VSettle, SessionSet
<1>6. CASE VCreateInsert(q)
  BY <1>0, <1>6 DEF VCreateInsert
<1> QED
  BY <1>1, <1>3, <1>4, <1>5, <1>6 DEF VHandler, VCreateStart, VCreateHSet, VCreateExpire,
     VCreateRefused, VCreateSave, VSubmitStart, VDetectStart, VVerifyOk, VEmailFree,
     VWriteInvoice, VWriteCheckout, VFinish, VCancelStart, VCancelRows, VFail

\* A session is never removed, and its key never changes.
LEMMA SessionStays ==
  ASSUME SInv, NEW q \in Reqs, VHandler(q), NEW r \in Refs, Exists(r)
  PROVE  Exists(r)' /\ session'[r].key = session[r].key
<1>1. ~(VCreateInsert(q) /\ req[q].ref = r)
  BY DEF SInv, VInFlight, VCarries, VCreateInsert, VAt, Creating
<1> QED
  BY <1>1, SessionSteps DEF Exists

LEMMA OthersStay ==
  ASSUME STypeOK, NEW q \in Reqs, VHandler(q), NEW w \in Reqs, w # q
  PROVE  req'[w] = req[w]
  BY DEF STypeOK, VHandler, VCreateStart, VCreateHSet, VCreateExpire, VCreateInsert,
     VCreateRefused, VCreateSave, VSubmitStart, VSubmitMark, VDetectStart, VVerifyOk,
     VVerifyFail, VEmailFree, VEmailRefused, VFinalizeFail, GiveUp, VWriteInvoice,
     VWriteCheckout, VSettle, VFinish, VCancelStart, VCancelMark, VCancelRows, VFail,
     VBegin, VGoto, VReturn

\* A create's reference is its own until the INSERT, so nothing that another
\* request does touches what a request carries.
LEMMA OthersCarry ==
  ASSUME SInv, NEW q \in Reqs, VHandler(q), NEW w \in Reqs, w # q
  PROVE  VCarries(w)'
<1>0. VCarries(w) /\ req'[w] = req[w]
  BY OthersStay DEF SInv, VInFlight
<1>1. CASE req[w].pc \in {"idle", "hset"}
  BY <1>0, <1>1 DEF VCarries, VAt, Creating, VVerified
<1>2. CASE req[w].pc \in Creating
  <2>1. /\ req[w].ref \in Refs /\ ~Exists(req[w].ref)
        /\ quote[req[w].ref] # None /\ quote[req[w].ref].how = "invoice"
    BY <1>0, <1>2 DEF VCarries
  <2>2. ~(VCreateInsert(q) /\ req[q].ref = req[w].ref)
    BY <1>2 DEF SInv, Apart, VCreateInsert, VAt, Creating
  <2>3. ~(VSettle(q) /\ req[q].ref = req[w].ref)
    BY <2>1 DEF SInv, VInFlight, VCarries, VSettle, VAt, Creating
  <2>4. session'[req[w].ref] = session[req[w].ref]
    BY <2>1, <2>2, <2>3, SessionSteps
  <2>5. quote'[req[w].ref] = quote[req[w].ref]
    BY <2>1, VStable
  <2> QED
    BY <1>0, <1>2, <2>1, <2>4, <2>5 DEF VCarries, VAt, Creating, VVerified, Exists
<1>3. CASE req[w].pc \notin Creating \cup {"idle", "hset"}
  <2>1. req[w].ref \in Refs /\ Exists(req[w].ref)
    BY <1>0, <1>3 DEF VCarries
  <2>2. Exists(req[w].ref)'
    BY <1>0, <2>1, SessionStays DEF Exists
  <2>3. quote[req[w].ref] # None
    BY <2>1 DEF SInv, SessionKnown
  <2>4. Backed(req[w].ref, req[w].sig) => Backed(req[w].ref, req[w].sig)'
    BY <1>0, <2>1, <2>3, VStable DEF Backed
  <2> QED
    BY <1>0, <1>3, <2>1, <2>2, <2>4 DEF VCarries, VAt, Creating
<1> QED
  BY <1>1, <1>2, <1>3

\* The same for what the request itself carries on.
LEMMA Onward ==
  ASSUME SInv, NEW q \in Reqs, VHandler(q), VGoto(q, "put_invoice") \/ VGoto(q, "put_checkout")
           \/ VGoto(q, "settle") \/ VGoto(q, "finish"), req[q].pc \in VVerified
  PROVE  VCarries(q)'
<1>1. req[q].ref \in Refs /\ Exists(req[q].ref) /\ Backed(req[q].ref, req[q].sig)
  BY DEF SInv, VInFlight, VCarries, VVerified, Creating
<1>2. req[q].op = "submit" => req[q].sig \in Sigs
  BY DEF SInv, VInFlight, VCarries
<1>3. /\ req'[q].ref = req[q].ref /\ req'[q].sig = req[q].sig /\ req'[q].op = req[q].op
      /\ req'[q].pc \in {"put_invoice", "put_checkout", "settle", "finish"}
  BY DEF SInv, STypeOK, ReqSet, VGoto
<1>4. Exists(req[q].ref)'
  BY <1>1, <1>3, SessionStays DEF Exists
<1>5. Backed(req[q].ref, req[q].sig)'
  BY <1>1, <1>3, VStable DEF Backed
<1> QED
  BY <1>1, <1>2, <1>3, <1>4, <1>5 DEF VCarries, VAt, Creating

LEMMA VNextCarries ==
  ASSUME SInv, NEW q \in Reqs, VHandler(q)
  PROVE  VCarries(q)'
<1>0. VCarries(q) /\ req \in [Reqs -> ReqSet]
  BY DEF SInv, STypeOK, VInFlight
<1>a. ASSUME VReturn(q) PROVE VCarries(q)'
  BY <1>0, <1>a DEF VReturn, Free, VCarries, VAt, Creating, VVerified
<1>1. CASE VCreateStart(q)
  <2>1. PICK e \in Events, m \in Emails \cup {None}, k \in Keys \cup {None} :
          VBegin(q, "create", "hset", None, None, k,
                 [how |-> "invoice", event |-> e, terms |-> event[e].terms, email |-> m, payer |-> None])
    BY <1>1 DEF VCreateStart
  <2>2. event[e].terms \in TermSet
    BY DEF SInv, STypeOK, TypeOK, StoreTypeOK, EventSet
  <2>3. [how |-> "invoice", event |-> e, terms |-> event[e].terms, email |-> m, payer |-> None] \in QuoteSet
    BY <2>2 DEF QuoteSet
  <2>4. /\ req'[q].inv \in QuoteSet /\ req'[q].inv.how = "invoice"
        /\ req'[q].pc = "hset" /\ req'[q].op = "create"
    BY <1>0, <2>1, <2>3 DEF VBegin
  <2> QED
    BY <2>4 DEF VCarries, VAt, Creating, VVerified
<1>2. CASE VCreateHSet(q)
  <2>1. PICK r \in Refs : /\ FreshRef(r) /\ PutRedis(r, req[q].inv) /\ VAt(q, "hset")
                         /\ req' = [req EXCEPT ![q].pc = "expire", ![q].ref = r]
    BY <1>2 DEF VCreateHSet
  <2>2. req'[q].pc = "expire" /\ req'[q].ref = r /\ req'[q].op = req[q].op /\ req'[q].sig = req[q].sig
    BY <1>0, <2>1 DEF ReqSet
  <2>3. quote'[r] = req[q].inv
    BY <2>1 DEF PutRedis, SInv, STypeOK, TypeOK, StoreTypeOK
  <2>4. session' = session /\ ~Exists(r)
    BY <1>2, <2>1 DEF VCreateHSet, SInv, SessionKnown, FreshRef
  <2> QED
    BY <1>0, <2>1, <2>2, <2>3, <2>4 DEF VCarries, VAt, Creating, VVerified, Exists
<1>3. CASE VCreateExpire(q)
  <2>1. req'[q].pc = "insert" /\ req'[q].ref = req[q].ref /\ req'[q].op = req[q].op /\ req'[q].sig = req[q].sig
    BY <1>0, <1>3 DEF VCreateExpire, VGoto, ReqSet
  <2> QED
    BY <1>0, <1>3, <2>1 DEF VCreateExpire, VCarries, VAt, Creating, VVerified, Exists
<1>4. CASE VCreateInsert(q)
  <2>1. req'[q].pc = "save" /\ req'[q].ref = req[q].ref /\ req'[q].op = req[q].op /\ req'[q].sig = req[q].sig
    BY <1>0, <1>4 DEF VCreateInsert, VGoto, ReqSet
  <2>2. req[q].ref \in Refs
    BY <1>0, <1>4 DEF VCreateInsert, VCarries, VAt, Creating
  <2>3. session'[req[q].ref].state = "awaiting_payment"
    BY <1>4, <2>2 DEF VCreateInsert, SInv, STypeOK
  <2> QED
    BY <1>0, <2>1, <2>2, <2>3 DEF VCarries, VAt, Creating, VVerified, Exists
<1>5. CASE VSubmitStart(q) \/ VCancelStart(q) \/ \E r \in Refs : VDetectStart(q, r)
  <2>1. \E r \in Refs, s \in Sigs \cup {None}, k \in Keys \cup {None} :
           /\ Exists(r)
           /\ \/ VBegin(q, "submit", "mark", r, s, k, None) /\ s \in Sigs
              \/ VBegin(q, "cancel", "cancel", r, s, k, None)
              \/ VBegin(q, "detect", "verify", r, s, k, None)
    BY <1>5 DEF VSubmitStart, VCancelStart, VDetectStart, Exists
  <2>2. /\ req'[q].ref \in Refs /\ Exists(req'[q].ref)
        /\ req'[q].pc \in {"mark", "cancel", "verify"}
        /\ req'[q].pc = "mark" => req'[q].op = "submit"
        /\ req'[q].op = "submit" => req'[q].sig \in Sigs
    BY <1>0, <2>1 DEF VBegin
  <2>3. session' = session
    BY <1>5 DEF VSubmitStart, VCancelStart, VDetectStart
  <2> QED
    BY <2>2, <2>3 DEF VCarries, VAt, Creating, VVerified, Exists
<1>6. CASE VSubmitMark(q) \/ VCancelMark(q)
  <2>1. CASE VReturn(q)
    BY <2>1, <1>a
  <2>2. CASE VGoto(q, "verify") \/ VGoto(q, "cancel_rows")
    <3>1. /\ req'[q].pc \in {"verify", "cancel_rows"} /\ req'[q].ref = req[q].ref
          /\ req'[q].op = req[q].op /\ req'[q].sig = req[q].sig
      BY <1>0, <2>2 DEF VGoto, ReqSet
    <3>2. req[q].ref \in Refs /\ Exists(req[q].ref)
      BY <1>0, <1>6 DEF VSubmitMark, VCancelMark, VCarries, VAt, Creating
    <3>3. Exists(req[q].ref)'
      BY <3>1, <3>2, SessionStays DEF Exists
    <3> QED
      BY <1>0, <3>1, <3>2, <3>3 DEF VCarries, VAt, Creating, VVerified
  <2> QED
    BY <1>6, <2>1, <2>2 DEF VSubmitMark, VCancelMark
<1>7. CASE VVerifyOk(q)
  <2>1. PICK s \in Sigs : /\ req' = [req EXCEPT ![q].pc = "email", ![q].sig = s]
                         /\ Verifies(s, req[q].ref, quote[req[q].ref].terms) /\ VAt(q, "verify")
    BY <1>7 DEF VVerifyOk
  <2>2. req[q].ref \in Refs /\ Exists(req[q].ref)
    BY <1>0, <2>1 DEF VCarries, VAt, Creating
  <2>3. quote[req[q].ref] # None /\ quote[req[q].ref].how = "invoice"
    BY <2>2 DEF SInv, SessionKnown
  <2>4. Backed(req[q].ref, s)
    BY <2>1, <2>3 DEF Backed, PaysQuote, Verifies
  <2>5. req'[q].pc = "email" /\ req'[q].ref = req[q].ref /\ req'[q].sig = s
    BY <1>0, <2>1 DEF ReqSet
  <2>6. UNCHANGED <<session, quote, landed>>
    BY <1>7 DEF VVerifyOk, vars
  <2> QED
    BY <2>2, <2>4, <2>5, <2>6 DEF VCarries, VAt, Creating, VVerified, Exists, Backed
<1>8. CASE VEmailFree(q) \/ VWriteInvoice(q) \/ VWriteCheckout(q) \/ VSettle(q)
  BY <1>8, Onward DEF VEmailFree, VWriteInvoice, VWriteCheckout, VSettle, VAt, VVerified
<1> QED
  BY <1>a, <1>1, <1>2, <1>3, <1>4, <1>5, <1>6, <1>7, <1>8 DEF VHandler, VCreateRefused, VCreateSave,
     VVerifyFail, VEmailRefused, VFinalizeFail, GiveUp, VFinish, VCancelRows, VFail

LEMMA VNextSessionKnown ==
  ASSUME SInv, NEW q \in Reqs, VHandler(q)
  PROVE  SessionKnown'
<1> SUFFICES ASSUME NEW r \in Refs, Exists(r)' PROVE quote'[r] # None /\ quote'[r].how = "invoice"
  BY DEF SessionKnown
<1>1. CASE Exists(r)
  BY <1>1, VStable DEF SInv, SessionKnown
<1>2. CASE ~Exists(r)
  <2>1. VCreateInsert(q) /\ req[q].ref = r
    BY <1>2, SessionSteps DEF Exists
  <2>2. quote[r] # None /\ quote[r].how = "invoice"
    BY <2>1 DEF SInv, VInFlight, VCarries, VCreateInsert, VAt, Creating
  <2> QED
    BY <2>2, VStable
<1> QED
  BY <1>1, <1>2

LEMMA VNextApart ==
  ASSUME SInv, NEW q \in Reqs, VHandler(q)
  PROVE  Apart'
<1>1. ASSUME NEW w \in Reqs, w # q, req'[w].pc \in Creating, req'[q].pc \in Creating,
             req'[w].ref = req'[q].ref
      PROVE  FALSE
  <2>1. req'[w] = req[w] /\ quote[req[w].ref] # None
    BY <1>1, OthersStay DEF SInv, VInFlight, VCarries
  <2>2. CASE VCreateHSet(q)
    <3>1. PICK r \in Refs : FreshRef(r) /\ req' = [req EXCEPT ![q].pc = "expire", ![q].ref = r]
      BY <2>2 DEF VCreateHSet
    <3>2. req'[q].ref = r
      BY <3>1 DEF SInv, STypeOK, ReqSet
    <3> QED
      BY <1>1, <2>1, <3>1, <3>2 DEF FreshRef
  <2>3. CASE req[q].pc \in Creating /\ req'[q].ref = req[q].ref
    BY <1>1, <2>1, <2>3 DEF SInv, Apart
  <2>4. VCreateHSet(q) \/ VCreateExpire(q)
    BY <1>1 DEF SInv, STypeOK, ReqSet, Creating, VHandler, VCreateStart, VCreateInsert,
       VCreateRefused, VCreateSave, VSubmitStart, VSubmitMark, VDetectStart, VVerifyOk,
       VVerifyFail, VEmailFree, VEmailRefused, VFinalizeFail, GiveUp, VWriteInvoice,
       VWriteCheckout, VSettle, VFinish, VCancelStart, VCancelMark, VCancelRows, VFail,
       VBegin, VGoto, VReturn, Free
  <2>5. VCreateExpire(q) => req[q].pc \in Creating /\ req'[q].ref = req[q].ref
    BY DEF SInv, STypeOK, ReqSet, Creating, VCreateExpire, VGoto, VAt
  <2> QED
    BY <2>2, <2>3, <2>4, <2>5
<1>2. ASSUME NEW w \in Reqs, NEW v \in Reqs, w # q, v # q,
             req'[w].pc \in Creating, req'[v].pc \in Creating, req'[w].ref = req'[v].ref
      PROVE  w = v
  BY <1>2, OthersStay DEF SInv, Apart
<1> QED
  BY <1>1, <1>2 DEF Apart

LEMMA SNextSInv == SInv /\ [SNext]_svars => SInv'
<1> SUFFICES ASSUME SInv, [SNext]_svars PROVE SInv'
  OBVIOUS
<1>1. IInv' /\ STypeOK'
  BY SNextIInv
<1>2. SessionKnown' /\ VInFlight' /\ Apart'
  <2>1. CASE [Next]_vars /\ UNCHANGED sessionVars
    <3>1. TypeOK /\ UNCHANGED <<session, req>>
      BY <2>1 DEF sessionVars, SInv, STypeOK
    <3>2. \A r \in Refs : quote[r] # None => quote'[r] = quote[r] /\ \A s : Backed(r, s) => Backed(r, s)'
      BY <2>1, <3>1, Stable
    <3>3. SessionKnown'
      BY <3>1, <3>2 DEF SInv, SessionKnown, Exists
    <3>4. ASSUME NEW q \in Reqs PROVE VCarries(q)'
      <4>1. VCarries(q) /\ req'[q] = req[q]
        BY <3>1 DEF SInv, VInFlight
      <4>2. CASE req[q].pc \in {"idle", "hset"}
        BY <4>1, <4>2 DEF VCarries, VAt, Creating, VVerified
      <4>3. CASE req[q].pc \in Creating
        BY <3>1, <3>2, <4>1, <4>3 DEF VCarries, VAt, Creating, VVerified, Exists
      <4>4. CASE req[q].pc \notin Creating \cup {"idle", "hset"}
        <5>1. req[q].ref \in Refs /\ Exists(req[q].ref) /\ quote[req[q].ref] # None
          BY <4>1, <4>4 DEF VCarries, SInv, SessionKnown
        <5>2. Backed(req[q].ref, req[q].sig) => Backed(req[q].ref, req[q].sig)'
          BY <3>2, <4>1, <5>1 DEF Backed
        <5> QED
          BY <3>1, <4>1, <4>4, <5>1, <5>2 DEF VCarries, VAt, Exists
      <4> QED
        BY <4>2, <4>3, <4>4
    <3>5. Apart'
      BY <3>1 DEF SInv, Apart
    <3> QED
      BY <3>3, <3>4, <3>5 DEF VInFlight
  <2>2. CASE SCrash
    <3>1. UNCHANGED <<session, quote>> /\ \A q \in Reqs : req'[q] = Free
      BY <2>2 DEF SCrash
    <3>2. Free.pc = "idle" /\ Free.op = "none"
      BY DEF Free
    <3> QED
      BY <3>1, <3>2 DEF SInv, SessionKnown, Exists, VInFlight, VCarries, VAt, Creating, VVerified, Apart
  <2>3. ASSUME NEW q \in Reqs, VHandler(q) PROVE SessionKnown' /\ VInFlight' /\ Apart'
    BY <2>3, VNextSessionKnown, VNextApart, VNextCarries, OthersCarry DEF VInFlight
  <2> QED
    BY <2>1, <2>2, <2>3, StepKinds
<1> QED
  BY <1>1, <1>2 DEF SInv

LEMMA SInitSInv == SInit => SInv
<1> SUFFICES ASSUME SInit PROVE SInv
  OBVIOUS
<1>1. IInv /\ STypeOK
  BY InitIInv, SInitType DEF SInit
<1>2. SessionKnown /\ VInFlight /\ Apart
  BY DEF SInit, NoSession, Free, SessionKnown, Exists, VInFlight, VCarries, VAt, Creating, VVerified, Apart
<1> QED
  BY <1>1, <1>2 DEF SInv

LEMMA SInductive == SSpec => []SInv
  BY SInitSInv, SNextSInv, PTL DEF SSpec

\* Both interfaces keep the types of what they share and of their own: STypeOK.
THEOREM SessionTypes == SSpec => []STypeOK
<1>1. SInv => STypeOK
  BY DEF SInv
<1> QED
  BY <1>1, SInductive, PTL

\* With v1 requests beside the public checkout, a paid row still has a confirmed
\* transfer behind it: PaidIsVerified.
THEOREM SessionsPaidVerified == SSpec => []PaidIsVerified
<1>1. SInv => PaidIsVerified
  BY DEF SInv, IInv
<1> QED
  BY <1>1, SInductive, PTL

-----------------------------------------------------------------------------
(* The composition implements Receipts. *)

LEMMA VNextReceipts ==
  ASSUME SInv, NEW q \in Reqs, VHandler(q)
  PROVE  R!RNext \/ UNCHANGED <<landed, quote, receiptBar>>
<1>0. TypeOK /\ VCarries(q)
  BY DEF SInv, STypeOK, VInFlight
<1>1. CASE VCreateHSet(q)
  <2>1. PICK r \in Refs : /\ quote[r] = None /\ quote' = [quote EXCEPT ![r] = req[q].inv]
                         /\ VAt(q, "hset")
    BY <1>1 DEF VCreateHSet, PutRedis, FreshRef
  <2>2. req[q].inv \in QuoteSet
    BY <1>0, <2>1 DEF VCarries
  <2>3. receiptBar' = receiptBar /\ landed' = landed
    BY <1>1 DEF VCreateHSet, receiptBar, Paid
  <2>4. R!Quote(r, req[q].inv)
    BY <2>1, <2>3 DEF R!Quote
  <2> QED
    BY <2>2, <2>4 DEF R!RNext
<1>2. CASE VWriteCheckout(q)
  <2>1. req[q].ref \in Refs /\ Backed(req[q].ref, req[q].sig)
    BY <1>0, <1>2 DEF VWriteCheckout, VCarries, VAt, VVerified, Creating
  <2>2. req[q].sig \in Sigs
    BY <1>0, <2>1 DEF Backed, TypeOK, StoreTypeOK
  <2>3. R!Settle(req[q].ref, req[q].sig)
    BY <1>0, <1>2, <2>1, <2>2, Issue DEF VWriteCheckout, PutCheckoutPaid
  <2> QED
    BY <2>1, <2>2, <2>3 DEF R!RNext
<1>3. CASE ~VCreateHSet(q) /\ ~VWriteCheckout(q)
  <2>1. UNCHANGED <<landed, quote>>
    BY <1>3, SharedWrites DEF vars, VCreateExpire, VWriteInvoice, VFinish, VCancelRows
  <2>2. NoRow.status = "none"
    BY DEF NoRow
  <2>3. \A r \in Refs : (checkout'[r].status = "paid" <=> checkout[r].status = "paid")
                       /\ (checkout[r].status = "paid" => checkout'[r] = checkout[r])
    BY <1>3, <2>2, VCheckoutSteps
  <2>4. receiptBar' = receiptBar
    BY <2>3 DEF receiptBar, Paid
  <2> QED
    BY <2>1, <2>4
<1> QED
  BY <1>1, <1>2, <1>3

LEMMA SNextReceipts == SInv /\ [SNext]_svars => [R!RNext]_(R!rvars)
<1> SUFFICES ASSUME SInv, [SNext]_svars PROVE [R!RNext]_(R!rvars)
  OBVIOUS
<1>1. CASE [Next]_vars
  BY <1>1, NextReceipts DEF SInv
<1>2. CASE SCrash
  BY <1>2 DEF SCrash, R!rvars, receiptBar, Paid
<1>3. ASSUME NEW q \in Reqs, VHandler(q) PROVE [R!RNext]_(R!rvars)
  BY <1>3, VNextReceipts DEF R!rvars
<1> QED
  BY <1>1, <1>2, <1>3, StepKinds

\* A receipt is issued and kept as Receipts says whichever interface a payment
\* comes in by: ImplementsReceipts.
THEOREM SessionsImplementReceipts == SSpec => ImplementsReceipts
<1>1. SInit => R!RInit
  BY InitReceipts DEF SInit
<1> QED
  BY <1>1, SNextReceipts, SInductive, PTL DEF SSpec, ImplementsReceipts, R!RSpec

-----------------------------------------------------------------------------
(* The receipt behind a paid session, and what clients have been told. *)

\* A v1 request settles a session after both tables have been written.
VReceipted == \A q \in Reqs :
  /\ req[q].pc \in {"put_checkout", "settle", "finish"} => invoice[req[q].ref].status \in {"paid", "error"}
  /\ req[q].pc \in {"settle", "finish"} => Paid(req[q].ref)

STold == Told /\ VReceipted /\ SessionPaidHasReceipt

\* Both tables only gain receipts, whoever takes the step.
LEMMA ReceiptsStay ==
  ASSUME SInv, [SNext]_svars, NEW r \in Refs
  PROVE  /\ Paid(r) => Paid(r)'
         /\ invoice[r].status \in {"paid", "error"} => invoice'[r].status \in {"paid", "error"}
<1>0. TypeOK /\ NoRow.status = "none"
  BY DEF SInv, STypeOK, NoRow
<1>1. CASE [Next]_vars
  BY <1>0, <1>1, PaidStays, SettledStays
<1>2. CASE SCrash
  BY <1>2 DEF SCrash, Paid
<1>3. ASSUME NEW q \in Reqs, VHandler(q)
      PROVE  /\ Paid(r) => Paid(r)'
             /\ invoice[r].status \in {"paid", "error"} => invoice'[r].status \in {"paid", "error"}
  BY <1>0, <1>3, VCheckoutSteps, VInvoiceSteps DEF Paid
<1> QED
  BY <1>1, <1>2, <1>3, StepKinds

LEMMA VKeepsTold ==
  ASSUME SInv, STold, NEW q \in Reqs, VHandler(q), [SNext]_svars
  PROVE  Told'
<1>0. IInv /\ Told /\ VReceipted /\ proc' = proc
  BY VQuoteSteps DEF SInv, STold
<1>1. InvoiceFirst' /\ ByHand'
  <2> SUFFICES ASSUME NEW p \in Procs, proc[p].pc \in Writing
               PROVE  /\ proc[p].pc = "put_checkout" => invoice'[proc[p].ref].status \in {"paid", "error"}
                      /\ proc[p].pc # "put_checkout" => quote'[proc[p].ref].how = "manual"
    BY <1>0 DEF InvoiceFirst, ByHand, At, Writing
  <2>1. proc[p].ref \in Refs /\ quote[proc[p].ref] # None
    BY <1>0, VerifiedQuoted DEF Writing, Verified
  <2>2. quote'[proc[p].ref] = quote[proc[p].ref]
    BY <2>1, VStable
  <2>3. invoice[proc[p].ref].status \in {"paid", "error"} => invoice'[proc[p].ref].status \in {"paid", "error"}
    BY <2>1, ReceiptsStay
  <2> QED
    BY <1>0, <2>2, <2>3 DEF Told, InvoiceFirst, ByHand, At, Writing
<1>2. PaidHasInvoice'
  <2> SUFFICES ASSUME NEW r \in Refs, Paid(r)', quote'[r].how = "invoice"
               PROVE  invoice'[r].status \in {"paid", "error"}
    BY DEF PaidHasInvoice
  <2>1. CASE Paid(r)
    <3>1. quote[r] # None
      BY <1>0, <2>1 DEF IInv, PaidIsVerified, Backed
    <3>2. invoice[r].status \in {"paid", "error"}
      BY <1>0, <2>1, <3>1, VStable DEF Told, PaidHasInvoice
    <3> QED
      BY <3>2, ReceiptsStay
  <2>2. CASE ~Paid(r)
    <3>1. VAt(q, "put_checkout") /\ req[q].ref = r
      BY <2>2, VCheckoutSteps DEF Paid, NoRow
    <3>2. invoice[r].status \in {"paid", "error"}
      BY <1>0, <3>1 DEF VReceipted, VAt
    <3> QED
      BY <3>2, ReceiptsStay
  <2> QED
    BY <2>1, <2>2
<1>3. ToldOnce'
  <2> SUFFICES ASSUME NEW r \in told'
               PROVE  quote'[r] # None /\ (quote'[r].how # "manual" => Paid(r)')
    BY DEF ToldOnce
  <2>1. r \in told \/ (VFinish(q) /\ r = req[q].ref)
    BY SharedWrites DEF vars, VCreateHSet, VCreateExpire, VWriteInvoice, VWriteCheckout, VFinish, VCancelRows
  <2>2. r \in Refs /\ quote[r] # None /\ (quote[r].how # "manual" => Paid(r))
    <3>1. CASE r \in told
      BY <1>0, <3>1 DEF Told, ToldOnce, SInv, STypeOK, TypeOK, StoreTypeOK
    <3>2. CASE VFinish(q) /\ r = req[q].ref
      <4>1. VAt(q, "finish") /\ VCarries(q)
        BY <3>2 DEF VFinish, SInv, VInFlight
      <4>2. r \in Refs /\ quote[r] # None
        BY <3>2, <4>1 DEF VCarries, VAt, VVerified, Creating, Backed
      <4> QED
        BY <1>0, <3>2, <4>1, <4>2 DEF VReceipted, VAt
    <3> QED
      BY <2>1, <3>1, <3>2
  <2> QED
    BY <2>2, VStable, ReceiptsStay
<1> QED
  BY <1>1, <1>2, <1>3 DEF Told

LEMMA VNextReceipted ==
  ASSUME SInv, VReceipted, NEW q \in Reqs, VHandler(q), [SNext]_svars
  PROVE  VReceipted'
<1> SUFFICES ASSUME NEW w \in Reqs
             PROVE  /\ req'[w].pc \in {"put_checkout", "settle", "finish"}
                          => invoice'[req'[w].ref].status \in {"paid", "error"}
                    /\ req'[w].pc \in {"settle", "finish"} => Paid(req[w].ref)'
  BY DEF VReceipted
<1>0. STypeOK /\ VCarries(w) /\ VCarries(q)
  BY DEF SInv, VInFlight
<1>1. CASE req'[w] = req[w]
  <2>1. req[w].pc \in {"put_checkout", "settle", "finish"} => req[w].ref \in Refs
    BY <1>0 DEF VCarries, Creating
  <2>2. CASE req[w].pc \in {"put_checkout", "settle", "finish"}
    <3>1. Paid(req[w].ref) => checkout'[req[w].ref].status = "paid"
      BY <2>1, <2>2, ReceiptsStay DEF Paid
    <3> QED
      BY <1>1, <2>1, <2>2, <3>1, ReceiptsStay DEF VReceipted, Paid
  <2> QED
    BY <1>1, <2>2
<1>2. CASE w = q /\ VGoto(q, "put_checkout") /\ VWriteInvoice(q)
  <2>1. req[q].ref \in Refs /\ req'[q].ref = req[q].ref /\ req'[q].pc = "put_checkout"
    BY <1>0, <1>2 DEF VCarries, VWriteInvoice, VAt, Creating, VGoto, STypeOK, ReqSet
  <2>2. invoice'[req[q].ref].status = "paid"
    BY <1>0, <1>2, <2>1 DEF VWriteInvoice, PutInvoice, STypeOK, TypeOK, StoreTypeOK
  <2> QED
    BY <1>2, <2>1, <2>2
<1>3. CASE w = q /\ VWriteCheckout(q)
  <2>1. req[q].ref \in Refs /\ req'[q].ref = req[q].ref /\ req[q].pc = "put_checkout"
    BY <1>0, <1>3 DEF VCarries, VWriteCheckout, VAt, Creating, VGoto, STypeOK, ReqSet
  <2>2. checkout'[req[q].ref].status = "paid"
    BY <1>0, <1>3, <2>1 DEF VWriteCheckout, PutCheckoutPaid, STypeOK, TypeOK, StoreTypeOK
  <2> QED
    BY <1>3, <2>1, <2>2, ReceiptsStay DEF VReceipted, Paid
<1>4. CASE w = q /\ VSettle(q)
  <2>1. req[q].ref \in Refs /\ req'[q].ref = req[q].ref /\ req[q].pc = "settle"
    BY <1>0, <1>4 DEF VCarries, VSettle, VAt, Creating, VGoto, STypeOK, ReqSet
  <2>2. Paid(req[q].ref) => checkout'[req[q].ref].status = "paid"
    BY <2>1, ReceiptsStay DEF Paid
  <2> QED
    BY <1>4, <2>1, <2>2, ReceiptsStay DEF VReceipted, Paid
<1>5. CASE w = q /\ ~VWriteInvoice(q) /\ ~VWriteCheckout(q) /\ ~VSettle(q)
  <2>1. req'[q].pc \notin {"put_checkout", "settle", "finish"}
    BY <1>0, <1>5 DEF STypeOK, ReqSet, VHandler, VCreateStart, VCreateHSet, VCreateExpire, VCreateInsert,
       VCreateRefused, VCreateSave, VSubmitStart, VSubmitMark, VDetectStart, VVerifyOk,
       VVerifyFail, VEmailFree, VEmailRefused, VFinalizeFail, GiveUp, VFinish,
       VCancelStart, VCancelMark, VCancelRows, VFail, VBegin, VGoto, VReturn, Free
  <2> QED
    BY <1>5, <2>1
<1> QED
  BY <1>0, <1>1, <1>2, <1>3, <1>4, <1>5, OthersStay DEF VWriteInvoice

LEMMA VNextSessionPaid ==
  ASSUME SInv, VReceipted, SessionPaidHasReceipt, NEW q \in Reqs, VHandler(q), [SNext]_svars
  PROVE  SessionPaidHasReceipt'
<1> SUFFICES ASSUME NEW r \in Refs, session'[r].state = "paid"
             PROVE  Paid(r)' /\ session'[r].sig \in Sigs
  BY DEF SessionPaidHasReceipt
<1>1. CASE session'[r] = session[r]
  BY <1>1, ReceiptsStay DEF SessionPaidHasReceipt
<1>2. CASE VSettle(q) /\ req[q].ref = r /\ session'[r].sig = req[q].sig
  <2>1. Backed(r, req[q].sig) /\ Paid(r)
    BY <1>2 DEF SInv, VInFlight, VCarries, VSettle, VAt, VVerified, VReceipted
  <2>2. landed \subseteq Sigs
    BY DEF SInv, STypeOK, TypeOK, StoreTypeOK
  <2> QED
    BY <1>2, <2>1, <2>2, ReceiptsStay DEF Backed
<1> QED
  BY <1>1, <1>2, SessionSteps

LEMMA SNextTold == SInv /\ STold /\ [SNext]_svars => STold'
<1> SUFFICES ASSUME SInv, STold, [SNext]_svars PROVE STold'
  OBVIOUS
<1>1. CASE [Next]_vars /\ UNCHANGED sessionVars
  <2>1. Told'
    BY <1>1, NextWriting, NextPaidHasInvoice, NextToldOnce DEF Told, STold, SInv
  <2>2. VReceipted'
    <3> SUFFICES ASSUME NEW q \in Reqs
                 PROVE  /\ req[q].pc \in {"put_checkout", "settle", "finish"}
                              => invoice'[req[q].ref].status \in {"paid", "error"}
                        /\ req[q].pc \in {"settle", "finish"} => checkout'[req[q].ref].status = "paid"
      BY <1>1 DEF VReceipted, Paid, sessionVars
    <3>1. req[q].pc \in {"put_checkout", "settle", "finish"} => req[q].ref \in Refs
      BY DEF SInv, VInFlight, VCarries, Creating
    <3> QED
      BY <3>1, ReceiptsStay DEF STold, VReceipted, Paid
  <2>3. SessionPaidHasReceipt'
    BY <1>1, ReceiptsStay DEF STold, SessionPaidHasReceipt, sessionVars
  <2> QED
    BY <2>1, <2>2, <2>3 DEF STold
<1>2. CASE SCrash
  <2>1. UNCHANGED <<event, quote, invoice, checkout, told, session>>
    BY <1>2 DEF SCrash
  <2>2. /\ \A p \in Procs : proc'[p].pc = "idle"
        /\ \A q \in Reqs : req'[q].pc = "idle"
    BY <1>2 DEF SCrash, Idle, Free
  <2> QED
    BY <2>1, <2>2 DEF STold, Told, InvoiceFirst, ByHand, At, PaidHasInvoice, ToldOnce, Paid,
       VReceipted, SessionPaidHasReceipt
<1>3. ASSUME NEW q \in Reqs, VHandler(q) PROVE STold'
  BY <1>3, VKeepsTold, VNextReceipted, VNextSessionPaid DEF STold
<1> QED
  BY <1>1, <1>2, <1>3, StepKinds

LEMMA SToldInductive == SSpec => []STold
<1>1. SInit => STold
  <2> SUFFICES ASSUME SInit PROVE STold
    OBVIOUS
  <2>1. Told
    BY InitTold DEF SInit
  <2>2. VReceipted /\ SessionPaidHasReceipt
    BY DEF SInit, Free, NoSession, VReceipted, SessionPaidHasReceipt
  <2> QED
    BY <2>1, <2>2 DEF STold
<1> QED
  BY <1>1, SNextTold, SInductive, PTL DEF SSpec

\* A session that says paid has its receipt: the session's row is written last, and
\* no cancel, late detect or reconciler pass takes the receipt away
\* (SessionPaidHasReceipt).
THEOREM SessionsHaveReceipts == SSpec => []SessionPaidHasReceipt
<1>1. STold => SessionPaidHasReceipt
  BY DEF STold
<1> QED
  BY <1>1, SToldInductive, PTL

\* What either interface has told a client is paid stays recorded as paid:
\* ToldIsPaid.
THEOREM SessionsToldStaysPaid == SSpec => []ToldIsPaid
<1>1. STold => ToldIsPaid
  BY DEF STold, Told, ToldOnce, ToldIsPaid
<1> QED
  BY <1>1, SToldInductive, PTL

\* The two tables agree, whichever interface finalized the payment: PaidHasInvoice.
THEOREM SessionsPaidIsInvoiced == SSpec => []PaidHasInvoice
<1>1. STold => PaidHasInvoice
  BY DEF STold, Told
<1> QED
  BY <1>1, SToldInductive, PTL

-----------------------------------------------------------------------------
(* The Idempotency-Key. *)

\* The unique index holds, a saved answer is about the session with that key, and
\* so is the answer a create is about to save.
KeysUnique == \A r, o \in Refs : Exists(r) /\ Exists(o) /\ session[r].key = session[o].key => r = o

SavedIsSession == \A k \in Keys : saved[k].create # None =>
  /\ saved[k].create \in Refs /\ Exists(saved[k].create)
  /\ session[saved[k].create].key = k

SaveCarries == \A q \in Reqs : VAt(q, "save") => session[req[q].ref].key = req[q].key

Keyed == KeysUnique /\ SavedIsSession /\ SaveCarries

LEMMA SavedSteps ==
  ASSUME SInv, NEW q \in Reqs, VHandler(q), NEW k \in Keys
  PROVE  \/ saved'[k].create = saved[k].create
         \/ VAt(q, "save") /\ k = req[q].key /\ saved'[k].create = req[q].ref
<1>0. saved \in [Keys -> SavedSet]
  BY DEF SInv, STypeOK
<1>1. CASE UNCHANGED saved
  BY <1>1
<1>2. CASE VCreateSave(q)
  BY <1>0, <1>2 DEF VCreateSave, Save, SavedSet
<1>3. ASSUME Save(req[q].key, "submit", req[q].ref) \/ Save(req[q].key, "cancel", req[q].ref)
      PROVE  saved'[k].create = saved[k].create
  BY <1>0, <1>3 DEF Save, SavedSet
<1>4. CASE VFinish(q) \/ VCancelRows(q)
  BY <1>1, <1>3, <1>4 DEF VFinish, VCancelRows
<1> QED
  BY <1>1, <1>2, <1>4 DEF VHandler, VCreateStart, VCreateHSet, VCreateExpire, VCreateInsert,
     VCreateRefused, VSubmitStart, VSubmitMark, VDetectStart, VVerifyOk, VVerifyFail,
     VEmailFree, VEmailRefused, VFinalizeFail, GiveUp, VWriteInvoice, VWriteCheckout, VSettle,
     VCancelStart, VCancelMark, VFail

LEMMA VNextKeyed ==
  ASSUME SInv, Keyed, NEW q \in Reqs, VHandler(q)
  PROVE  Keyed'
<1>0. VCarries(q) /\ STypeOK
  BY DEF SInv, VInFlight
<1>1. ASSUME NEW r \in Refs, Exists(r)', ~Exists(r)
      PROVE  /\ req[q].ref = r /\ session'[r].key = req[q].key
             /\ \A o \in Refs : Exists(o) => session[o].key # req[q].key
  <2>1. VCreateInsert(q) /\ req[q].ref = r /\ session'[r].key = req[q].key
    BY <1>1, SessionSteps DEF Exists
  <2> QED
    BY <2>1 DEF VCreateInsert, KeyFree
<1>2. KeysUnique'
  <2> SUFFICES ASSUME NEW r \in Refs, NEW o \in Refs, Exists(r)', Exists(o)',
                      session'[r].key = session'[o].key
               PROVE  r = o
    BY DEF KeysUnique
  <2>1. CASE Exists(r) /\ Exists(o)
    BY <2>1, SessionStays DEF Keyed, KeysUnique
  <2>2. CASE Exists(r) /\ ~Exists(o)
    BY <1>1, <2>2, SessionStays
  <2>3. CASE ~Exists(r) /\ Exists(o)
    BY <1>1, <2>3, SessionStays
  <2>4. CASE ~Exists(r) /\ ~Exists(o)
    BY <1>1, <2>4
  <2> QED
    BY <2>1, <2>2, <2>3, <2>4
<1>3. SavedIsSession'
  <2> SUFFICES ASSUME NEW k \in Keys, saved'[k].create # None
               PROVE  /\ saved'[k].create \in Refs /\ session'[saved'[k].create].state # "none"
                      /\ session'[saved'[k].create].key = k
    BY DEF SavedIsSession, Exists
  <2>1. CASE saved'[k].create = saved[k].create
    <3>1. /\ saved[k].create \in Refs /\ Exists(saved[k].create)
          /\ session[saved[k].create].key = k
      BY <2>1 DEF Keyed, SavedIsSession
    <3>2. session'[saved[k].create].state # "none" /\ session'[saved[k].create].key = k
      BY <3>1, SessionStays DEF Exists
    <3> QED
      BY <2>1, <3>1, <3>2
  <2>2. CASE VAt(q, "save") /\ k = req[q].key /\ saved'[k].create = req[q].ref
    <3>1. req[q].ref \in Refs /\ Exists(req[q].ref) /\ session[req[q].ref].key = k
      BY <1>0, <2>2 DEF VCarries, VAt, Creating, Keyed, SaveCarries
    <3>2. session'[req[q].ref].state # "none" /\ session'[req[q].ref].key = k
      BY <3>1, SessionStays DEF Exists
    <3> QED
      BY <2>2, <3>1, <3>2
  <2> QED
    BY <2>1, <2>2, SavedSteps
<1>4. SaveCarries'
  <2> SUFFICES ASSUME NEW w \in Reqs, req'[w].pc = "save"
               PROVE  session'[req'[w].ref].key = req'[w].key
    BY DEF SaveCarries, VAt
  <2>1. CASE w # q
    <3>1. req'[w] = req[w]
      BY <1>0, <2>1, OthersStay
    <3>2. req[w].ref \in Refs /\ Exists(req[w].ref)
      BY <3>1 DEF SInv, VInFlight, VCarries, Creating
    <3>3. session'[req[w].ref].key = session[req[w].ref].key
      BY <3>2, SessionStays
    <3> QED
      BY <3>1, <3>3 DEF Keyed, SaveCarries, VAt
  <2>2. CASE w = q
    <3>1. VCreateInsert(q)
      BY <1>0, <2>2 DEF STypeOK, ReqSet, VHandler, VCreateStart, VCreateHSet, VCreateExpire,
         VCreateRefused, VCreateSave, VSubmitStart, VSubmitMark, VDetectStart, VVerifyOk,
         VVerifyFail, VEmailFree, VEmailRefused, VFinalizeFail, GiveUp, VWriteInvoice, VWriteCheckout,
         VSettle, VFinish, VCancelStart, VCancelMark, VCancelRows, VFail, VBegin, VGoto, VReturn, Free
    <3>2. req[q].ref \in Refs /\ req'[q].ref = req[q].ref /\ req'[q].key = req[q].key
      BY <1>0, <3>1 DEF VCreateInsert, VCarries, VAt, Creating, VGoto, STypeOK, ReqSet
    <3>3. session'[req[q].ref].key = req[q].key
      BY <1>0, <3>1, <3>2 DEF VCreateInsert, STypeOK
    <3> QED
      BY <2>2, <3>2, <3>3
  <2> QED
    BY <2>1, <2>2
<1> QED
  BY <1>2, <1>3, <1>4 DEF Keyed

LEMMA KeyedInductive == SSpec => []Keyed
<1>1. SInit => Keyed
  BY DEF SInit, NoSession, Free, Keyed, KeysUnique, SavedIsSession, SaveCarries, Exists, VAt
<1>2. SInv /\ Keyed /\ [SNext]_svars => Keyed'
  <2> SUFFICES ASSUME SInv, Keyed, [SNext]_svars PROVE Keyed'
    OBVIOUS
  <2>1. CASE UNCHANGED sessionVars
    BY <2>1 DEF sessionVars, Keyed, KeysUnique, SavedIsSession, SaveCarries, Exists, VAt
  <2>2. CASE SCrash
    BY <2>2 DEF SCrash, Free, Keyed, KeysUnique, SavedIsSession, SaveCarries, Exists, VAt
  <2>3. ASSUME NEW q \in Reqs, VHandler(q) PROVE Keyed'
    BY <2>3, VNextKeyed
  <2> QED
    BY <2>1, <2>2, <2>3, StepKinds
<1> QED
  BY <1>1, <1>2, SInductive, PTL DEF SSpec

LEMMA SameAnswerStep ==
  ASSUME SInv, Keyed, [SNext]_svars, NEW k \in Keys, saved[k].create # None
  PROVE  saved'[k].create = saved[k].create
<1>1. CASE UNCHANGED saved
  BY <1>1
<1>2. ASSUME NEW q \in Reqs, VHandler(q) PROVE saved'[k].create = saved[k].create
  <2>1. CASE VAt(q, "save") /\ k = req[q].key /\ saved'[k].create = req[q].ref
    <3>1. req[q].ref \in Refs /\ Exists(req[q].ref) /\ session[req[q].ref].key = k
      BY <2>1 DEF SInv, VInFlight, VCarries, VAt, Creating, Keyed, SaveCarries
    <3>2. /\ saved[k].create \in Refs /\ Exists(saved[k].create)
          /\ session[saved[k].create].key = k
      BY DEF Keyed, SavedIsSession
    <3> QED
      BY <2>1, <3>1, <3>2 DEF Keyed, KeysUnique
  <2> QED
    BY <1>2, <2>1, SavedSteps
<1> QED
  BY <1>1, <1>2, StepKinds DEF sessionVars, SCrash

\* A create repeated with the same key is answered with the same session for ever,
\* though lookup, INSERT and save are three statements and creates overlap:
\* SameAnswer.
THEOREM SameKeySameAnswer == SSpec => SameAnswer
<1>1. SInv /\ Keyed /\ [SNext]_svars =>
        [\A k \in Keys : saved[k].create # None => saved'[k].create = saved[k].create]_svars
  BY SameAnswerStep
<1> QED
  BY <1>1, SInductive, KeyedInductive, PTL DEF SSpec, SameAnswer
=============================================================================
