---------------------------- MODULE PaymentStore ----------------------------
(***************************************************************************)
(* What the payment handlers of the backend share: the Redis invoices, the *)
(* PostgreSQL tables invoice, event_checkouts and events, and the Solana   *)
(* chain they read through an RPC node.  Every operator here is one call   *)
(* to one of those stores; the modules that extend this one sequence them  *)
(* into handlers, so that the calls of different requests interleave.      *)
(***************************************************************************)
EXTENDS Naturals, FiniteSets

CONSTANTS
  Events,       \* rows of table events
  Edited,       \* the ones their host edits while checkouts are under way
  Refs,         \* references: the uuids that name a checkout
  LegacyRefs,   \* the references an earlier release may have left rows for
  Sigs,         \* transaction signatures
  Amounts,      \* amount_usdc, in atomic units
  Wallets,      \* payers and merchants
  Emails,       \* what participants type as their e-mail
  Address,      \* what they mean: trimmed and lower-cased; a function on Emails
  Padded,       \* the ones typed with blanks around the address
  Tx,           \* what each transaction is, once it lands: a function of Sigs
  Price,        \* the terms each event has at first: a function of Events
  None          \* SQL NULL, a Redis miss, a field without a value

\* The amount and the merchant wallet a transfer must match.
TermSet == [amount : Amounts, merchant : Wallets]

\* A transaction: the references its memo contains, the transfer, its payer.
TxSet == [memo : SUBSET Refs, terms : TermSet, payer : Wallets]

\* Under which conditions a reference was handed out: the fields of the Redis
\* hash invoice:<reference>, or of the rows written for it when it has none.
\* How is "invoice" (a checkout), "manual" (manual-verify) or "legacy".
QuoteSet == [how : {"invoice", "manual", "legacy"}, event : Events,
             terms : TermSet, email : Emails \cup {None}, payer : Wallets \cup {None}]

ASSUME StoreAssumption ==
  /\ IsFiniteSet(Refs) /\ LegacyRefs \subseteq Refs /\ Edited \subseteq Events
  /\ Tx \in [Sigs -> TxSet]
  /\ Price \in [Events -> TermSet]
  /\ Address \in [Emails -> Emails] /\ Padded \subseteq Emails
  /\ None \notin QuoteSet /\ None \notin Refs /\ None \notin Sigs /\ None \notin Emails

VARIABLES
  event,      \* table events: terms, open (not past checkout_expires_at), exists
  quote,      \* the quote of each reference; None while the uuid is not drawn
  redis,      \* key invoice:<reference>: absent, or with or without a TTL
  invoice,    \* table invoice by reference: status and signature
  checkout,   \* table event_checkouts by reference: status and signature
  landed,     \* the signatures of confirmed transactions
  told        \* the references some response has reported as paid

storeVars == <<event, quote, redis, invoice, checkout, landed, told>>

EventSet    == [exists : BOOLEAN, open : BOOLEAN, terms : TermSet]
InvoiceSet  == [status : {"none", "pending", "paid", "error"}, sig : Sigs \cup {None}]
CheckoutSet == [status : {"none", "pending_payment", "paid", "failed"}, sig : Sigs \cup {None}]
NoRow       == [status |-> "none", sig |-> None]

StoreTypeOK ==
  /\ event \in [Events -> EventSet]
  /\ quote \in [Refs -> QuoteSet \cup {None}]
  /\ redis \in [Refs -> {"absent", "expiring", "persistent"}]
  /\ invoice \in [Refs -> InvoiceSet]
  /\ checkout \in [Refs -> CheckoutSet]
  /\ landed \subseteq Sigs
  /\ told \subseteq Refs

-----------------------------------------------------------------------------
(* Reads. *)

Paid(r) == checkout[r].status = "paid"

\* VerifyTransactionForMerchantWithSender: the transaction is confirmed, its
\* memo contains the reference, it moves the amount to the merchant, and the
\* merchant is not its own payer.
PaysRef(s, r, terms) ==
  r \in Tx[s].memo /\ Tx[s].terms = terms /\ Tx[s].payer # terms.merchant

Verifies(s, r, terms) == s \in landed /\ PaysRef(s, r, terms)

\* VerifyDirectTransferForMerchant: no memo, but the payer is the one claimed.
PaysDirect(s, terms, payer) ==
  Tx[s].terms = terms /\ Tx[s].payer = payer /\ payer # terms.merchant

VerifiesDirect(s, terms, payer) == s \in landed /\ PaysDirect(s, terms, payer)

\* LOWER(stored) = trimmed and lower-cased new: the row keeps what was typed,
\* blanks included, and SQL does not trim it.  No e-mail matches nothing.
SameEmail(stored, m) ==
  /\ m # None /\ stored \in Emails \ Padded
  /\ Address[stored] = Address[m]

\* ensureParticipantEmailAvailable, before there is a reference.
EmailUsed(e, m) ==
  \E o \in Refs : Paid(o) /\ quote[o].event = e /\ SameEmail(quote[o].email, m)

\* The EXISTS query of finalizePaidCheckout, which leaves out r's own row.
EmailTaken(r) ==
  \E o \in Refs \ {r} :
    Paid(o) /\ quote[o].event = quote[r].event /\ SameEmail(quote[o].email, quote[r].email)

\* uuid.NewString: a reference nobody has drawn.
FreshRef(r) == quote[r] = None

-----------------------------------------------------------------------------
(* Writes, each a single statement. *)

\* HSET invoice:<reference>: the key has no TTL until EXPIRE.
PutRedis(r, q) ==
  /\ quote' = [quote EXCEPT ![r] = q]
  /\ redis' = [redis EXCEPT ![r] = "persistent"]

SetTTL(r) == redis' = [redis EXCEPT ![r] = IF @ = "absent" THEN @ ELSE "expiring"]
DelRedis(r) == redis' = [redis EXCEPT ![r] = "absent"]

\* INSERT INTO invoice ... ON CONFLICT (reference) DO UPDATE: whatever the row
\* was, it takes the new status and signature.
PutInvoice(r, status, s) == invoice' = [invoice EXCEPT ![r] = [status |-> status, sig |-> s]]

\* A slip: ON CONFLICT DO NOTHING, which leaves a row that is already there.
PutCheckoutPaidOnce(r, s) ==
  /\ event[quote[r].event].exists
  /\ checkout' = [checkout EXCEPT ![r] =
       IF @.status = "none" THEN [status |-> "paid", sig |-> s] ELSE @]

\* INSERT INTO event_checkouts ... ON CONFLICT (reference) DO UPDATE SET
\* status = 'paid', signature = EXCLUDED.signature.  The foreign key to events
\* makes it fail once the event is gone.
PutCheckoutPaid(r, s) ==
  /\ event[quote[r].event].exists
  /\ checkout' = [checkout EXCEPT ![r] = [status |-> "paid", sig |-> s]]

-----------------------------------------------------------------------------
(* The environment: the chain, Redis' clock and the calendar. *)

\* A transaction is confirmed.  Its memo can only name references that exist.
Land(s) ==
  /\ s \notin landed
  /\ \A r \in Tx[s].memo : ~FreshRef(r)
  /\ landed' = landed \cup {s}
  /\ UNCHANGED <<event, quote, redis, invoice, checkout, told>>

\* Redis evicts a key whose TTL has run out.
ExpireKey(r) ==
  /\ redis[r] = "expiring"
  /\ DelRedis(r)
  /\ UNCHANGED <<event, quote, invoice, checkout, landed, told>>

\* checkout_expires_at passes.
CloseWindow(e) ==
  /\ event[e].open
  /\ event' = [event EXCEPT ![e].open = FALSE]
  /\ UNCHANGED <<quote, redis, invoice, checkout, landed, told>>

\* The host edits the event: the UPDATE of updateEvent, whose look for paid deposits
\* was a statement before it and may be as old as you like.  Not an event with rows of
\* the earlier release, which keep no terms of their own: the reconciler verifies them
\* by what the event says then.
EditEvent(e) ==
  /\ event[e].exists
  /\ \A r \in Refs : quote[r] # None /\ quote[r].event = e => quote[r].how # "legacy"
  /\ \E t \in TermSet, open \in BOOLEAN :
       event' = [event EXCEPT ![e].terms = t, ![e].open = open]
  /\ UNCHANGED <<quote, redis, invoice, checkout, landed, told>>

Environment ==
  \/ \E s \in Sigs : Land(s)
  \/ \E r \in Refs : ExpireKey(r)
  \/ \E e \in Events : CloseWindow(e)
  \/ \E e \in Edited : EditEvent(e)

-----------------------------------------------------------------------------
(* Initially no reference has been drawn, except that an earlier release,     *)
(* which inserted pending rows when it created an invoice, may have left      *)
(* checkouts in progress: a row that is pending or failed, with or without a  *)
(* signature, and perhaps its Redis key.                                      *)

LegacyQuotes ==
  {[how |-> "legacy", event |-> e, terms |-> Price[e], email |-> m, payer |-> None] :
     e \in Events, m \in Emails \cup {None}}

LegacyRows  == [status : {"pending_payment", "failed"}, sig : Sigs \cup {None}]
LegacyDrawn == {r \in Refs : quote[r] # None}

StoreInit ==
  /\ event = [e \in Events |-> [exists |-> TRUE, open |-> TRUE, terms |-> Price[e]]]
  /\ quote \in [Refs -> LegacyQuotes \cup {None}]
  /\ LegacyDrawn \subseteq LegacyRefs
  /\ checkout \in [Refs -> LegacyRows \cup {NoRow}]
  /\ \A r \in Refs : checkout[r] = NoRow <=> quote[r] = None
  /\ redis \in [Refs -> {"absent", "expiring"}]
  /\ \A r \in Refs \ LegacyDrawn : redis[r] = "absent"
  /\ invoice = [r \in Refs |-> IF r \in LegacyDrawn THEN [status |-> "pending", sig |-> None] ELSE NoRow]
  /\ landed = {}
  /\ told = {}
=============================================================================
