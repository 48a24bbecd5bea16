# Payknot: a TLA+ verification project

Payknot sells event deposits paid in USDC on Solana. A Go backend (`src/backend`) serves
participants, hosts and agents from PostgreSQL, Redis and a Solana RPC node; a Next.js
front end (`src/frontend`) is one of its clients. Nothing in the backend runs inside a
database transaction or under a lock that spans two calls: every handler is a sequence of
single statements, and the statements of concurrent requests interleave. The pages are the other
half: one piece of React state, set by functions that wait for calls and whose waits overlap. That
is what these modules model.

## 1. Inventory

| component | source | state it keeps | operations |
|---|---|---|---|
| payment store | `migrations/`, Redis, the chain | tables `invoice`, `event_checkouts`, `events`; keys `invoice:<reference>`; confirmed transactions | single statements |
| public checkout | `backend/api/checkout.go` | none of its own | create, cancel, confirm, recheck, detect, manual-verify, status |
| reconciler | `backend/watcher/watcher.go` | the result set of one pass | `RecoverErrorInvoices` every 2 minutes |
| on-chain verification | `backend/watcher/watcher.go` | none | verify by memo, verify a direct transfer, detect by memo |
| v1 payment sessions | `backend/api/v1_payment.go` | `payment_sessions`, `payment_attempts`, `idempotency_records` | create, submit-signature, detect, cancel, and four that only read |
| events | `backend/api/events.go` | `events` | create, update, delete, list |
| agent keys | `backend/middleware/auth.go`, `backend/api/agent_keys.go` | `agent_api_keys`, an in-memory cache | upsert, revoke, verify a signed request |
| agent runtime | `backend/api/agent_runtime.go`, `backend/middleware/agent_jwt.go` | `agent_nonces`, `agent_sessions`, `automation_intents` | nonce, token, PAT login, checkout create |
| personal access tokens | `backend/api/agent_pat.go` | `agent_personal_access_tokens` | create, list, revoke |
| accounts | `backend/api/auth.go`, `backend/middleware/auth.go` | `users`, `user_sessions` | register, login, Google login, verify, resend, forgot, reset, logout |
| rate limiter | `backend/middleware/ratelimit.go` | Redis counters | count a request |
| participant fields | `backend/api/participant_fields.go` | none | normalise, validate |
| Luma import | `backend/api/import.go` | none | fetch and scrape a page |
| checkout page | `frontend/src/app/checkout/[slug]/page.tsx` | React state, the pending session in `localStorage`, payment functions that wait, the QR window, its messages | load, restore, look up, step through, pay by wallet, open a QR window, cancel, leave |
| dashboard | `frontend/src/app/app/page.tsx` | React state: user, list, selection, form, deposits, flags; functions that wait | sign in and out, open, edit, save, delete, import, refresh; agents' panel |
| other pages | `frontend/src/app/{landing,agents,reset-password,verify-email}` | none that outlives a request | static text, or one form and one call |
| wiring | `backend/main.go`, `backend/database/` | connections | routes |

How they interact. A create handler puts the terms of a checkout (event, amount, merchant,
participant) in Redis under a fresh reference. The participant's wallet makes a transfer whose
memo holds the reference. A finalizing handler (confirm, recheck, detect, or v1 submit and
detect) reads the terms back from Redis, asks the RPC node about the transaction, and then
`finalizePaidCheckout` checks the e-mail rule and upserts two tables. The reconciler verifies
signed rows of `event_checkouts` again. v1 sessions add a row with a state of their own, written
after the receipt. Hosts edit and delete events unless a paid checkout exists. The checkout page
creates a session through v1, or through the earlier endpoint if v1 refuses, and then either asks
the wallet to send the transfer and submits its signature, or opens a window with a QR code that
polls detect and posts what it finds to the page. As it closes it cancels its session. The
dashboard loads the list and the deposits of the selected event, and fills its form by an effect of
the selection.

What is hard, and what makes each part correct:

- *Interleaved finalizations, cancels and reconciler passes.* A receipt is issued only against a
  verified transfer, is never withdrawn, and is not reported before it is stored.
- *Statements that fail, and crashes between statements.* The two tables and Redis may disagree,
  but only in one direction.
- *Check, then act.* The e-mail rule, the session state in cancel and submit, an event's "no paid
  deposits", the hourly limit of agents, the single use of a nonce.
- *Stale data.* Terms read before a 15-second verification, a result set read at the start of a
  pass, a key cache refilled beside an invalidation.
- *Late answers.* A function of a page sets the page's state after an await, whatever the page shows
  by then: two payments that overlap, a receipt of an earlier session, a list that arrives after the
  host has opened another event. Several calls share one "busy" flag.
- *Retries and idempotency.* A key gets one answer, whatever requests race.
- *Liveness.* A payment that was made is recorded as long as somebody asks; a signed row is
  recovered; a page that waits becomes usable again.

`PROJECT.json` lists every hazard at its line, with the properties that cover it or the reason
why none does.

## 2. Plan

| order | module | what | state |
|---|---|---|---|
| 1 | `PaymentStore` | shared tables, Redis keys, chain: one operator per statement | done |
| 2 | `Checkout` | public checkout and reconciler over the store | done |
| 3 | `Receipts` | the abstract promise: quote once, settle only if paid, never withdraw | done; `Checkout` and `PaymentSessions` implement it |
| 4 | `CheckoutProofs` | types, `PaidIsVerified`, `PaidHasInvoice`, `ToldIsPaid`, the refinement, for all constants | done |
| 5 | `PaymentSessions` | v1 sessions beside the public checkout (extends `Checkout`) | done |
| 6 | `AgentKeys`, `AgentKeysProofs` | key table, cache, environment fallback, revocation | done |
| 7 | `CheckoutPage`, `CheckoutPageProofs` | the page and its QR window over an abstract server and chain | done |
| 8 | `Dashboard`, `DashboardProofs` | the host's page, with the event handlers of `events.go` behind it | done |
| 9 | `PaymentSessionsProofs` | the same for the composition, its own `SessionPaidHasReceipt` and `SameAnswer` | done |
| 10 | `EmailRule`, `EmailRuleProofs` | a request breaks the e-mail rule only in the race of query and write (extends `PaymentSessions`) | done |
| 11 | `EventHost` | deletion of an event with the foreign keys' cascade, beside the payments (extends `PaymentSessions`) | open |
| 12 | `AgentRuntime` | nonces, agent sessions, PATs, intents with limit and idempotency | open |
| 13 | `Accounts`, rate limiter | tokens, sessions, counters | open |
| 14 | `TxVerify`, `ParticipantFields` | pure algorithms against reference definitions | open |

Every safety property a passing run checks has a theorem, for every value of the constants and without
further conditions. Open theorems belong to the open modules: nonces and intents, and the cascade of a deleted
event. Section 6 says what those modules leave unmodelled.

## 3. The modules

**PaymentStore.** `quote[r]` is what the Redis hash of reference `r` holds; it is a field of its
own because it never changes after `HSET`, while `redis[r]` says whether the key is still there
and has a TTL. `invoice[r]` and `checkout[r]` are the rows of the two tables, by reference (unique
in both), reduced to status and signature. A reference exists once it is drawn (`FreshRef` is
`uuid.NewString`). `Tx` gives for each signature the references its memo contains, what it
transfers and who pays; `landed` is the set the RPC node would confirm. `Verifies` is what
`VerifyTransactionForMerchantWithSender` decides, `VerifiesDirect` what
`VerifyDirectTransferForMerchant` decides. `SameEmail` keeps an asymmetry of the code: the new
address is trimmed and lower-cased, the stored one only lower-cased. `told` is a history variable:
the references a response has reported paid. `StoreInit` lets `LegacyRefs` hold rows as the earlier
release left them (pending or failed, with or without a signature): the queries of cancel and of
the reconciler look for such rows, and no handler of this release writes them. `EditEvent` is the
`UPDATE` of `updateEvent`, for the events in `Edited`: price, merchant and closing time may change
between a create, which copies the terms into Redis, and the verification, which uses the copy.

**Checkout.** `proc[p]` is a request in flight. Every action is one call to a store together with the
local work up to the next call; a read whose result is final (the invoice fields, which never
change) is merged with the step before it. `ConfirmStart`, `RecheckStart`, `DetectStart`: the reads
at the top of the three handlers. `VerifyOk`, `VerifyFail`: the RPC call, which may fail at any
time. `EmailChecked`, `WriteInvoice`, `WriteCheckout`: `finalizePaidCheckout`.
`Finish`: back in the handler. `Fail`: a statement fails and the handler returns. A statement whose
error the code ignores has a disjunct that leaves its table unchanged. `sweep` is the reconciler's
result set, `recent` the rows younger than the 24 hours of its query. `Crash` loses requests and
result set, and keeps the stores.

**PaymentSessions** extends `Checkout`: its own requests `req[q]` run beside those of the public
checkout on the same tables. Each reference has at most one session, so the reference stands for
the session id. The insert of an attempt and the update of the session that follows it are one
action: no handler reads `payment_attempts`, so nothing can observe the state between them except
a crash, which the disjuncts that ignore an error cover. `KeyFree` is the unique index, which covers
the empty key.

**EmailRule** extends `PaymentSessions` by one history variable. A request is *deciding* about its
reference between the query of `finalizePaidCheckout` and its write of the checkout (`Deciding`), and
`overtaken[r]` collects what became paid since. `Rivals` are two checkouts of one address and event of
which the query finds the other one: a stored address with blanks it does not find. The module is there to
say precisely how the rule fails, which `checkout_race` shows it does.

**Receipts** is the abstract specification. `ImplementsReceipts` maps a paid row of
`event_checkouts` to a receipt (`receiptBar`).

**AgentKeys** stands alone: it shares no state with payments. `active[a]` is the key in an agent's active
row; `cache` and `fresh` are `runtimeAgentKeyCache`. A signed request looks the cache up (`LookupHit`,
`LookupMiss`), reads the table outside the lock (`Query`; `QueryCut` if the result breaks off, where the
code takes what it has, or the environment's keys), and stores what it read (`Fill`), whatever has
happened since. A host's request writes the table and then invalidates (`Write`, `Invalidate`).
`drifted` and the calls' `outdated` are history: they say whether a stored copy had been overtaken.

**CheckoutPage.** `page` is the React state: whether the page is up, its event, the step, the method,
the reference, the status, the countdown. `activeSessionId` is no field of its own, for the page knows it
exactly for the references v1 handed out (`HasSession`). `flow[f]` is one call of a payment function, and its `pc` says which
await it is at: `create`, `legacy` (the earlier endpoint), `prompt` (the wallet), `confirm` (the
chain), `submit`, the answers, `undo` (the cancel after a failure). What such a function does between
two awaits is one action. The page offers Refresh Session while a function waits, so flows overlap.
`popup[r]` is the QR window of a reference, `posted` its messages, `cancels` what Back waits for.
Behind the page stand an abstract server (`key`, `session`, `paid`: the invoice in Redis, the v1
session, the receipt, with the refusals of the real handlers) and the chain (`sent`, `landed`). A
request that the end of the page cuts off is served before the end or never. `GoesStale` and
`KeyExpires` are the ten and the twenty minutes. A cancel may be served although its answer is lost
(`Undo`). `posted` has the messages of the page's own windows only: the handler does not look at a message's
origin, and that no other sender posts to the page is an assumption. The links between the modules are by their code,
not by `INSTANCE`: `CheckoutPage` states the server by what the page can tell apart of it.

**Dashboard.** `page` is the React state: user, list, selection, mode, panel, form, deposits, flags.
The form is reduced to what it was filled from: an event, a draft, nothing, or more than one of them
(`mixed`). `job[j]` is a function that waits (two loads,
and create, update, delete, each a call and then a load), `asks` the requests for deposits, `signing`
the sign-in calls, `filling` the imports and images being read, each with the event whose form it was begun
in: `Filled` puts what was read into whichever form is open by then, which becomes `mixed` if that is another
event's, and Save would write it there. A handler of the page runs to its
next await in one action, with the render and the effects that follow: `Render` fills the form and
asks for the deposits when the selection has changed and the list has the event. `missed` remembers
that the list has lacked the selected event, when that effect does not run. `rows` and `paid` are the
server's, and `CheckDeposits` and `Write` the two statements of `updateEvent` and `deleteEvent`.
There is one account. The log-out's call may fail, so later calls may still be served. A deleted event
has no deposits.

**MCStore, MCCheckout, MCSessions, MCEmailRule, MCAgentKeys, MCCheckoutPage, MCDashboard** hold the values that a
`.cfg` cannot write down. `MCCheckoutPage` and `MCDashboard` look at several small instances in one
run: a variable `bound`, chosen at the start and never changed, says which, and `Within` keeps to it.

Definitions named with a slip (`SweepFailUnguarded`, `NoIndex`, ...) are forms of an action with a
plausible mistake. No specification uses them; the property each one breaks is listed in
`PROJECT.json`.

## 4. The runs

| run | instance | question | result |
|---|---|---|---|
| `checkout` | 2 requests of any kind but recheck (confirm without its error write), reconciler, 1 reference (new or legacy), 2 transfers that both pay it and 1 for manual-verify, a host who edits the event | types, `PaidIsVerified`, `PaidHasInvoice`, `ToldIsPaid`, refinement of `Receipts` | holds |
| `checkout_live` | 2 requests, reconciler, a host who edits the event, fair | `LandedIsRecorded`, `SignedIsRecovered` | holds |
| `checkout_race` | 2 requests, 2 references, 1 e-mail | `OneEmailPerEvent` | violated |
| `checkout_recovery` | fair, reconciler | `ErrorIsRecovered` | violated |
| `sessions` | 2 v1 requests, 1 public cancel or detect, 1 reference, a transfer with and one without the memo; or 1 request at a time, 2 references, 1 e-mail | types, `SessionPaidHasReceipt`, `PaidIsVerified`, `ToldIsPaid`, refinement | holds |
| `session_rules` | 2 references; either 2 v1 creates or cancels and 2 keys, or 2 requests at a time of either interface and 2 spellings of one address, one with blanks | `SameAnswer`, `OnlyRacesRepeat` | holds |
| `session_cancel` | 2 v1 requests | `PaidNotCancelled` | violated |
| `agent_keys` | 2 requests (signed, upsert, revoke), 2 agents, 2 keys, an environment that knows one agent, fair | types, `StaleIsExplained`, `AnswersSettle` | holds |
| `checkout_page` | 2 wallet flows that overlap; or a wallet and a QR session in turn; or a QR session beside an e-mail check; fair | types, `ShownPaidIsPaid`, `StatusIsOfReference`, `QrPaidIsShown`, `BusyEnds` | holds |
| `dashboard` | six instances of 1 or 2 events with the functions that may overlap; fair | types, `FormIsSelected`, `ButtonsReturn` | holds |
| `dashboard_deposits` | 2 events, the host goes from one to the other | `DepositsAreOfSelected` | violated |
| `events_race` | a payment beside a save or a delete | `PaidIsKept` | violated |

The violated ones are explained under "findings" in `PROJECT.json`, each against the line of the
documentation or comment it contradicts. `OneEmailPerEvent` fails in more ways than `checkout_race` shows: with an address in `Padded` (typed with
blanks, `checkout.go:634`) one request at a time is enough, and so it is with manual-verify and with the
reconciler (for rows of the earlier release), which ask about no address. `OnlyRacesRepeat` says that these and the race
are all: a request that does ask writes a second paid checkout
of a stored address only if the first one became paid after its query. Two requests of either interface
are what it takes for that to happen, and in `session_rules` it does.

`FormIsSelected` leaves two cases open, both reachable in its run and both the code's: an event created or
chosen while the list lacked it (`missed`, `page.tsx:835`), and an import or image that was begun in another
form (`mixed`, `page.tsx:1037-1051` and `1161-1163`). In either, Save may write another form's fields to the
selected event. No document of the repository speaks of them, so they are hazards in `PROJECT.json` and not findings.
A v1 create without a key stores the empty string (`v1_payment.go:157`), which the unique index covers, so the
second one is refused: `VCreateRefused` has this outcome and no property forbids it.

Bounds. Two requests are the least that interleave, and every race in this code is between two
finalizers, or one and a cancel or the reconciler; the third actor (the reconciler) is there beside
them. One reference is enough for every property that speaks of one reference at a time: the only
statement that reads the rows of another reference is the e-mail rule, and the runs about it have
two. Two transfers let a reference be paid twice, so that finalizers disagree about the signature.
In `agent_keys` a second agent is what makes the
registry non-empty without the first, so that the environment is used or not. One event: nothing relates two events except the e-mail rule, which never crosses them. The state
spaces are finite without counters. `sessions` and `session_rules` look at two instances each. In `sessions` they are the disjuncts of
`EitherInstance`: requests that overlap on one reference (and at most one logged attempt), and one request at a time on two references of one
address, where v1 meets the refusals of the e-mail rule and of the unique index. In `session_rules` the two instances are the two disjuncts of a state
constraint (`EitherRule`): in the first no transaction lands and nobody gives an address, in the second at most two
of the three requests run at a time, everybody gives an address, no key is used and the inserts into
`payment_attempts`, which the code lets fail and nothing reads, do. Requests are interchangeable (symmetry), except in the runs with
liveness. In `checkout_page` two flows are the
most that the page can have beside each other without a third doing what the second did, and
one reference each for wallet and QR lets an old window's receipt meet a new session; e-mail
checks overlap with all that in the third instance (`MaxChecks`). The dashboard's instances pair the
functions that touch the same state: create with refresh and import, create with delete, update with
delete and a payment, delete with two events, create with log-out, and registration. At most one import or image is under way, which
meets every form the host can have opened since. `MaxAsks`
bounds the requests for deposits at which the host may cause another; the page's own effects are
never held back by it. Deadlock is not checked: when all references are drawn, all transfers have landed and all
windows are closed, the system may come to rest.

Fairness (`checkout_live`, `checkout_recovery`). A request goes on once begun (`WF` of its next
steps): every call it makes returns or times out. The reconciler's ticker fires again and again and
its pass goes through its rows (`WF`). An outage ends: from some time on the node and the database
answer and the server stays up; with outages for ever nothing could be promised. It is stated as
`<>[][Calm]_vars`, every step from then on being one of a calm time, and not as the absence of outage
steps: a crash with one request in flight looks like that request's return, and to forbid the one
would forbid the other. Clients owe nothing: `LandedIsRecorded` has the page's polling (every 7 to 15 seconds in
the QR window) as its hypothesis.

`agent_keys` assumes the same of its requests, that a cache entry expires, and that outages end. Nobody
is assumed to stop writing keys: `AnswersSettle` speaks of one agent's key, and the others' may change
for ever.

`checkout_page` assumes that the functions of a page that is up go on (every `fetch` is answered or
fails, `WF` of `Proceed(f)`), and that an open QR window goes on polling, gets through and has its
message handled (`WF` of `Detect`, `PollPaid`, `Receive`): it polls for ten minutes, and
`QrPaidIsShown` ends where the window does. Nothing is assumed of the attendee, of the wallet's
prompt (`BusyEnds` excepts it: the browser does not end it) or of the chain. `dashboard` assumes that
every call is answered or fails, and nothing of the host.

## 5. What is proved

`CheckoutProofs` proves, for any number of requests, references, events, participants and
transactions, from `StoreAssumption` alone (finitely many references, tables that are functions,
`None` a value of its own):

- `TypeCorrect`: `Spec => []TypeOK`. Not inductive alone: a request past its first lookups must know
  its reference (`RefKnown`).
- `PaidVerified`: `Spec => []PaidIsVerified`. The inductive invariant `IInv` adds what the argument
  needs: a legacy row that has not been paid and its quote (`LegacyRowsKnown`, `LegacyTerms`, so that
  the reconciler, which takes the merchant from the event and the amount from the row, verifies the
  quoted terms), a Redis key only for a drawn reference (`RedisKnown`), and that a request between its
  verification and its writes carries a signature that backs its reference (`InFlight`). The last is
  the heart of it: verification and write are separate steps, and what was verified stays true because
  quotes never change, although the events they were copied from do, and confirmed transactions stay confirmed (`Stable`). Each action's effect on
  each table is stated once (`QuoteSteps`, `LandedSteps`, `RedisSteps`, `InvoiceSteps`,
  `CheckoutSteps`, `SweepSteps`) and the invariant's conjuncts follow from these.
- `CheckoutImplementsReceipts`: `Spec => R!RSpec`. Initial states map to initial states, and a step is
  a confirmation, a quote, a settlement or a stutter; that it is never a withdrawal needs `IInv`.
- `PaidIsInvoiced` and `ToldStaysPaid`: `Spec => []PaidHasInvoice` and `Spec => []ToldIsPaid`. On top of
  `IInv`, the invariant `Told` says that a request about to write the checkout has written the invoice
  (`InvoiceFirst`: the order of the two upserts in `finalizePaidCheckout`, and the reason a crash
  between them is harmless), that only a reference drawn by manual-verify goes through its two inserts
  (`ByHand`), and that what clients were told is paid or drawn by hand (`ToldOnce`). That no other
  request undoes this in between are facts of their own: `SettledStays` (a late confirm
  turns a settled invoice into `error` at worst, a cancel takes pending rows only), `PaidStays`, and
  `WritingSteps`, which lists how a request comes to each write.

`PaymentSessionsProofs` carries all this to the composition, where v1 requests write the same tables between
any two steps of the public checkout, and adds what is the sessions' own. It assumes `StoreAssumption`,
`OpsAssumption` and `VOpsAssumption`, and holds for any number of requests of either kind, references and
idempotency keys. A step of `SSpec` is one of three (`StepKinds`): a step of the public checkout, of which
`CheckoutProofs` speaks already and which leaves the sessions alone; a crash; or a step of a v1 request, which
writes the shared tables only by statements the public checkout has too (`SharedWrites`). So every conjunct of
`IInv` and `Told` needs one argument more, and the conjuncts about requests in flight need that the other
interface's steps keep what a request carries (`OthersStay`, `OthersCarry`, `VNextCarries`).

- `SessionTypes`, `SessionsPaidVerified`, `SessionsImplementReceipts`: `STypeOK`, `PaidIsVerified` and the
  refinement of `Receipts` for `SSpec`. The inductive invariant is `SInv`: `IInv` and the types, that every session
  has an invoice (`SessionKnown`), what a v1 request knows at each of its steps (`VInFlight`: as for the public
  ones, verified before it writes), and that no two creates hold one fresh reference (`Apart`: a
  create draws its reference several statements before it inserts the row, so uniqueness in the table
  alone does not give it).
- `SessionsHaveReceipts`, `SessionsToldStaysPaid`, `SessionsPaidIsInvoiced`: `SessionPaidHasReceipt`, `ToldIsPaid` and
  `PaidHasInvoice` for `SSpec`. On top of `SInv`, `STold` adds `VReceipted`: a v1 request that
  is about to write the checkout has settled the invoice, and one that is about to settle the session or
  to answer has a paid checkout. A session's row is the last of three written by separate statements,
  so this has to survive every other request, and it does because settled invoices and paid checkouts stay
  (`ReceiptsStay`).
- `SameKeySameAnswer`: `SSpec => SameAnswer`, the action property that the answer saved for a key is
  never replaced by another. Its invariant `Keyed` says that sessions have distinct keys, that a saved answer
  is the session of its key, and that a create that is about to save has the session it will save. The proof shows
  what the property rests on: the unique index of the sessions, and not the lookup at the top of the handler,
  which two creates can both pass.

`EmailRuleProofs` proves, from the assumptions of the composition, what is true of the e-mail rule in the code as it
runs: `RacesOnly`, `ESpec => OnlyRacesRepeat`. A checkout becomes paid by a deciding request, by
manual-verify or by the reconciler (`NewlyPaid`, `WriterDecides`), and the latter two do not ask. The inductive
invariant `RivalsOvertook` says that every paid rival of a reference somebody is deciding about is in its
`overtaken`. It begins to hold when a request passes the query, which finds every rival that is paid by then
(`DecidingBefore`: whoever is deciding either was before or has just asked), and it is kept because a checkout that becomes
paid later is added, and because addresses, events and references of quotes never change (`SStable`). So the race of query and write is
not one way to break the rule but the only one left to a request that asks; a lock around
`finalizePaidCheckout` would close it.

`AgentKeysProofs` proves, for any number of agents, keys and requests and any environment, from
`AgentKeysAssumption`, `KeyTypes` (`Spec => []TypeOK`) and `CacheCoherence`
(`Spec => []StaleIsExplained`). The latter is inductive with `CopyKnown`: a request that holds a copy no
write has overtaken holds the table.

`CheckoutPageProofs` proves, for any number of references, flows and e-mail checks and any set of payment
methods, from `PageAssumption`, `PageTypeCorrect` (`TypeOK`), `PageShowsReceipts` (`ShownPaidIsPaid`) and
`PageIsConsistent` (`StatusIsOfReference`). The inductive invariant `PageInv` has four parts: the types, with
that a flow past its creation knows its reference (`FlowRefs`); `Honest`, that the server's receipts are for
confirmed transfers and that a receipt on its way to the page (an answer of submit that says ok, a
message of a QR window) is one of the server's, which is what lets a late answer be believed;
`Consistent(page)`, the relation of status and reference; and `Backed(page, paid)`, that a receipt
the page shows is the server's. `HelperStatus` says what the page's own functions do to status and
reference, and every action's step rests on it.

`DashboardProofs` proves, for any number of events and requests, from `DashboardAssumption`, `DashboardTypes`
(`TypeOK`) and `FormFollowsSelection` (`FormIsSelected`). The inductive invariant adds to the property that a selected
event the list has never lacked is in the list (`Filling`): without it a late list could bring the event
without its effect being run. Both cases the property leaves open, `missed` and `mixed`, are states of the
proof like any other: what is shown is that nothing else separates form and selection. What a render does is stated once, as a lemma every handler's step cites.

Only model-checked: the liveness properties (`LandedIsRecorded`, `SignedIsRecovered`,
`AnswersSettle`, `QrPaidIsShown`, `BusyEnds`, `ButtonsReturn`), which the proof system cannot
reach: they rest on fairness and `ENABLED`. The properties of the five runs that expect a violation are
false of the code and have no theorem; of `OneEmailPerEvent`, `RacesOnly` says what is left.

## 6. Not modelled

- Deletion of events beside payments: `Dashboard` has the server's check and its write as two
  statements (`events_race`), and the guard of `PutCheckoutPaid` has the foreign key, but in
  `Checkout` an event stays for ever, so the cascade that removes its checkouts is not modelled, and
  `ToldIsPaid` and `Receipts` hold for events that are kept.
- Edits of an event that has checkouts of the earlier release. The reconciler verifies such a row against the
  merchant its event has by then, which may be another than the attendee was asked to pay: `EditEvent` spares these events.
- Messages to the checkout page from other senders than its QR windows (`page.tsx:238-245` takes any origin).
- In the dashboard, the drafts of new events are not told apart: an import begun for one and received by the
  next is a draft like any other.
- The agent runtime, personal access tokens, accounts and the rate limiter. They keep state of their own and
  could be modelled like `AgentKeys`; what the code is exposed to there is in the list of hazards.
- Participant fields, the decoding of transactions and the Luma import: pure functions on text or
  on binary data, of which the models need the verdict only.
- In the dashboard: the panel for agents' keys and tokens (lines 673-799 and 1993-2212 of the page) and the
  cool-down of the verification mail. Search, order and paging are "any card of the list".
- The landing, agents, reset and verification pages: one form and one call at most.
- Inputs a handler rejects before it touches a store (bad JSON, missing fields, invalid addresses).
  They change nothing.
- The wallet address, the paid and created times, the error reasons, the QR links, the webhooks: no
  property is about them.
- A reorganisation that takes a confirmed transaction back: the code asks for commitment "confirmed"
  once and never again.
- The pass limit of the reconciler (200 rows) and the 30 signatures detect looks at.
- Rows of `agent_api_keys` that do not decode, and an `AGENT_PUBLIC_KEYS_JSON` that is set but holds no
  valid key: the registration refuses the former, and the latter differs from an unset variable only in
  that the empty map is cached. The window of a signature's timestamp and its canonical text: a request
  is signed with a key or it is not.
