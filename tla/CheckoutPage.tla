---------------------------- MODULE CheckoutPage ----------------------------
(***************************************************************************)
(* The public checkout page, frontend/src/app/checkout/[slug]/page.tsx: a  *)
(* page that pays through overlapping asynchronous flows, a popup that     *)
(* polls for it, the session it keeps in localStorage, and the part of the *)
(* server and of the chain these meet.  The attendee may press whatever    *)
(* the page offers, leave, come back or lose the page; every answer may be *)
(* late or lost.                                                           *)
(*                                                                         *)
(* A request that the end of the page cuts off is served before the end or *)
(* never; a cancel that comes later does to the invoice what its expiry    *)
(* does.  The event may open or close its window between any two calls.    *)
(***************************************************************************)
EXTENDS Naturals

CONSTANTS
  Refs,       \* references the server may hand out
  QrRefs,     \* those it hands to QR sessions; the others go to wallets
  Flows,      \* payment flows of one page that may overlap
  Methods,    \* the payment methods of the event
  MaxChecks,  \* bound on e-mail checks in flight at the same time
  None

ASSUME PageAssumption ==
  /\ QrRefs \subseteq Refs
  /\ Methods \subseteq {"wallet", "qr"} /\ Methods # {}
  /\ MaxChecks \in Nat
  /\ None \notin Refs /\ None \notin {"wallet", "qr"}

VARIABLES
  key,        \* server: the invoice of each reference in Redis
  session,    \* server: the v1 session of each reference; failed and cancelled ones ended
  paid,       \* server: references with a receipt
  sent,       \* references a transfer was broadcast for
  landed,     \* references whose transfer is confirmed
  page,       \* the React state of the page
  stored,     \* localStorage: the reference of the pending session
  flow,       \* the asynchronous payment functions under way
  popup,      \* the QR window of each reference
  posted,     \* receipts on their way from a popup to the page
  cancels     \* references of the cancels the page waits for

server == <<key, session, paid>>
chain  == <<sent, landed>>
away   == <<popup, posted, cancels>>
vars   == <<server, chain, page, stored, flow, away>>

Method(r) == IF r \in QrRefs THEN "qr" ELSE "wallet"

\* activeSessionId is known exactly for the references the v1 API handed out, and
\* stands in React's state and in localStorage beside its reference.
HasSession(r) == session[r] # "none"

\* statusData: the status of a reference, or an answer that could not be read.
StatusSet == [ref : Refs \cup {None}, state : {"none", "pending", "paid", "unread"}]
NoStatus  == [ref |-> None, state |-> "none"]

\* sessionMethod is chosen and paymentMethod is picked.
PageSet == [
  up     : BOOLEAN,
  event  : {"loading", "open", "expired"},
  step   : 0..2,
  picked : {"wallet", "qr"},
  chosen : {"wallet", "qr", None},
  ref    : Refs \cup {None},
  status : StatusSet,
  timer  : {"off", "running", "zero"},
  busy   : BOOLEAN,
  checks : 0..MaxChecks,
  asking : Refs \cup {None}]

Blank == [up |-> FALSE, event |-> "loading", step |-> 0, picked |-> "wallet", chosen |-> None,
          ref |-> None, status |-> NoStatus, timer |-> "off", busy |-> FALSE,
          checks |-> 0, asking |-> None]

FlowSet == [
  pc   : {"idle", "create", "legacy", "prompt", "confirm", "submit", "ok", "unread", "refused", "undo"},
  kind : {"wallet", "qr"},
  ref  : Refs \cup {None}]
Idle == [pc |-> "idle", kind |-> "wallet", ref |-> None]

TypeOK ==
  /\ key \in [Refs -> {"unused", "live", "gone"}]
  /\ session \in [Refs -> {"none", "open", "ended", "paid"}]
  /\ paid \subseteq Refs /\ sent \subseteq Refs /\ landed \subseteq Refs
  /\ page \in PageSet
  /\ stored \in Refs \cup {None}
  /\ flow \in [Flows -> FlowSet]
  /\ popup \in [Refs -> {"none", "open", "done", "closed"}]
  /\ posted \subseteq Refs /\ cancels \subseteq Refs

-----------------------------------------------------------------------------
(* What the page's functions do to its state. *)

Cleared(p) == [p EXCEPT !.ref = None, !.chosen = None, !.timer = "off"]

\* hydrateStatus: only a paid status ends the session and moves to the receipt.
Hydrated(p, r, state) ==
  LET q == [p EXCEPT !.status = [ref |-> r, state |-> state], !.ref = r]
  IN  IF state = "paid"
      THEN [Cleared(q) EXCEPT !.picked = Method(r), !.step = 2]
      ELSE q

\* The receipt of r is shown, and the pending session forgotten.
ShowReceipt(p, r) == page' = Hydrated(p, r, "paid") /\ stored' = None

\* persistPending, beside what it writes to localStorage.
Timed(p, r) == [p EXCEPT !.timer = IF Method(r) = "wallet" THEN "running" ELSE "off"]

\* A created session becomes the page's, whatever the page shows by then.
Adopted(p, r) ==
  Timed([p EXCEPT !.ref = r, !.status = [ref |-> r, state |-> "pending"],
                  !.chosen = Method(r), !.picked = Method(r)], r)

IsPaid    == page.status.state = "paid"
HasActive == page.ref # None /\ ~IsPaid

\* chosenMethod, for the buttons of the third step.
Offered == IF page.status.ref # None THEN Method(page.status.ref)
           ELSE IF page.chosen # None THEN page.chosen ELSE page.picked

Usable == page.up /\ page.event = "open"

\* The page holds the receipt of r, which the third step shows.
Shows(r) == page.status = [ref |-> r, state |-> "paid"]

-----------------------------------------------------------------------------
(* What a cancel does on the server. *)

\* A v1 session that is paid is left alone, with its invoice.
CancelV1(r) ==
  IF session[r] = "paid" THEN UNCHANGED <<key, session>>
  ELSE /\ session' = [session EXCEPT ![r] = "ended"]
       /\ key' = [key EXCEPT ![r] = "gone"]

\* The earlier endpoint knows nothing of sessions.
CancelLegacy(r) == key' = [key EXCEPT ![r] = "gone"] /\ UNCHANGED session

-----------------------------------------------------------------------------
(* Loading, restoring and leaving the page. *)

\* The page is opened; a pending session is resumed at the third step and its
\* status asked for.
Mount ==
  /\ ~page.up
  /\ page' = IF stored = None THEN [Blank EXCEPT !.up = TRUE]
             ELSE Timed([Blank EXCEPT !.up = TRUE, !.step = 2, !.ref = stored, !.asking = stored,
                          !.chosen = Method(stored), !.picked = Method(stored)], stored)
  /\ UNCHANGED <<server, chain, stored, flow, away>>

\* The event is read once, and so is whether its window has closed; an event that
\* cannot be read leaves the page empty.
LoadEvent ==
  /\ page.up /\ page.event = "loading"
  /\ \E event \in {"open", "expired"} :
       page' = [page EXCEPT !.event = event,
                            !.picked = IF Methods = {"qr"} THEN "qr" ELSE @]
  /\ UNCHANGED <<server, chain, stored, flow, away>>

\* The status endpoint knows paid references only.
RefreshAnswer ==
  /\ page.asking # None
  /\ \/ page.asking \in paid /\ ShowReceipt([page EXCEPT !.asking = None], page.asking)
     \/ page' = [page EXCEPT !.asking = None] /\ UNCHANGED stored
  /\ UNCHANGED <<server, chain, flow, away>>

\* A slip: the countdown goes on below zero.
TimerRunsOn ==
  /\ page.chosen = "wallet" /\ page.ref # None /\ page.timer # "off"
  /\ page' = [page EXCEPT !.timer = IF @ = "running" THEN "zero" ELSE "below"]
  /\ UNCHANGED <<server, chain, stored, flow, away>>

TimerRunsOut ==
  /\ page.chosen = "wallet" /\ page.ref # None /\ page.timer = "running"
  /\ page' = [page EXCEPT !.timer = "zero"]
  /\ UNCHANGED <<server, chain, stored, flow, away>>

\* Ten minutes after the session was kept its entry is as good as none.
GoesStale ==
  /\ stored # None
  /\ stored' = None
  /\ UNCHANGED <<server, chain, page, flow, away>>

\* The page ends and its functions with it.
Ended ==
  /\ page' = Blank
  /\ flow' = [f \in Flows |-> Idle]
  /\ posted' = {} /\ cancels' = {}

\* beforeunload and pagehide: an active session is cancelled by a beacon, which
\* names its reference only, and forgotten.
GiveUp ==
  IF HasActive THEN (CancelLegacy(page.ref) \/ UNCHANGED <<key, session>>) /\ stored' = None
  ELSE UNCHANGED <<key, session, stored>>

Leave ==
  /\ page.up
  /\ Ended /\ GiveUp
  /\ UNCHANGED <<paid, chain, popup>>

\* The browser asks whether to leave, and the attendee stays: the beacon is out.
LeaveButStay ==
  /\ page.up /\ HasActive
  /\ GiveUp
  /\ UNCHANGED <<paid, chain, page, flow, away>>

\* The page is killed without a handler being called.
Kill ==
  /\ page.up
  /\ Ended
  /\ UNCHANGED <<server, chain, stored, popup>>

-----------------------------------------------------------------------------
(* The lookup, and the first two steps. *)

\* Whatever the page shows, a receipt that is found replaces it.
Lookup ==
  /\ page.up /\ page.event # "loading"
  /\ \E r \in paid : ShowReceipt(page, r)
  /\ UNCHANGED <<server, chain, flow, away>>

\* Continue with a valid form; with an e-mail its receipts are looked up first.
\* The button is not disabled meanwhile.
Continue ==
  /\ Usable /\ page.step = 0
  /\ \/ page' = [page EXCEPT !.step = 1]
     \/ page.checks < MaxChecks /\ page' = [page EXCEPT !.checks = @ + 1]
  /\ UNCHANGED <<server, chain, stored, flow, away>>

\* A receipt stops the attendee, and so does a failed call; any other answer
\* moves the page to the second step, wherever it is by then.
CheckAnswer ==
  /\ page.checks > 0
  /\ \E step \in {1, page.step} : page' = [page EXCEPT !.checks = @ - 1, !.step = step]
  /\ UNCHANGED <<server, chain, stored, flow, away>>

PickMethod ==
  /\ Usable /\ page.step = 1
  /\ \E m \in Methods : page' = [page EXCEPT !.picked = m]
  /\ UNCHANGED <<server, chain, stored, flow, away>>

BackToForm ==
  /\ Usable /\ page.step = 1
  /\ page' = [page EXCEPT !.step = 0]
  /\ UNCHANGED <<server, chain, stored, flow, away>>

\* A session that is still there is forgotten, not cancelled.
ContinueToPay ==
  /\ Usable /\ page.step = 1
  /\ page' = [Cleared(page) EXCEPT !.status = NoStatus, !.chosen = page.picked, !.step = 2]
  /\ stored' = None
  /\ UNCHANGED <<server, chain, flow, away>>

-----------------------------------------------------------------------------
(* The third step: starting to pay. *)

\* Flows have no names in the code: any idle one will do.
Start(f, kind) ==
  /\ Usable /\ page.step = 2 /\ Offered = kind
  /\ flow[f].pc = "idle" /\ f = CHOOSE g \in Flows : flow[g].pc = "idle"
  /\ flow' = [flow EXCEPT ![f] = [Idle EXCEPT !.pc = "create", !.kind = kind]]
  /\ page' = [page EXCEPT !.busy = TRUE]
  /\ UNCHANGED <<server, chain, stored, away>>

Deposit(f) == ~IsPaid /\ ~page.busy /\ page.timer # "zero" /\ Start(f, "wallet")

\* Offered once the time is up, and not disabled while a flow is under way.
RefreshSession(f) == ~IsPaid /\ page.ref # None /\ page.timer = "zero" /\ Start(f, "wallet")

\* Not disabled by a receipt.
OpenQr(f) == ~page.busy /\ Start(f, "qr")

\* A flow ends: its finally clause.
Finished(f, p) ==
  /\ flow' = [flow EXCEPT ![f] = Idle]
  /\ page' = [p EXCEPT !.busy = FALSE]

\* A reference that was never handed out: which one makes no difference.
Fresh(r, kind) ==
  LET unused == {q \in Refs : key[q] = "unused" /\ Method(q) = kind}
  IN  r \in unused /\ r = CHOOSE q \in unused : TRUE

\* openQrWindow: a window of its own for each session, if the browser lets it.
QrWindow(r) == \E w \in {"open", "none"} : popup' = [popup EXCEPT ![r] = w]

\* A wallet session goes on to the wallet; a QR session opens its window.
Created(f, r) ==
  /\ Fresh(r, flow[f].kind)
  /\ key' = [key EXCEPT ![r] = "live"]
  /\ stored' = r
  /\ \/ /\ Method(r) = "wallet"
        /\ page' = Adopted(page, r)
        /\ flow' = [flow EXCEPT ![f].pc = "prompt", ![f].ref = r]
        /\ UNCHANGED popup
     \/ /\ Method(r) = "qr"
        /\ Finished(f, [Adopted(page, r) EXCEPT !.step = 2])
        /\ QrWindow(r)
  /\ UNCHANGED <<paid, chain, posted, cancels>>

CreateSession(f, r) ==
  /\ flow[f].pc = "create"
  /\ Created(f, r)
  /\ session' = [session EXCEPT ![r] = "open"]

\* The v1 API refuses, and the earlier one is tried.
CreateRefused(f) ==
  /\ flow[f].pc = "create"
  /\ flow' = [flow EXCEPT ![f].pc = "legacy"]
  /\ UNCHANGED <<server, chain, page, stored, away>>

CreateInvoice(f, r) ==
  /\ flow[f].pc = "legacy"
  /\ Created(f, r)
  /\ UNCHANGED session

\* Refused too, or the answer of either call is lost: the server may then hold a
\* session nobody has heard of.
CreateFails(f) ==
  /\ flow[f].pc \in {"create", "legacy"}
  /\ Finished(f, page)
  /\ UNCHANGED <<server, chain, stored, away>>

-----------------------------------------------------------------------------
(* The wallet flow, from the wallet's prompt on. *)

\* The session is kept once more, though the page may have left it.
Approve(f) ==
  /\ flow[f].pc = "prompt"
  /\ sent' = sent \cup {flow[f].ref}
  /\ page' = Timed(page, flow[f].ref)
  /\ stored' = flow[f].ref
  /\ flow' = [flow EXCEPT ![f].pc = "confirm"]
  /\ UNCHANGED <<server, landed, away>>

\* The transfer cannot be built, the attendee declines, or the call fails
\* although the transfer was broadcast.
Decline(f) ==
  /\ flow[f].pc = "prompt"
  /\ sent' \in {sent, sent \cup {flow[f].ref}}
  /\ flow' = [flow EXCEPT ![f].pc = "undo"]
  /\ UNCHANGED <<server, landed, page, stored, away>>

Confirm(f) ==
  /\ flow[f].pc = "confirm" /\ flow[f].ref \in landed
  /\ flow' = [flow EXCEPT ![f].pc = "submit"]
  /\ UNCHANGED <<server, chain, page, stored, away>>

\* Not confirmed in time, or failed on the chain: the session is left as it is.
ConfirmFails(f) ==
  /\ flow[f].pc = "confirm"
  /\ Finished(f, page)
  /\ UNCHANGED <<server, chain, stored, away>>

\* The invoice is there and the transfer is found.
Payable(r) == key[r] = "live" /\ r \in landed

\* The receipt is written and the invoice deleted.
Settle(r) ==
  /\ paid' = paid \cup {r}
  /\ key' = [key EXCEPT ![r] = "gone"]

\* submit-signature or confirm accept; the status they answer with may be empty.
Accept(f) ==
  /\ flow[f].pc = "submit"
  /\ Payable(flow[f].ref)
  /\ Settle(flow[f].ref)
  /\ \/ ~HasSession(flow[f].ref) /\ UNCHANGED session
     \/ /\ session[flow[f].ref] = "open"
        /\ session' = [session EXCEPT ![flow[f].ref] = "paid"]
  /\ \E pc \in {"ok", "unread"} : flow' = [flow EXCEPT ![f].pc = pc]
  /\ UNCHANGED <<chain, page, stored, away>>

\* They refuse: the session does not take a signature any more, the invoice has
\* expired, or the node does not know the transfer, which fails the session.
Refuse(f) ==
  /\ flow[f].pc = "submit"
  /\ flow' = [flow EXCEPT ![f].pc = "refused"]
  /\ \/ UNCHANGED session
     \/ /\ session[flow[f].ref] = "open" /\ key[flow[f].ref] = "live"
        /\ session' = [session EXCEPT ![flow[f].ref] = "ended"]
  /\ UNCHANGED <<key, paid, chain, page, stored, away>>

\* A slip: any answer is taken for a receipt, without a look at its code.
SubmitAnswerUnread(f) ==
  /\ flow[f].pc \in {"ok", "unread", "refused"}
  /\ flow' = [flow EXCEPT ![f] = Idle]
  /\ ShowReceipt([page EXCEPT !.busy = FALSE], flow[f].ref)
  /\ UNCHANGED <<server, chain, away>>

\* The answer arrives, or it is lost and shown as an error.
SubmitAnswer(f) ==
  /\ flow[f].pc \in {"ok", "unread", "refused"}
  /\ flow' = [flow EXCEPT ![f] = Idle]
  /\ LET p == [page EXCEPT !.busy = FALSE]
     IN  \/ flow[f].pc = "ok" /\ ShowReceipt(p, flow[f].ref)
         \/ flow[f].pc = "unread" /\ page' = Hydrated(p, None, "unread") /\ UNCHANGED stored
         \/ page' = p /\ UNCHANGED stored
  /\ UNCHANGED <<server, chain, away>>

-----------------------------------------------------------------------------
(* Cancelling. *)

\* The cancel of a flow's own session is served, or is not.
Undo(r) ==
  \/ IF HasSession(r) THEN CancelV1(r) ELSE CancelLegacy(r)
  \/ UNCHANGED <<key, session>>

\* A slip: the status stays.
UndoDoneKeepsStatus(f) ==
  /\ flow[f].pc = "undo" /\ Undo(flow[f].ref)
  /\ Finished(f, Cleared(page))
  /\ stored' = None
  /\ UNCHANGED <<paid, chain, away>>

\* A flow that has no signature cancels its session, or tries to, and clears the
\* page, whatever session the page holds by then.
UndoDone(f) ==
  /\ flow[f].pc = "undo" /\ Undo(flow[f].ref)
  /\ Finished(f, [Cleared(page) EXCEPT !.status = NoStatus])
  /\ stored' = None
  /\ UNCHANGED <<paid, chain, away>>

\* A slip: without its finally clause, a failing cancel leaves the page busy.
UndoThrowsBusy(f) ==
  /\ flow[f].pc = "undo"
  /\ flow' = [flow EXCEPT ![f] = Idle]
  /\ UNCHANGED <<server, chain, page, stored, away>>

\* The call fails, before or after it was served: nothing is cleared, but finally runs.
UndoThrows(f) ==
  /\ flow[f].pc = "undo" /\ Undo(flow[f].ref)
  /\ Finished(f, page)
  /\ UNCHANGED <<paid, chain, stored, away>>

\* Back asks before it gives up an active session.
Back ==
  /\ Usable /\ page.step = 2 /\ ~IsPaid
  /\ IF HasActive
     THEN /\ cancels' = cancels \cup {page.ref}
          /\ UNCHANGED <<page, stored>>
     ELSE /\ page' = [Cleared(page) EXCEPT !.status = NoStatus, !.step = 1]
          /\ stored' = None
          /\ UNCHANGED cancels
  /\ UNCHANGED <<server, chain, flow, popup, posted>>

\* Both endpoints are called; the page goes back to the second step whether or
\* not they worked.
CancelDone(r) ==
  /\ r \in cancels
  /\ cancels' = cancels \ {r}
  /\ \/ UNCHANGED <<key, session>>
     \/ CancelLegacy(r)
     \/ /\ session[r] = "open" /\ session' = [session EXCEPT ![r] = "ended"]
        /\ key' = [key EXCEPT ![r] = "gone"]
  /\ page' = [Cleared(page) EXCEPT !.status = NoStatus, !.step = 1]
  /\ stored' = None
  /\ UNCHANGED <<paid, chain, flow, popup, posted>>

-----------------------------------------------------------------------------
(* The QR window. *)

\* detect finds the transfer and settles.
Detect(r) ==
  /\ popup[r] = "open" /\ r \notin paid /\ Payable(r)
  /\ Settle(r)
  /\ UNCHANGED <<session, chain, page, stored, flow, away>>

\* A poll is answered with the receipt: the page is told, and the window closes.
PollPaid(r) ==
  /\ popup[r] = "open" /\ r \in paid
  /\ popup' = [popup EXCEPT ![r] = "done"]
  /\ posted' = IF page.up THEN posted \cup {r} ELSE posted
  /\ UNCHANGED <<server, chain, page, stored, flow, cancels>>

\* Its ten minutes are over, or the attendee closes it.
PopupEnds(r) ==
  /\ popup[r] = "open"
  /\ popup' = [popup EXCEPT ![r] = "closed"]
  /\ UNCHANGED <<server, chain, page, stored, flow, posted, cancels>>

\* A slip: only the receipt of the session the page is in.
ReceiveOwn(r) ==
  /\ r \in posted
  /\ posted' = posted \ {r}
  /\ IF r = page.ref THEN ShowReceipt(page, r) ELSE UNCHANGED <<page, stored>>
  /\ UNCHANGED <<server, chain, flow, popup, cancels>>

\* The message handler takes the receipt of any session, and of any sender: it does not
\* look at the origin.  The messages here are those of the page's own windows.
Receive(r) ==
  /\ r \in posted
  /\ posted' = posted \ {r}
  /\ ShowReceipt(page, r)
  /\ UNCHANGED <<server, chain, flow, popup, cancels>>

-----------------------------------------------------------------------------
(* The attendee's phone, the chain and time. *)

\* The code can be scanned once the window has shown it, whatever happened since.
PhonePays(r) ==
  /\ popup[r] # "none" /\ r \notin sent
  /\ sent' = sent \cup {r}
  /\ UNCHANGED <<server, landed, page, stored, flow, away>>

Land(r) ==
  /\ r \in sent \ landed
  /\ landed' = landed \cup {r}
  /\ UNCHANGED <<server, sent, page, stored, flow, away>>

\* Twenty minutes after the session was created, paid for or not.
KeyExpires(r) ==
  /\ key[r] = "live"
  /\ key' = [key EXCEPT ![r] = "gone"]
  /\ UNCHANGED <<session, paid, chain, page, stored, flow, away>>

-----------------------------------------------------------------------------
Init ==
  /\ key = [r \in Refs |-> "unused"] /\ session = [r \in Refs |-> "none"]
  /\ paid = {} /\ sent = {} /\ landed = {}
  /\ page = Blank /\ stored = None
  /\ flow = [f \in Flows |-> Idle]
  /\ popup = [r \in Refs |-> "none"]
  /\ posted = {} /\ cancels = {}

\* What only the attendee decides.
Attendee ==
  \/ Mount \/ Leave \/ LeaveButStay
  \/ Lookup \/ Continue \/ PickMethod \/ BackToForm \/ ContinueToPay \/ Back
  \/ \E f \in Flows : Deposit(f) \/ RefreshSession(f) \/ OpenQr(f) \/ Approve(f) \/ Decline(f)
  \/ \E r \in QrRefs : PhonePays(r)

\* What goes on by itself in a page that is up.
Proceed(f) ==
  \/ \E r \in Refs : CreateSession(f, r) \/ CreateInvoice(f, r)
  \/ CreateRefused(f) \/ CreateFails(f)
  \/ Confirm(f) \/ ConfirmFails(f) \/ Accept(f) \/ Refuse(f) \/ SubmitAnswer(f)
  \/ UndoDone(f) \/ UndoThrows(f)

World ==
  \/ LoadEvent \/ RefreshAnswer \/ TimerRunsOut \/ GoesStale \/ CheckAnswer \/ Kill
  \/ \E r \in QrRefs : Detect(r) \/ PollPaid(r) \/ PopupEnds(r) \/ Receive(r)
  \/ \E r \in Refs : CancelDone(r) \/ Land(r) \/ KeyExpires(r)

Next == Attendee \/ (\E f \in Flows : Proceed(f)) \/ World

Spec == Init /\ [][Next]_vars

\* Fairness.  The browser runs what has been answered, and every call is answered
\* or fails; an open window goes on polling, and in the end a poll gets through.
\* Nothing is assumed of the attendee or of the chain.
Fairness ==
  /\ \A f \in Flows : WF_vars(Proceed(f))
  /\ \A r \in QrRefs : WF_vars(Detect(r)) /\ WF_vars(PollPaid(r)) /\ WF_vars(Receive(r))

FairSpec == Spec /\ Fairness

-----------------------------------------------------------------------------
(* Properties. *)

\* A receipt the page shows is one the server holds for a confirmed transfer: not
\* after a refused, late or unreadable answer, a popup of an earlier session, a
\* restored session or two wallet flows that overlap does hydrateStatus show paid
\* for what is not.
ShownPaidIsPaid == \A r \in Refs : Shows(r) => r \in paid /\ r \in landed

\* statusData and reference are two states that seven functions set, several of
\* them after an await: they never end up about two sessions, so that the leave
\* and cancel handlers never act on one session by the status of another.
StatusIsOfReference ==
  page.status.state # "none" => page.ref = IF IsPaid THEN None ELSE page.status.ref

\* A transfer that the QR window's phone has made is shown once it is confirmed,
\* whatever sessions the page has begun since, unless its window or its invoice
\* goes first, or the page does.
QrPaidIsShown == \A r \in QrRefs :
  (page.up /\ popup[r] = "open" /\ Payable(r))
    ~> (Shows(r) \/ ~page.up \/ popup[r] = "closed" \/ (key[r] = "gone" /\ r \notin paid))

\* A busy page becomes usable again: whatever fails, down to the cancel of a
\* failed payment, the buttons come back, unless the wallet's own prompt is open.
BusyEnds ==
  page.busy ~> (~page.busy \/ \E f \in Flows : flow[f].pc = "prompt")
=============================================================================
