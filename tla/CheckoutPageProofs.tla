------------------------- MODULE CheckoutPageProofs -------------------------
(***************************************************************************)
(* What CheckoutPage guarantees for any number of references, overlapping  *)
(* flows and e-mail checks in flight.                                      *)
(***************************************************************************)
EXTENDS CheckoutPage, TLAPS

USE PageAssumption DEF server, chain, away

\* Once its session is created a flow knows its reference.
FlowRefs == \A f \in Flows :
  flow[f].pc \notin {"idle", "create", "legacy"} => flow[f].ref \in Refs

Types == TypeOK /\ FlowRefs

-----------------------------------------------------------------------------
(* Types. *)

LEMMA BlankType == Blank \in PageSet /\ NoStatus \in StatusSet /\ Idle \in FlowSet
  BY DEF Blank, PageSet, NoStatus, StatusSet, Idle, FlowSet

LEMMA UpdateTypes ==
  ASSUME NEW p \in PageSet
  PROVE  /\ Cleared(p) \in PageSet
         /\ [p EXCEPT !.step = 2] \in PageSet
         /\ [p EXCEPT !.status = NoStatus] \in PageSet
         /\ [p EXCEPT !.status = NoStatus, !.step = 1] \in PageSet
         /\ [p EXCEPT !.busy = FALSE] \in PageSet
         /\ \A m \in {"wallet", "qr"} :
              /\ [p EXCEPT !.status = NoStatus, !.chosen = m, !.step = 2] \in PageSet
              /\ [p EXCEPT !.picked = m, !.step = 2] \in PageSet
         /\ \A r \in Refs, m \in {"wallet", "qr"} :
              [p EXCEPT !.up = TRUE, !.step = 2, !.ref = r, !.asking = r, !.chosen = m,
                        !.picked = m] \in PageSet
<1>1. Cleared(p) \in PageSet
  BY DEF Cleared, PageSet
<1>2. 1 \in 0..2 /\ 2 \in 0..2
  OBVIOUS
<1>8. [p EXCEPT !.step = 2] \in PageSet
  BY <1>2 DEF PageSet
<1>9. [p EXCEPT !.busy = FALSE] \in PageSet
  BY DEF PageSet
<1>3. NoStatus \in StatusSet
  BY BlankType
<1>4. [p EXCEPT !.status = NoStatus] \in PageSet
  BY <1>3 DEF PageSet
<1>5. [p EXCEPT !.status = NoStatus, !.step = 1] \in PageSet
  BY <1>2, <1>3 DEF PageSet
<1>6. ASSUME NEW m \in {"wallet", "qr"}
      PROVE  /\ [p EXCEPT !.status = NoStatus, !.chosen = m, !.step = 2] \in PageSet
             /\ [p EXCEPT !.picked = m, !.step = 2] \in PageSet
  BY <1>2, <1>3 DEF PageSet
<1>7. ASSUME NEW r \in Refs, NEW m \in {"wallet", "qr"}
      PROVE  [p EXCEPT !.up = TRUE, !.step = 2, !.ref = r, !.asking = r, !.chosen = m,
                       !.picked = m] \in PageSet
  BY <1>2 DEF PageSet
<1> QED
  BY <1>1, <1>4, <1>5, <1>6, <1>7, <1>8, <1>9

\* The helpers keep a page a page.
LEMMA HelperTypes ==
  ASSUME NEW p \in PageSet, NEW r \in Refs
  PROVE  /\ Cleared(p) \in PageSet
         /\ Hydrated(p, r, "paid") \in PageSet
         /\ Hydrated(p, None, "unread") \in PageSet
         /\ Timed(p, r) \in PageSet
         /\ Adopted(p, r) \in PageSet
<1>1. Method(r) \in {"wallet", "qr"}
  BY DEF Method
<1>2. Cleared(p) \in PageSet
  BY UpdateTypes
<1>3. Timed(p, r) \in PageSet
  BY DEF Timed, PageSet
<1>4. [ref |-> r, state |-> "paid"] \in StatusSet /\ [ref |-> r, state |-> "pending"] \in StatusSet
      /\ [ref |-> None, state |-> "unread"] \in StatusSet
  BY DEF StatusSet
<1>5. Hydrated(p, r, "paid") \in PageSet
  <2> DEFINE q == [p EXCEPT !.status = [ref |-> r, state |-> "paid"], !.ref = r]
  <2>1. q \in PageSet
    BY <1>4 DEF PageSet
  <2>2. [Cleared(q) EXCEPT !.picked = Method(r), !.step = 2] \in PageSet
    BY <2>1, <1>1, UpdateTypes
  <2> QED
    BY <2>2 DEF Hydrated
<1>6. Hydrated(p, None, "unread") \in PageSet
  BY <1>4 DEF Hydrated, PageSet
<1>7. Adopted(p, r) \in PageSet
  BY <1>1, <1>4 DEF Adopted, Timed, PageSet
<1> QED
  BY <1>2, <1>3, <1>5, <1>6, <1>7

LEMMA InitTypes == Init => Types
  BY BlankType DEF Init, Types, TypeOK, FlowRefs, Idle

\* What the page does without a flow, by itself or for the attendee.
LEMMA PageTypes ==
  ASSUME Types,
         \/ Mount \/ LoadEvent \/ RefreshAnswer \/ TimerRunsOut \/ Lookup \/ Continue
         \/ CheckAnswer \/ PickMethod \/ BackToForm \/ ContinueToPay \/ Back
         \/ \E r \in Refs : CancelDone(r)
  PROVE  page' \in PageSet
<1> USE DEF Types, TypeOK
<1>1. CASE Mount
  <2>1. CASE stored = None
    BY <1>1, <2>1, BlankType DEF Mount, PageSet
  <2>2. CASE stored # None
    <3> DEFINE p == [Blank EXCEPT !.up = TRUE, !.step = 2, !.ref = stored, !.asking = stored,
                            !.chosen = Method(stored), !.picked = Method(stored)]
    <3>1. Method(stored) \in {"wallet", "qr"}
      BY DEF Method
    <3>3. p \in PageSet
      BY <2>2, <3>1, BlankType, UpdateTypes
    <3>2. page' = Timed(p, stored)
      BY <1>1, <2>2 DEF Mount
    <3> QED
      BY <3>3, <3>2, <2>2, HelperTypes
  <2> QED
    BY <2>1, <2>2
<1>2. CASE LoadEvent
  <2>1. PICK event \in {"open", "expired"} :
          page' = [page EXCEPT !.event = event, !.picked = IF Methods = {"qr"} THEN "qr" ELSE @]
    BY <1>2 DEF LoadEvent
  <2>2. page.picked \in {"wallet", "qr"}
    BY DEF PageSet
  <2> QED
    BY <2>1, <2>2 DEF PageSet
<1>3. CASE RefreshAnswer
  <2>1. [page EXCEPT !.asking = None] \in PageSet
    BY DEF PageSet
  <2> QED
    BY <1>3, <2>1, HelperTypes DEF RefreshAnswer, ShowReceipt
<1>4. CASE TimerRunsOut
  BY <1>4 DEF TimerRunsOut, PageSet
<1>5. CASE Lookup
  BY <1>5, HelperTypes DEF Lookup, ShowReceipt
<1>6. CASE Continue
  BY <1>6 DEF Continue, PageSet
<1>7. CASE CheckAnswer
  <2>1. page.checks \in 0..MaxChecks /\ page.step \in 0..2
    BY DEF PageSet
  <2>2. page.checks - 1 \in 0..MaxChecks
    BY <1>7, <2>1 DEF CheckAnswer
  <2>3. PICK step \in {1, page.step} :
          page' = [page EXCEPT !.checks = page.checks - 1, !.step = step]
    BY <1>7 DEF CheckAnswer
  <2>4. step \in 0..2
    BY <2>1
  <2> QED
    BY <2>2, <2>3, <2>4 DEF PageSet
<1>8. CASE PickMethod
  BY <1>8 DEF PickMethod, PageSet
<1>9. CASE BackToForm
  BY <1>9 DEF BackToForm, PageSet
<1>10. CASE ContinueToPay
  <2>1. page.picked \in {"wallet", "qr"}
    BY DEF PageSet
  <2> QED
    BY <1>10, <2>1, UpdateTypes DEF ContinueToPay
<1>11. CASE Back
  <2>1. Cleared(page) \in PageSet
    BY UpdateTypes
  <2> QED
    BY <1>11, <2>1, UpdateTypes DEF Back
<1>12. CASE \E r \in Refs : CancelDone(r)
  <2>1. Cleared(page) \in PageSet
    BY UpdateTypes
  <2>2. page' = [Cleared(page) EXCEPT !.status = NoStatus, !.step = 1]
    BY <1>12 DEF CancelDone
  <2> QED
    BY <2>1, <2>2, UpdateTypes
<1> QED
  BY <1>1, <1>2, <1>3, <1>4, <1>5, <1>6, <1>7, <1>8, <1>9, <1>10, <1>11, <1>12

\* The flows of the page.
LEMMA FlowTypes ==
  ASSUME Types, NEW f \in Flows,
         \/ Deposit(f) \/ RefreshSession(f) \/ OpenQr(f) \/ Approve(f) \/ Decline(f) \/ Proceed(f)
  PROVE  Types'
<1> USE DEF Types, TypeOK
<1>1. Idle \in FlowSet /\ Blank \in PageSet
  BY BlankType
<1>2. ASSUME NEW kind \in {"wallet", "qr"}, Start(f, kind)
      PROVE  Types'
  <2>1. [Idle EXCEPT !.pc = "create", !.kind = kind] \in FlowSet
    BY <1>1 DEF FlowSet
  <2>2. page' \in PageSet
    BY <1>2 DEF Start, PageSet
  <2>3. FlowRefs'
    BY <1>2, <1>1 DEF Start, FlowRefs, Idle
  <2> QED
    BY <1>2, <2>1, <2>2, <2>3 DEF Start
<1>3. ASSUME NEW p \in PageSet, Finished(f, p)
      PROVE  flow' \in [Flows -> FlowSet] /\ page' \in PageSet /\ FlowRefs'
  <2>1. page' \in PageSet
    BY <1>3, UpdateTypes DEF Finished
  <2>2. FlowRefs'
    BY <1>3, <1>1 DEF Finished, FlowRefs, Idle
  <2> QED
    BY <1>3, <1>1, <2>1, <2>2 DEF Finished
<1>4. ASSUME NEW r \in Refs, Created(f, r), session' \in [Refs -> {"none", "open", "ended", "paid"}]
      PROVE  Types'
  <2>1. Adopted(page, r) \in PageSet
    BY HelperTypes
  <2>2. [Adopted(page, r) EXCEPT !.step = 2] \in PageSet
    BY <2>1, UpdateTypes
  <2>3. CASE Method(r) = "wallet"
    <3>1. flow' = [flow EXCEPT ![f].pc = "prompt", ![f].ref = r] /\ page' = Adopted(page, r)
          /\ UNCHANGED popup
      BY <1>4, <2>3 DEF Created, QrWindow
    <3>2. [flow[f] EXCEPT !.pc = "prompt", !.ref = r] \in FlowSet
      BY DEF FlowSet
    <3>4. flow' = [flow EXCEPT ![f] = [flow[f] EXCEPT !.pc = "prompt", !.ref = r]]
      BY <3>1
    <3>3. FlowRefs'
      BY <3>1 DEF FlowRefs
    <3> QED
      BY <1>4, <2>1, <3>1, <3>2, <3>3, <3>4 DEF Created, QrWindow
  <2>4. CASE Method(r) = "qr"
    <3>1. Finished(f, [Adopted(page, r) EXCEPT !.step = 2])
      BY <1>4, <2>4 DEF Created, QrWindow
    <3>2. flow' \in [Flows -> FlowSet] /\ page' \in PageSet /\ FlowRefs'
      BY <3>1, <2>2, <1>3
    <3>3. popup' \in [Refs -> {"none", "open", "done", "closed"}]
      BY <1>4, <2>4 DEF Created, QrWindow
    <3> QED
      BY <1>4, <3>2, <3>3 DEF Created, QrWindow
  <2> QED
    BY <2>3, <2>4 DEF Method
<1>5. ASSUME NEW pc \in {"legacy", "confirm", "submit", "ok", "unread", "refused", "undo"},
             flow' = [flow EXCEPT ![f].pc = pc], pc = "legacy" \/ flow[f].ref \in Refs
      PROVE  flow' \in [Flows -> FlowSet] /\ FlowRefs'
  BY <1>5 DEF FlowSet, FlowRefs
<1>6. CASE Deposit(f) \/ RefreshSession(f) \/ OpenQr(f)
  BY <1>6, <1>2 DEF Deposit, RefreshSession, OpenQr
<1>7. CASE Approve(f)
  BY <1>7, <1>5, HelperTypes DEF Approve, FlowRefs
<1>8. CASE Decline(f)
  BY <1>8, <1>5 DEF Decline, FlowRefs
<1>9. CASE \E r \in Refs : CreateSession(f, r) \/ CreateInvoice(f, r)
  BY <1>9, <1>4 DEF CreateSession, CreateInvoice
<1>10. CASE CreateRefused(f)
  BY <1>10, <1>5 DEF CreateRefused
<1>11. CASE CreateFails(f)
  BY <1>11, <1>3 DEF CreateFails
<1>12. CASE Confirm(f)
  BY <1>12, <1>5 DEF Confirm, FlowRefs
<1>13. CASE ConfirmFails(f)
  BY <1>13, <1>3 DEF ConfirmFails
<1>14. CASE Accept(f)
  <2>1. flow[f].ref \in Refs
    BY <1>14 DEF Accept, FlowRefs
  <2>2. flow' \in [Flows -> FlowSet] /\ FlowRefs'
    BY <1>14, <1>5, <2>1 DEF Accept
  <2>3. session' \in [Refs -> {"none", "open", "ended", "paid"}]
    BY <1>14, <2>1 DEF Accept
  <2> QED
    BY <1>14, <2>1, <2>2, <2>3 DEF Accept, Settle
<1>15. CASE Refuse(f)
  BY <1>15, <1>5 DEF Refuse, FlowRefs
<1>16. CASE SubmitAnswer(f)
  <2> DEFINE p == [page EXCEPT !.busy = FALSE]
  <2>1. p \in PageSet
    BY UpdateTypes
  <2>2. flow[f].ref \in Refs
    BY <1>16 DEF SubmitAnswer, FlowRefs
  <2>3. page' \in PageSet /\ stored' \in Refs \cup {None}
    BY <1>16, <2>1, <2>2, HelperTypes DEF SubmitAnswer, ShowReceipt
  <2>4. flow' \in [Flows -> FlowSet] /\ FlowRefs'
    BY <1>16, <1>1 DEF SubmitAnswer, FlowRefs, Idle
  <2> QED
    BY <1>16, <2>3, <2>4 DEF SubmitAnswer
<1>17. CASE UndoDone(f)
  <2>1. Cleared(page) \in PageSet
    BY UpdateTypes
  <2>2. [Cleared(page) EXCEPT !.status = NoStatus] \in PageSet
    BY <2>1, UpdateTypes
  <2>3. flow' \in [Flows -> FlowSet] /\ page' \in PageSet /\ FlowRefs'
    BY <1>17, <2>2, <1>3 DEF UndoDone
  <2> QED
    BY <1>17, <2>3 DEF UndoDone, Undo, CancelV1, CancelLegacy
<1>18. CASE UndoThrows(f)
  BY <1>18, <1>3 DEF UndoThrows, Undo, CancelV1, CancelLegacy
<1> QED
  BY <1>6, <1>7, <1>8, <1>9, <1>10, <1>11, <1>12, <1>13, <1>14, <1>15, <1>16, <1>17, <1>18
     DEF Proceed

LEMMA StepTypes == Types /\ [Next]_vars => Types'
<1> SUFFICES ASSUME Types, [Next]_vars PROVE Types'
  OBVIOUS
<1>1. CASE \/ Mount \/ LoadEvent \/ RefreshAnswer \/ TimerRunsOut \/ Lookup \/ Continue
           \/ CheckAnswer \/ PickMethod \/ BackToForm \/ ContinueToPay \/ Back
           \/ \E r \in Refs : CancelDone(r)
  <2>1. page' \in PageSet
    BY <1>1, PageTypes
  <2>2. stored' \in Refs \cup {None} /\ UNCHANGED <<paid, chain, flow, popup, posted>>
    BY <1>1 DEF Types, TypeOK, Mount, LoadEvent, RefreshAnswer, TimerRunsOut, Lookup, Continue,
       CheckAnswer, PickMethod, BackToForm, ContinueToPay, Back, CancelDone, ShowReceipt
  <2>3. cancels' \subseteq Refs
    BY <1>1 DEF Types, TypeOK, Mount, LoadEvent, RefreshAnswer, TimerRunsOut, Lookup, Continue,
       CheckAnswer, PickMethod, BackToForm, ContinueToPay, Back, CancelDone, ShowReceipt,
       HasActive, PageSet
  <2>4. key' \in [Refs -> {"unused", "live", "gone"}]
        /\ session' \in [Refs -> {"none", "open", "ended", "paid"}]
    BY <1>1 DEF Types, TypeOK, Mount, LoadEvent, RefreshAnswer, TimerRunsOut, Lookup, Continue,
       CheckAnswer, PickMethod, BackToForm, ContinueToPay, Back, CancelDone, CancelLegacy
  <2> QED
    BY <2>1, <2>2, <2>3, <2>4 DEF Types, TypeOK, FlowRefs
<1>2. CASE \E f \in Flows :
           \/ Deposit(f) \/ RefreshSession(f) \/ OpenQr(f) \/ Approve(f) \/ Decline(f) \/ Proceed(f)
  BY <1>2, FlowTypes
<1>3. CASE Leave \/ Kill \/ LeaveButStay \/ GoesStale
  <2>1. Idle \in FlowSet /\ Blank \in PageSet
    BY BlankType
  <2> QED
    BY <1>3, <2>1 DEF Types, TypeOK, FlowRefs, Leave, Kill, LeaveButStay, GoesStale, Ended, GiveUp,
       CancelLegacy, Idle
<1>4. CASE \E r \in QrRefs : Receive(r)
  <2>1. PICK r \in QrRefs : Receive(r)
    BY <1>4
  <2>2. r \in Refs
    OBVIOUS
  <2>3. page' \in PageSet
    BY <2>1, <2>2, HelperTypes DEF Types, TypeOK, Receive, ShowReceipt
  <2> QED
    BY <2>1, <2>3 DEF Types, TypeOK, FlowRefs, Receive, ShowReceipt
<1>5. CASE \/ \E r \in QrRefs : PhonePays(r) \/ Detect(r) \/ PollPaid(r) \/ PopupEnds(r)
           \/ \E r \in Refs : Land(r) \/ KeyExpires(r)
  BY <1>5 DEF Types, TypeOK, FlowRefs, PhonePays, Detect, Settle, PollPaid, PopupEnds, Land, KeyExpires
<1>6. CASE UNCHANGED vars
  BY <1>6 DEF Types, TypeOK, FlowRefs, vars
<1> QED
  BY <1>1, <1>2, <1>3, <1>4, <1>5, <1>6 DEF Next, Attendee, World

\* The page, its storage, its flows and the windows hold only what they may hold.
THEOREM PageTypeCorrect == Spec => []TypeOK
<1>1. Types => TypeOK
  BY DEF Types
<1> QED
  BY InitTypes, StepTypes, <1>1, PTL DEF Spec

-----------------------------------------------------------------------------
(* Receipts. *)

\* Every receipt on its way to the page, as an answer or as a popup's message, is
\* one the server holds.
Honest ==
  /\ paid \subseteq landed
  /\ posted \subseteq paid
  /\ \A f \in Flows : flow[f].pc = "ok" => flow[f].ref \in paid

\* What a page says is about one session, and its receipt is in S.
Consistent(p) == p.status.state # "none" =>
  p.ref = IF p.status.state = "paid" THEN None ELSE p.status.ref
Backed(p, S) == p.status.state = "paid" => p.status.ref \in S

PageInv == Types /\ Honest /\ Consistent(page) /\ Backed(page, paid)

LEMMA HelperStatus ==
  ASSUME NEW p \in PageSet, NEW r \in Refs
  PROVE  /\ Cleared(p).status = p.status /\ Cleared(p).ref = None
         /\ Hydrated(p, r, "paid").status = [ref |-> r, state |-> "paid"]
         /\ Hydrated(p, r, "paid").ref = None
         /\ Hydrated(p, None, "unread").status = [ref |-> None, state |-> "unread"]
         /\ Hydrated(p, None, "unread").ref = None
         /\ Timed(p, r).status = p.status /\ Timed(p, r).ref = p.ref
         /\ Adopted(p, r).status = [ref |-> r, state |-> "pending"] /\ Adopted(p, r).ref = r
  BY DEF PageSet, Cleared, Hydrated, Timed, Adopted

LEMMA InitPageInv == Init => PageInv
  BY InitTypes DEF Init, PageInv, Honest, Consistent, Backed, Blank, NoStatus, Idle

\* Receipts are never taken back, and a step that sends one has it from the server.
LEMMA HonestStep == PageInv /\ [Next]_vars => Honest' /\ paid \subseteq paid'
<1> SUFFICES ASSUME PageInv, [Next]_vars PROVE Honest' /\ paid \subseteq paid'
  OBVIOUS
<1> USE DEF PageInv, Types, TypeOK, Honest
\* A flow moves, but not to a receipt.
<1>9. ASSUME NEW f \in Flows, NEW x, x.pc # "ok", flow' = [flow EXCEPT ![f] = x],
             UNCHANGED <<paid, landed, posted>>
      PROVE  Honest' /\ paid \subseteq paid'
  BY <1>9
<1>10. ASSUME NEW f \in Flows, NEW pc, pc # "ok", flow' = [flow EXCEPT ![f].pc = pc],
              UNCHANGED <<paid, landed, posted>>
       PROVE  Honest' /\ paid \subseteq paid'
  <2>1. flow[f] \in FlowSet
    OBVIOUS
  <2>2. [flow[f] EXCEPT !.pc = pc].pc = pc
    BY <2>1 DEF FlowSet
  <2> QED
    BY <1>9, <1>10, <2>2
<1>1. ASSUME NEW f \in Flows, Deposit(f) \/ RefreshSession(f) \/ OpenQr(f)
      PROVE  Honest' /\ paid \subseteq paid'
  <2>1. PICK kind : Start(f, kind)
    BY <1>1 DEF Deposit, RefreshSession, OpenQr
  <2>2. [Idle EXCEPT !.pc = "create", !.kind = kind].pc # "ok"
    BY DEF Idle
  <2> QED
    BY <1>9, <2>1, <2>2 DEF Start
<1>2. ASSUME NEW f \in Flows, NEW r \in Refs, CreateSession(f, r) \/ CreateInvoice(f, r)
      PROVE  Honest' /\ paid \subseteq paid'
  <2>1. Created(f, r)
    BY <1>2 DEF CreateSession, CreateInvoice
  <2>2. UNCHANGED <<paid, landed, posted>>
    BY <2>1 DEF Created
  <2>3. CASE flow' = [flow EXCEPT ![f] = Idle]
    BY <1>9, <2>2, <2>3 DEF Idle
  <2>4. CASE flow' = [flow EXCEPT ![f].pc = "prompt", ![f].ref = r]
    <3>1. flow[f] \in FlowSet
      OBVIOUS
    <3>2. [flow[f] EXCEPT !.pc = "prompt", !.ref = r].pc = "prompt"
      BY <3>1 DEF FlowSet
    <3>3. flow' = [flow EXCEPT ![f] = [flow[f] EXCEPT !.pc = "prompt", !.ref = r]]
      BY <2>4
    <3> QED
      BY <1>9, <2>2, <3>2, <3>3
  <2> QED
    BY <2>1, <2>3, <2>4 DEF Created, Finished
<1>3. ASSUME NEW f \in Flows, Accept(f)
      PROVE  Honest' /\ paid \subseteq paid'
  <2>1. paid' = paid \cup {flow[f].ref} /\ flow[f].ref \in landed /\ UNCHANGED <<landed, posted>>
    BY <1>3 DEF Accept, Settle, Payable
  <2>2. PICK pc \in {"ok", "unread"} : flow' = [flow EXCEPT ![f].pc = pc]
    BY <1>3 DEF Accept
  <2> QED
    BY <2>1, <2>2
<1>4. ASSUME NEW f \in Flows,
             \/ Approve(f) \/ Decline(f) \/ CreateRefused(f) \/ CreateFails(f) \/ Confirm(f)
             \/ ConfirmFails(f) \/ Refuse(f) \/ SubmitAnswer(f) \/ UndoDone(f) \/ UndoThrows(f)
      PROVE  Honest' /\ paid \subseteq paid'
  <2>1. UNCHANGED <<paid, landed, posted>>
    BY <1>4 DEF Approve, Decline, CreateRefused, CreateFails, Confirm, ConfirmFails, Refuse,
       SubmitAnswer, UndoDone, UndoThrows
  <2>2. \/ flow' = [flow EXCEPT ![f] = Idle]
        \/ \E pc \in {"legacy", "confirm", "submit", "refused", "undo"} : flow' = [flow EXCEPT ![f].pc = pc]
    BY <1>4 DEF Approve, Decline, CreateRefused, CreateFails, Confirm, ConfirmFails, Refuse,
       SubmitAnswer, UndoDone, UndoThrows, Finished
  <2>3. Idle.pc # "ok"
    BY DEF Idle
  <2> QED
    BY <1>9, <1>10, <2>1, <2>2, <2>3
<1>5. CASE \E r \in QrRefs : \/ PhonePays(r) \/ Detect(r) \/ PollPaid(r) \/ PopupEnds(r) \/ Receive(r)
  BY <1>5 DEF PhonePays, Detect, Settle, Payable, PollPaid, PopupEnds, Receive
<1>6. CASE \E r \in Refs : CancelDone(r) \/ Land(r) \/ KeyExpires(r)
  BY <1>6 DEF CancelDone, Land, KeyExpires
<1>7. CASE \/ Mount \/ Leave \/ LeaveButStay \/ Lookup \/ Continue \/ PickMethod \/ BackToForm
           \/ ContinueToPay \/ Back \/ LoadEvent \/ RefreshAnswer \/ TimerRunsOut \/ GoesStale
           \/ CheckAnswer \/ Kill
  BY <1>7 DEF Mount, Leave, LeaveButStay, Lookup, Continue, PickMethod, BackToForm, ContinueToPay,
     Back, LoadEvent, RefreshAnswer, TimerRunsOut, GoesStale, CheckAnswer, Kill, Ended, Idle
<1>8. CASE UNCHANGED vars
  BY <1>8 DEF vars
<1> QED
  BY <1>1, <1>2, <1>3, <1>4, <1>5, <1>6, <1>7, <1>8 DEF Next, Attendee, World, Proceed

LEMMA PageStep == PageInv /\ [Next]_vars => Consistent(page') /\ Backed(page', paid')
<1> SUFFICES ASSUME PageInv, [Next]_vars PROVE Consistent(page') /\ Backed(page', paid')
  OBVIOUS
<1> DEFINE Good == Consistent(page') /\ Backed(page', paid')
<1>1. page \in PageSet /\ paid \subseteq paid' /\ paid \subseteq Refs
  BY HonestStep DEF PageInv, Types, TypeOK
\* A step that leaves both alone.
<1>2. ASSUME page'.status = page.status, page'.ref = page.ref PROVE Good
  BY <1>1, <1>2 DEF PageInv, Consistent, Backed
\* A step that forgets the session.
<1>3. ASSUME page'.status = NoStatus PROVE Good
  BY <1>3 DEF Consistent, Backed, NoStatus
\* A step that shows a receipt.
<1>4. ASSUME NEW p \in PageSet, NEW r \in paid', ShowReceipt(p, r) PROVE Good
  <2>1. r \in Refs
    BY StepTypes DEF PageInv, Types, TypeOK
  <2>2. page' = Hydrated(p, r, "paid")
    BY <1>4 DEF ShowReceipt
  <2>3. page'.status = [ref |-> r, state |-> "paid"] /\ page'.ref = None
    BY <1>4, <2>1, <2>2, HelperStatus
  <2> QED
    BY <1>4, <2>3 DEF Consistent, Backed
<1>5. CASE \/ LoadEvent \/ TimerRunsOut \/ Continue \/ CheckAnswer \/ PickMethod \/ BackToForm
  BY <1>5, <1>1, <1>2 DEF LoadEvent, TimerRunsOut, Continue, CheckAnswer, PickMethod, BackToForm, PageSet
<1>6. CASE \/ GoesStale \/ LeaveButStay \/ \E r \in Refs : Land(r) \/ KeyExpires(r)
           \/ \E r \in QrRefs : PhonePays(r) \/ Detect(r) \/ PollPaid(r) \/ PopupEnds(r)
  BY <1>6, <1>2 DEF GoesStale, LeaveButStay, Land, KeyExpires, PhonePays, Detect, PollPaid, PopupEnds
<1>7. CASE Mount
  <2>1. CASE stored = None
    BY <1>3, <1>7, <2>1 DEF Mount, Blank
  <2>2. CASE stored # None
    <3> DEFINE p == [Blank EXCEPT !.up = TRUE, !.step = 2, !.ref = stored, !.asking = stored,
                            !.chosen = Method(stored), !.picked = Method(stored)]
    <3>1. page' = Timed(p, stored)
      BY <1>7, <2>2 DEF Mount
    <3>2. page'.status = NoStatus
      BY <3>1 DEF Timed, Blank
    <3> QED
      BY <1>3, <3>2
  <2> QED
    BY <2>1, <2>2
<1>8. CASE Leave \/ Kill
  BY <1>8, <1>3 DEF Leave, Kill, Ended, Blank
<1>9. CASE RefreshAnswer
  <2> DEFINE p == [page EXCEPT !.asking = None]
  <2>1. p \in PageSet /\ p.status = page.status /\ p.ref = page.ref
    BY <1>1 DEF PageSet
  <2>2. CASE page.asking \in paid /\ ShowReceipt(p, page.asking)
    BY <1>1, <1>4, <2>1, <2>2
  <2>3. CASE page' = p
    BY <1>2, <2>1, <2>3
  <2> QED
    BY <1>9, <2>2, <2>3 DEF RefreshAnswer
<1>10. CASE Lookup
  BY <1>1, <1>4, <1>10 DEF Lookup
<1>11. CASE \E r \in QrRefs : Receive(r)
  BY <1>1, <1>4, <1>11 DEF Receive, PageInv, Honest
<1>12. CASE ContinueToPay \/ Back \/ \E r \in Refs : CancelDone(r)
  <2>1. Cleared(page) \in PageSet
    BY <1>1, UpdateTypes
  <2>2. CASE UNCHANGED page
    BY <1>2, <2>2
  <2>3. CASE page' = [Cleared(page) EXCEPT !.status = NoStatus, !.step = 1]
    BY <1>3, <2>1, <2>3 DEF PageSet
  <2>4. CASE page' = [Cleared(page) EXCEPT !.status = NoStatus, !.chosen = page.picked, !.step = 2]
    BY <1>3, <2>1, <2>4 DEF PageSet
  <2> QED
    BY <1>12, <2>2, <2>3, <2>4 DEF ContinueToPay, Back, CancelDone
<1>13. ASSUME NEW f \in Flows,
              \/ Deposit(f) \/ RefreshSession(f) \/ OpenQr(f) \/ Decline(f) \/ Proceed(f) \/ Approve(f)
       PROVE  Good
  <2>1. ASSUME NEW p \in PageSet, Finished(f, p)
        PROVE  page'.status = p.status /\ page'.ref = p.ref
    BY <2>1 DEF Finished, PageSet
  <2>2. CASE Deposit(f) \/ RefreshSession(f) \/ OpenQr(f)
    BY <1>1, <1>2, <2>2 DEF Deposit, RefreshSession, OpenQr, Start, PageSet
  <2>3. CASE \/ Decline(f) \/ CreateRefused(f) \/ Confirm(f) \/ Accept(f) \/ Refuse(f)
    BY <1>2, <2>3 DEF Decline, CreateRefused, Confirm, Accept, Refuse
  <2>4. CASE \/ CreateFails(f) \/ ConfirmFails(f) \/ UndoThrows(f)
    BY <1>1, <1>2, <2>1, <2>4 DEF CreateFails, ConfirmFails, UndoThrows
  <2>5. CASE Approve(f)
    BY <1>1, <1>2, <2>5 DEF Approve, Timed, PageSet
  <2>6. ASSUME NEW r \in Refs, Created(f, r) PROVE Good
    <3>1. Adopted(page, r) \in PageSet /\ [Adopted(page, r) EXCEPT !.step = 2] \in PageSet
      BY <1>1, HelperTypes, UpdateTypes
    <3>2. /\ Adopted(page, r).status = [ref |-> r, state |-> "pending"]
          /\ Adopted(page, r).ref = r
      BY <1>1, HelperStatus
    <3>3. page' = Adopted(page, r) \/ Finished(f, [Adopted(page, r) EXCEPT !.step = 2])
      BY <2>6 DEF Created
    <3>4. page'.status = [ref |-> r, state |-> "pending"] /\ page'.ref = r
      BY <2>1, <3>1, <3>2, <3>3 DEF PageSet
    <3> QED
      BY <3>4 DEF Consistent, Backed
  <2>7. CASE SubmitAnswer(f)
    <3> DEFINE p == [page EXCEPT !.busy = FALSE]
    <3>1. p \in PageSet /\ p.status = page.status /\ p.ref = page.ref
      BY <1>1 DEF PageSet
    <3>2. CASE flow[f].pc = "ok" /\ ShowReceipt(p, flow[f].ref)
      BY <1>1, <1>4, <3>1, <3>2 DEF PageInv, Honest
    <3>3. CASE page' = Hydrated(p, None, "unread")
      <4>1. PICK r \in Refs : TRUE
        BY <2>7 DEF PageInv, Types, FlowRefs, SubmitAnswer
      <4>2. page'.status = [ref |-> None, state |-> "unread"] /\ page'.ref = None
        BY <3>1, <3>3, <4>1, HelperStatus
      <4> QED
        BY <4>2 DEF Consistent, Backed
    <3>4. CASE page' = p
      BY <1>2, <3>1, <3>4
    <3> QED
      BY <2>7, <3>2, <3>3, <3>4 DEF SubmitAnswer
  <2>8. CASE UndoDone(f)
    <3>1. Cleared(page) \in PageSet
      BY <1>1, UpdateTypes
    <3>2. [Cleared(page) EXCEPT !.status = NoStatus] \in PageSet
      BY <3>1, UpdateTypes
    <3>3. [Cleared(page) EXCEPT !.status = NoStatus].status = NoStatus
      BY <3>1 DEF PageSet
    <3> QED
      BY <1>3, <2>1, <2>8, <3>2, <3>3 DEF UndoDone
  <2> QED
    BY <1>13, <2>2, <2>3, <2>4, <2>5, <2>6, <2>7, <2>8 DEF Proceed, CreateSession, CreateInvoice
<1>14. CASE UNCHANGED vars
  BY <1>2, <1>14 DEF vars
<1> QED
  BY <1>5, <1>6, <1>7, <1>8, <1>9, <1>10, <1>11, <1>12, <1>13, <1>14 DEF Next, Attendee, World

LEMMA PageInvariant == Spec => []PageInv
<1>1. PageInv /\ [Next]_vars => PageInv'
  BY StepTypes, HonestStep, PageStep DEF PageInv
<1> QED
  BY InitPageInv, <1>1, PTL DEF Spec

\* A receipt on the page is one the server holds for a confirmed transfer.
THEOREM PageShowsReceipts == Spec => []ShownPaidIsPaid
<1>1. PageInv => ShownPaidIsPaid
  BY DEF PageInv, Honest, Backed, ShownPaidIsPaid, Shows
<1> QED
  BY PageInvariant, <1>1, PTL

\* What the page says and the session it holds are never about two references.
THEOREM PageIsConsistent == Spec => []StatusIsOfReference
<1>1. PageInv => StatusIsOfReference
  BY DEF PageInv, Consistent, StatusIsOfReference, IsPaid
<1> QED
  BY PageInvariant, <1>1, PTL
=============================================================================
