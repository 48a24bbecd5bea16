-------------------------- MODULE DashboardProofs --------------------------
(***************************************************************************)
(* What Dashboard guarantees for any number of events and of deposit       *)
(* requests under way.                                                     *)
(***************************************************************************)
EXTENDS Dashboard, TLAPS

USE DashboardAssumption DEF server

-----------------------------------------------------------------------------
(* Types. *)

LEMMA FreshTypes == Fresh \in PageSet /\ NoDeposits \in DepositSet /\ Idle \in JobSet
  BY DEF Fresh, PageSet, NoDeposits, DepositSet, Idle, JobSet

LEMMA InitTypes == Init => TypeOK
<1> SUFFICES ASSUME Init PROVE TypeOK
  OBVIOUS
<1>1. {"free", "new"} \subseteq RowStates
  BY DEF RowStates
<1>2. rows \in [Events -> RowStates]
  BY <1>1 DEF Init
<1>3. job \in [Jobs -> JobSet]
  BY FreshTypes DEF Init
<1> QED
  BY <1>2, <1>3, FreshTypes DEF Init, TypeOK

\* The fields that the handlers set leave a page a page.
LEMMA FieldTypes ==
  ASSUME NEW p \in PageSet
  PROVE  /\ \A b \in BOOLEAN :
              /\ [p EXCEPT !.loading = b] \in PageSet
              /\ [p EXCEPT !.submitting = b] \in PageSet
              /\ [p EXCEPT !.missed = b] \in PageSet
         /\ \A m \in {"login", "register", "forgot"} : [p EXCEPT !.auth = m] \in PageSet
         /\ \A s \in {"shut", "open", "closing"} : [p EXCEPT !.panel = s] \in PageSet
         /\ \A f \in Events \cup {"blank", "draft", "mixed"} : [p EXCEPT !.form = f] \in PageSet
         /\ [p EXCEPT !.deposits = NoDeposits] \in PageSet
         /\ \A e \in Events \cup {None} : [p EXCEPT !.sel = e, !.mode = "edit"] \in PageSet
<1>1. NoDeposits \in DepositSet
  BY FreshTypes
<1> QED
  BY <1>1 DEF PageSet

LEMMA RenderTypes ==
  ASSUME TypeOK, NEW p \in PageSet, Render(p)
  PROVE  page' \in PageSet /\ asks' \subseteq AskSet
<1> DEFINE b == p.sel # None /\ (p.sel \notin p.list \/ (p.sel = page.sel /\ page.missed))
           q == [p EXCEPT !.missed = b]
<1>1. b \in BOOLEAN
  OBVIOUS
<1>2. q \in PageSet
  BY <1>1, FieldTypes
<1>3. CASE page' = q /\ UNCHANGED asks
  BY <1>2, <1>3 DEF TypeOK
<1>4. CASE /\ p.sel \in p.list
           /\ page' = FillForm([q EXCEPT !.deposits = NoDeposits], p.sel)
           /\ AskCheckouts(p.sel)
  <2>1. p.sel \in Events
    BY <1>4 DEF PageSet
  <2>2. AskOf(p.sel) \in AskSet
    BY <2>1 DEF AskOf, AskSet
  <2>3. [q EXCEPT !.deposits = NoDeposits] \in PageSet
    BY <1>2, FieldTypes
  <2>4. page' \in PageSet
    <3> DEFINE d == [q EXCEPT !.deposits = NoDeposits]
    <3> HIDE DEF q
    <3>1. d \in PageSet
      BY <2>3
    <3>2. page' = [d EXCEPT !.form = p.sel]
      BY <1>4 DEF FillForm
    <3> QED
      BY <3>1, <3>2, <2>1, FieldTypes
  <2> QED
    BY <1>4, <2>2, <2>4 DEF TypeOK, AskCheckouts
<1> QED
  BY <1>3, <1>4 DEF Render

LEMMA AfterTypes ==
  ASSUME TypeOK, NEW p \in PageSet, NEW j \in Jobs
  PROVE  After(p, j) \in PageSet
<1>1. CASE j = "create"
  <2>1. job[j].ev \in Events \cup {None}
    BY DEF TypeOK, JobSet
  <2> QED
    BY <1>1, <2>1, FieldTypes DEF After
<1>2. CASE j = "delete"
  <2> DEFINE r == [p EXCEPT !.sel = None, !.deposits = NoDeposits]
  <2>1. r \in PageSet
    BY FreshTypes DEF PageSet
  <2>2. [r EXCEPT !.form = "blank"] \in PageSet
    BY <2>1, FieldTypes
  <2> QED
    BY <1>2, <2>2 DEF After, ResetForm
<1>3. CASE j \notin {"create", "delete"}
  BY <1>3 DEF After
<1> QED
  BY <1>1, <1>2, <1>3

\* The records of the page's functions.
LEMMA JobTypes ==
  ASSUME TypeOK, NEW j \in Jobs
  PROVE  /\ \A ev \in Events \cup {None} : StartLoad(j, ev) => job' \in [Jobs -> JobSet]
         /\ \A ev \in Events \cup {None}, pc \in {"asked", "load"} :
              [Idle EXCEPT !.pc = pc, !.ev = ev] \in JobSet
         /\ job[j].ev \in Events \cup {None} /\ job[j].seen \subseteq Events
<1>1. ASSUME NEW ev \in Events \cup {None}, NEW pc \in {"asked", "load"}
      PROVE  [Idle EXCEPT !.pc = pc, !.ev = ev] \in JobSet
  BY DEF Idle, JobSet
<1>2. ASSUME NEW ev \in Events \cup {None}, StartLoad(j, ev)
      PROVE  job' \in [Jobs -> JobSet]
  BY <1>1, <1>2 DEF StartLoad, TypeOK
<1>3. job[j] \in JobSet
  BY DEF TypeOK
<1> QED
  BY <1>1, <1>2, <1>3 DEF JobSet

\* A function of the page is over.
LEMMA IdleTypes ==
  ASSUME TypeOK, NEW j \in Jobs
  PROVE  [job EXCEPT ![j] = Idle] \in [Jobs -> JobSet]
  BY FreshTypes DEF TypeOK

\* The steps that render the page anew.
LEMMA RenderingTypes ==
  ASSUME TypeOK,
         \/ Logout \/ OpenCreate
         \/ \E e \in Events : OpenEdit(e)
         \/ \E j \in Jobs : LoadArrives(j) \/ LoadFails(j)
  PROVE  TypeOK'
<1> USE DEF TypeOK
<1>1. CASE Logout
  <2> DEFINE p == [page EXCEPT !.user = "out", !.list = {}, !.sel = None,
                               !.deposits = NoDeposits]
  <2>1. p \in PageSet
    BY FreshTypes DEF PageSet
  <2>2. ResetForm(p) \in PageSet
    BY <2>1, FieldTypes DEF ResetForm
  <2> QED
    BY <1>1, <2>2, RenderTypes DEF Logout
<1>2. CASE OpenCreate
  <2> DEFINE p == [page EXCEPT !.mode = "create", !.sel = None, !.deposits = NoDeposits,
                               !.panel = "open"]
  <2>1. p \in PageSet
    BY FreshTypes DEF PageSet
  <2>2. ResetForm(p) \in PageSet
    BY <2>1, FieldTypes DEF ResetForm
  <2> QED
    BY <1>2, <2>1, <2>2, RenderTypes DEF OpenCreate
<1>3. ASSUME NEW e \in Events, OpenEdit(e)
      PROVE  TypeOK'
  <2>1. [page EXCEPT !.mode = "edit", !.sel = e, !.panel = "open"] \in PageSet
    BY DEF PageSet
  <2> QED
    BY <1>3, <2>1, RenderTypes DEF OpenEdit
<1>4. ASSUME NEW j \in Jobs, LoadArrives(j)
      PROVE  TypeOK'
  <2> DEFINE seen == job[j].seen
             p == [page EXCEPT !.loading = FALSE, !.list = seen,
                               !.sel = IF @ \in seen THEN @ ELSE None]
  <2>1. seen \subseteq Events
    BY JobTypes
  <2>2. p \in PageSet
    BY <2>1 DEF PageSet
  <2>3. Render(After(p, j))
    BY <1>4 DEF LoadArrives
  <2>4. After(p, j) \in PageSet
    BY <2>2, AfterTypes
  <2>5. page' \in PageSet /\ asks' \subseteq AskSet
    BY <2>3, <2>4, RenderTypes
  <2> QED
    BY <1>4, <2>5, IdleTypes DEF LoadArrives
<1>5. ASSUME NEW j \in Jobs, LoadFails(j)
      PROVE  TypeOK'
  <2> DEFINE p == [page EXCEPT !.loading = FALSE]
  <2>1. p \in PageSet
    BY FieldTypes
  <2>2. Render(After(p, j))
    BY <1>5 DEF LoadFails
  <2>3. page' \in PageSet /\ asks' \subseteq AskSet
    BY <2>1, <2>2, AfterTypes, RenderTypes
  <2> QED
    BY <1>5, <2>3, IdleTypes DEF LoadFails
<1> QED
  BY <1>1, <1>2, <1>3, <1>4, <1>5

\* Signing in, and what the host does in the panel.
LEMMA HostTypes ==
  ASSUME TypeOK,
         \/ SessionCheck \/ SwitchAuthMode \/ Submit \/ GoogleSignIn
         \/ (\E c \in signing : SignInAnswer(c))
         \/ CloseDetail \/ DetailClosed \/ ShowSecurity \/ EditField \/ ResetFields
         \/ ImportLuma \/ UploadImage \/ (\E c \in filling : Filled(c))
  PROVE  TypeOK'
<1> USE DEF TypeOK
<1>1. ASSUME NEW p \in PageSet, Enter(p)
      PROVE  page' \in PageSet /\ job' \in [Jobs -> JobSet]
  <2>1. [p EXCEPT !.user = "in", !.loading = TRUE] \in PageSet
    BY DEF PageSet
  <2> QED
    BY <1>1, <2>1, JobTypes DEF Enter, Jobs, Loads
<1>2. CASE SessionCheck
  <2>1. [page EXCEPT !.user = "out"] \in PageSet
    BY DEF PageSet
  <2> QED
    BY <1>1, <1>2, <2>1 DEF SessionCheck
<1>3. CASE SwitchAuthMode
  BY <1>3, FieldTypes DEF SwitchAuthMode
<1>4. CASE Submit \/ GoogleSignIn
  <2>1. page.auth \in {"login", "register", "forgot"}
    BY DEF PageSet
  <2>2. [page EXCEPT !.submitting = TRUE] \in PageSet
    BY FieldTypes
  <2> QED
    BY <1>4, <2>1, <2>2 DEF Submit, GoogleSignIn
<1>5. ASSUME NEW c \in signing, SignInAnswer(c)
      PROVE  TypeOK'
  <2> DEFINE p == [page EXCEPT !.submitting = FALSE]
  <2>1. p \in PageSet /\ [p EXCEPT !.auth = "login"] \in PageSet
    <3>1. p \in PageSet
      BY FieldTypes
    <3> QED
      BY <3>1, FieldTypes
  <2>2. page' \in PageSet /\ job' \in [Jobs -> JobSet]
    <3>1. CASE Enter(p)
      BY <3>1, <2>1, <1>1
    <3>2. CASE page' = [p EXCEPT !.auth = "login"] /\ UNCHANGED job
      BY <3>2, <2>1
    <3>3. CASE page' = p /\ UNCHANGED job
      BY <3>3, <2>1
    <3> QED
      BY <1>5, <3>1, <3>2, <3>3 DEF SignInAnswer
  <2> QED
    BY <1>5, <2>2 DEF SignInAnswer
<1>6. CASE CloseDetail \/ DetailClosed \/ ShowSecurity
  <2>1. page' \in PageSet
    BY <1>6, FieldTypes DEF CloseDetail, DetailClosed, ShowSecurity
  <2> QED
    BY <1>6, <2>1 DEF CloseDetail, DetailClosed, ShowSecurity
<1>7. CASE EditField
  <2>1. PICK f \in {"blank", "draft"} : page' = [page EXCEPT !.form = f]
    BY <1>7 DEF EditField, TypeText
  <2>2. page' \in PageSet
    BY <2>1, FieldTypes
  <2> QED
    BY <1>7, <2>2 DEF EditField
<1>8. CASE ResetFields
  <2> DEFINE f == IF page.mode = "edit" /\ SelectedEvent THEN page.sel ELSE "blank"
  <2>1. f \in Events \cup {"blank", "draft", "mixed"}
    BY DEF PageSet, SelectedEvent
  <2>2. page' = [page EXCEPT !.form = f]
    BY <1>8 DEF ResetFields
  <2>3. page' \in PageSet
    BY <2>1, <2>2, FieldTypes
  <2> QED
    BY <1>8, <2>3 DEF ResetFields
<1>9. CASE ImportLuma \/ UploadImage
  <2>1. \A what \in {"import", "image"} : [what |-> what, into |-> page.sel] \in FillSet
    BY DEF FillSet, PageSet
  <2>2. filling' \subseteq FillSet
    BY <1>9, <2>1 DEF ImportLuma, UploadImage, StartFill
  <2> QED
    BY <1>9, <2>2 DEF ImportLuma, UploadImage
<1>10. ASSUME NEW c \in filling, Filled(c)
       PROVE  TypeOK'
  <2>1. page' \in PageSet
    <3>1. PICK f \in {page.form, "mixed", "draft"} : page' = [page EXCEPT !.form = f]
      BY <1>10 DEF Filled
    <3>2. f \in Events \cup {"blank", "draft", "mixed"}
      BY <3>1 DEF PageSet
    <3> QED
      BY <3>1, <3>2, FieldTypes
  <2>2. [c EXCEPT !.what = "picture"] \in FillSet
    <3>1. c \in FillSet
      OBVIOUS
    <3> QED
      BY <3>1 DEF FillSet
  <2>3. filling' \subseteq FillSet
    BY <1>10, <2>2 DEF Filled
  <2> QED
    BY <1>10, <2>1, <2>3 DEF Filled
<1> QED
  BY <1>2, <1>3, <1>4, <1>5, <1>6, <1>7, <1>8, <1>9, <1>10

\* The calls, on either side.
LEMMA CallTypes ==
  ASSUME TypeOK,
         \/ CreateEvent \/ UpdateEvent \/ DeleteEvent \/ Refresh \/ RefreshCheckouts
         \/ (\E e \in Events : Insert(e) \/ Pay(e))
         \/ (\E j \in Jobs : \/ CheckDeposits(j) \/ Write(j) \/ Answer(j) \/ CallFails(j)
                             \/ ListEvents(j))
         \/ (\E a \in asks : Deposits(a))
  PROVE  TypeOK'
<1> USE DEF TypeOK
<1>0. "create" \in Jobs /\ "update" \in Jobs /\ "delete" \in Jobs /\ "refresh" \in Jobs
  BY DEF Jobs, Saves, Loads
<1>1. ASSUME NEW j \in Jobs, NEW ev \in Events \cup {None}, StartJob(j, ev)
      PROVE  TypeOK'
  BY <1>1, JobTypes DEF StartJob
<1>2. CASE CreateEvent \/ UpdateEvent \/ DeleteEvent
  <2>1. page.sel \in Events \cup {None}
    BY DEF PageSet
  <2> QED
    BY <1>0, <1>1, <1>2, <2>1 DEF CreateEvent, UpdateEvent, DeleteEvent
<1>3. CASE Refresh
  <2>1. page' \in PageSet
    BY <1>3, FieldTypes DEF Refresh
  <2>2. job' \in [Jobs -> JobSet]
    BY <1>0, <1>3, JobTypes DEF Refresh
  <2> QED
    BY <1>3, <2>1, <2>2 DEF Refresh
<1>4. CASE RefreshCheckouts
  <2>1. page.sel \in Events
    BY <1>4 DEF RefreshCheckouts, SelectedEvent, PageSet
  <2>2. AskOf(page.sel) \in AskSet
    BY <2>1 DEF AskOf, AskSet
  <2> QED
    BY <1>4, <2>2 DEF RefreshCheckouts, AskCheckouts
<1>5. ASSUME NEW e \in Events, Insert(e)
      PROVE  TypeOK'
  <2>1. rows' \in [Events -> RowStates]
    BY <1>5 DEF Insert, RowStates
  <2>2. job["create"] \in JobSet
    BY <1>0
  <2>3. [job["create"] EXCEPT !.pc = "served", !.ev = e] \in JobSet
    BY <2>2 DEF JobSet
  <2>4. job' = [job EXCEPT !["create"] = [job["create"] EXCEPT !.pc = "served", !.ev = e]]
    BY <1>5 DEF Insert
  <2>5. job' \in [Jobs -> JobSet]
    BY <2>3, <2>4
  <2> QED
    BY <1>5, <2>1, <2>5 DEF Insert
<1>6. ASSUME NEW e \in Events, Pay(e)
      PROVE  TypeOK'
  BY <1>6 DEF Pay
<1>7. ASSUME NEW j \in Jobs, CheckDeposits(j) \/ Write(j)
      PROVE  TypeOK'
  <2>1. job[j] \in JobSet
    OBVIOUS
  <2>2. [job[j] EXCEPT !.pc = "checked"] \in JobSet /\ [job[j] EXCEPT !.pc = "served"] \in JobSet
    BY <2>1 DEF JobSet
  <2>3. job' \in [Jobs -> JobSet]
    BY <1>7, <2>2 DEF CheckDeposits, Write
  <2>4. rows' \in [Events -> RowStates]
    BY <1>7 DEF CheckDeposits, Write, RowStates
  <2> QED
    BY <1>7, <2>3, <2>4 DEF CheckDeposits, Write
<1>8. ASSUME NEW j \in Jobs, Answer(j)
      PROVE  TypeOK'
  <2>1. page' \in PageSet
    BY <1>8, FieldTypes DEF Answer
  <2>2. job' \in [Jobs -> JobSet]
    BY <1>8, JobTypes DEF Answer
  <2> QED
    BY <1>8, <2>1, <2>2 DEF Answer
<1>9. ASSUME NEW j \in Jobs, CallFails(j)
      PROVE  TypeOK'
  BY <1>9, IdleTypes DEF CallFails
<1>10. ASSUME NEW j \in Jobs, ListEvents(j)
       PROVE  TypeOK'
  <2>1. job[j] \in JobSet /\ Live \subseteq Events
    BY DEF Live
  <2>2. [job[j] EXCEPT !.pc = "loaded", !.seen = Live] \in JobSet
    BY <2>1 DEF JobSet
  <2>3. job' = [job EXCEPT ![j] = [job[j] EXCEPT !.pc = "loaded", !.seen = Live]]
    BY <1>10 DEF ListEvents
  <2> QED
    BY <1>10, <2>2, <2>3 DEF ListEvents
<1>11. ASSUME NEW a \in asks, Deposits(a)
       PROVE  TypeOK'
  <2>1. a \in AskSet
    OBVIOUS
  <2>2. CASE ListCheckouts(a)
    <3> DEFINE b == a.of \in Live \cap paid
    <3>1. b \in BOOLEAN
      OBVIOUS
    <3> HIDE DEF b
    <3>2. [a EXCEPT !.pc = "served", !.paid = b] \in AskSet
      BY <2>1, <3>1 DEF AskSet
    <3>3. asks' = (asks \ {a}) \cup {[a EXCEPT !.pc = "served", !.paid = b]}
      BY <2>2 DEF ListCheckouts, b
    <3> QED
      BY <2>2, <3>2, <3>3 DEF ListCheckouts
  <2>3. CASE CheckoutsArrive(a)
    <3>1. [of |-> a.of, paid |-> a.paid] \in DepositSet
      BY <2>1 DEF AskSet, DepositSet
    <3>2. page' \in PageSet
      BY <2>3, <3>1 DEF CheckoutsArrive, PageSet
    <3> QED
      BY <2>3, <3>2 DEF CheckoutsArrive
  <2>4. CASE CheckoutsFail(a)
    BY <2>4 DEF CheckoutsFail
  <2> QED
    BY <1>11, <2>2, <2>3, <2>4 DEF Deposits
<1> QED
  BY <1>2, <1>3, <1>4, <1>5, <1>6, <1>7, <1>8, <1>9, <1>10, <1>11

LEMMA NextTypes == TypeOK /\ [Next]_vars => TypeOK'
<1> SUFFICES ASSUME TypeOK, [Next]_vars PROVE TypeOK'
  OBVIOUS
<1>1. CASE Next
  BY <1>1, RenderingTypes, HostTypes, CallTypes DEF Next, Host, World, Proceed
<1>2. CASE UNCHANGED vars
  BY <1>2 DEF vars, TypeOK
<1> QED
  BY <1>1, <1>2

\* Every variable keeps its type, whatever answers come and in whatever order.
THEOREM DashboardTypes == Spec => []TypeOK
<1>1. Init => TypeOK
  BY InitTypes
<1>2. TypeOK /\ [Next]_vars => TypeOK'
  BY NextTypes
<1> QED
  BY <1>1, <1>2, PTL DEF Spec

-----------------------------------------------------------------------------
(* The form and the selection. *)

\* Inductive only with the reason why the effect has run: the selected event, if the
\* list was never without it, is in the list.
Filling(p) ==
  /\ p.mode = "create" => p.sel = None /\ p.form \notin Events
  /\ p.sel # None /\ ~p.missed => p.form \in {p.sel, "mixed"} /\ p.sel \in p.list

Inv == TypeOK /\ Filling(page)

\* The effect repairs whatever is rendered, if a new event's form is not an event's
\* and an old selection's form is that event's, or mixed.
LEMMA RenderFills ==
  ASSUME TypeOK, NEW p \in PageSet, Render(p),
         p.mode = "create" => p.sel = None /\ p.form \notin Events,
         p.sel = page.sel /\ p.sel # None /\ ~page.missed => p.form \in {p.sel, "mixed"}
  PROVE  Filling(page)'
<1> DEFINE b == p.sel # None /\ (p.sel \notin p.list \/ (p.sel = page.sel /\ page.missed))
           q == [p EXCEPT !.missed = b]
<1>1. /\ q.mode = p.mode /\ q.sel = p.sel /\ q.form = p.form /\ q.list = p.list
      /\ q.missed = b
  BY DEF PageSet
<1> HIDE DEF q
<1>2. CASE p.sel \notin p.list \ {page.sel} /\ page' = q
  BY <1>1, <1>2 DEF Filling
<1>3. CASE /\ p.sel \in p.list \ {page.sel}
           /\ page' = FillForm([q EXCEPT !.deposits = NoDeposits], p.sel)
  <2>1. p.sel \in Events /\ p.sel # None
    BY <1>3 DEF PageSet
  <2>2. q \in PageSet
    BY FieldTypes DEF q
  <2> DEFINE d == [q EXCEPT !.deposits = NoDeposits]
  <2>3. d \in PageSet /\ d.mode = q.mode /\ d.sel = q.sel /\ d.list = q.list
    <3>1. d \in PageSet
      BY <2>2, FieldTypes
    <3> QED
      BY <2>2, <3>1 DEF PageSet
  <2> HIDE DEF d
  <2>4. page' = [d EXCEPT !.form = p.sel]
    BY <1>3 DEF FillForm, d
  <2>5. page'.mode = d.mode /\ page'.sel = d.sel /\ page'.list = d.list /\ page'.form = p.sel
    BY <2>3, <2>4 DEF PageSet
  <2> QED
    BY <1>1, <1>3, <2>1, <2>3, <2>5 DEF Filling
<1>4. \/ p.sel \notin p.list \ {page.sel} /\ page' = q
      \/ /\ p.sel \in p.list \ {page.sel}
         /\ page' = FillForm([q EXCEPT !.deposits = NoDeposits], p.sel)
  BY DEF Render, q
<1> QED
  BY <1>2, <1>3, <1>4

LEMMA AfterFills ==
  ASSUME Inv, NEW p \in PageSet, NEW j \in Jobs,
         p.mode = page.mode, p.form = page.form, p.sel \in {page.sel, None},
         Render(After(p, j))
  PROVE  Filling(page)'
<1> DEFINE a == After(p, j)
<1>0. TypeOK /\ Filling(page) /\ a \in PageSet
  BY AfterTypes DEF Inv
<1>1. /\ a.mode = "create" => a.sel = None /\ a.form \notin Events
      /\ a.sel = page.sel /\ a.sel # None /\ ~page.missed => a.form \in {a.sel, "mixed"}
  <2>1. CASE j = "create"
    <3>1. a = [p EXCEPT !.sel = job[j].ev, !.mode = "edit"]
      BY <2>1 DEF After
    <3>2. a.mode = "edit" /\ a.form = p.form
      BY <3>1 DEF PageSet
    <3> QED
      BY <1>0, <3>2 DEF Filling
  <2>2. CASE j = "delete"
    <3> DEFINE r == [p EXCEPT !.sel = None, !.deposits = NoDeposits]
    <3>1. a = [r EXCEPT !.form = "blank"]
      BY <2>2 DEF After, ResetForm
    <3>2. a.sel = None /\ a.form = "blank"
      BY <3>1 DEF PageSet
    <3> QED
      BY <3>2
  <2>3. CASE j \notin {"create", "delete"}
    <3>1. a = p
      BY <2>3 DEF After
    <3> QED
      BY <1>0, <3>1 DEF Filling
  <2> QED
    BY <2>1, <2>2, <2>3
<1> QED
  BY <1>0, <1>1, RenderFills

LEMMA RenderingFills ==
  ASSUME Inv,
         \/ Logout \/ OpenCreate
         \/ \E e \in Events : OpenEdit(e)
         \/ \E j \in Jobs : LoadArrives(j) \/ LoadFails(j)
  PROVE  Filling(page)'
<1>0. TypeOK /\ Filling(page) /\ page \in PageSet
  BY DEF Inv, TypeOK
<1>1. CASE Logout
  <2> DEFINE p == [page EXCEPT !.user = "out", !.list = {}, !.sel = None,
                               !.deposits = NoDeposits]
  <2>1. p \in PageSet /\ p.sel = None
    BY <1>0, FreshTypes DEF PageSet
  <2> DEFINE r == [p EXCEPT !.form = "blank"]
  <2>2. r \in PageSet
    BY <2>1, FieldTypes
  <2>3. r.sel = None /\ r.form = "blank"
    BY <2>1 DEF PageSet
  <2>4. Render(r)
    BY <1>1 DEF Logout, ResetForm
  <2> HIDE DEF r
  <2> QED
    BY <1>0, <2>2, <2>3, <2>4, RenderFills
<1>2. CASE OpenCreate
  <2> DEFINE p == [page EXCEPT !.mode = "create", !.sel = None, !.deposits = NoDeposits,
                               !.panel = "open"]
             r == [p EXCEPT !.form = "blank"]
  <2>1. p \in PageSet /\ p.sel = None /\ p.form = page.form
    BY <1>0, FreshTypes DEF PageSet
  <2>2. r \in PageSet /\ r.sel = None /\ r.form = "blank"
    <3>1. r \in PageSet
      BY <2>1, FieldTypes
    <3> QED
      BY <2>1, <3>1 DEF PageSet
  <2>3. \/ page.mode = "create" /\ Render(p)
        \/ Render(r)
    BY <1>2 DEF OpenCreate, ResetForm
  <2> HIDE DEF p, r
  <2>4. CASE page.mode = "create" /\ Render(p)
    <3>1. p.form \notin Events
      BY <1>0, <2>1, <2>4 DEF Filling
    <3> QED
      BY <1>0, <2>1, <2>4, <3>1, RenderFills
  <2>5. CASE Render(r)
    BY <1>0, <2>2, <2>5, RenderFills
  <2> QED
    BY <2>3, <2>4, <2>5
<1>3. ASSUME NEW e \in Events, OpenEdit(e)
      PROVE  Filling(page)'
  <2> DEFINE p == [page EXCEPT !.mode = "edit", !.sel = e, !.panel = "open"]
  <2>1. p \in PageSet /\ p.mode = "edit" /\ p.sel = e /\ p.form = page.form
    BY <1>0 DEF PageSet
  <2>2. Render(p)
    BY <1>3 DEF OpenEdit
  <2> HIDE DEF p
  <2>3. p.sel = page.sel /\ p.sel # None /\ ~page.missed => p.form \in {p.sel, "mixed"}
    BY <1>0, <2>1 DEF Filling
  <2> QED
    BY <1>0, <2>1, <2>2, <2>3, RenderFills
<1>4. ASSUME NEW j \in Jobs, LoadArrives(j)
      PROVE  Filling(page)'
  <2> DEFINE seen == job[j].seen
             s == IF page.sel \in seen THEN page.sel ELSE None
             p == [page EXCEPT !.loading = FALSE, !.list = seen, !.sel = s]
  <2>1. seen \subseteq Events /\ s \in Events \cup {None}
    BY <1>0, JobTypes
  <2>2. p \in PageSet /\ p.mode = page.mode /\ p.form = page.form /\ p.sel = s
    BY <1>0, <2>1 DEF PageSet
  <2>3. Render(After(p, j))
    BY <1>4 DEF LoadArrives
  <2> HIDE DEF p
  <2> QED
    BY <2>2, <2>3, AfterFills
<1>5. ASSUME NEW j \in Jobs, LoadFails(j)
      PROVE  Filling(page)'
  <2> DEFINE p == [page EXCEPT !.loading = FALSE]
  <2>1. p \in PageSet /\ p.mode = page.mode /\ p.form = page.form /\ p.sel = page.sel
    <3>1. p \in PageSet
      BY <1>0, FieldTypes
    <3> QED
      BY <1>0, <3>1 DEF PageSet
  <2>2. Render(After(p, j))
    BY <1>5 DEF LoadFails
  <2> HIDE DEF p
  <2> QED
    BY <2>1, <2>2, AfterFills
<1> QED
  BY <1>1, <1>2, <1>3, <1>4, <1>5

\* What leaves the selection, the list and the form alone.
LEMMA SameFields ==
  ASSUME Filling(page), page'.mode = page.mode, page'.sel = page.sel,
         page'.missed = page.missed, page'.list = page.list, page'.form = page.form
  PROVE  Filling(page)'
BY DEF Filling

LEMMA OtherFieldsFill ==
  ASSUME Inv,
         \/ SessionCheck \/ SwitchAuthMode \/ Submit \/ GoogleSignIn
         \/ (\E c \in signing : SignInAnswer(c))
         \/ CloseDetail \/ DetailClosed \/ ShowSecurity \/ Refresh
         \/ (\E j \in Jobs : Answer(j))
         \/ (\E a \in asks : CheckoutsArrive(a))
  PROVE  Filling(page)'
<1>0. TypeOK /\ Filling(page) /\ page \in PageSet
  BY DEF Inv, TypeOK
<1>1. ASSUME NEW p \in PageSet, Enter(p) \/ page' = p \/ page' = [p EXCEPT !.auth = "login"],
             p.mode = page.mode, p.sel = page.sel, p.missed = page.missed,
             p.list = page.list, p.form = page.form
      PROVE  Filling(page)'
  <2>1. /\ page'.mode = page.mode /\ page'.sel = page.sel /\ page'.missed = page.missed
        /\ page'.list = page.list /\ page'.form = page.form
    BY <1>1 DEF Enter, PageSet
  <2> QED
    BY <1>0, <2>1, SameFields
<1>2. CASE SessionCheck
  <2>1. CASE Enter(page)
    BY <1>0, <1>1, <2>1
  <2>2. CASE page' = [page EXCEPT !.user = "out"]
    BY <1>0, <2>2, SameFields DEF PageSet
  <2> QED
    BY <1>2, <2>1, <2>2 DEF SessionCheck
<1>3. CASE SwitchAuthMode
  BY <1>0, <1>3, SameFields DEF SwitchAuthMode, PageSet
<1>4. CASE Submit \/ GoogleSignIn
  <2>1. page' = [page EXCEPT !.submitting = TRUE]
    BY <1>4 DEF Submit, GoogleSignIn
  <2> QED
    BY <1>0, <2>1, SameFields DEF PageSet
<1>5. ASSUME NEW c \in signing, SignInAnswer(c)
      PROVE  Filling(page)'
  <2> DEFINE p == [page EXCEPT !.submitting = FALSE]
  <2>1. /\ p \in PageSet /\ p.mode = page.mode /\ p.sel = page.sel
        /\ p.missed = page.missed /\ p.list = page.list /\ p.form = page.form
    <3>1. p \in PageSet
      BY <1>0, FieldTypes
    <3> QED
      BY <1>0, <3>1 DEF PageSet
  <2>2. Enter(p) \/ page' = p \/ page' = [p EXCEPT !.auth = "login"]
    BY <1>5 DEF SignInAnswer
  <2> HIDE DEF p
  <2> QED
    BY <1>1, <2>1, <2>2
<1>6. CASE CloseDetail \/ DetailClosed \/ ShowSecurity
  <2>1. PICK s \in {"shut", "closing"} : page' = [page EXCEPT !.panel = s]
    BY <1>6 DEF CloseDetail, DetailClosed, ShowSecurity
  <2> QED
    BY <1>0, <2>1, SameFields DEF PageSet
<1>7. CASE Refresh \/ \E j \in Jobs : Answer(j)
  <2>1. page' = [page EXCEPT !.loading = TRUE]
    BY <1>7 DEF Refresh, Answer
  <2> QED
    BY <1>0, <2>1, SameFields DEF PageSet
<1>8. ASSUME NEW a \in asks, CheckoutsArrive(a)
      PROVE  Filling(page)'
  <2>1. page' = [page EXCEPT !.deposits = [of |-> a.of, paid |-> a.paid]]
    BY <1>8 DEF CheckoutsArrive
  <2> QED
    BY <1>0, <2>1, SameFields DEF PageSet
<1> QED
  BY <1>2, <1>3, <1>4, <1>5, <1>6, <1>7, <1>8

\* Typing, resetting and what was read from elsewhere.
LEMMA FormFills ==
  ASSUME Inv, EditField \/ ResetFields \/ \E c \in filling : Filled(c)
  PROVE  Filling(page)'
<1>0. TypeOK /\ Filling(page) /\ page \in PageSet
  BY DEF Inv, TypeOK
<1>1. PICK f : page' = [page EXCEPT !.form = f]
  BY DEF EditField, TypeText, ResetFields, Filled
<1>2. /\ page'.mode = page.mode /\ page'.sel = page.sel /\ page'.missed = page.missed
      /\ page'.list = page.list /\ page'.form = f
  BY <1>0, <1>1 DEF PageSet
<1>3. page.sel \in Events \cup {None}
  BY <1>0 DEF PageSet
<1>4. CASE EditField
  <2>1. page.form \in {"blank", "draft"} /\ page'.form \in {"blank", "draft"}
    <3>1. page.form \in {"blank", "draft"}
          /\ \E g \in {"blank", "draft"} : page' = [page EXCEPT !.form = g]
      BY <1>4 DEF EditField, TypeText
    <3> QED
      BY <1>0, <3>1 DEF PageSet
  <2> QED
    BY <1>0, <1>2, <1>3, <2>1 DEF Filling
<1>5. CASE ResetFields
  <2>1. page'.form = IF page.mode = "edit" /\ page.sel \in page.list THEN page.sel ELSE "blank"
    BY <1>0, <1>5 DEF ResetFields, SelectedEvent, PageSet
  <2>2. page.mode \in {"create", "edit"}
    BY <1>0 DEF PageSet
  <2> QED
    BY <1>0, <1>2, <1>3, <2>1, <2>2 DEF Filling
<1>6. ASSUME NEW c \in filling, Filled(c)
      PROVE  Filling(page)'
  <2>1. page'.form \in {page.form, "mixed"} \/ (page.form = "blank" /\ page'.form = "draft")
    <3>1. \E g \in {page.form, IF c.into # page.sel THEN "mixed"
                             ELSE IF page.form = "blank" THEN "draft" ELSE page.form} :
             page' = [page EXCEPT !.form = g]
      BY <1>6 DEF Filled
    <3> QED
      BY <1>0, <3>1 DEF PageSet
  <2> QED
    BY <1>0, <1>2, <1>3, <2>1 DEF Filling
<1> QED
  BY <1>4, <1>5, <1>6

LEMMA NextFills == Inv /\ [Next]_vars => Inv'
<1> SUFFICES ASSUME Inv, [Next]_vars PROVE Inv'
  OBVIOUS
<1>0. TypeOK'
  BY NextTypes DEF Inv
<1>1. CASE UNCHANGED page
  BY <1>0, <1>1 DEF Inv, Filling
<1>2. CASE Next
  <2>1. CASE Host
    <3>1. CASE ImportLuma \/ UploadImage \/ RefreshCheckouts
      BY <1>1, <3>1 DEF ImportLuma, UploadImage, RefreshCheckouts
    <3>2. CASE CreateEvent \/ UpdateEvent \/ DeleteEvent
      BY <1>1, <3>2 DEF CreateEvent, UpdateEvent, DeleteEvent, StartJob
    <3> QED
      BY <1>0, <2>1, <3>1, <3>2, RenderingFills, OtherFieldsFill, FormFills DEF Host, Inv
  <2>2. CASE World
    <3>1. ASSUME NEW e \in Events, Insert(e) \/ Pay(e)
          PROVE  Inv'
      BY <1>1, <3>1 DEF Insert, Pay
    <3> QED
      BY <1>0, <2>2, <3>1, OtherFieldsFill, FormFills DEF World, Inv
  <2>3. ASSUME NEW j \in Jobs, Proceed(j)
        PROVE  Inv'
    <3>1. CASE CheckDeposits(j) \/ Write(j) \/ CallFails(j) \/ ListEvents(j)
      BY <1>1, <3>1 DEF CheckDeposits, Write, CallFails, ListEvents
    <3> QED
      BY <1>0, <2>3, <3>1, RenderingFills, OtherFieldsFill DEF Proceed, Inv
  <2>4. ASSUME NEW a \in asks, Deposits(a)
        PROVE  Inv'
    <3>1. CASE ListCheckouts(a) \/ CheckoutsFail(a)
      BY <1>1, <3>1 DEF ListCheckouts, CheckoutsFail
    <3> QED
      BY <1>0, <2>4, <3>1, OtherFieldsFill DEF Deposits, Inv
  <2> QED
    BY <1>2, <2>1, <2>2, <2>3, <2>4 DEF Next
<1>3. CASE UNCHANGED vars
  BY <1>1, <1>3 DEF vars
<1> QED
  BY <1>2, <1>3

\* What saving would write to the selected event was filled in from it, however the
\* page's functions and their answers interleave, but for the two cases that the
\* property leaves open: the list was without the event, or an import or an image
\* begun in another form has come into this one.
THEOREM FormFollowsSelection == Spec => []FormIsSelected
<1>1. Init => Inv
  BY InitTypes DEF Init, Inv, Fresh, Filling
<1>2. Inv /\ [Next]_vars => Inv'
  BY NextFills
<1>3. Inv => FormIsSelected
  BY DEF Inv, Filling, FormIsSelected
<1> QED
  BY <1>1, <1>2, <1>3, PTL DEF Spec
=============================================================================
