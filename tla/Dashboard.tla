----------------------------- MODULE Dashboard -----------------------------
(***************************************************************************)
(* The host's dashboard, frontend/src/app/app/page.tsx, and the handlers   *)
(* of backend/api/events.go behind it: one page whose list, selection,     *)
(* form and deposits are set by the host's clicks, by an effect that runs  *)
(* when the selection changes, and by the answers of calls that overlap.   *)
(*                                                                         *)
(* There is one account.  A handler of the page runs to its next await in  *)
(* one step, with the render and the effects that follow it.  A call that  *)
(* fails was served before or never is.  The log-out's own call may fail,  *)
(* so that later calls of the page can still be served.                    *)
(***************************************************************************)
EXTENDS Naturals, FiniteSets

CONSTANTS
  Events,   \* ids the server may give to events
  MaxAsks,  \* bound on the deposit requests under way when the host causes another
  None

ASSUME DashboardAssumption ==
  /\ None \notin Events
  /\ {"blank", "draft", "mixed"} \cap Events = {}
  /\ MaxAsks \in Nat

VARIABLES
  rows,     \* table events
  paid,     \* events with a paid checkout
  page,     \* the React state of the page
  job,      \* the page's functions that wait for a list, or for a call and then a list
  asks,     \* deposit requests; those of one event in one state are not told apart
  signing,  \* sign-in calls under way, by kind
  filling   \* what is being read to go into the form: an import, an image

server == <<rows, paid>>
vars   == <<server, page, job, asks, signing, filling>>

\* An event is edited when its row has changed since it was created.
RowStates == {"free", "new", "edited", "gone"}
Live      == {e \in Events : rows[e] \in {"new", "edited"}}

\* The event whose checkouts are shown, and whether one of them is paid.
DepositSet == [of : Events \cup {None}, paid : BOOLEAN]
NoDeposits == [of |-> None, paid |-> FALSE]

\* form is the event the fields were filled from, or says whether a new event's text
\* fields are blank, or that what was read for another form has come into this one;
\* missed, that the selected event was not in the list all the time.
PageSet == [
  user       : {"unknown", "out", "in"},
  auth       : {"login", "register", "forgot"},
  submitting : BOOLEAN,
  list       : SUBSET Events,
  sel        : Events \cup {None},
  missed     : BOOLEAN,
  mode       : {"create", "edit"},
  panel      : {"shut", "open", "closing"},
  form       : Events \cup {"blank", "draft", "mixed"},
  deposits   : DepositSet,
  loading    : BOOLEAN]

Fresh == [
  user |-> "unknown", auth |-> "login", submitting |-> FALSE, list |-> {}, sel |-> None,
  missed |-> FALSE, mode |-> "create", panel |-> "shut", form |-> "blank",
  deposits |-> NoDeposits, loading |-> FALSE]

\* The loads of the sign-in and of the Refresh button, and the three functions that
\* load the list after a call of their own; one of each is under way at most.
Loads == {"sign-in", "refresh"}
Saves == {"create", "update", "delete"}
Jobs  == Loads \cup Saves

JobSet == [
  pc   : {"idle", "asked", "checked", "served", "load", "loaded"},
  ev   : Events \cup {None},
  seen : SUBSET Events]
Idle == [pc |-> "idle", ev |-> None, seen |-> {}]

Busy(j) == job[j].pc # "idle"

AskSet   == [of : Events, pc : {"asked", "served"}, paid : BOOLEAN]
AskOf(e) == [of |-> e, pc |-> "asked", paid |-> FALSE]

\* An import, the picture it names, or an image, and the event whose form it was begun
\* in.  The forms of new events are not told apart.
FillSet == [what : {"import", "picture", "image"}, into : Events \cup {None}]

TypeOK ==
  /\ rows \in [Events -> RowStates]
  /\ paid \subseteq Events
  /\ page \in PageSet
  /\ job \in [Jobs -> JobSet]
  /\ asks \subseteq AskSet
  /\ signing \subseteq {"login", "register", "forgot", "google"}
  /\ filling \subseteq FillSet

-----------------------------------------------------------------------------
(* What the page's functions do to its state. *)

SelectedEvent   == page.sel \in page.list
HasPaidDeposits == page.deposits.paid

\* fillFormFromEvent.
FillForm(p, e) == [p EXCEPT !.form = e]

\* resetForm.
ResetForm(p) == [p EXCEPT !.form = "blank"]

\* refreshCheckouts, up to its call.
AskCheckouts(e) == asks' = asks \cup {AskOf(e)}

\* The page is rendered.  If the selection has changed, its effect fills the form and
\* asks for the deposits, unless the event is not in the list.
Render(p) ==
  LET q == [p EXCEPT !.missed =
              p.sel # None /\ (p.sel \notin p.list \/ (p.sel = page.sel /\ page.missed))]
  IN  \/ /\ p.sel \notin p.list \ {page.sel}
         /\ page' = q
         /\ UNCHANGED asks
      \/ /\ p.sel \in p.list \ {page.sel}
         /\ page' = FillForm([q EXCEPT !.deposits = NoDeposits], p.sel)
         /\ AskCheckouts(p.sel)

\* What a function does once its list is there, or has failed to come.  A delete
\* closes what it deleted, whatever is open by then.
After(p, j) ==
  CASE j = "create" -> [p EXCEPT !.sel = job[j].ev, !.mode = "edit"]
    [] j = "delete" -> ResetForm([p EXCEPT !.sel = None, !.deposits = NoDeposits])
    [] OTHER        -> p

\* The account's pages are shown.
Shown  == page.user = "in"
Opened == Shown /\ page.panel # "shut"

-----------------------------------------------------------------------------
(* Signing in and out. *)

\* loadEvents, up to its call.
StartLoad(j, ev) == job' = [job EXCEPT ![j] = [Idle EXCEPT !.pc = "load", !.ev = ev]]

\* The user is set: the effect of currentUser loads the events.
Enter(p) ==
  /\ ~Busy("sign-in")
  /\ StartLoad("sign-in", None)
  /\ page' = [p EXCEPT !.user = "in", !.loading = TRUE]

\* /api/auth/me answers, refuses or is given up after twelve seconds; a retry asks again.
SessionCheck ==
  /\ page.user = "unknown"
  /\ \/ Enter(page)
     \/ page' = [page EXCEPT !.user = "out"] /\ UNCHANGED job
  /\ UNCHANGED <<server, asks, signing, filling>>

SwitchAuthMode ==
  /\ page.user = "out"
  /\ \E m \in {"login", "register", "forgot"} : page' = [page EXCEPT !.auth = m]
  /\ UNCHANGED <<server, job, asks, signing, filling>>

\* onAuthSubmit, up to its call.
Submit ==
  /\ page.user = "out" /\ ~page.submitting
  /\ page' = [page EXCEPT !.submitting = TRUE]
  /\ signing' = signing \cup {page.auth}
  /\ UNCHANGED <<server, job, asks, filling>>

\* Google hands over a credential; its button is not disabled during another call.
GoogleSignIn ==
  /\ page.user = "out" /\ page.auth # "forgot"
  /\ page' = [page EXCEPT !.submitting = TRUE]
  /\ signing' = signing \cup {"google"}
  /\ UNCHANGED <<server, job, asks, filling>>

SignInAnswer(c) ==
  /\ c \in signing
  /\ signing' = signing \ {c}
  /\ LET p == [page EXCEPT !.submitting = FALSE]
     IN  \/ c \in {"login", "google"} /\ Enter(p)
         \/ c = "register" /\ page' = [p EXCEPT !.auth = "login"] /\ UNCHANGED job
         \/ page' = p /\ UNCHANGED job
  /\ UNCHANGED <<server, asks, filling>>

\* The call is over, whether or not it worked; the host could go on until then.
Logout ==
  /\ Shown
  /\ Render(ResetForm([page EXCEPT !.user = "out", !.list = {}, !.sel = None,
                                   !.deposits = NoDeposits]))
  /\ UNCHANGED <<server, job, signing, filling>>

-----------------------------------------------------------------------------
(* The panel of an event. *)

\* A slip: whatever the panel was shut on is taken for a draft.
OpenCreateKeeps ==
  /\ Shown
  /\ LET p == [page EXCEPT !.mode = "create", !.sel = None, !.deposits = NoDeposits,
                           !.panel = "open"]
     IN  Render(IF page.panel = "shut" /\ page.form # "blank" THEN p ELSE ResetForm(p))
  /\ UNCHANGED <<server, job, signing, filling>>

\* openCreateDetail: a draft is kept if the panel was shut on it.
OpenCreate ==
  /\ Shown
  /\ LET p == [page EXCEPT !.mode = "create", !.sel = None, !.deposits = NoDeposits,
                           !.panel = "open"]
     IN  Render(IF page.panel = "shut" /\ page.mode = "create" /\ page.form # "blank"
                THEN p ELSE ResetForm(p))
  /\ UNCHANGED <<server, job, signing, filling>>

\* The cards: search, order and pages decide which are in sight, and any may be.
Cards == page.list

\* openEditDetail, from a card; an event that is selected already is not filled in again.
OpenEdit(e) ==
  /\ Shown /\ e \in Cards /\ Cardinality(asks) < MaxAsks
  /\ Render([page EXCEPT !.mode = "edit", !.sel = e, !.panel = "open"])
  /\ UNCHANGED <<server, job, signing, filling>>

\* closeDetail; 260 milliseconds later the panel is gone.
CloseDetail ==
  /\ Opened
  /\ page' = [page EXCEPT !.panel = "closing"]
  /\ UNCHANGED <<server, job, asks, signing, filling>>

DetailClosed ==
  /\ page.panel = "closing"
  /\ page' = [page EXCEPT !.panel = "shut"]
  /\ UNCHANGED <<server, job, asks, signing, filling>>

\* The switch to the agents' settings takes the panel away at once.
ShowSecurity ==
  /\ Opened
  /\ page' = [page EXCEPT !.panel = "shut"]
  /\ UNCHANGED <<server, job, asks, signing, filling>>

\* The host types; an event's form stays that event's, a mixed one mixed.
TypeText ==
  /\ page.form \in {"blank", "draft"}
  /\ \E f \in {"blank", "draft"} : page' = [page EXCEPT !.form = f]

EditField ==
  /\ Opened /\ TypeText
  /\ UNCHANGED <<server, job, asks, signing, filling>>

ResetFields ==
  /\ Opened
  /\ page' = [page EXCEPT !.form = IF page.mode = "edit" /\ SelectedEvent THEN page.sel ELSE "blank"]
  /\ UNCHANGED <<server, job, asks, signing, filling>>

StartFill(what) == filling' = filling \cup {[what |-> what, into |-> page.sel]}

\* The button is disabled meanwhile.
ImportLuma ==
  /\ Opened /\ \A c \in filling : c.what = "image"
  /\ StartFill("import")
  /\ UNCHANGED <<server, page, job, asks, signing>>

UploadImage ==
  /\ Opened /\ StartFill("image")
  /\ UNCHANGED <<server, page, job, asks, signing>>

\* What was read goes into the form that is there by then, whichever it was read for,
\* or it cannot be read.  An import goes on with the picture it names.
Filled(c) ==
  /\ c \in filling
  /\ \E more \in SUBSET {[c EXCEPT !.what = "picture"]} :
       /\ c.what # "import" => more = {}
       /\ filling' = (filling \ {c}) \cup more
  /\ \E f \in {page.form, IF c.into # page.sel THEN "mixed"
                         ELSE IF page.form = "blank" THEN "draft" ELSE page.form} :
       page' = [page EXCEPT !.form = f]
  /\ UNCHANGED <<server, job, asks, signing>>

-----------------------------------------------------------------------------
(* Saving and deleting. *)

\* validateEventForm may find fault with any form, and finds it with a blank one.
Valid == page.form # "blank"

Saveable == Opened /\ Valid /\ ~Busy("create") /\ ~Busy("update")

StartJob(j, ev) ==
  /\ job' = [job EXCEPT ![j] = [Idle EXCEPT !.pc = "asked", !.ev = ev]]
  /\ UNCHANGED <<server, page, asks, signing, filling>>

CreateEvent == Saveable /\ page.mode = "create" /\ StartJob("create", None)

\* Both functions keep the event that was selected when they were called.
UpdateEvent ==
  /\ Saveable /\ page.mode = "edit" /\ SelectedEvent /\ ~HasPaidDeposits
  /\ StartJob("update", page.sel)

DeleteEvent ==
  /\ Opened /\ page.mode = "edit" /\ SelectedEvent /\ ~HasPaidDeposits /\ ~Busy("delete")
  /\ StartJob("delete", page.sel)

Step(j, pc) == job[j].pc = pc

\* The server inserts the row.
Insert(e) ==
  /\ Step("create", "asked") /\ rows[e] = "free"
  /\ rows' = [rows EXCEPT ![e] = "new"]
  /\ job' = [job EXCEPT !["create"].pc = "served", !["create"].ev = e]
  /\ UNCHANGED <<paid, page, asks, signing, filling>>

\* updateEvent and deleteEvent of the server look for paid checkouts first.
CheckDeposits(j) ==
  /\ j \in {"update", "delete"} /\ Step(j, "asked")
  /\ job[j].ev \in Live \ paid
  /\ job' = [job EXCEPT ![j].pc = "checked"]
  /\ UNCHANGED <<server, page, asks, signing, filling>>

\* A slip: a delete only marks the row.
WriteMarked(j) ==
  /\ Step(j, "checked") /\ job[j].ev \in Live
  /\ rows' = [rows EXCEPT ![job[j].ev] = IF j = "update" THEN "edited" ELSE "deleted"]
  /\ job' = [job EXCEPT ![j].pc = "served"]
  /\ UNCHANGED <<paid, page, asks, signing, filling>>

\* The row is then written or deleted, if it is still there.
Write(j) ==
  /\ Step(j, "checked") /\ job[j].ev \in Live
  /\ rows' = [rows EXCEPT ![job[j].ev] = IF j = "update" THEN "edited" ELSE "gone"]
  /\ job' = [job EXCEPT ![j].pc = "served"]
  /\ UNCHANGED <<paid, page, asks, signing, filling>>

\* The call is answered, and the list loaded.
Answer(j) ==
  /\ Step(j, "served")
  /\ StartLoad(j, job[j].ev)
  /\ page' = [page EXCEPT !.loading = TRUE]
  /\ UNCHANGED <<server, asks, signing, filling>>

\* It is refused, fails, or its answer is lost: the finally clause.
CallFails(j) ==
  /\ job[j].pc \in {"asked", "checked", "served"}
  /\ job' = [job EXCEPT ![j] = Idle]
  /\ UNCHANGED <<server, page, asks, signing, filling>>

-----------------------------------------------------------------------------
(* The list of events. *)

Refresh ==
  /\ Shown /\ ~page.loading /\ ~Busy("refresh")
  /\ StartLoad("refresh", None)
  /\ page' = [page EXCEPT !.loading = TRUE]
  /\ UNCHANGED <<server, asks, signing, filling>>

ListEvents(j) ==
  /\ Step(j, "load")
  /\ job' = [job EXCEPT ![j].pc = "loaded", ![j].seen = Live]
  /\ UNCHANGED <<server, page, asks, signing, filling>>

\* The list arrives, and a selected event that it lacks is deselected.
LoadArrives(j) ==
  /\ Step(j, "loaded")
  /\ LET seen == job[j].seen
         p == [page EXCEPT !.loading = FALSE, !.list = seen,
                           !.sel = IF @ \in seen THEN @ ELSE None]
     IN  Render(After(p, j))
  /\ job' = [job EXCEPT ![j] = Idle]
  /\ UNCHANGED <<server, signing, filling>>

\* A slip: without its finally clause a failed load leaves the page loading.
LoadFailsLoading(j) ==
  /\ job[j].pc \in {"load", "loaded"}
  /\ Render(After(page, j))
  /\ job' = [job EXCEPT ![j] = Idle]
  /\ UNCHANGED <<server, signing, filling>>

\* loadEvents catches its failure, and the function that waits for it goes on.
LoadFails(j) ==
  /\ job[j].pc \in {"load", "loaded"}
  /\ Render(After([page EXCEPT !.loading = FALSE], j))
  /\ job' = [job EXCEPT ![j] = Idle]
  /\ UNCHANGED <<server, signing, filling>>

-----------------------------------------------------------------------------
(* The deposits of the selected event. *)

RefreshCheckouts ==
  /\ Opened /\ page.mode = "edit" /\ SelectedEvent /\ Cardinality(asks) < MaxAsks
  /\ AskCheckouts(page.sel)
  /\ UNCHANGED <<server, page, job, signing, filling>>

\* A deleted event has none.
ListCheckouts(a) ==
  /\ a.pc = "asked"
  /\ asks' = (asks \ {a}) \cup {[a EXCEPT !.pc = "served", !.paid = a.of \in Live \cap paid]}
  /\ UNCHANGED <<server, page, job, signing, filling>>

\* Nobody asks whether the event is still the selected one.
CheckoutsArrive(a) ==
  /\ a.pc = "served"
  /\ page' = [page EXCEPT !.deposits = [of |-> a.of, paid |-> a.paid]]
  /\ asks' = asks \ {a}
  /\ UNCHANGED <<server, job, signing, filling>>

CheckoutsFail(a) ==
  /\ asks' = asks \ {a}
  /\ UNCHANGED <<server, page, job, signing, filling>>

\* A participant's payment is recorded.
Pay(e) ==
  /\ e \in Live
  /\ paid' = paid \cup {e}
  /\ UNCHANGED <<rows, page, job, asks, signing, filling>>

-----------------------------------------------------------------------------
Init ==
  /\ rows \in [Events -> {"free", "new"}]
  /\ paid = {}
  /\ page = Fresh
  /\ job = [j \in Jobs |-> Idle]
  /\ asks = {} /\ signing = {} /\ filling = {}

Host ==
  \/ SwitchAuthMode \/ Submit \/ GoogleSignIn \/ Logout
  \/ OpenCreate \/ (\E e \in Events : OpenEdit(e)) \/ CloseDetail \/ ShowSecurity
  \/ EditField \/ ResetFields \/ ImportLuma \/ UploadImage
  \/ CreateEvent \/ UpdateEvent \/ DeleteEvent \/ Refresh \/ RefreshCheckouts

\* A function of the page goes on, on either side.
Proceed(j) ==
  \/ CheckDeposits(j) \/ Write(j) \/ Answer(j) \/ CallFails(j)
  \/ ListEvents(j) \/ LoadArrives(j) \/ LoadFails(j)

Deposits(a) == ListCheckouts(a) \/ CheckoutsArrive(a) \/ CheckoutsFail(a)

World ==
  \/ SessionCheck \/ (\E c \in signing : SignInAnswer(c)) \/ DetailClosed
  \/ (\E c \in filling : Filled(c))
  \/ \E e \in Events : Insert(e) \/ Pay(e)

Next == Host \/ World \/ (\E j \in Jobs : Proceed(j)) \/ (\E a \in asks : Deposits(a))

Spec == Init /\ [][Next]_vars

\* Fairness.  Every call is answered or fails, so every function of the page that
\* waits for one goes on.  Nothing is assumed of the host.
Fairness ==
  /\ \A j \in Jobs : WF_vars(Proceed(j))
  /\ WF_vars(\E c \in signing : SignInAnswer(c))
  /\ WF_vars(\E a \in asks : Deposits(a))

FairSpec == Spec /\ Fairness

-----------------------------------------------------------------------------
(* Properties. *)

\* Saving writes the form's fields to the selected event, and these are two states:
\* the form is filled by an effect that runs only when the selection changes, and is
\* wiped or kept by other functions, some of them after an await.  The form is the
\* selected event's, and never an event's own while a new one is created.  Two cases
\* are left open, for the code does not prevent them: the list has been without the
\* selected event (missed), and an import or an image begun in another form has come
\* into this one (mixed).
FormIsSelected ==
  /\ page.mode = "create" => page.sel = None /\ page.form \notin Events
  /\ page.sel # None /\ ~page.missed => page.form \in {page.sel, "mixed"}

\* Refresh and the sign-in form come back: their buttons are disabled by flags that
\* five loads, and two kinds of calls, share.
ButtonsReturn ==
  /\ page.loading ~> ~page.loading
  /\ page.submitting ~> ~page.submitting

\* The deposits that are listed, and that decide whether an event may be edited and
\* deleted, are those of the event on the screen.
DepositsAreOfSelected ==
  page.mode = "edit" /\ SelectedEvent /\ asks = {} => page.deposits.of \in {None, page.sel}

\* An event with a successful deposit is neither edited nor deleted any more.
PaidIsKept == [][\A e \in paid : rows'[e] = rows[e]]_vars
=============================================================================
