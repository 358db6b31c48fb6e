----------------------------- MODULE HostPages -----------------------------
(***************************************************************************)
(* The other pages of the host and the page of the admin:                  *)
(* HostDashboardPage, HostServicesPage, HostServiceNewPage,                *)
(* HostServiceBasicEditPage in HostServiceEditLayout,                      *)
(* HostServiceDashboardPage, HostBookingsPage, HostBookingDetailPage and   *)
(* AdminHomePage.                                                          *)
(***************************************************************************)
EXTENDS HostDesk

CONSTANTS
  Slugs,     \* slugs that are filled in
  PageSize,  \* cards on one page of the list
  Today

ASSUME PageConstantsOK == PageSize \in Nat \ {0} /\ Today \in Dates /\ Slugs \subseteq STRING

NoFilter == [status |-> "", listed |-> ""]

HomeView == [items |-> None, error |-> FALSE]
ServicesView == [items |-> None, filter |-> NoFilter, number |-> 1, busy |-> None, error |-> FALSE]
NewView == [busy |-> None, error |-> FALSE]
EditView(p) == [id |-> p, form |-> None, preview |-> None, busy |-> None, error |-> FALSE]
DashboardView(p, key) ==
  [id |-> p, key |-> key, row |-> None, slots |-> None, bookings |-> None,
   day |-> None, modal |-> None, error |-> FALSE]
BookingsView == [items |-> None, filter |-> "ALL", error |-> FALSE]
BookingView(b) == [id |-> b, status |-> None, busy |-> None, error |-> FALSE]
AdminView == [items |-> None, loading |-> TRUE, busy |-> None, error |-> FALSE]

HomeState == [items: {None} \cup SettingLists, error: BOOLEAN]
Filters == [status: {"", "draft", "active", "inactive"}, listed: {"", "listed", "unlisted"}]
ServicesState == [items: {None} \cup SettingLists, number: Nat \ {0}, filter: Filters,
                  busy: {None} \cup Pages, error: BOOLEAN]
NewState == [busy: {None, "yes"}, error: BOOLEAN]
EditState == [id: Pages, form: {None} \cup Settings, preview: {None} \cup Settings, busy: {None, "yes"}, error: BOOLEAN]
DashboardState ==
  [id: Pages, key: {"id", "slug"}, row: {None} \cup Settings, slots: {None} \cup SlotLists,
   bookings: {None} \cup BookingLists, day: {None} \cup Dates, modal: {None} \cup Books, error: BOOLEAN]
BookingsState == [items: {None} \cup StatusLists("ALL"), filter: {"ALL", "PENDING", "CONFIRMED"}, error: BOOLEAN]
BookingState == [id: Books, status: {None} \cup BookStatuses, busy: {None, "yes"}, error: BOOLEAN]
AdminState == [items: {None} \cup SUBSET Users, loading: BOOLEAN, busy: {None} \cup Users, error: BOOLEAN]

\* The schedule of the dashboard while it is read: each part may fail, <<>>.
ScheduleReading ==
  [kind: {"schedule"}, of: {This},
   data: [slots: {None, <<>>} \cup [1..1 -> SlotLists], bookings: {None, <<>>} \cup [1..1 -> BookingLists]]]

HomeOK(v, l, a) == v \in HomeState /\ l \in {None} \cup Reading("settings", None) /\ a = None
ServicesOK(v, l, a) == v \in ServicesState /\ l \in {None} \cup Reading("settings", None) /\ a = None
NewOK(v, l, a) == v \in NewState /\ l = None /\ a = None
EditOK(v, l, a) ==
  v \in EditState /\ l \in {None} \cup Reading("setting", v.id) /\ a \in {None} \cup Reading("preview", v.id)
DashboardOK(v, l, a) ==
  /\ v \in DashboardState /\ (v.slots # None => v.bookings # None)
  /\ l \in {None} \cup Reading("settings", None) /\ a \in {None} \cup ScheduleReading
  /\ a # None \/ v.day # None => v.row # None
BookingsOK(v, l, a) == v \in BookingsState /\ l \in {None} \cup Reading("bookings", v.filter) /\ a = None
BookingOK(v, l, a) == v \in BookingState /\ l \in {None} \cup Reading("detail", v.id) /\ a = None
AdminOK(v, l, a) == v \in AdminState /\ l = None /\ a = None

PagesOK ==
  /\ page = "home" => HomeOK(view, load, aux)
  /\ page = "services" => ServicesOK(view, load, aux)
  /\ page = "new" => NewOK(view, load, aux)
  /\ page = "edit" => EditOK(view, load, aux)
  /\ page = "dashboard" => DashboardOK(view, load, aux)
  /\ page = "bookings" => BookingsOK(view, load, aux)
  /\ page = "booking" => BookingOK(view, load, aux)
  /\ page = "admin" => AdminOK(view, load, aux)
  /\ page = "elsewhere" => load = None /\ aux = None

----------------------------------------------------------------------------
(* The list of booking pages. *)

Passes(s, f) ==
  /\ f.status = "draft" => ~s.setup
  /\ f.status = "active" => s.active /\ s.setup
  /\ f.status = "inactive" => ~s.active /\ s.setup
  /\ f.listed = "listed" => s.listed
  /\ f.listed = "unlisted" => ~s.listed

Filtered(v) == {p \in Pages : v.items[p] # None /\ Passes(v.items[p], v.filter)}

\* Mutant: the page's number stays when the filter changes and is not cut.
CardsUncut(v) ==
  LET order == SetToSeq(Filtered(v))
  IN {order[i] : i \in {n \in DOMAIN order : n > (v.number - 1) * PageSize /\ n <= v.number * PageSize}}

\* Cards of the page that is shown: the number is cut to the last page.
LastPage(v) == Max({1, (Cardinality(Filtered(v)) + PageSize - 1) \div PageSize})
Cards(v) ==
  LET number == IF v.number > LastPage(v) THEN LastPage(v) ELSE v.number
      order == SetToSeq(Filtered(v))
  IN {order[i] : i \in {n \in DOMAIN order : n > (number - 1) * PageSize /\ n <= number * PageSize}}

ChooseStatus ==
  page = "services" /\ \E f \in {"draft", "active"} : Show([view EXCEPT !.filter.status = f, !.number = 1])
ChooseListed ==
  page = "services" /\ \E f \in {"listed", "unlisted"} : Show([view EXCEPT !.filter.listed = f, !.number = 1])

Turn ==
  /\ page = "services" /\ view.items # None /\ Cardinality(Filtered(view)) > PageSize
  /\ \E n \in {view.number - 1, view.number + 1} : n \in 1 .. LastPage(view) /\ Show([view EXCEPT !.number = n])

\* deleteBookingPage: only the button of the page deleted last is disabled.
DeletePage ==
  /\ page = "services" /\ view.items # None
  /\ \E p \in Cards(view) \ {view.busy} :
       Start(<<Request("delete", p)>>, None, p, [view EXCEPT !.busy = p, !.error = FALSE])
  /\ UNCHANGED doubt

----------------------------------------------------------------------------
(* Creating and editing a page. *)

\* onSubmit of HostServiceNewPage
Create ==
  /\ page = "new" /\ view.busy = None
  /\ \E s \in Slugs, m \in Durations, l \in BOOLEAN :
       Start(<<Request("create", [slug |-> s, mins |-> m, listed |-> l])>>, None, "yes",
             [view EXCEPT !.busy = "yes", !.error = FALSE])
  /\ UNCHANGED doubt

Editing == page = "edit" /\ view.form # None

\* The inputs of the form; the layout shows them while they are typed.
Type ==
  /\ Editing
  /\ \E s \in Slugs, m \in Durations, l \in BOOLEAN :
       /\ <<s, m, l>> # <<view.form.slug, view.form.mins, view.form.listed>>
       /\ Show([view EXCEPT !.form.slug = s, !.form.mins = m, !.form.listed = l])

\* onSubmit of HostServiceBasicEditPage
Save ==
  /\ Editing /\ view.busy = None
  /\ Start(<<Request("update", [page |-> view.id, form |-> view.form])>>, None, "yes",
           [view EXCEPT !.busy = "yes", !.error = FALSE])
  /\ UNCHANGED doubt

\* onActivate, shown for a page whose setup is complete.
ActivatePage ==
  /\ Editing /\ view.form.setup /\ ~view.form.active
  /\ Start(<<Request("activate", view.id)>>, None, None, [view EXCEPT !.error = FALSE])
  /\ UNCHANGED doubt

\* Mutant: every page can be deleted here.
DiscardAny ==
  /\ Editing
  /\ Start(<<Request("discard", view.id)>>, None, None, [view EXCEPT !.error = FALSE])
  /\ UNCHANGED doubt

\* onDeleteDraft, shown for a page that was a draft when it was loaded.
Discard ==
  /\ Editing /\ ~view.form.setup
  /\ Start(<<Request("discard", view.id)>>, None, None, [view EXCEPT !.error = FALSE])
  /\ UNCHANGED doubt

----------------------------------------------------------------------------
(* The dashboard of a page. *)

\* The effects once the row is known: the schedule is read anew, and a
\* change of page shows today.
Schedule == [kind |-> "schedule", of |-> This, data |-> [slots |-> None, bookings |-> None]]
WithRow(v, row) ==
  [v EXCEPT !.row = row, !.slots = None, !.bookings = None,
            !.day = IF row = None THEN None ELSE IF v.row = None THEN Today ELSE @]

\* Mutant: only confirmed bookings are joined to their slots.
RowOfConfirmed(v, s) ==
  LET active == {b \in ActiveAt(v.bookings, At(s)) : v.bookings[b].status = "CONFIRMED"}
  IN IF s.status # "BOOKED" \/ active = {} THEN [state |-> s.status, booking |-> None]
     ELSE LET b == CHOOSE x \in active : TRUE
          IN [state |-> v.bookings[b].status, booking |-> b]

\* mergeTodaySchedule: slot s as the dashboard shows it.
RowOf(v, s) ==
  LET active == ActiveAt(v.bookings, At(s))
  IN IF s.status # "BOOKED" \/ active = {} THEN [state |-> s.status, booking |-> None]
     ELSE LET b == CHOOSE x \in active : TRUE
          IN [state |-> v.bookings[b].status, booking |-> b]

RowsOf(v) == {RowOf(v, s) : s \in {x \in v.slots : x.date = v.day}}
Orphans(v) == {At(s) : s \in {x \in v.slots : RowOf(v, x).state = "BOOKED"}}

\* pendingTodoItems: the requests that wait, whatever the day.
Todo(v) == {b \in Books : v.bookings[b] # None /\ v.bookings[b].status = "PENDING"}

ShowsSchedule == page = "dashboard" /\ view.slots # None

ChooseDay == /\ page = "dashboard" /\ view.day # None
             /\ \E d \in Dates \ {view.day} : Show([view EXCEPT !.day = d])

OpenBookingModal ==
  /\ ShowsSchedule
  /\ \E b \in {r.booking : r \in RowsOf(view)} \ {None, view.modal} : Show([view EXCEPT !.modal = b])

\* The close button, and Escape also when the day has changed beneath it.
CloseBookingModal == page = "dashboard" /\ view.modal # None /\ Show([view EXCEPT !.modal = None])

----------------------------------------------------------------------------
(* Bookings. *)

\* The bookings whose pages the mounted page links to; any by its address.
Linked == CASE page = "bookings" -> IF view.items = None THEN {} ELSE {b \in Books : view.items[b] # None}
            [] page = "dashboard" -> IF view.slots = None THEN {} ELSE Todo(view)
            [] OTHER -> {b \in Books : db.booking[b] # None}

\* Mutant: the effect of the last filter is not cancelled.
FilterBookingsOnly ==
  page = "bookings" /\ \E f \in {"ALL", "PENDING", "CONFIRMED"} \ {view.filter} : Show([view EXCEPT !.filter = f])

FilterBookings ==
  /\ page = "bookings"
  /\ \E f \in {"ALL", "PENDING", "CONFIRMED"} \ {view.filter} :
       Rerun([view EXCEPT !.filter = f], Effect("bookings", f))

\* approve and reject of HostBookingDetailPage; without a reason nothing is sent.
DecideBooking ==
  /\ page = "booking" /\ view.status = "PENDING" /\ view.busy = None
  /\ \E op \in {"approve", "reject"} :
       Start(<<Request(op, view.id)>>, Query("detail", view.id), "yes", [view EXCEPT !.busy = "yes", !.error = FALSE])
  /\ UNCHANGED doubt
RejectWithoutReason ==
  page = "booking" /\ view.status = "PENDING" /\ view.busy = None /\ Show([view EXCEPT !.error = TRUE])

----------------------------------------------------------------------------
(* Host requests. *)

Deciding(j, u) == job[j].todo # <<>> /\ job[j].todo[1].op \in {"decide", "grant"} /\ job[j].todo[1].what.user = u

\* approve and reject of AdminHomePage: only the buttons of the user decided
\* last are disabled.  In doubt when a decision on the user is under way.
DecideUser ==
  /\ page = "admin" /\ ~view.loading /\ view.items # None
  /\ \E u \in view.items \ {view.busy}, verdict \in {"approved", "rejected"} :
       /\ Start(<<Request("decide", [user |-> u, verdict |-> verdict])>>, Query("pending", None), u,
                [view EXCEPT !.busy = u, !.error = FALSE])
       /\ doubt' = IF \E j \in Running : Deciding(j, u)
                   THEN doubt \cup {"crossed"} ELSE doubt

\* load, on mounting and by the button shown with an error.
Pending == Job(<<>>, Query("pending", None), None)
Retry ==
  /\ page = "admin" /\ view.error /\ Click /\ Spawn(Pending)
  /\ view' = [view EXCEPT !.loading = TRUE, !.error = FALSE]
  /\ alone' = (alone /\ Quiet)
  /\ UNCHANGED <<db, page, load, aux, saved, doubt, moved>>

----------------------------------------------------------------------------
(* Answers. *)

\* What the page shows once request r of its function has been answered.
PageAfter(v, r) ==
  CASE r.op = "delete"   -> [v EXCEPT !.items = IF @ = None THEN None ELSE [@ EXCEPT ![r.what] = None]]
    [] r.op = "activate" -> [v EXCEPT !.form.active = TRUE]
    [] r.op = "grant"    -> [v EXCEPT !.loading = TRUE, !.error = FALSE]
    [] OTHER -> v

PageShows(v, kind, data) ==
  CASE kind \in {"settings", "bookings"} -> [v EXCEPT !.items = data]
    [] kind = "setting" /\ page = "edit" -> [v EXCEPT !.form = data, !.error = FALSE]
    [] kind = "preview" -> [v EXCEPT !.preview = data]
    [] kind = "detail"  -> [v EXCEPT !.status = data]
    [] kind = "pending" -> [v EXCEPT !.items = data, !.loading = FALSE]
    [] OTHER -> v

PageFails(v, kind) ==
  CASE kind = "preview" -> [v EXCEPT !.preview = None]
    [] kind = "pending" -> [v EXCEPT !.items = {}, !.loading = FALSE, !.error = TRUE]
    [] OTHER -> [v EXCEPT !.error = TRUE]

\* The page that the end of request r leads to, even from another page.
LeadsTo(r) ==
  CASE r.op = "create" -> IF This \in db.fresh THEN "setup" ELSE "elsewhere"
    [] r.op = "discard" -> "services"
    [] OTHER -> None

PageActions == \/ ChooseStatus \/ ChooseListed \/ Turn \/ DeletePage
               \/ Create \/ Type \/ Save \/ ActivatePage \/ Discard
               \/ ChooseDay \/ OpenBookingModal \/ CloseBookingModal
               \/ FilterBookings \/ DecideBooking \/ RejectWithoutReason \/ DecideUser \/ Retry
=============================================================================
