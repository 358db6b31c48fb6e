---------------------------- MODULE BookerClient ----------------------------
(***************************************************************************)
(* The pages a booker uses, in one tab: LandingPage (search), LoginPage,   *)
(* PublicBookPage, MyBookingsPage and MyBookingDetailPage, against the     *)
(* booking API (BookingDesk).                                              *)
(*                                                                         *)
(* The mounted page runs at most three asynchronous functions: load, the   *)
(* effect that reads what the page shows; aux, a second such effect; and   *)
(* act, what the user has clicked, kept single by the busy flags.  An      *)
(* effect whose inputs change is cancelled: its answer is dropped.         *)
(***************************************************************************)
EXTENDS BookingDesk

CONSTANTS
  Months,    \* months the calendar is turned to, 1 .. n
  MonthOf,   \* MonthOf[s]: the month of slot s
  Links,     \* <<p, q>>: from page p the user goes to page q in this instance
  Roles,     \* who may sign in: "member", "host", "owner" of the page, "admin"
  Jobs,      \* Jobs[<<r, p>>]: what the host and others do in this instance while r is on page p
  Queries    \* what is searched for on the landing page

ASSUME MonthsOK == Months \subseteq Nat /\ 1 \in Months /\ MonthOf \in [Slots -> Months] /\ None \notin Queries

VARIABLES
  page,      \* the mounted page
  who,       \* "guest" (no access token), or the role of the user
  view,      \* the state of the mounted page
  from,      \* where the login page returns to: [page, month], or None
  load, aux, \* the effects under way: [kind, of, data], data = None until served
  moved      \* history: slots that changed since the owner's page read them first

client == <<page, who, view, from, load, aux>>
vars == <<deskVars, act, lost, client, moved>>

Query == [text: Queries \cup {None}, category: Queries \cup {None}]

----------------------------------------------------------------------------
(* What the pages show. *)

SlotsIn(m) == {s \in Slots : MonthOf[s] = m}
Nothing == [s \in {} |-> None]

\* PublicBookPage: the days it has, the selected slot, the hold's modal.
Book(m) == [month |-> m, days |-> Nothing, loaded |-> FALSE, owned |-> None,
            sel |-> None, modal |-> None, token |-> None,
            busy |-> FALSE]

\* MyBookingsPage: the rows, the modal's booking and its details.
Mine == [items |-> None, modal |-> None, detail |-> None, loading |-> FALSE,
         busy |-> FALSE]

\* MyBookingDetailPage of booking b.
Detail(b) == [id |-> b, detail |-> None, busy |-> FALSE]

\* LandingPage: the query typed, the query it loads, the items it shows.
Explore == [typed |-> None, query |-> [text |-> None, category |-> None],
            items |-> None, loading |-> TRUE, error |-> FALSE]

Effect(kind, of) == [kind |-> kind, of |-> of, data |-> None]

\* The month's slots that the calendar shows, and those that can be selected.
Shown(v) == {s \in DOMAIN v.days : MonthOf[s] = v.month}
OpenSlots(v) == {s \in Shown(v) : v.days[s] = "OPEN"}
ModalShown == view.modal # None /\ view.token # None

\* classifyPublicSlot: what the owner's calendar says of slot s.
Classify(v, s) ==
  CASE v.days[s] = "OPEN"    -> "open"
    [] v.days[s] = "BLOCKED" -> "blocked"
    [] OTHER -> IF v.owned = None \/ s \notin DOMAIN v.owned THEN "orphan"
                ELSE IF v.owned[s] = "PENDING" THEN "pending" ELSE "booked"

\* The effects after a change of month, days or user: a slot stays selected
\* only while the calendar shows it OPEN, and never for the owner.
Settled(v) == [v EXCEPT !.sel = IF who # "owner" /\ @ \in OpenSlots(v) THEN @ ELSE None]

Owned == UNION {[S -> Active] : S \in SUBSET Slots}
Days == UNION {[S -> {"OPEN", "BLOCKED", "BOOKED"}] : S \in {{}} \cup {SlotsIn(m) : m \in Months}}
Details == [id: Ids, status: Statuses, can: BOOLEAN]

BookState == [month: Months, days: Days, loaded: BOOLEAN,
              owned: Owned \cup {None},
              sel: Slots \cup {None}, modal: Slots \cup {None}, token: Tokens \cup {None}, busy: BOOLEAN]
Items == UNION {[B -> Statuses] : B \in SUBSET Ids}
MineState == [items: Items \cup {None}, modal: Ids \cup {None}, detail: Details \cup {None},
              loading: BOOLEAN, busy: BOOLEAN]
DetailState == [id: Ids, detail: Details \cup {None}, busy: BOOLEAN]
ExploreState == [typed: Queries \cup {None}, query: Query, items: Query \cup {None},
                 loading: BOOLEAN, error: BOOLEAN]

\* What the effects of the pages may be.
Readings == [kind: {"search", "days", "owned", "items", "details"},
             of: Query \cup Months \cup Ids \cup {None},
             data: Query \cup Days \cup Owned \cup Items \cup Details \cup {None}]

ASSUME NoneIsNoAnswer == None \notin Items \cup Readings

\* An effect of the mounted page: what it was started for, and its answer, if served.
Reads(kind, ofs, data) == [kind: {kind}, of: ofs, data: data \cup {None}]

\* Types; and the page has no effect under way but its own: the details that
\* MyBookingsPage awaits are those of the modal, the search is the last one.
PageOK ==
  /\ page = "landing" => view \in ExploreState /\ aux = None
                         /\ (load = None \/ load \in Reads("search", {view.query}, {view.query}))
  /\ page = "book" => /\ view \in BookState
                      /\ load = None \/ load \in Reads("days", {view.month}, Days)
                      /\ \/ aux = None
                         \/ aux \in Reads("days", Months, Days)
                         \/ aux \in Reads("owned", {None}, Owned)
  /\ page = "bookings" => /\ view \in MineState
                          /\ load = None \/ load \in Reads("items", {None}, Items)
                          /\ aux = None \/ aux \in Reads("details", {view.modal} \cap Ids, Details)
  /\ page = "detail" => /\ view \in DetailState /\ aux = None
                        /\ load = None \/ load \in Reads("details", {view.id}, Details)
  /\ page \in {"elsewhere", "console", "login"} => view = None /\ load = None /\ aux = None

\* The running function is one that the mounted page starts.
ActOK ==
  /\ page = "book" /\ act # None => act.op \in {"open", "confirm", "release"} /\ act.on \in Slots
  /\ page \in {"bookings", "detail"} /\ act # None => act.op = "cancel" /\ act.on \in Ids
  /\ page \notin {"book", "bookings", "detail"} => act = None

TypeOK ==
  /\ DeskTypeOK
  /\ page \in {"elsewhere", "console", "landing", "login", "book", "bookings", "detail"}
  /\ who \in {"guest"} \cup Roles
  /\ from # None => page = "login" /\ from \in [page: {"book", "bookings"}, month: Months \cup {None}]
  /\ act = None \/ act \in Request
  /\ PageOK /\ ActOK

----------------------------------------------------------------------------
(* Navigation. *)

\* The tokens that the page or a request still knows.
Known == {view.token : x \in {"book"} \cap {page}} \cup {r.token : r \in lost}
         \cup (IF act = None THEN {} ELSE {act.token, act.got})

\* The running function is gone, by leaving the page or because its connection
\* broke: its request may still arrive, or its handler goes on.
Abandon ==
  \/ UNCHANGED lost
  \/ /\ act # None /\ Unanswered(act) /\ Room
     /\ lost' = lost \cup {act}

\* The page forgets the tokens ks: those that the server may still meet are
\* adrift; of the others no history is kept.
Forsake(ks) ==
  LET met == {hold[s] : s \in Slots} \cup {r.token : r \in lost'}
  IN adrift' = (adrift \cup (ks \cap Tokens)) \ ((ks \cap Tokens) \ met)

Mount(p, v, ld) ==
  /\ page' = p /\ view' = v /\ load' = ld /\ aux' = None
  /\ act' = None /\ Abandon
  /\ Forsake(Known)
  /\ UNCHANGED <<slot, hold, booking, work, had>>

OpenBookPage(m) == Mount("book", Book(m), Effect("days", m)) /\ from' = None
OpenLogin(f) == Mount("login", None, None) /\ from' = f

\* RequireAuth: a guest is sent to the login page, which will return here.
OpenGuarded(p, v, kind, of) ==
  IF who = "guest" THEN OpenLogin([page |-> "bookings", month |-> None])
  ELSE Mount(p, v, Effect(kind, of)) /\ from' = None

OpenBookings == OpenGuarded("bookings", Mine, "items", None)
OpenDetailPage(b) == OpenGuarded("detail", Detail(b), "details", b)

\* resolvePostLoginPath, once the login page's request has been answered.
SignIn(role) ==
  /\ page = "login" /\ who = "guest"
  /\ who' = role /\ from' = None
  /\ LET back == from # None /\ from.page = "book" IN
     CASE role = "admin" -> Mount("console", None, None)
       [] role # "admin" /\ back -> Mount("book", Book(from.month), Effect("days", from.month))
       [] role \in {"host", "owner"} /\ ~back -> Mount("console", None, None)
       [] OTHER -> Mount("bookings", Mine, Effect("items", None))

\* Links and typed addresses that the user follows in this instance.
Follow(p) ==
  /\ <<page, p>> \in Links
  /\ \/ p = "landing" /\ Mount(p, Explore, Effect("search", Explore.query)) /\ from' = None
     \/ p = "book" /\ OpenBookPage(1)
     \/ p = "bookings" /\ OpenBookings
     \/ p = "detail" /\ \E b \in Ids : OpenDetailPage(b)
     \/ p = "login" /\ OpenLogin(None)
  /\ UNCHANGED who

----------------------------------------------------------------------------
(* Effects that read. *)

Own(b) == booking[b] # None /\ booking[b].mine

\* GET /me/bookings/{id}: can_cancel also depends on a deadline.
DetailsOf(b) == {[id |-> b, status |-> booking[b].status, can |-> c] :
                 c \in {x \in BOOLEAN : x => booking[b].status \in Active}}

\* Mutant: the bookings that wait for approval are left out.
OwnedConfirmed ==
  LET of(s) == {b \in ActiveOn(s) : booking[b].status = "CONFIRMED"}
  IN {[s \in {x \in Slots : of(x) # {}} |-> "CONFIRMED"]}

\* GET /host/bookings, of which the page keeps the active ones in a map by slot:
\* of two bookings of a slot, either.
OwnedBookings ==
  {f \in [{s \in Slots : ActiveOn(s) # {}} -> Active] :
     \A s \in DOMAIN f : \E b \in ActiveOn(s) : f[s] = booking[b].status}

\* What the server may answer to the effect e, if anything.
Answers(e) ==
  CASE e.kind = "search"  -> {e.of}
    [] e.kind = "days"    -> {days \in {[s \in SlotsIn(e.of) |-> slot[s]]} : \A s \in DOMAIN days : days[s] # "GONE"}
    [] e.kind = "owned"   -> OwnedBookings
    [] e.kind = "items"   -> {[b \in {x \in Ids : Own(x)} |-> booking[b].status]}
    [] e.kind = "details" -> IF Own(e.of) THEN DetailsOf(e.of) ELSE {}

ServeLoad ==
  /\ load # None /\ load.data = None
  /\ \E d \in Answers(load) : load' = [load EXCEPT !.data = d]
  /\ UNCHANGED <<deskVars, act, lost, page, who, view, from, aux>>

ServeAux ==
  /\ aux # None /\ aux.data = None
  /\ \E d \in Answers(aux) : aux' = [aux EXCEPT !.data = d]
  /\ UNCHANGED <<deskVars, act, lost, page, who, view, from, load>>

\* The page takes the answer of its load.
LoadArrives ==
  /\ load # None /\ load.data # None
  /\ load' = None
  /\ view' = CASE load.kind = "search"  -> [view EXCEPT !.items = load.data, !.loading = FALSE]
               [] load.kind = "days"    -> Settled([view EXCEPT !.days = load.data, !.loaded = TRUE])
               [] load.kind = "items"   -> [view EXCEPT !.items = load.data]
               [] load.kind = "details" -> [view EXCEPT !.detail = load.data]
  \* the owner's bookings are read once, when the page is first known
  /\ aux' = IF page = "book" /\ who = "owner" /\ ~view.loaded THEN Effect("owned", None) ELSE aux
  /\ UNCHANGED <<deskVars, act, lost, page, who, from>>

LoadFails ==
  /\ load # None
  /\ load' = None
  /\ view' = IF page = "landing" THEN [view EXCEPT !.items = None, !.error = TRUE, !.loading = FALSE]
             ELSE view
  /\ UNCHANGED <<deskVars, act, lost, page, who, from, aux>>

\* The owner's bookings, the days after a booking, the details of a modal.
AuxArrives ==
  /\ aux # None /\ aux.data # None
  /\ aux' = None
  /\ view' = CASE aux.kind = "owned" -> [view EXCEPT !.owned = aux.data]
               [] aux.kind = "days"  -> Settled([view EXCEPT !.days = aux.data, !.busy = FALSE])
               [] OTHER            -> [view EXCEPT !.detail = aux.data, !.loading = FALSE]
  /\ UNCHANGED <<deskVars, act, lost, page, who, from, load>>

AuxFails ==
  /\ aux # None
  /\ aux' = None
  /\ view' = CASE aux.kind = "owned" -> view
               [] aux.kind = "days"  -> [view EXCEPT !.busy = FALSE]
               [] OTHER            -> [view EXCEPT !.loading = FALSE]
  /\ UNCHANGED <<deskVars, act, lost, page, who, from, load>>

----------------------------------------------------------------------------
(* LandingPage: the marketplace's search. *)

Search(v) == /\ view' = [v EXCEPT !.loading = TRUE, !.error = FALSE]
             /\ load' = Effect("search", v.query)

TypeText(q) ==
  /\ page = "landing" /\ q # view.typed
  /\ view' = [view EXCEPT !.typed = q]
  /\ UNCHANGED <<deskVars, act, lost, page, who, from, load, aux>>

\* The debounce timer: 320 ms after the last key.
Debounce ==
  /\ page = "landing" /\ view.query.text # view.typed
  /\ Search([view EXCEPT !.query.text = view.typed])
  /\ UNCHANGED <<deskVars, act, lost, page, who, from, aux>>

\* Mutant: the category is missing among the effect's inputs.
PickCategoryOnly(c) ==
  /\ page = "landing" /\ c # view.query.category
  /\ view' = [view EXCEPT !.query.category = c]
  /\ UNCHANGED <<deskVars, act, lost, page, who, from, load, aux>>

PickCategory(c) ==
  /\ page = "landing" /\ c # view.query.category
  /\ Search([view EXCEPT !.query.category = c])
  /\ UNCHANGED <<deskVars, act, lost, page, who, from, aux>>

----------------------------------------------------------------------------
(* PublicBookPage.  The hold's modal covers the page. *)

OnCalendar == page = "book" /\ ~ModalShown

\* prevMonth, nextMonth.
TurnMonth(m) ==
  /\ OnCalendar /\ m \in Months \cap {view.month - 1, view.month + 1}
  /\ view' = Settled([view EXCEPT !.month = m])
  /\ load' = Effect("days", m)
  /\ UNCHANGED <<deskVars, act, lost, page, who, from, aux>>

\* selectDay: the slots of a day are told apart by SelectSlot alone.
SelectDay ==
  /\ OnCalendar /\ view.sel # None
  /\ view' = [view EXCEPT !.sel = None]
  /\ UNCHANGED <<deskVars, act, lost, page, who, from, load, aux>>

SelectSlot(s) ==
  /\ OnCalendar /\ who # "owner"
  /\ s \in OpenSlots(view)
  /\ view' = [view EXCEPT !.sel = s]
  /\ UNCHANGED <<deskVars, act, lost, page, who, from, load, aux>>

Ask(op, on, token) == act' = [op |-> op, on |-> on, token |-> token, pc |-> "sent", got |-> None]

\* goToConfirm, openBook: a guest signs in first; a member asks for a hold.
OpenBook ==
  /\ OnCalendar /\ ~view.busy /\ view.sel # None
  /\ IF who = "guest"
     THEN OpenLogin([page |-> "book", month |-> view.month])
     ELSE /\ view' = [view EXCEPT !.modal = view.sel, !.token = None, !.busy = TRUE]
          /\ Ask("open", view.sel, None)
          /\ UNCHANGED <<deskVars, lost, page, from, load, aux>>
  /\ UNCHANGED who

\* confirmBooking and cancelModal, from the modal.
Confirm ==
  /\ page = "book" /\ ModalShown /\ ~view.busy
  /\ view' = [view EXCEPT !.busy = TRUE]
  /\ Ask("confirm", view.modal, view.token)
  /\ UNCHANGED <<deskVars, lost, page, who, from, load, aux>>


CancelModal ==
  /\ page = "book" /\ ModalShown /\ ~view.busy
  /\ view' = [view EXCEPT !.busy = TRUE]
  /\ Ask("release", view.modal, view.token)
  /\ UNCHANGED <<deskVars, lost, page, who, from, load, aux>>

\* Their continuations: openBook's ...
Opened == [view EXCEPT !.token = act.got, !.busy = FALSE]
NotOpened == [view EXCEPT !.modal = None, !.busy = FALSE]

\* ... cancelModal's ...
Released == [view EXCEPT !.modal = None, !.token = None, !.busy = FALSE]

\* Mutant: no finally clause.
ComplainedBusy == view
Complained == [view EXCEPT !.busy = FALSE]

\* ... and confirmBooking's, which reads the month's days again and is busy until then.
Confirmed == [view EXCEPT !.modal = None, !.token = None, !.sel = None]

----------------------------------------------------------------------------
(* MyBookingsPage and MyBookingDetailPage. *)

Filters == {"ALL", "PENDING", "CONFIRMED", "DONE", "CLOSED"}

\* Nothing completes a booking: DONE shows no row.
MatchesFilter(status, filter) == filter \in {"ALL", status}
Rows(filter) == {b \in DOMAIN view.items : MatchesFilter(view.items[b], filter)}

\* A row of the list, under a filter; the modal covers the list.
OpenDetail(b) ==
  /\ page = "bookings" /\ view.items # None /\ view.modal = None
  /\ \E f \in Filters : b \in Rows(f)
  /\ view' = [view EXCEPT !.modal = b, !.detail = None, !.loading = TRUE]
  /\ aux' = Effect("details", b)
  /\ UNCHANGED <<deskVars, act, lost, page, who, from, load>>

\* Mutant: the effect that loads the details is not cancelled.
CloseDetailKeepsLoading ==
  /\ page = "bookings" /\ view.modal # None
  /\ view' = [view EXCEPT !.modal = None, !.detail = None, !.loading = FALSE]
  /\ UNCHANGED <<deskVars, act, lost, page, who, from, load, aux>>

\* closeDetailModal, or Escape: also while a cancellation is under way.
CloseDetail ==
  /\ page = "bookings" /\ view.modal # None
  /\ view' = [view EXCEPT !.modal = None, !.detail = None, !.loading = FALSE]
  /\ aux' = None
  /\ UNCHANGED <<deskVars, act, lost, page, who, from, load>>

\* Mutant: the row shows the cancellation before it is answered.
CancelBookingAhead ==
  /\ page \in {"bookings", "detail"} /\ ~view.busy
  /\ view.detail # None /\ view.detail.can
  /\ view' = [view EXCEPT !.busy = TRUE, !.detail.status = "CLOSED"]
  /\ Ask("cancel", IF page = "bookings" THEN view.modal ELSE view.id, None)
  /\ UNCHANGED <<deskVars, lost, page, who, from, load, aux>>

\* cancelBooking, cancel: the booking of the modal, or of the address.
CancelBooking ==
  /\ page \in {"bookings", "detail"} /\ ~view.busy
  /\ view.detail # None /\ view.detail.can
  /\ view' = [view EXCEPT !.busy = TRUE]
  /\ Ask("cancel", IF page = "bookings" THEN view.modal ELSE view.id, None)
  /\ UNCHANGED <<deskVars, lost, page, who, from, load, aux>>

\* Mutant: only the booking of the details is replaced, can_cancel stays.
CancelledKeepsCan ==
  [view EXCEPT !.detail = [id |-> act.on, status |-> act.got,
                           can |-> view.detail # None /\ view.detail.can], !.busy = FALSE]

\* The updated booking goes into the details, whatever they show by now, and its row.
Cancelled ==
  LET d == [id |-> act.on, status |-> act.got, can |-> FALSE]
      v == [view EXCEPT !.detail = d, !.busy = FALSE] IN
  IF page = "detail" THEN v
  ELSE [v EXCEPT !.items = [b \in DOMAIN @ |-> IF b = act.on THEN act.got ELSE @[b]]]

----------------------------------------------------------------------------
(* The answer to what the user has clicked, or the error in its place. *)

ActArrives ==
  /\ act # None /\ act.pc = "ok"
  /\ view' = CASE act.op = "open"    -> Opened
               [] act.op = "confirm" -> Confirmed
               [] act.op = "release" -> Released
               [] act.op = "cancel"  -> Cancelled
  /\ aux' = IF act.op = "confirm" THEN Effect("days", view.month) ELSE aux
  /\ act' = None
  /\ UNCHANGED lost /\ Forsake(IF act.op = "open" THEN {} ELSE {act.token})
  /\ UNCHANGED <<slot, hold, booking, work, had, page, who, from, load>>

Failed == view' = IF act.op = "open" THEN NotOpened ELSE Complained

ActRefused ==
  /\ act # None /\ act.pc = "error"
  /\ Failed /\ act' = None
  /\ UNCHANGED <<deskVars, lost, page, who, from, load, aux>>

\* The connection breaks before the answer is read.
ActFails ==
  /\ act # None
  /\ Failed /\ act' = None /\ Abandon
  /\ adrift' = adrift \cup ({act.token, act.got} \cap Tokens)
  /\ UNCHANGED <<slot, hold, booking, work, had, page, who, from, load, aux>>

----------------------------------------------------------------------------

Init ==
  /\ DeskInit
  /\ page = "elsewhere" /\ who = "guest"
  /\ view = None /\ from = None
  /\ load = None /\ aux = None /\ act = None
  /\ moved = {}

Server ==
  /\ \/ Serve(Tokens \ (Known \cup {hold[s] : s \in Slots}))
     \/ page # "landing" /\ Others(Jobs[<<who, page>>]) /\ UNCHANGED <<act, lost>>
  /\ UNCHANGED <<page, who, view, from, load, aux>>

Effects == ServeLoad \/ ServeAux \/ LoadArrives \/ LoadFails \/ AuxArrives \/ AuxFails

Landing == \/ \E q \in Queries \cup {None} : TypeText(q) \/ PickCategory(q)
           \/ Debounce

Booking == \/ \E m \in Months : TurnMonth(m)
           \/ SelectDay \/ (\E s \in Slots : SelectSlot(s))
           \/ OpenBook \/ Confirm \/ CancelModal

Bookings == (\E b \in Ids : OpenDetail(b)) \/ CloseDetail \/ CancelBooking

Step == \/ Server \/ Effects \/ ActArrives \/ ActRefused \/ ActFails
        \/ Landing \/ Booking \/ Bookings
        \/ \E p \in {q[2] : q \in Links} : Follow(p)
        \/ \E r \in Roles : SignIn(r)

\* What the owner's page has read may grow old from its first answer on: the
\* status of a slot, or whether an active booking has it.
HasRead == page = "book" /\ who = "owner" /\ (view.loaded \/ (load # None /\ load.data # None))
Changed == {s \in Slots : slot'[s] # slot[s] \/ ActiveOn(s)' # ActiveOn(s)}
Watch == moved' = IF HasRead THEN moved \cup Changed ELSE {}

Next == Step /\ Watch

Spec == Init /\ [][Next]_vars

----------------------------------------------------------------------------
(* Properties *)


\* The busy flag of a page is set exactly while a function it guards runs, so
\* that no error leaves the buttons disabled and no two such functions overlap.
BusyMeansWorking ==
  page \in {"book", "bookings", "detail"} =>
    view.busy = (act # None \/ (page = "book" /\ aux # None /\ aux.kind = "days"))

\* The cancel button of MyBookingsPage belongs to the booking of the modal, also
\* when the answer to another booking's cancellation arrives under the modal.
CancelNamesShownBooking ==
  /\ page = "bookings" /\ view.detail # None /\ view.detail.can => view.detail.id = view.modal
  /\ page = "detail" /\ view.detail # None => view.detail.id = view.id

\* No page is ahead of the server: what it shows of a booking is what the
\* booking is, or was.
Behind(status, b) == status \in had[b]
NeverAhead ==
  /\ page = "bookings" /\ view.items # None => \A b \in DOMAIN view.items : Behind(view.items[b], b)
  /\ page \in {"bookings", "detail"} /\ view.detail # None => Behind(view.detail.status, view.detail.id)

\* The owner's calendar joins two reads, of slots and of bookings: a slot it shows
\* as booked by nobody (orphan) is one that changed between them, never a
\* contradiction of the server.
OrphanMeansMoved ==
  page = "book" /\ who = "owner" /\ view.owned # None
    => \A s \in Shown(view) : Classify(view, s) = "orphan" => s \in moved

\* The search shows the results of the query it was last given, once it has
\* loaded, in whatever order the answers come.
ResultsMatchQuery ==
  page = "landing" /\ ~view.loading /\ ~view.error => view.items = view.query
=============================================================================
