------------------------- MODULE HostConsoleProofs -------------------------
(***************************************************************************)
(* What every page of the host's console keeps to itself: the state, the   *)
(* effects and the functions that are its own, the buttons its functions   *)
(* disable, and answers to the last choice.                                *)
(***************************************************************************)
EXTENDS HostDeskProofs

\* The pages with functions; each has busy and error.
Functional == {"rules", "slots", "overrides", "setup", "services", "new", "edit", "booking", "admin"}
PageNames == Functional \cup {"home", "dashboard", "bookings", "elsewhere"}

\* Beyond its types, the wizard shows the day and the month that it is on.
SetupShows(v, a) ==
  /\ ~v.loaded => v.step = 2
  /\ v.step # 4 => v.day = None
  /\ a = None /\ v.day # None => \A s \in v.day : s.date = v.date
  /\ v.activated /\ v.calendar # None => \A s \in v.calendar.slots : s.date \in v.month
BookingsShow(v, l) == l = None /\ ~v.error /\ v.items # None => v.items \in StatusLists(v.filter)

\* What page p shows, and its effects under way.
Shown(p, v, l, a) ==
  /\ p \in PageNames
  /\ p = "rules" => RulesOK(v, l, a)
  /\ p = "slots" => SlotsOK(v, l, a)
  /\ p = "overrides" => OverridesOK(v, l, a)
  /\ p = "setup" => SetupOK(v, l, a) /\ SetupShows(v, a)
  /\ p = "home" => HomeOK(v, l, a)
  /\ p = "services" => ServicesOK(v, l, a)
  /\ p = "new" => NewOK(v, l, a)
  /\ p = "edit" => EditOK(v, l, a)
  /\ p = "dashboard" => DashboardOK(v, l, a)
  /\ p = "bookings" => BookingsOK(v, l, a) /\ BookingsShow(v, l)
  /\ p = "booking" => BookingOK(v, l, a)
  /\ p = "admin" => AdminOK(v, l, a)
  /\ p = "elsewhere" => l = None /\ a = None

\* A function on page p that shows v; only requests for rules come in series,
\* and the wizard completes the setup from its last step.
Fits(f, p, v) ==
  /\ JobOK(f, p)
  /\ \A n \in DOMAIN f.todo : n > 1 => f.todo[n].op \in {"rule", "unrule"}
  /\ f.mine /\ p = "edit" => v.form # None
  /\ f.mine /\ p = "setup" =>
       /\ v.loaded
       /\ f.mark # None => v.busy # None
       /\ f.todo # <<>> /\ f.todo[1].op = "complete" => f.mark # None /\ v.step = 4 /\ ~v.activated

Mine(j) == job[j] # None /\ job[j].mine
Marked(j) == Mine(j) /\ job[j].mark # None
OneMarked == page = "setup" => \A i, j \in JobIds : Marked(i) /\ Marked(j) => i = j
BusyWith == page \in Functional /\ view.busy # None => \E j \in JobIds : Mine(j) /\ job[j].mark = view.busy
Functions == DOMAIN job = JobIds /\ (\A j \in JobIds : job[j] # None => Fits(job[j], page, view)) /\ OneMarked /\ BusyWith

\* The inductive invariant of this module.
Typed == db \in Database /\ saved \in {None} \cup 2..4 /\ Shown(page, view, load, aux) /\ Functions

----------------------------------------------------------------------------
(* What the page shows. *)

\* What a page marks while its functions run.
Marks(p) == CASE p = "services" -> Pages
              [] p = "admin"    -> Users
              [] OTHER          -> {"yes"}

\* The wizard starts no function before it has been told where to resume.
Loaded(p, v) == p = "setup" => v.loaded

\* What the functions of page p rely on stays when it shows w after v.
Keeps(p, v, w) ==
  /\ p = "edit" /\ v.form # None => w.form # None
  /\ p = "setup" => /\ v.loaded => w.loaded
                    /\ v.step = 4 /\ ~v.activated /\ v.busy # None => w.step = 4 /\ ~w.activated

WithButtons(v, b, e) == [v EXCEPT !.busy = b, !.error = e]

\* The buttons and the error of a page do not matter to anything else on it.
LEMMA ButtonsShown ==
  ASSUME NEW p \in Functional, NEW v, NEW l, NEW a, Shown(p, v, l, a), Loaded(p, v),
         NEW b, b \in {None} \cup Marks(p), NEW e, e \in BOOLEAN
  PROVE  /\ Shown(p, WithButtons(v, b, e), l, a) /\ Keeps(p, v, WithButtons(v, b, e))
         /\ WithButtons(v, b, e).busy = b
  <1> DEFINE w == [v EXCEPT !.busy = b, !.error = e]
  <1> USE DEF WithButtons
  <1>1. CASE p = "rules"
    BY <1>1 DEF Shown, RulesOK, RulesState, Keeps, Marks, PageNames
  <1>2. CASE p = "slots"
    <2>1. v \in SlotsState /\ b \in {None, "yes"}
      BY <1>2 DEF Shown, SlotsOK, Marks
    <2>2. w \in SlotsState /\ w.range = v.range
      BY <2>1 DEF SlotsState
    <2> QED
      BY <1>2, <2>1, <2>2 DEF Shown, SlotsOK, Keeps, PageNames, SlotsState
  <1>3. CASE p = "overrides"
    BY <1>3 DEF Shown, OverridesOK, OverridesState, Keeps, Marks, PageNames
  <1>4. CASE p = "setup"
    <2>1. SetupOK(v, l, a) /\ SetupShows(v, a) /\ b \in {None, "yes"} /\ v.loaded
      BY <1>4 DEF Shown, Marks, Loaded
    <2>2. w \in SetupState
      BY <2>1 DEF SetupOK, SetupState
    <2>3. /\ w.step = v.step /\ w.loaded = v.loaded /\ w.date = v.date /\ w.day = v.day /\ w.activated = v.activated
          /\ w.month = v.month /\ w.calendar = v.calendar /\ w.busy = b
      BY <2>1 DEF SetupOK, SetupState
    <2>4. SetupOK(w, l, a)
      BY <2>1, <2>2, <2>3 DEF SetupOK
    <2>5. SetupShows(w, a)
      BY <2>1, <2>3 DEF SetupShows
    <2> QED
      BY <1>4, <2>3, <2>4, <2>5 DEF Shown, Keeps
  <1>5. CASE p = "services"
    BY <1>5 DEF Shown, ServicesOK, ServicesState, Keeps, Marks, PageNames
  <1>6. CASE p = "new"
    BY <1>6 DEF Shown, NewOK, NewState, Keeps, Marks, PageNames
  <1>7. CASE p = "edit"
    <2>1. v \in EditState /\ b \in {None, "yes"}
      BY <1>7 DEF Shown, EditOK, Marks
    <2>2. w \in EditState /\ w.id = v.id /\ w.form = v.form
      BY <2>1 DEF EditState
    <2> QED
      BY <1>7, <2>1, <2>2 DEF Shown, EditOK, Keeps, PageNames, EditState
  <1>8. CASE p = "booking"
    <2>1. v \in BookingState /\ b \in {None, "yes"}
      BY <1>8 DEF Shown, BookingOK, Marks
    <2>2. w \in BookingState /\ w.id = v.id
      BY <2>1 DEF BookingState
    <2> QED
      BY <1>8, <2>1, <2>2 DEF Shown, BookingOK, Keeps, PageNames, BookingState
  <1>9. CASE p = "admin"
    BY <1>9 DEF Shown, AdminOK, AdminState, Keeps, Marks, PageNames
  <1> QED
    BY <1>1, <1>2, <1>3, <1>4, <1>5, <1>6, <1>7, <1>8, <1>9 DEF Functional

\* A functional page is a record with busy and error.
LEMMA HasButtons ==
  ASSUME NEW p \in Functional, NEW v, NEW l, NEW a, Shown(p, v, l, a)
  PROVE  /\ v.busy \in {None} \cup Marks(p) /\ v.error \in BOOLEAN /\ "busy" \in DOMAIN v
         /\ \A b : [v EXCEPT !.busy = b] = WithButtons(v, b, v.error)
         /\ \A e : [v EXCEPT !.error = e] = WithButtons(v, v.busy, e)
         /\ WithButtons(v, v.busy, v.error) = v
  <1> USE DEF WithButtons
  <1>1. CASE p = "rules"
    BY <1>1 DEF Shown, RulesOK, RulesState, Marks
  <1>2. CASE p = "slots"
    BY <1>2 DEF Shown, SlotsOK, SlotsState, Marks
  <1>3. CASE p = "overrides"
    BY <1>3 DEF Shown, OverridesOK, OverridesState, Marks
  <1>4. CASE p = "setup"
    BY <1>4 DEF Shown, SetupOK, SetupState, Marks
  <1>5. CASE p = "services"
    BY <1>5 DEF Shown, ServicesOK, ServicesState, Marks
  <1>6. CASE p = "new"
    BY <1>6 DEF Shown, NewOK, NewState, Marks
  <1>7. CASE p = "edit"
    BY <1>7 DEF Shown, EditOK, EditState, Marks
  <1>8. CASE p = "booking"
    BY <1>8 DEF Shown, BookingOK, BookingState, Marks
  <1>9. CASE p = "admin"
    BY <1>9 DEF Shown, AdminOK, AdminState, Marks
  <1> QED
    BY <1>1, <1>2, <1>3, <1>4, <1>5, <1>6, <1>7, <1>8, <1>9 DEF Functional

LEMMA CountShown ==
  ASSUME NEW p \in {"slots", "setup"}, NEW v, NEW l, NEW a, Shown(p, v, l, a), NEW c \in Counts, NEW w, w = [v EXCEPT !.count = c]
  PROVE  Shown(p, w, l, a) /\ Keeps(p, v, w) /\ w.busy = v.busy
  <1>1. CASE p = "slots"
    <2>1. v \in SlotsState
      BY <1>1 DEF Shown, SlotsOK
    <2>2. w \in SlotsState /\ w.range = v.range /\ w.busy = v.busy
      BY <2>1 DEF SlotsState
    <2> QED
      BY <1>1, <2>2 DEF Shown, SlotsOK, Keeps, PageNames
  <1>2. CASE p = "setup"
    <2>1. SetupOK(v, l, a) /\ SetupShows(v, a)
      BY <1>2 DEF Shown
    <2>2. w \in SetupState
      BY <2>1 DEF SetupOK, SetupState
    <2>3. /\ w.step = v.step /\ w.loaded = v.loaded /\ w.date = v.date /\ w.day = v.day /\ w.activated = v.activated
          /\ w.month = v.month /\ w.calendar = v.calendar /\ w.busy = v.busy /\ w.error = v.error
      BY <2>1 DEF SetupOK, SetupState
    <2>4. SetupOK(w, l, a)
      BY <2>1, <2>2, <2>3 DEF SetupOK
    <2>5. SetupShows(w, a)
      BY <2>1, <2>3 DEF SetupShows
    <2> QED
      BY <1>2, <2>3, <2>4, <2>5 DEF Shown, Keeps
  <1> QED
    BY <1>1, <1>2

LEMMA RulesShownAgain ==
  ASSUME NEW p \in {"rules", "setup"}, NEW v, NEW l, NEW a, Shown(p, v, l, a), NEW R \in RuleLists, NEW w, w = [v EXCEPT !.rules = R]
  PROVE  Shown(p, w, l, a) /\ Keeps(p, v, w) /\ w.busy = v.busy
  <1>1. CASE p = "rules"
    BY <1>1 DEF Shown, RulesOK, RulesState, Keeps, PageNames
  <1>2. CASE p = "setup"
    <2>1. SetupOK(v, l, a) /\ SetupShows(v, a)
      BY <1>2 DEF Shown
    <2>2. w \in SetupState
      BY <2>1 DEF SetupOK, SetupState
    <2>3. /\ w.step = v.step /\ w.loaded = v.loaded /\ w.date = v.date /\ w.day = v.day /\ w.activated = v.activated
          /\ w.month = v.month /\ w.calendar = v.calendar /\ w.busy = v.busy /\ w.error = v.error
      BY <2>1 DEF SetupOK, SetupState
    <2>4. SetupOK(w, l, a)
      BY <2>1, <2>2, <2>3 DEF SetupOK
    <2>5. SetupShows(w, a)
      BY <2>1, <2>3 DEF SetupShows
    <2> QED
      BY <1>2, <2>3, <2>4, <2>5 DEF Shown, Keeps
  <1> QED
    BY <1>1, <1>2

LEMMA OverridesShownAgain ==
  ASSUME NEW p \in {"overrides", "setup"}, NEW v, NEW l, NEW a, Shown(p, v, l, a), NEW O \in OverrideLists, NEW w, w = [v EXCEPT !.overrides = O]
  PROVE  Shown(p, w, l, a) /\ Keeps(p, v, w) /\ w.busy = v.busy
  <1>1. CASE p = "overrides"
    BY <1>1 DEF Shown, OverridesOK, OverridesState, Keeps, PageNames
  <1>2. CASE p = "setup"
    <2>1. SetupOK(v, l, a) /\ SetupShows(v, a)
      BY <1>2 DEF Shown
    <2>2. w \in SetupState
      BY <2>1 DEF SetupOK, SetupState
    <2>3. /\ w.step = v.step /\ w.loaded = v.loaded /\ w.date = v.date /\ w.day = v.day /\ w.activated = v.activated
          /\ w.month = v.month /\ w.calendar = v.calendar /\ w.busy = v.busy /\ w.error = v.error
      BY <2>1 DEF SetupOK, SetupState
    <2>4. SetupOK(w, l, a)
      BY <2>1, <2>2, <2>3 DEF SetupOK
    <2>5. SetupShows(w, a)
      BY <2>1, <2>3 DEF SetupShows
    <2> QED
      BY <1>2, <2>3, <2>4, <2>5 DEF Shown, Keeps
  <1> QED
    BY <1>1, <1>2

LEMMA AdminShown ==
  ASSUME NEW v, NEW l, NEW a, Shown("admin", v, l, a), NEW w,
         \/ \E items \in SUBSET Users, e \in BOOLEAN : w = [v EXCEPT !.items = items, !.loading = FALSE, !.error = e]
         \/ \E items \in SUBSET Users : w = [v EXCEPT !.items = items, !.loading = FALSE]
         \/ w = [v EXCEPT !.loading = TRUE, !.error = FALSE]
  PROVE  Shown("admin", w, l, a) /\ Keeps("admin", v, w) /\ w.busy = v.busy
  BY DEF Shown, AdminOK, AdminState, Keeps, PageNames

----------------------------------------------------------------------------
(* The functions of a page. *)

\* What a function may rely on: it runs on a page that has its request, or
\* its last query.
LEMMA FunctionRuns ==
  ASSUME Typed, NEW j \in JobIds, Mine(j)
  PROVE  /\ page \in Functional /\ Fits(job[j], page, view)
         /\ Loaded(page, view)
         /\ page = "edit" => view.form # None
         /\ job[j].todo # <<>> => job[j].todo[1] \in Requests /\ job[j].todo[1].op \in OpsOn(page)
         /\ job[j].then # None => job[j].then \in Queries /\ job[j].then.kind \in EndsOn(page)
         /\ job[j].todo = <<>> => job[j].then # None
  <1>1. Fits(job[j], page, view) /\ JobOK(job[j], page)
    BY DEF Typed, Functions, Fits, Mine
  <1>2. job[j].todo \in Seq(Requests)
    BY <1>1 DEF JobOK, Jobs
  <1>3. job[j].todo # <<>> => job[j].todo[1] \in Requests /\ job[j].todo[1].op \in OpsOn(page)
    <2>1. ASSUME job[j].todo # <<>> PROVE 1 \in DOMAIN job[j].todo
      BY <1>2, <2>1
    <2> QED
      BY <1>1, <1>2, <2>1 DEF JobOK, Mine
  <1>4. job[j].then # None => job[j].then \in Queries /\ job[j].then.kind \in EndsOn(page)
    BY <1>1 DEF JobOK, Mine
  <1>5. job[j].todo = <<>> => job[j].then # None
    BY <1>1 DEF JobOK
  <1>6. page \in Functional
    <2>1. page \in PageNames
      BY DEF Typed, Shown
    <2>2. page \notin {"home", "dashboard", "bookings", "elsewhere"}
      BY <1>3, <1>4, <1>5 DEF OpsOn, EndsOn
    <2> QED
      BY <2>1, <2>2 DEF PageNames
  <1> QED
    BY <1>1, <1>3, <1>4, <1>5, <1>6 DEF Fits, Mine, Loaded

\* What its function clears at its end.
LEMMA UnmarkedShown ==
  ASSUME Typed, NEW j \in JobIds, Mine(j), NEW w, Shown(page, w, load, aux), Keeps(page, view, w), w.busy = view.busy
  PROVE  /\ Shown(page, Unmarked(w, j), load, aux) /\ Keeps(page, view, Unmarked(w, j))
         /\ Unmarked(w, j).busy = IF job[j].mark = None THEN view.busy ELSE None
  <1>1. page \in Functional /\ Loaded(page, w)
    BY FunctionRuns DEF Keeps, Loaded
  <1>2. PICK u, e : u = [w EXCEPT !.busy = None] /\ e = w.error
    OBVIOUS
  <1>3. Shown(page, u, load, aux) /\ Keeps(page, w, u) /\ u.busy = None
    <2>1. e \in BOOLEAN /\ u = WithButtons(w, None, e) /\ None \in {None} \cup Marks(page)
      BY <1>1, <1>2, HasButtons
    <2> QED
      BY <1>1, <2>1, ButtonsShown
  <1> QED
    BY <1>2, <1>3 DEF Unmarked, Keeps

LEMMA FailedShown ==
  ASSUME Typed, NEW j \in JobIds, Mine(j)
  PROVE  /\ Shown(page, Failed(view, j), load, aux) /\ Keeps(page, view, Failed(view, j))
         /\ Failed(view, j).busy = IF job[j].mark = None THEN view.busy ELSE None
  <1>1. Shown(page, view, load, aux) /\ page \in Functional /\ Loaded(page, view)
    BY FunctionRuns DEF Typed
  <1>2. CASE job[j].then # None /\ job[j].then.kind = "count" /\ job[j].todo = <<>>
    <2>1. page \in {"slots", "setup"}
      BY <1>1, <1>2, FunctionRuns DEF EndsOn, Functional
    <2>2. PICK c : c = [of |-> job[j].then.of, n |-> 0]
      OBVIOUS
    <2>3. c \in Counts
      BY <1>2, <2>2, FunctionRuns DEF Queries, Counts
    <2>4. PICK w : w = [view EXCEPT !.count = c]
      OBVIOUS
    <2>5. Shown(page, w, load, aux) /\ Keeps(page, view, w) /\ w.busy = view.busy
      BY <1>1, <2>1, <2>3, <2>4, CountShown
    <2>6. Failed(view, j) = Unmarked(w, j)
      BY <1>2, <2>2, <2>4 DEF Failed
    <2> QED
      BY <2>5, <2>6, UnmarkedShown
  <1>3. CASE job[j].then # None /\ job[j].then.kind = "pending" /\ job[j].todo = <<>>
    <2>1. page = "admin"
      BY <1>1, <1>3, FunctionRuns DEF EndsOn, Functional
    <2>2. PageFails(view, "pending") = [view EXCEPT !.items = {}, !.loading = FALSE, !.error = TRUE]
      BY DEF PageFails
    <2>3. /\ Shown(page, PageFails(view, "pending"), load, aux) /\ Keeps(page, view, PageFails(view, "pending"))
          /\ PageFails(view, "pending").busy = view.busy
      <3>1. {} \in SUBSET Users /\ TRUE \in BOOLEAN
        OBVIOUS
      <3> QED
        BY <1>1, <2>1, <2>2, <3>1, AdminShown
    <2>4. Failed(view, j) = Unmarked(PageFails(view, "pending"), j)
      BY <1>3 DEF Failed
    <2> QED
      BY <2>3, <2>4, UnmarkedShown
  <1>4. CASE ~(job[j].then # None /\ job[j].then.kind \in {"count", "pending"} /\ job[j].todo = <<>>)
    <2>0. PICK e \in BOOLEAN : e = TRUE
      OBVIOUS
    <2>1. PICK w, b : w = [view EXCEPT !.error = e] /\ b = view.busy
      OBVIOUS
    <2>2. b \in {None} \cup Marks(page) /\ w = WithButtons(view, b, e) /\ e \in BOOLEAN
      BY <1>1, <2>1, HasButtons
    <2>3. Shown(page, w, load, aux) /\ Keeps(page, view, w) /\ w.busy = b
      BY <1>1, <2>2, ButtonsShown
    <2>4. Failed(view, j) = Unmarked(w, j)
      BY <1>4, <2>0, <2>1 DEF Failed
    <2> QED
      BY <2>1, <2>3, <2>4, UnmarkedShown
  <1> QED
    BY <1>2, <1>3, <1>4

LEMMA ThenShownShown ==
  ASSUME Typed, NEW j \in JobIds, Mine(j), job[j].data # None
  PROVE  LET w == Unmarked(ThenShown(view, j), j)
         IN /\ Shown(page, w, load, aux) /\ Keeps(page, view, w)
            /\ w.busy = IF job[j].mark = None THEN view.busy ELSE None
  <1>1. Shown(page, view, load, aux) /\ page \in Functional /\ Loaded(page, view)
    BY FunctionRuns DEF Typed
  <1>2. JobOK(job[j], page)
    BY FunctionRuns DEF Fits
  <1>3. job[j].then \in Queries /\ job[j].then.kind \in EndsOn(page)
    BY <1>2, FunctionRuns DEF JobOK
  <1>4. PICK q, d : q = job[j].then /\ d = job[j].data[1]
    OBVIOUS
  <1>5. d \in Answered(q.kind, q.of)
    <2>1. q \in Queries /\ q # None /\ job[j].data \in Data(q.kind, q.of)
      BY <1>2, <1>3, <1>4, NoneIsNoRecord DEF JobOK, Jobs
    <2> QED
      BY <1>4, <2>1 DEF Data
  <1>6. PICK w : w = ViewShows(view, q.kind, d)
    OBVIOUS
  <1>7. q.kind \in {"rules", "count", "overrides", "setting", "detail", "pending"}
    BY <1>1, <1>3, <1>4 DEF EndsOn, Functional
  <1>8. Shown(page, w, load, aux) /\ Keeps(page, view, w) /\ w.busy = view.busy
    <2>1. CASE q.kind = "rules"
      <3>1. page \in {"rules", "setup"} /\ d \in RuleLists /\ w = [view EXCEPT !.rules = d]
        BY <1>1, <1>3, <1>4, <1>5, <1>6, <2>1 DEF EndsOn, Functional, Answered, ViewShows, ScheduleKinds, ScheduleShows
      <3> QED
        BY <1>1, <3>1, RulesShownAgain
    <2>2. CASE q.kind = "count"
      <3>1. page \in {"slots", "setup"} /\ d \in Counts /\ w = [view EXCEPT !.count = d]
        BY <1>1, <1>3, <1>4, <1>5, <1>6, <2>2 DEF EndsOn, Functional, Answered, ViewShows, ScheduleKinds, ScheduleShows
      <3> QED
        BY <1>1, <3>1, CountShown
    <2>3. CASE q.kind = "overrides"
      <3>1. page \in {"overrides", "setup"} /\ d \in OverrideLists /\ w = [view EXCEPT !.overrides = d]
        BY <1>1, <1>3, <1>4, <1>5, <1>6, <2>3 DEF EndsOn, Functional, Answered, ViewShows, ScheduleKinds, ScheduleShows
      <3> QED
        BY <1>1, <3>1, OverridesShownAgain
    <2>4. CASE q.kind = "setting"
      <3>1. page = "setup" /\ w = view
        BY <1>1, <1>3, <1>4, <1>6, <2>4 DEF EndsOn, Functional, ViewShows, ScheduleKinds, PageShows
      <3> QED
        BY <1>1, <3>1 DEF Keeps
    <2>5. CASE q.kind = "detail"
      <3>1. page = "booking" /\ d \in BookStatuses /\ w = [view EXCEPT !.status = d]
        BY <1>1, <1>3, <1>4, <1>5, <1>6, <2>5 DEF EndsOn, Functional, Answered, ViewShows, ScheduleKinds, PageShows
      <3>2. view \in BookingState
        BY <1>1, <3>1 DEF Shown, BookingOK
      <3>3. w \in BookingState /\ w.id = view.id /\ w.busy = view.busy
        BY <3>1, <3>2 DEF BookingState
      <3> QED
        BY <1>1, <3>1, <3>3 DEF Shown, BookingOK, Keeps
    <2>6. CASE q.kind = "pending"
      <3>1. page = "admin" /\ d \in SUBSET Users /\ w = [view EXCEPT !.items = d, !.loading = FALSE]
        BY <1>1, <1>3, <1>4, <1>5, <1>6, <2>6 DEF EndsOn, Functional, Answered, ViewShows, ScheduleKinds, PageShows
      <3> QED
        BY <1>1, <3>1, AdminShown
    <2> QED
      BY <1>7, <2>1, <2>2, <2>3, <2>4, <2>5, <2>6
  <1>9. ThenShown(view, j) = w
    BY <1>4, <1>6 DEF ThenShown
  <1> QED
    BY <1>8, <1>9, UnmarkedShown

LEMMA AfterShown ==
  ASSUME Typed, NEW j \in JobIds, Mine(j), job[j].todo # <<>>
  PROVE  LET w == PageAfter(view, job[j].todo[1])
         IN Shown(page, w, load, aux) /\ Keeps(page, view, w) /\ w.busy = view.busy
  <1>1. Shown(page, view, load, aux) /\ page \in Functional
    BY FunctionRuns DEF Typed
  <1>2. PICK r \in Requests : r = job[j].todo[1] /\ r.op \in OpsOn(page)
    BY FunctionRuns
  <1>3. CASE r.op = "delete"
    <2>1. page = "services" /\ r.what \in Pages
      BY <1>1, <1>2, <1>3, RequestTypes DEF OpsOn, Functional
    <2>2. view \in ServicesState
      BY <1>1, <2>1 DEF Shown, ServicesOK
    <2>3. PICK items : items = IF view.items = None THEN None ELSE [view.items EXCEPT ![r.what] = None]
      OBVIOUS
    <2>4. items \in {None} \cup SettingLists
      BY <2>1, <2>2, <2>3 DEF ServicesState, SettingLists
    <2>5. PageAfter(view, r) = [view EXCEPT !.items = items]
      BY <1>3, <2>2, <2>3 DEF PageAfter, ServicesState
    <2> QED
      BY <1>1, <1>2, <2>1, <2>2, <2>4, <2>5 DEF Shown, ServicesOK, ServicesState, Keeps
  <1>4. CASE r.op = "activate"
    <2>1. page = "edit" /\ view.form # None
      BY <1>1, <1>2, <1>4, FunctionRuns DEF OpsOn, Functional
    <2>2. view \in EditState
      BY <1>1, <2>1 DEF Shown, EditOK
    <2>3. PICK form : form = [view.form EXCEPT !.active = TRUE]
      OBVIOUS
    <2>4. form \in Settings /\ form # None
      BY <2>1, <2>2, <2>3, NoneIsNoRecord DEF EditState, Settings
    <2>5. PICK w : w = [view EXCEPT !.form = form]
      OBVIOUS
    <2>6. PageAfter(view, r) = w
      BY <1>4, <2>2, <2>3, <2>5 DEF PageAfter, EditState
    <2>7. w \in EditState /\ w.id = view.id /\ w.busy = view.busy /\ w.form # None
      BY <2>2, <2>4, <2>5 DEF EditState
    <2> QED
      BY <1>1, <1>2, <2>1, <2>6, <2>7 DEF Shown, EditOK, Keeps
  <1>5. CASE r.op = "grant"
    <2>1. page = "admin" /\ PageAfter(view, r) = [view EXCEPT !.loading = TRUE, !.error = FALSE]
      BY <1>1, <1>2, <1>5 DEF OpsOn, Functional, PageAfter
    <2> QED
      BY <1>1, <1>2, <2>1, AdminShown
  <1>6. CASE r.op \notin {"delete", "activate", "grant"}
    <2>1. PageAfter(view, r) = view
      BY <1>6 DEF PageAfter
    <2> QED
      BY <1>1, <1>2, <2>1 DEF Keeps
  <1> QED
    BY <1>3, <1>4, <1>5, <1>6

----------------------------------------------------------------------------
(* The list of functions. *)

LEMMA FitsIsSome ==
  ASSUME NEW f, NEW p, NEW v, Fits(f, p, v)
  PROVE  f # None
  BY NoneIsNoRecord DEF Fits, JobOK

LEMMA FitsKept ==
  ASSUME NEW f, NEW p, NEW v, NEW w, Fits(f, p, v), Keeps(p, v, w),
         p = "setup" /\ f.mine /\ f.mark # None => w.busy # None
  PROVE  Fits(f, p, w)
  <1>1. JobOK(f, p) /\ \A n \in DOMAIN f.todo : n > 1 => f.todo[n].op \in {"rule", "unrule"}
    BY DEF Fits
  <1>2. ASSUME f.mine, p = "edit" PROVE w.form # None
    BY <1>2 DEF Fits, Keeps
  <1>3. ASSUME f.mine, p = "setup"
        PROVE  /\ w.loaded
               /\ f.mark # None => w.busy # None
               /\ f.todo # <<>> /\ f.todo[1].op = "complete" => f.mark # None /\ w.step = 4 /\ ~w.activated
    BY <1>3 DEF Fits, Keeps
  <1> QED
    BY <1>1, <1>2, <1>3 DEF Fits

\* A function that its page no longer waits for.
LEMMA OrphanFits ==
  ASSUME NEW f, NEW p, NEW v, Fits(f, p, v), NEW q, NEW w
  PROVE  /\ Fits([f EXCEPT !.mine = FALSE], q, w) /\ ~[f EXCEPT !.mine = FALSE].mine
         /\ [f EXCEPT !.mine = FALSE].todo = f.todo
  <1>1. PICK g : g = [f EXCEPT !.mine = FALSE]
    OBVIOUS
  <1>2. f \in Jobs(f.then) /\ f.then \in {None} \cup Queries
    BY DEF Fits, JobOK
  <1>3. /\ g.todo = f.todo /\ g.then = f.then /\ g.mark = f.mark /\ g.data = f.data /\ g.mine = FALSE
        /\ g \in Jobs(f.then)
    BY <1>1, <1>2 DEF Jobs
  <1>4. JobOK(g, q)
    <2>1. g.then = None => Len(g.todo) = 1
      BY <1>3 DEF Fits, JobOK
    <2>2. g.data # None => g.todo = <<>>
      BY <1>3 DEF Fits, JobOK
    <2>3. g.mark = "lost" => ~g.mine /\ g.then = None
      BY <1>3 DEF Fits, JobOK
    <2> QED
      BY <1>2, <1>3, <2>1, <2>2, <2>3 DEF JobOK
  <1>5. Fits(g, q, w)
    BY <1>3, <1>4 DEF Fits
  <1> QED
    BY <1>1, <1>3, <1>5

\* A function ends, or goes on as a request that its page has given up.
LEMMA FunctionEnds ==
  ASSUME Functions, page' = page, NEW j \in JobIds, job[j] # None, NEW g,
         job' = [job EXCEPT ![j] = g], g = None \/ (Fits(g, page, view') /\ ~g.mine),
         ~Mine(j) => view' = view,
         Mine(j) => Keeps(page, view, view') /\ view'.busy = IF job[j].mark = None THEN view.busy ELSE None
  PROVE  Functions'
  <1> USE DEF Functions
  <1>1. DOMAIN job' = JobIds /\ job'[j] = g /\ \A i \in JobIds : i # j => job'[i] = job[i]
    OBVIOUS
  <1>2. \A i \in JobIds : Mine(i)' => Mine(i) /\ i # j /\ job'[i] = job[i]
    BY <1>1 DEF Mine
  <1>3. Keeps(page, view, view')
    BY DEF Keeps
  <1>4. ASSUME NEW i \in JobIds, job'[i] # None PROVE Fits(job'[i], page', view')
    <2>1. CASE i = j
      BY <1>1, <1>4, <2>1
    <2>2. CASE i # j
      <3>1. job'[i] = job[i] /\ Fits(job[i], page, view)
        BY <1>1, <1>4, <2>2
      <3>2. ASSUME page = "setup", job[i].mine, job[i].mark # None PROVE view'.busy # None
        <4>1. view.busy # None
          BY <3>1, <3>2 DEF Fits
        <4>2. Marked(i)
          BY <1>1, <1>4, <2>2, <3>2 DEF Marked, Mine
        <4>3. ~Marked(j)
          BY <2>2, <3>2, <4>2 DEF OneMarked
        <4> QED
          BY <4>1, <4>3 DEF Marked
      <3> QED
        BY <1>3, <3>1, <3>2, FitsKept
    <2> QED
      BY <2>1, <2>2
  <1>5. OneMarked'
    BY <1>2 DEF OneMarked, Marked
  <1>6. BusyWith'
    <2> SUFFICES ASSUME page \in Functional, view'.busy # None
                 PROVE  \E i \in JobIds : Mine(i)' /\ job'[i].mark = view'.busy
      BY DEF BusyWith
    <2>1. view'.busy = view.busy /\ (Mine(j) => job[j].mark = None)
      OBVIOUS
    <2>2. PICK i \in JobIds : Mine(i) /\ job[i].mark = view.busy
      BY <2>1 DEF BusyWith
    <2>3. i # j
      BY <2>1, <2>2
    <2> QED
      BY <1>1, <2>1, <2>2, <2>3 DEF Mine
  <1> QED
    BY <1>1, <1>4, <1>5, <1>6

\* A function goes on.
LEMMA FunctionGoesOn ==
  ASSUME Functions, page' = page, NEW j \in JobIds, job[j] # None, NEW g, job' = [job EXCEPT ![j] = g],
         g.mine = job[j].mine, g.mark = job[j].mark, Fits(g, page, view'),
         \A i \in JobIds \ {j} : job[i] # None => Fits(job[i], page, view'),
         page \in Functional => view'.busy = view.busy
  PROVE  Functions'
  <1> USE DEF Functions
  <1>1. DOMAIN job' = JobIds /\ job'[j] = g /\ \A i \in JobIds : i # j => job'[i] = job[i]
    OBVIOUS
  <1>2. g # None
    BY FitsIsSome
  <1>3. \A i \in JobIds : (Mine(i)' <=> Mine(i)) /\ (Mine(i) => job'[i].mark = job[i].mark)
    BY <1>1, <1>2 DEF Mine
  <1>4. \A i \in JobIds : job'[i] # None => Fits(job'[i], page', view')
    BY <1>1
  <1>5. OneMarked'
    BY <1>3 DEF OneMarked, Marked
  <1>6. BusyWith'
    BY <1>3 DEF BusyWith
  <1> QED
    BY <1>1, <1>4, <1>5, <1>6

\* A click starts function f.
LEMMA FunctionStarts ==
  ASSUME Functions, page' = page, page \in Functional, NEW f, Spawn(f), f.mine, Fits(f, page, view'),
         Keeps(page, view, view'), view'.busy = view.busy \/ (f.mark # None /\ view'.busy = f.mark),
         page = "setup" /\ f.mark # None => view.busy = None /\ view'.busy = f.mark
  PROVE  Functions'
  <1> USE DEF Functions
  <1>1. PICK j \in JobIds : job[j] = None /\ job' = [job EXCEPT ![j] = f]
    BY DEF Spawn
  <1>2. DOMAIN job' = JobIds /\ job'[j] = f /\ \A i \in JobIds : i # j => job'[i] = job[i]
    BY <1>1
  <1>3. f # None
    BY FitsIsSome
  <1>4. \A i \in JobIds : i # j => (Mine(i)' <=> Mine(i)) /\ job'[i] = job[i]
    BY <1>2 DEF Mine
  <1>5. Mine(j)' /\ ~Mine(j)
    BY <1>1, <1>2, <1>3 DEF Mine
  <1>6. ASSUME NEW i \in JobIds, page = "setup", Marked(i) PROVE f.mark = None /\ view'.busy # None
    <2>1. view.busy # None
      BY <1>6 DEF Marked, Mine, Fits
    <2> QED
      BY <1>6, <2>1
  <1>7. ASSUME NEW i \in JobIds, job'[i] # None PROVE Fits(job'[i], page', view')
    <2>1. CASE i = j
      BY <1>2, <2>1
    <2>2. CASE i # j
      <3>1. job'[i] = job[i] /\ Fits(job[i], page, view)
        BY <1>2, <1>7, <2>2
      <3>2. ASSUME page = "setup", job[i].mine, job[i].mark # None PROVE view'.busy # None
        BY <1>6, <1>7, <3>1, <3>2 DEF Marked, Mine
      <3> QED
        BY <3>1, <3>2, FitsKept
    <2> QED
      BY <2>1, <2>2
  <1>8. OneMarked'
    <2> SUFFICES ASSUME page = "setup", NEW i \in JobIds, NEW k \in JobIds, Marked(i)', Marked(k)' PROVE i = k
      BY DEF OneMarked
    <2>1. CASE i # j /\ k # j
      BY <1>4, <2>1 DEF OneMarked, Marked
    <2>2. CASE i # j /\ k = j
      <3>1. Marked(i)
        BY <1>4, <2>2 DEF Marked
      <3>2. f.mark # None
        BY <1>2, <2>2 DEF Marked
      <3> QED
        BY <1>6, <3>1, <3>2
    <2>3. CASE i = j /\ k # j
      <3>1. Marked(k)
        BY <1>4, <2>3 DEF Marked
      <3>2. f.mark # None
        BY <1>2, <2>3 DEF Marked
      <3> QED
        BY <1>6, <3>1, <3>2
    <2> QED
      BY <2>1, <2>2, <2>3
  <1>9. BusyWith'
    <2> SUFFICES ASSUME view'.busy # None
                 PROVE  \E i \in JobIds : Mine(i)' /\ job'[i].mark = view'.busy
      BY DEF BusyWith
    <2>1. CASE view'.busy = f.mark
      BY <1>2, <1>5, <2>1
    <2>2. CASE view'.busy = view.busy
      <3>1. PICK i \in JobIds : Mine(i) /\ job[i].mark = view.busy
        BY <2>2 DEF BusyWith
      <3>2. i # j
        BY <1>5, <3>1
      <3> QED
        BY <1>4, <2>2, <3>1, <3>2
    <2> QED
      BY <2>1, <2>2
  <1> QED
    BY <1>2, <1>7, <1>8, <1>9

\* Nothing happens to the functions.
LEMMA FunctionsStay ==
  ASSUME Functions, page' = page, job' = job, Keeps(page, view, view'), page \in Functional => view'.busy = view.busy
  PROVE  Functions'
  <1> USE DEF Functions
  <1>1. ASSUME NEW i \in JobIds, job'[i] # None PROVE Fits(job'[i], page', view')
    <2>1. Fits(job[i], page, view)
      BY <1>1
    <2>2. ASSUME page = "setup", job[i].mine, job[i].mark # None PROVE view'.busy # None
      BY <2>1, <2>2 DEF Fits, Functional
    <2> QED
      BY <2>1, <2>2, FitsKept
  <1>2. OneMarked' /\ BusyWith'
    BY DEF OneMarked, BusyWith, Marked, Mine
  <1> QED
    BY <1>1, <1>2

----------------------------------------------------------------------------
(* Clicks that start a function. *)

LEMMA InOrderFacts ==
  ASSUME NEW S \in SUBSET Nat, IsFiniteSet(S)
  PROVE  /\ Cardinality(S) \in Nat /\ InOrder(S) \in [1 .. Cardinality(S) -> S]
         /\ \A x \in S : \E k \in 1 .. Cardinality(S) : InOrder(S)[k] = x
         /\ \A j, k \in 1 .. Cardinality(S) : InOrder(S)[j] = InOrder(S)[k] => j = k
  <1> DEFINE N == Cardinality(S)
             R == {p \in S \X S : p[1] < p[2]}
  <1>1. N \in Nat
    BY FS_CardinalityType
  <1>2. \A x, y \in S : <<x, y>> \in R <=> x < y
    OBVIOUS
  <1>3. StrictOrder(S, R)
    BY <1>2 DEF StrictOrder
  <1>4. \A x \in S : {y \in S : y < x} = Below(x, S, R)
    BY <1>2 DEF Below
  <1> HIDE DEF R
  <1>5. ASSUME NEW k \in 1 .. N
        PROVE  InOrder(S)[k] \in S /\ Cardinality(Below(InOrder(S)[k], S, R)) = k - 1
    <2>1. \E x \in S : Cardinality({y \in S : y < x}) = k - 1
      <3>1. PICK x \in S : Cardinality(Below(x, S, R)) = k - 1
        BY <1>3, EveryRank
      <3> QED
        BY <1>4, <3>1
    <2>2. InOrder(S)[k] = CHOOSE x \in S : Cardinality({y \in S : y < x}) = k - 1
      BY DEF InOrder
    <2>3. InOrder(S)[k] \in S /\ Cardinality({y \in S : y < InOrder(S)[k]}) = k - 1
      BY <2>1, <2>2
    <2> QED
      BY <1>4, <2>3
  <1>6. InOrder(S) \in [1 .. N -> S]
    BY <1>5 DEF InOrder
  <1>7. ASSUME NEW x \in S PROVE \E k \in 1 .. N : InOrder(S)[k] = x
    <2>1. PICK k \in 1 .. N : k - 1 = Cardinality(Below(x, S, R))
      <3>1. Cardinality(Below(x, S, R)) \in 0 .. N - 1
        BY <1>3, RankGrows
      <3>2. Cardinality(Below(x, S, R)) + 1 \in 1 .. N
        BY <1>1, <3>1
      <3> QED
        BY <3>1, <3>2
    <2>2. InOrder(S)[k] \in S /\ Cardinality(Below(InOrder(S)[k], S, R)) = k - 1
      BY <1>5
    <2>3. ASSUME InOrder(S)[k] # x PROVE FALSE
      <3>1. <<InOrder(S)[k], x>> \in R \/ <<x, InOrder(S)[k]>> \in R
        BY <1>3, <2>2, <2>3 DEF StrictOrder
      <3>2. \/ Cardinality(Below(InOrder(S)[k], S, R)) < Cardinality(Below(x, S, R))
            \/ Cardinality(Below(x, S, R)) < Cardinality(Below(InOrder(S)[k], S, R))
        BY <1>3, <2>2, <3>1, RankGrows
      <3> QED
        BY <1>1, <2>1, <2>2, <3>2
    <2> QED
      BY <2>3
  <1>8. ASSUME NEW j \in 1 .. N, NEW k \in 1 .. N, InOrder(S)[j] = InOrder(S)[k] PROVE j = k
    <2>1. j - 1 = k - 1
      BY <1>5, <1>8
    <2> QED
      BY <1>1, <2>1
  <1> QED
    BY <1>1, <1>6, <1>7, <1>8

\* Requests that only change rules.
RuleRequests(todo) == todo \in Seq(Requests) /\ \A n \in DOMAIN todo : todo[n].op \in {"rule", "unrule"}

LEMMA PostRulesFacts ==
  ASSUME NEW days \in SUBSET Days, NEW kind \in {"OPEN", "BREAK"}, NEW i, i.from \in Nat, i.to \in Nat
  PROVE  LET seq == PostRules(days, kind, i)
         IN /\ RuleRequests(seq)
            /\ \A n \in DOMAIN seq : /\ seq[n].op = "rule" /\ seq[n].what.day \in days /\ seq[n].what.kind = kind
                                     /\ seq[n].what.from = i.from /\ seq[n].what.to = i.to
            /\ \A m, n \in DOMAIN seq : seq[m].what.day = seq[n].what.day => m = n
  <1>1. PICK s : s = InOrder(days)
    OBVIOUS
  <1>2. PICK N \in Nat : s \in [1 .. N -> days] /\ \A j, k \in 1 .. N : s[j] = s[k] => j = k
    <2>1. IsFiniteSet(days) /\ days \in SUBSET Nat
      BY HostConstantsOK, FS_Subset
    <2> QED
      BY <1>1, <2>1, InOrderFacts
  <1>3. PICK seq : seq = PostRules(days, kind, i)
    OBVIOUS
  <1>4. /\ DOMAIN seq = 1 .. N
        /\ \A n \in 1 .. N : seq[n] = Request("rule", [day |-> s[n], kind |-> kind, from |-> i.from, to |-> i.to])
    BY <1>1, <1>2, <1>3 DEF PostRules
  <1>5. ASSUME NEW n \in 1 .. N
        PROVE  /\ seq[n] \in Requests /\ seq[n].op = "rule" /\ seq[n].what.day = s[n] /\ seq[n].what.kind = kind
               /\ seq[n].what.from = i.from /\ seq[n].what.to = i.to
    <2>1. PICK w : w = [day |-> s[n], kind |-> kind, from |-> i.from, to |-> i.to]
      OBVIOUS
    <2>2. w \in [day: Days, kind: {"OPEN", "BREAK"}, from: Nat, to: Nat]
      BY <1>2, <2>1
    <2>3. seq[n] = Request("rule", w)
      BY <1>4, <2>1
    <2> QED
      BY <2>1, <2>2, <2>3, MadeRequests, RequestFields
  <1>6. seq \in [1 .. N -> Requests]
    <2>1. seq = [n \in 1 .. N |-> seq[n]]
      BY <1>1, <1>2, <1>3, <1>4 DEF PostRules
    <2> QED
      BY <1>5, <2>1
  <1>7. seq \in Seq(Requests)
    BY <1>6
  <1>8. RuleRequests(seq)
    BY <1>4, <1>5, <1>7 DEF RuleRequests
  <1>9. \A m, n \in DOMAIN seq : seq[m].what.day = seq[n].what.day => m = n
    BY <1>2, <1>4, <1>5
  <1> QED
    BY <1>2, <1>3, <1>4, <1>5, <1>8, <1>9

LEMMA DropRulesFacts ==
  ASSUME NEW R \in SUBSET Rules, IsFiniteSet(R)
  PROVE  LET seq == DropRules(R)
         IN /\ RuleRequests(seq)
            /\ \A n \in DOMAIN seq : seq[n].op = "unrule"
            /\ \A r \in R : \E n \in DOMAIN seq : seq[n].what = r.id
  <1>1. PICK f : f = [r \in R |-> r.id]
    OBVIOUS
  <1>2. PICK ids : ids = {f[r] : r \in R}
    OBVIOUS
  <1>3. ids \in SUBSET Nat /\ IsFiniteSet(ids)
    <2>1. DOMAIN f = R
      BY <1>1
    <2>2. IsFiniteSet(ids)
      BY <1>2, <2>1, FiniteImage
    <2> QED
      BY <1>1, <1>2, <2>2 DEF Rules
  <1>4. PICK s : s = InOrder(ids)
    OBVIOUS
  <1>5. PICK N \in Nat : s \in [1 .. N -> ids] /\ \A x \in ids : \E k \in 1 .. N : s[k] = x
    BY <1>3, <1>4, InOrderFacts
  <1>6. PICK seq : seq = DropRules(R)
    OBVIOUS
  <1>7. seq = [n \in 1 .. N |-> Request("unrule", s[n])]
    <2>1. {r.id : r \in R} = ids
      BY <1>1, <1>2
    <2>2. DOMAIN s = 1 .. N
      BY <1>5
    <2> QED
      BY <1>4, <1>6, <2>1, <2>2 DEF DropRules
  <1>8. \A n \in 1 .. N : seq[n] \in Requests /\ seq[n].op = "unrule" /\ seq[n].what = s[n]
    BY <1>3, <1>5, <1>7, MadeRequests, RequestFields
  <1>9. seq \in [1 .. N -> Requests] /\ DOMAIN seq = 1 .. N
    BY <1>7, <1>8
  <1>10. seq \in Seq(Requests)
    BY <1>9
  <1>11. RuleRequests(seq)
    BY <1>8, <1>9, <1>10 DEF RuleRequests
  <1>12. ASSUME NEW r \in R PROVE \E n \in DOMAIN seq : seq[n].what = r.id
    <2>1. r.id \in ids
      BY <1>1, <1>2
    <2> QED
      BY <1>5, <1>8, <1>9, <2>1
  <1> QED
    BY <1>6, <1>8, <1>9, <1>11, <1>12

LEMMA RequestsJoined ==
  ASSUME NEW a, NEW b, RuleRequests(a), RuleRequests(b)
  PROVE  RuleRequests(a \o b)
  <1>1. a \in Seq(Requests) /\ b \in Seq(Requests) /\ a \o b \in Seq(Requests)
    BY DEF RuleRequests
  <1>2. ASSUME NEW n \in DOMAIN (a \o b) PROVE (a \o b)[n] \in {a[m] : m \in DOMAIN a} \cup {b[m] : m \in DOMAIN b}
    <2>1. CASE n <= Len(a)
      BY <1>1, <2>1
    <2>2. CASE n > Len(a)
      <3>1. n - Len(a) \in DOMAIN b /\ (a \o b)[n] = b[n - Len(a)]
        BY <1>1, <2>2
      <3> QED
        BY <3>1
    <2> QED
      BY <1>1, <2>1, <2>2
  <1> QED
    BY <1>1, <1>2 DEF RuleRequests

\* The function that a click starts fits its page.
LEMMA NewJobFits ==
  ASSUME NEW todo \in Seq(Requests), NEW then, then \in {None} \cup Queries, NEW mark,
         mark \in {None, "yes"} \cup Pages \cup Users, NEW p, NEW v,
         then = None => Len(todo) = 1,
         \A n \in DOMAIN todo : todo[n].op \in OpsOn(p) /\ (n > 1 => todo[n].op \in {"rule", "unrule"}),
         then # None => then.kind \in EndsOn(p),
         p = "edit" => v.form # None,
         Loaded(p, v), p = "setup" /\ mark # None => v.busy # None,
         p = "setup" /\ todo # <<>> => todo[1].op # "complete" \/ (mark # None /\ v.step = 4 /\ v.activated = FALSE)
  PROVE  Fits(Job(todo, then, mark), p, v) /\ Job(todo, then, mark).mine /\ Job(todo, then, mark).mark = mark
  <1>1. PICK f : f = Job(todo, then, mark)
    OBVIOUS
  <1>2. f.todo = todo /\ f.then = then /\ f.mark = mark /\ f.data = None /\ f.mine = TRUE
    BY <1>1 DEF Job
  <1>3. f \in Jobs(then)
    BY <1>1 DEF Job, Jobs, Data
  <1>4. mark # "lost"
    <2>1. "lost" # None
      BY HostConstantsOK
    <2>2. mark \in Pages \cup Users => mark # "lost"
      BY HostConstantsOK
    <2> QED
      BY <2>1, <2>2
  <1>5. JobOK(f, p)
    BY <1>2, <1>3, <1>4 DEF JobOK
  <1>6. Fits(f, p, v)
    <2>1. p = "setup" => v.loaded
      BY DEF Loaded
    <2>2. p = "setup" /\ f.todo # <<>> /\ f.todo[1].op = "complete" => f.mark # None /\ v.step = 4 /\ ~v.activated
      BY <1>2
    <2> QED
      BY <1>2, <1>5, <2>1, <2>2 DEF Fits
  <1> QED
    BY <1>1, <1>2, <1>6

LEMMA StartTyped ==
  ASSUME Typed, NEW todo, NEW then, NEW mark, NEW v, Start(todo, then, mark, v), page \in Functional,
         Shown(page, v, load, aux), Keeps(page, view, v), Fits(Job(todo, then, mark), page, v),
         v.busy = IF mark = None THEN view.busy ELSE mark,
         page = "setup" /\ mark # None => view.busy = None
  PROVE  Typed'
  <1>1. PICK f : f = Job(todo, then, mark)
    OBVIOUS
  <1>2. f.mine /\ f.mark = mark /\ Fits(f, page, v) /\ Spawn(f)
    BY <1>1 DEF Job, Start
  <1>3. UNCHANGED <<db, page, load, aux, saved>> /\ view' = v
    BY DEF Start
  <1>4. Functions'
    BY <1>2, <1>3, FunctionStarts DEF Typed
  <1> QED
    BY <1>3, <1>4 DEF Typed

\* What the page shows while a function works that a click has started.
LEMMA Pressed ==
  ASSUME Typed, page \in Functional, Loaded(page, view), NEW mark, mark \in Marks(page)
  PROVE  LET v == [view EXCEPT !.busy = mark, !.error = FALSE]
         IN  Shown(page, v, load, aux) /\ Keeps(page, view, v) /\ v.busy = mark
  <1>1. Shown(page, view, load, aux) /\ mark \in {None} \cup Marks(page)
    BY DEF Typed
  <1>2. PICK e \in BOOLEAN : e = FALSE
    OBVIOUS
  <1>3. PICK v : v = WithButtons(view, mark, e)
    OBVIOUS
  <1>4. Shown(page, v, load, aux) /\ Keeps(page, view, v) /\ v.busy = mark
    BY <1>1, <1>3, ButtonsShown
  <1> QED
    BY <1>2, <1>3, <1>4 DEF WithButtons

LEMMA PressedUnmarked ==
  ASSUME Typed, page \in Functional, Loaded(page, view)
  PROVE  LET v == [view EXCEPT !.error = FALSE]
         IN  Shown(page, v, load, aux) /\ Keeps(page, view, v) /\ v.busy = view.busy
  <1>1. Shown(page, view, load, aux)
    BY DEF Typed
  <1>2. PICK e \in BOOLEAN : e = FALSE
    OBVIOUS
  <1>3. PICK v, b : v = [view EXCEPT !.error = e] /\ b = view.busy
    OBVIOUS
  <1>4. b \in {None} \cup Marks(page) /\ v = WithButtons(view, b, e)
    BY <1>1, <1>3, HasButtons
  <1>5. Shown(page, v, load, aux) /\ Keeps(page, view, v) /\ v.busy = b
    BY <1>1, <1>4, ButtonsShown
  <1> QED
    BY <1>2, <1>3, <1>5

\* A click that only shows an error, or clears it.
LEMMA ShowError ==
  ASSUME Typed, page \in Functional, Loaded(page, view), NEW e \in BOOLEAN,
         view' = [view EXCEPT !.error = e], UNCHANGED <<db, page, load, aux, job, saved>>
  PROVE  Typed'
  <1>1. Shown(page, view, load, aux)
    BY DEF Typed
  <1>2. PICK v, b : v = [view EXCEPT !.error = e] /\ b = view.busy
    OBVIOUS
  <1>3. b \in {None} \cup Marks(page) /\ v = WithButtons(view, b, e) /\ e \in BOOLEAN
    BY <1>1, <1>2, HasButtons
  <1>4. Shown(page, v, load, aux) /\ Keeps(page, view, v) /\ v.busy = b
    BY <1>1, <1>3, ButtonsShown
  <1>5. UNCHANGED <<db, page, load, aux, job, saved>> /\ view' = v
    BY <1>2
  <1>6. Functions'
    BY <1>2, <1>4, <1>5, FunctionsStay DEF Typed
  <1> QED
    BY <1>4, <1>5, <1>6 DEF Typed

----------------------------------------------------------------------------
(* The pages of the schedule. *)

LEMMA StartRulesTyped ==
  ASSUME Typed, RulesShown, view.busy = None, NEW todo, RuleRequests(todo), StartRules(todo)
  PROVE  Typed'
  <1>1. page \in {"rules", "setup"} /\ page \in Functional /\ Loaded(page, view)
    BY DEF RulesShown, Functional, Loaded
  <1>2. PICK v, q : v = [view EXCEPT !.busy = "yes", !.error = FALSE] /\ q = Query("rules", None)
    OBVIOUS
  <1>3. Start(todo, q, "yes", v)
    BY <1>2 DEF StartRules
  <1>4. Shown(page, v, load, aux) /\ Keeps(page, view, v) /\ v.busy = "yes" /\ "yes" # None
    <2>1. "yes" \in Marks(page) /\ "yes" # None
      BY <1>1, HostConstantsOK DEF Marks
    <2> QED
      BY <1>1, <1>2, <2>1, Pressed
  <1>5. Fits(Job(todo, q, "yes"), page, v)
    <2>1. q \in Queries /\ q.kind = "rules" /\ q # None
      BY <1>2, NoneIsNoRecord DEF Query, Queries
    <2>2. todo \in Seq(Requests) /\ \A n \in DOMAIN todo : todo[n].op \in {"rule", "unrule"}
      BY DEF RuleRequests
    <2>3. \A n \in DOMAIN todo : todo[n].op \in OpsOn(page) /\ (n > 1 => todo[n].op \in {"rule", "unrule"})
      BY <1>1, <2>2 DEF OpsOn
    <2>4. q.kind \in EndsOn(page)
      BY <1>1, <2>1 DEF EndsOn
    <2>5. todo # <<>> => todo[1].op # "complete"
      <3>1. ASSUME todo # <<>> PROVE 1 \in DOMAIN todo
        BY <2>2, <3>1
      <3> QED
        BY <2>2, <3>1
    <2>6. Loaded(page, v) /\ (page = "edit" => v.form # None)
      BY <1>1, <1>4 DEF Loaded, Keeps
    <2> QED
      BY <1>4, <2>1, <2>2, <2>3, <2>4, <2>5, <2>6, NewJobFits
  <1> QED
    BY <1>1, <1>3, <1>4, <1>5, StartTyped

LEMMA ListTypes ==
  ASSUME Typed, RulesShown
  PROVE  List \in RuleLists /\ \A P \in SUBSET List : P \in SUBSET Rules /\ IsFiniteSet(P)
  <1>1. view.rules \in {None} \cup RuleLists
    BY DEF Typed, Shown, RulesShown, RulesOK, RulesState, SetupOK, SetupState
  <1>2. {} \in RuleLists
    BY FS_EmptySet DEF RuleLists
  <1>3. List \in RuleLists
    BY <1>1, <1>2 DEF List
  <1> QED
    BY <1>3, FS_Subset DEF RuleLists

LEMMA RuleActionsTyped ==
  ASSUME Typed, RuleActions
  PROVE  Typed'
  <1>1. RulesShown /\ view.busy = None /\ page \in Functional /\ Loaded(page, view)
    BY DEF RuleActions, RulesShown, Functional, Loaded
  <1>2. \A P \in SUBSET List : RuleRequests(DropRules(P))
    BY <1>1, ListTypes, DropRulesFacts
  <1>3. CASE AddRules
    <2>1. PICK d \in Drafts : IF Acceptable(List, d) THEN StartRules(PostRules(d.days, d.kind, d))
                              ELSE Show([view EXCEPT !.error = TRUE])
      BY <1>3 DEF AddRules
    <2>2. d.days \in SUBSET Days /\ d.kind \in {"OPEN", "BREAK"} /\ d.from \in Nat /\ d.to \in Nat
      BY ScheduleConstantsOK
    <2>3. RuleRequests(PostRules(d.days, d.kind, d))
      BY <2>2, PostRulesFacts
    <2> QED
      BY <1>1, <2>1, <2>3, StartRulesTyped, ShowError DEF Show
  <1>4. CASE RemoveRule
    <2>1. PICK r \in List : StartRules(DropRules({r}))
      BY <1>4 DEF RemoveRule
    <2>2. {r} \in SUBSET List
      OBVIOUS
    <2> QED
      BY <1>1, <1>2, <2>1, <2>2, StartRulesTyped
  <1>5. CASE ResetAll
    <2>1. \/ view' = [view EXCEPT !.error = FALSE] /\ UNCHANGED <<db, page, load, aux, job, saved>>
          \/ StartRules(DropRules(List))
      BY <1>5 DEF ResetAll
    <2> QED
      BY <1>1, <1>2, <2>1, StartRulesTyped, ShowError
  <1>6. /\ WorkDays \in SUBSET Days /\ Hours.from \in Nat /\ Hours.to \in Nat /\ Lunch.from \in Nat /\ Lunch.to \in Nat
        /\ RuleRequests(PostRules(WorkDays, "OPEN", Hours)) /\ RuleRequests(PostRules(WorkDays, "BREAK", Lunch))
    <2>1. WorkDays \in SUBSET Days /\ Hours \in [from: Nat, to: Nat] /\ Lunch \in [from: Nat, to: Nat]
      BY ScheduleConstantsOK
    <2> QED
      BY <2>1, PostRulesFacts
  <1>7. CASE TemplateBasic
    <2>1. PICK P \in SUBSET List : P = {r \in List : r.kind = "OPEN" /\ r.day \in WorkDays}
      OBVIOUS
    <2>2. StartRules(DropRules(P) \o PostRules(WorkDays, "OPEN", Hours))
      BY <1>7, <2>1 DEF TemplateBasic
    <2> QED
      BY <1>1, <1>2, <1>6, <2>2, RequestsJoined, StartRulesTyped
  <1>8. CASE TemplateLunch
    <2>1. PICK P \in SUBSET List : P = {r \in List : r.day \in WorkDays}
      OBVIOUS
    <2>2. PICK a : a = DropRules(P) \o PostRules(WorkDays, "OPEN", Hours)
      OBVIOUS
    <2>3. RuleRequests(a)
      BY <1>2, <1>6, <2>2, RequestsJoined
    <2>4. StartRules(a \o PostRules(WorkDays, "BREAK", Lunch))
      BY <1>8, <2>1, <2>2 DEF TemplateLunch
    <2> QED
      BY <1>1, <1>6, <2>3, <2>4, RequestsJoined, StartRulesTyped
  <1> QED
    BY <1>3, <1>4, <1>5, <1>7, <1>8 DEF RuleActions

\* A function of one request.
LEMMA OneJobFits ==
  ASSUME NEW r \in Requests, NEW then, then \in {None} \cup Queries, NEW mark,
         mark \in {None, "yes"} \cup Pages \cup Users, NEW p, NEW v,
         r.op \in OpsOn(p), then # None => then.kind \in EndsOn(p), p = "edit" => v.form # None,
         Loaded(p, v), p = "setup" /\ mark # None => v.busy # None,
         p = "setup" => r.op # "complete" \/ (mark # None /\ v.step = 4 /\ v.activated = FALSE)
  PROVE  Fits(Job(<<r>>, then, mark), p, v)
  <1>1. PICK todo : todo = <<r>>
    OBVIOUS
  <1>2. todo \in Seq(Requests) /\ Len(todo) = 1 /\ DOMAIN todo = {1} /\ todo[1] = r
    BY <1>1
  <1>3. \A n \in DOMAIN todo : todo[n].op \in OpsOn(p) /\ (n > 1 => todo[n].op \in {"rule", "unrule"})
    BY <1>2
  <1>4. p = "setup" /\ todo # <<>> => todo[1].op # "complete" \/ (mark # None /\ v.step = 4 /\ v.activated = FALSE)
    BY <1>2
  <1>5. Fits(Job(todo, then, mark), p, v)
    BY <1>2, <1>3, <1>4, NewJobFits
  <1> QED
    BY <1>1, <1>5

LEMMA StartSlotsTyped ==
  ASSUME Typed, NEW op \in {"generate", "clear"}, StartSlots(op)
  PROVE  Typed'
  <1>1. page \in {"slots", "setup"} /\ page \in Functional /\ Loaded(page, view) /\ view.busy = None
    BY DEF StartSlots, SlotsShown, Functional, Loaded
  <1>2. view.range \in Ranges
    BY <1>1 DEF Typed, Shown, SlotsOK, SlotsState, SetupOK, SetupState
  <1>3. PICK v, q, r : /\ v = [view EXCEPT !.busy = "yes", !.error = FALSE] /\ q = Query("count", view.range)
                       /\ r = Request(op, view.range)
    OBVIOUS
  <1>4. Start(<<r>>, q, "yes", v)
    BY <1>3 DEF StartSlots
  <1>5. Shown(page, v, load, aux) /\ Keeps(page, view, v) /\ v.busy = "yes" /\ "yes" # None
    <2>1. "yes" \in Marks(page) /\ "yes" # None
      BY <1>1, HostConstantsOK DEF Marks
    <2> QED
      BY <1>1, <1>3, <2>1, Pressed
  <1>6. r \in Requests /\ r.op = op
    BY <1>2, <1>3, MadeRequests, RequestFields
  <1>7. q \in Queries /\ q.kind = "count" /\ q # None
    BY <1>2, <1>3, NoneIsNoRecord DEF Query, Queries
  <1>8. Fits(Job(<<r>>, q, "yes"), page, v)
    <2>1. op \in OpsOn(page) /\ "count" \in EndsOn(page)
      BY <1>1 DEF OpsOn, EndsOn
    <2>2. Loaded(page, v) /\ (page = "edit" => v.form # None)
      BY <1>1, <1>5 DEF Loaded, Keeps
    <2> QED
      BY <1>5, <1>6, <1>7, <2>1, <2>2, OneJobFits
  <1> QED
    BY <1>1, <1>4, <1>5, <1>8, StartTyped

\* The function that counts the slots of the wizard's range.
LEMMA RecountFits ==
  ASSUME NEW v, Loaded("setup", v), v.range \in Ranges
  PROVE  LET f == Job(<<>>, Query("count", v.range), None)
         IN  Fits(f, "setup", v) /\ f.mine /\ f.mark = None
  <1>1. PICK q : q = Query("count", v.range)
    OBVIOUS
  <1>2. q \in Queries /\ q.kind = "count" /\ q # None
    BY <1>1, NoneIsNoRecord DEF Query, Queries
  <1>3. <<>> \in Seq(Requests) /\ DOMAIN <<>> = {} /\ "count" \in EndsOn("setup")
    BY DEF EndsOn
  <1> QED
    BY <1>1, <1>2, <1>3, NewJobFits

LEMMA SlotActionsTyped ==
  ASSUME Typed, SlotActions
  PROVE  Typed'
  <1>1. CASE \E op \in {"generate", "clear"} : StartSlots(op)
    BY <1>1, StartSlotsTyped
  <1>2. CASE ChooseWizardRange
    <2>1. page = "setup" /\ view.loaded /\ view.step = 3 /\ UNCHANGED <<db, page, load, aux, saved>>
      BY <1>2 DEF ChooseWizardRange
    <2>2. PICK r \in Ranges \ {view.range} : view' = [view EXCEPT !.range = r] /\ Recount(view')
      BY <1>2 DEF ChooseWizardRange
    <2>3. SetupOK(view, load, aux) /\ SetupShows(view, aux)
      BY <2>1 DEF Typed, Shown
    <2>4. PICK w : w = [view EXCEPT !.range = r]
      OBVIOUS
    <2>5. w \in SetupState /\ w.range = r
      BY <2>3, <2>4 DEF SetupOK, SetupState
    <2>6. /\ w.step = view.step /\ w.loaded = view.loaded /\ w.date = view.date /\ w.day = view.day
          /\ w.activated = view.activated /\ w.month = view.month /\ w.calendar = view.calendar
          /\ w.busy = view.busy /\ w.error = view.error
      BY <2>3, <2>4 DEF SetupOK, SetupState
    <2>7. SetupOK(w, load, aux) /\ SetupShows(w, aux)
      BY <2>3, <2>5, <2>6 DEF SetupOK, SetupShows
    <2>8. Shown(page, w, load, aux) /\ Keeps(page, view, w)
      BY <2>1, <2>6, <2>7 DEF Shown, Keeps, PageNames, Functional
    <2>9. PICK f : f = Job(<<>>, Query("count", w.range), None)
      OBVIOUS
    <2>10. Fits(f, page, w) /\ f.mine /\ f.mark = None /\ Spawn(f)
      BY <2>1, <2>2, <2>4, <2>5, <2>6, <2>9, RecountFits DEF Loaded, Recount
    <2>11. Functions'
      BY <2>1, <2>2, <2>4, <2>6, <2>8, <2>10, FunctionStarts DEF Typed, Functional
    <2> QED
      BY <2>1, <2>2, <2>4, <2>8, <2>11 DEF Typed
  <1>3. CASE ChooseRange
    <2>1. PICK r \in Ranges \ {view.range} : Rerun([view EXCEPT !.range = r], Effect("count", r))
      BY <1>3 DEF ChooseRange
    <2>2. page = "slots" /\ UNCHANGED <<db, page, aux, job, saved>>
      BY <1>3, <2>1 DEF ChooseRange, Rerun
    <2>3. PICK w, e : w = [view EXCEPT !.range = r] /\ e = Effect("count", r)
      OBVIOUS
    <2>4. view \in SlotsState /\ aux = None
      BY <2>2 DEF Typed, Shown, SlotsOK
    <2>5. w \in SlotsState /\ w.range = r /\ w.busy = view.busy
      BY <2>3, <2>4 DEF SlotsState
    <2>6. e \in Reading("count", r)
      <3>1. PICK q : q = Query("count", r)
        OBVIOUS
      <3>2. q \in Queries /\ q.kind = "count" /\ q.of = r
        BY <3>1 DEF Query, Queries
      <3> QED
        BY <2>3, <3>2, Started
    <2>7. view' = w /\ load' = e
      BY <2>1, <2>3 DEF Rerun
    <2>8. Shown(page, w, e, aux) /\ Keeps(page, view, w)
      BY <2>2, <2>4, <2>5, <2>6 DEF Shown, SlotsOK, Keeps, PageNames, Functional
    <2>9. Functions'
      BY <2>2, <2>5, <2>7, <2>8, FunctionsStay DEF Typed
    <2> QED
      BY <2>2, <2>7, <2>8, <2>9 DEF Typed
  <1> QED
    BY <1>1, <1>2, <1>3 DEF SlotActions

LEMMA StartOverridesTyped ==
  ASSUME Typed, page \in {"overrides", "setup"}, Loaded(page, view), NEW r \in Requests,
         r.op \in {"except", "unexcept"}, NEW mark \in {None, "yes"}, mark = None => page = "overrides",
         mark # None => view.busy = None, StartOverrides(<<r>>, mark)
  PROVE  Typed'
  <1>1. page \in Functional /\ ThisMonth \in Ranges
    BY ScheduleConstantsOK DEF Functional
  <1>2. PICK v, q : /\ v = [view EXCEPT !.busy = IF mark = None THEN @ ELSE mark,
                                        !.error = IF mark = None THEN @ ELSE FALSE]
                    /\ q = Query("overrides", ThisMonth)
    OBVIOUS
  <1>3. Start(<<r>>, q, mark, v)
    BY <1>2 DEF StartOverrides
  <1>4. Shown(page, v, load, aux) /\ Keeps(page, view, v) /\ v.busy = IF mark = None THEN view.busy ELSE mark
    <2>1. CASE mark = None
      <3>1. Shown(page, view, load, aux)
        BY DEF Typed
      <3>2. v = WithButtons(view, view.busy, view.error)
        BY <1>2, <2>1 DEF WithButtons
      <3>3. v = view
        BY <1>1, <3>1, <3>2, HasButtons
      <3> QED
        BY <2>1, <3>1, <3>3 DEF Keeps
    <2>2. CASE mark # None
      <3>1. v = [view EXCEPT !.busy = mark, !.error = FALSE] /\ mark \in Marks(page)
        BY <1>2, <2>2 DEF Marks
      <3> QED
        BY <1>1, <2>2, <3>1, Pressed
    <2> QED
      BY <2>1, <2>2
  <1>5. q \in Queries /\ q.kind = "overrides" /\ q # None
    BY <1>1, <1>2, NoneIsNoRecord DEF Query, Queries
  <1>6. Fits(Job(<<r>>, q, mark), page, v)
    <2>1. r.op \in OpsOn(page) /\ "overrides" \in EndsOn(page)
      BY DEF OpsOn, EndsOn
    <2>2. Loaded(page, v) /\ (page = "edit" => v.form # None)
      BY <1>4 DEF Loaded, Keeps
    <2> QED
      BY <1>4, <1>5, <2>1, <2>2, OneJobFits
  <1> QED
    BY <1>1, <1>3, <1>4, <1>6, StartTyped

LEMMA DayReading ==
  ASSUME NEW d \in Dates
  PROVE  Effect("day", d) \in Reading("day", d) /\ Effect("day", d) # None
  <1>1. PICK q : q = Query("day", d)
    OBVIOUS
  <1>2. q \in Queries /\ q.kind = "day" /\ q.of = d
    BY <1>1 DEF Query, Queries
  <1> QED
    BY <1>2, Started, ReadingIsSome

LEMMA ChooseExceptionTyped ==
  ASSUME Typed, ChooseException
  PROVE  Typed'
  <1>1. page = "setup" /\ view.loaded /\ ~view.activated /\ view.step = 4 /\ UNCHANGED <<db, page, load, job, saved>>
    BY DEF ChooseException, WizardAt
  <1>2. PICK d \in Dates, k \in {"DAY_OFF", "OPEN", "BLOCK"} :
          \/ view' = [view EXCEPT !.date = d, !.kind = k, !.day = None] /\ aux' = None
          \/ view' = [view EXCEPT !.date = d, !.kind = k] /\ aux' = Effect("day", d)
    BY DEF ChooseException
  <1>3. SetupOK(view, load, aux) /\ SetupShows(view, aux)
    BY <1>1 DEF Typed, Shown
  <1>4. PICK w, a : w = view' /\ a = aux'
    OBVIOUS
  <1>5. PICK day : day \in {None, view.day} /\ w = [view EXCEPT !.date = d, !.kind = k, !.day = day]
                   /\ (a = None => day = None) /\ a \in {None} \cup Reading("day", d)
    <2>1. CASE view' = [view EXCEPT !.date = d, !.kind = k, !.day = None] /\ aux' = None
      BY <1>4, <2>1
    <2>2. CASE view' = [view EXCEPT !.date = d, !.kind = k] /\ aux' = Effect("day", d)
      <3>1. view' = [view EXCEPT !.date = d, !.kind = k, !.day = view.day]
        BY <1>3, <2>2 DEF SetupOK, SetupState
      <3> QED
        BY <1>4, <2>2, <3>1, DayReading
    <2> QED
      BY <1>2, <2>1, <2>2
  <1>6. /\ w \in SetupState /\ w.date = d /\ w.day = day
        /\ w.step = view.step /\ w.loaded = view.loaded /\ w.activated = view.activated /\ w.month = view.month
        /\ w.calendar = view.calendar /\ w.busy = view.busy /\ w.error = view.error
    BY <1>3, <1>5 DEF SetupOK, SetupState
  <1>7. SetupOK(w, load, a)
    <2>1. d # None
      BY NoneIsNoRecord
    <2> QED
      BY <1>1, <1>3, <1>5, <1>6, <2>1 DEF SetupOK
  <1>8. SetupShows(w, a)
    BY <1>1, <1>3, <1>5, <1>6 DEF SetupShows
  <1>9. Shown(page, w, load, a) /\ Keeps(page, view, w)
    BY <1>1, <1>6, <1>7, <1>8 DEF Shown, Keeps, PageNames, Functional
  <1>10. Functions'
    BY <1>1, <1>4, <1>6, <1>9, FunctionsStay DEF Typed
  <1> QED
    BY <1>1, <1>4, <1>9, <1>10 DEF Typed

LEMMA AddOverrideTyped ==
  ASSUME Typed, AddOverride
  PROVE  Typed'
  <1>1. page = "setup" /\ view.loaded /\ view.busy = None /\ view.date # None /\ Loaded(page, view) /\ page \in Functional
    BY DEF AddOverride, WizardAt, Loaded, Functional
  <1>2. view.date \in Dates /\ view.kind \in {"DAY_OFF", "OPEN", "BLOCK"}
    BY <1>1 DEF Typed, Shown, SetupOK, SetupState
  <1>3. ASSUME NEW from \in Nat \cup {None}, NEW to \in Nat \cup {None},
               StartOverrides(<<Request("except", [date |-> view.date, kind |-> view.kind, from |-> from, to |-> to])>>, "yes")
        PROVE  Typed'
    <2>1. PICK w, r : w = [date |-> view.date, kind |-> view.kind, from |-> from, to |-> to] /\ r = Request("except", w)
      OBVIOUS
    <2>2. w \in [date: Dates, kind: {"DAY_OFF", "OPEN", "BLOCK"}, from: Nat \cup {None}, to: Nat \cup {None}]
      BY <1>2, <2>1
    <2>3. r \in Requests /\ r.op = "except"
      BY <2>1, <2>2, MadeRequests, RequestFields
    <2>4. StartOverrides(<<r>>, "yes") /\ "yes" # None
      BY <1>3, <2>1, HostConstantsOK
    <2> QED
      BY <1>1, <2>3, <2>4, StartOverridesTyped
  <1>4. CASE StartOverrides(<<Request("except", [date |-> view.date, kind |-> view.kind, from |-> None, to |-> None])>>,
                            "yes")
    BY <1>3, <1>4
  <1>5. CASE \E i \in Times :
               IF i.from < i.to /\ Blocking(i)
               THEN StartOverrides(<<Request("except", [date |-> view.date, kind |-> view.kind,
                                                        from |-> i.from, to |-> i.to])>>, "yes")
               ELSE Show([view EXCEPT !.error = TRUE])
    <2>1. PICK i \in Times :
            \/ StartOverrides(<<Request("except", [date |-> view.date, kind |-> view.kind,
                                                   from |-> i.from, to |-> i.to])>>, "yes")
            \/ Show([view EXCEPT !.error = TRUE])
      BY <1>5
    <2>2. i \in [from: Nat, to: Nat]
      BY ScheduleConstantsOK
    <2>3. i.from \in Nat \cup {None} /\ i.to \in Nat \cup {None}
      BY <2>2
    <2> QED
      BY <1>1, <1>3, <2>1, <2>3, ShowError DEF Show
  <1> QED
    BY <1>4, <1>5 DEF AddOverride

LEMMA OverrideActionsTyped ==
  ASSUME Typed, OverrideActions
  PROVE  Typed'
  <1>1. CASE SubmitOverride
    <2>1. page = "overrides" /\ view.busy = None
      BY <1>1 DEF SubmitOverride
    <2>2. PICK d \in ThisMonth, k \in {"DAY_OFF", "OPEN", "BLOCK"} :
            StartOverrides(<<Request("except", [date |-> d, kind |-> k, from |-> None, to |-> None])>>, "yes")
      BY <1>1 DEF SubmitOverride
    <2>3. PICK w, r : w = [date |-> d, kind |-> k, from |-> None, to |-> None] /\ r = Request("except", w)
      OBVIOUS
    <2>4. w \in [date: Dates, kind: {"DAY_OFF", "OPEN", "BLOCK"}, from: Nat \cup {None}, to: Nat \cup {None}]
      <3>1. d \in Dates
        BY ScheduleConstantsOK, HostConstantsOK
      <3> QED
        BY <2>3, <3>1
    <2>5. r \in Requests /\ r.op = "except"
      BY <2>3, <2>4, MadeRequests, RequestFields
    <2>6. StartOverrides(<<r>>, "yes") /\ "yes" # None /\ Loaded(page, view)
      BY <2>1, <2>2, <2>3, HostConstantsOK DEF Loaded
    <2> QED
      BY <2>1, <2>5, <2>6, StartOverridesTyped
  <1>2. ASSUME NEW o, NEW mark \in {None, "yes"}, StartOverrides(<<Request("unexcept", o.id)>>, mark),
               page \in {"overrides", "setup"}, Loaded(page, view), mark = None => page = "overrides",
               mark # None => view.busy = None, view.overrides # None, o \in view.overrides
        PROVE  Typed'
    <2>1. o \in Overrides
      BY <1>2 DEF Typed, Shown, OverridesOK, OverridesState, SetupOK, SetupState, OverrideLists
    <2>2. PICK r : r = Request("unexcept", o.id)
      OBVIOUS
    <2>3. r \in Requests /\ r.op = "unexcept"
      <3>1. o.id \in Nat
        BY <2>1 DEF Overrides
      <3> QED
        BY <2>2, <3>1, MadeRequests, RequestFields
    <2> QED
      BY <1>2, <2>2, <2>3, StartOverridesTyped
  <1>3. CASE RemoveOverride
    BY <1>2, <1>3 DEF RemoveOverride, Loaded
  <1>4. CASE RemoveOverrideWizard
    BY <1>2, <1>4, HostConstantsOK DEF RemoveOverrideWizard, WizardAt, Loaded
  <1> QED
    BY <1>1, <1>3, <1>4, ChooseExceptionTyped, AddOverrideTyped DEF OverrideActions

\* A step of the wizard: what it shows and reads, and the function that counts.
LEMMA EnterStepTyped ==
  ASSUME Functions, page = "setup", page' = page, NEW v, v \in SetupState, v.loaded = TRUE, v.activated = FALSE,
         v.step # 4 => v.day = None, v.busy = view.busy,
         NEW n \in 2 .. 4, n = 4 => v.step # 4, EnterStep(n, v),
         view.step = 4 /\ ~view.activated => view.busy = None
  PROVE  Shown(page, view', load', aux') /\ Functions'
  <1>1. PICK w : w = [v EXCEPT !.step = n, !.day = IF n = 4 THEN v.day ELSE None]
    OBVIOUS
  <1>2. view' = w
    BY <1>1 DEF EnterStep, SetupState
  <1>3. /\ w \in SetupState /\ w.step = n /\ w.day = None /\ w.loaded = TRUE /\ w.activated = FALSE /\ w.date = v.date
        /\ w.busy = view.busy
    BY <1>1 DEF SetupState
  <1>4. load' \in {None} \cup Reading("overrides", ThisMonth)
    <2>1. PICK q : q = Query("overrides", ThisMonth)
      OBVIOUS
    <2>2. q \in Queries /\ q.kind = "overrides" /\ q.of = ThisMonth
      BY <2>1, ScheduleConstantsOK DEF Query, Queries
    <2>3. Effect("overrides", ThisMonth) \in Reading("overrides", ThisMonth)
      BY <2>2, Started
    <2> QED
      BY <2>3 DEF EnterStep
  <1>5. aux' \in {None} \cup Reading("day", w.date) /\ (aux' # None => w.date # None /\ n = 4)
    <2>1. v.date \in {None} \cup Dates
      BY DEF SetupState
    <2> QED
      BY <1>3, <2>1, DayReading DEF EnterStep
  <1>6. SetupOK(w, load', aux') /\ SetupShows(w, aux')
    BY <1>3, <1>4, <1>5 DEF SetupOK, SetupShows
  <1>7. Shown(page, view', load', aux') /\ Keeps(page, view, view')
    BY <1>2, <1>3, <1>6 DEF Shown, Keeps, PageNames, Functional
  <1>8. Functions'
    <2>1. CASE n = 3
      <3>1. PICK f : f = Job(<<>>, Query("count", v.range), None)
        OBVIOUS
      <3>2. w.range = v.range /\ v.range \in Ranges
        BY <1>1 DEF SetupState
      <3>3. Fits(f, page, w) /\ f.mine /\ f.mark = None
        <4>1. Loaded("setup", w)
          BY <1>3 DEF Loaded
        <4> QED
          BY <3>1, <3>2, <4>1, RecountFits
      <3>4. Spawn(f)
        BY <2>1, <3>1 DEF EnterStep, Recount
      <3> QED
        BY <1>2, <1>3, <1>7, <3>3, <3>4, FunctionStarts DEF Functional
    <2>2. CASE n # 3
      <3>1. job' = job
        BY <2>2 DEF EnterStep
      <3> QED
        BY <1>2, <1>3, <1>7, <3>1, FunctionsStay
    <2> QED
      BY <2>1, <2>2
  <1> QED
    BY <1>7, <1>8

LEMMA TurnStepTyped ==
  ASSUME Typed, TurnStep
  PROVE  Typed'
  <1>1. PICK s \in 2 .. 4, n \in 2 .. 4 :
          /\ n \in {s - 1, s + 1} /\ WizardAt(s) /\ (s # 3 => view.busy = None) /\ EnterStep(n, view) /\ saved' = n
    BY DEF TurnStep
  <1>2. page = "setup" /\ view.loaded /\ ~view.activated /\ view.step = s /\ page' = page /\ db' = db
    BY <1>1 DEF TurnStep, WizardAt
  <1>3. SetupOK(view, load, aux) /\ SetupShows(view, aux)
    BY <1>2 DEF Typed, Shown
  <1>4. view \in SetupState /\ (view.step # 4 => view.day = None) /\ view.loaded = TRUE /\ view.activated = FALSE
    <2>1. view \in SetupState /\ (view.step # 4 => view.day = None)
      BY <1>3 DEF SetupOK, SetupShows
    <2>2. view.loaded \in BOOLEAN /\ view.activated \in BOOLEAN
      BY <2>1 DEF SetupState
    <2> QED
      BY <1>2, <2>1, <2>2
  <1>5. n = 4 => view.step # 4
    BY <1>1, <1>2
  <1>6. view.step = 4 /\ ~view.activated => view.busy = None
    BY <1>1, <1>2
  <1>7. Shown(page, view', load', aux') /\ Functions'
    BY <1>1, <1>2, <1>4, <1>5, <1>6, EnterStepTyped DEF Typed
  <1> QED
    BY <1>1, <1>2, <1>7 DEF Typed

LEMMA ActivateTyped ==
  ASSUME Typed, Activate
  PROVE  Typed'
  <1>1. page = "setup" /\ page \in Functional /\ view.loaded /\ ~view.activated /\ view.step = 4 /\ view.busy = None
        /\ Loaded(page, view)
    BY DEF Activate, WizardAt, Functional, Loaded
  <1>2. PICK v, q, r : /\ v = [view EXCEPT !.busy = "yes", !.error = FALSE] /\ q = Query("setting", This)
                       /\ r = Request("complete", This)
    OBVIOUS
  <1>3. Start(<<r>>, q, "yes", v)
    BY <1>2 DEF Activate
  <1>4. Shown(page, v, load, aux) /\ Keeps(page, view, v) /\ v.busy = "yes" /\ "yes" # None
    <2>1. "yes" \in Marks(page) /\ "yes" # None
      BY <1>1, HostConstantsOK DEF Marks
    <2> QED
      BY <1>1, <1>2, <2>1, Pressed
  <1>5. r \in Requests /\ r.op = "complete" /\ q \in Queries /\ q.kind = "setting" /\ q # None
    <2>1. This \in Pages
      BY HostConstantsOK
    <2> QED
      BY <1>2, <2>1, MadeRequests, RequestFields, NoneIsNoRecord DEF Query, Queries
  <1>6. view \in SetupState
    BY <1>1 DEF Typed, Shown, SetupOK
  <1>7. v.step = 4 /\ v.activated = FALSE
    BY <1>1, <1>2, <1>6 DEF SetupState
  <1>8. Fits(Job(<<r>>, q, "yes"), page, v)
    <2>1. r.op \in OpsOn(page) /\ q.kind \in EndsOn(page)
      BY <1>1, <1>5 DEF OpsOn, EndsOn
    <2>2. Loaded(page, v)
      BY <1>1, <1>4 DEF Loaded, Keeps
    <2> QED
      BY <1>1, <1>4, <1>5, <1>7, <2>1, <2>2, OneJobFits
  <1> QED
    BY <1>1, <1>3, <1>4, <1>8, StartTyped

\* An effect that a page starts for what it shows now.
LEMMA RerunTyped ==
  ASSUME Typed, NEW v, NEW effect, Rerun(v, effect), Shown(page, v, effect, aux), Keeps(page, view, v),
         page \in Functional => v.busy = view.busy
  PROVE  Typed'
  <1>1. view' = v /\ load' = effect /\ UNCHANGED <<db, page, aux, job, saved>>
    BY DEF Rerun
  <1>2. Functions'
    BY <1>1, FunctionsStay DEF Typed
  <1> QED
    BY <1>1, <1>2 DEF Typed

LEMMA RangeReading ==
  ASSUME NEW kind \in {"count", "overrides", "calendar"}, NEW r \in Ranges
  PROVE  Effect(kind, r) \in Reading(kind, r) /\ Effect(kind, r) # None
  <1>1. PICK q : q = Query(kind, r)
    OBVIOUS
  <1>2. q \in Queries /\ q.kind = kind /\ q.of = r
    BY <1>1 DEF Query, Queries
  <1> QED
    BY <1>2, Started, ReadingIsSome

LEMMA TurnMonthTyped ==
  ASSUME Typed, TurnMonth
  PROVE  Typed'
  <1>1. page = "setup" /\ view.activated
    BY DEF TurnMonth
  <1>2. PICK m \in Ranges :
          Rerun([view EXCEPT !.month = m, !.calendar = IF @ = None THEN None ELSE [@ EXCEPT !.slots = {}]],
                Effect("calendar", m))
    BY DEF TurnMonth
  <1>3. SetupOK(view, load, aux) /\ SetupShows(view, aux) /\ view \in SetupState
    BY <1>1 DEF Typed, Shown, SetupOK
  <1>4. PICK c : c = IF view.calendar = None THEN None ELSE [view.calendar EXCEPT !.slots = {}]
    OBVIOUS
  <1>5. c \in {None} \cup [overrides: OverrideLists, slots: SlotLists] /\ (c # None => c.slots = {})
    <2>1. {} \in SlotLists
      BY FS_EmptySet DEF SlotLists
    <2>2. view.calendar \in {None} \cup [overrides: OverrideLists, slots: SlotLists]
      BY <1>3 DEF SetupState
    <2> QED
      BY <1>4, <2>1, <2>2
  <1>6. PICK w, e : w = [view EXCEPT !.month = m, !.calendar = c] /\ e = Effect("calendar", m)
    OBVIOUS
  <1>7. Rerun(w, e)
    BY <1>2, <1>3, <1>4, <1>6 DEF SetupState
  <1>8. /\ w \in SetupState /\ w.month = m /\ w.calendar = c
        /\ w.step = view.step /\ w.loaded = view.loaded /\ w.activated = view.activated /\ w.date = view.date
        /\ w.day = view.day /\ w.busy = view.busy /\ w.error = view.error
    BY <1>3, <1>5, <1>6 DEF SetupState
  <1>9. SetupOK(w, e, aux) /\ SetupShows(w, aux)
    BY <1>1, <1>3, <1>5, <1>6, <1>8, RangeReading DEF SetupOK, SetupShows
  <1>10. Shown(page, w, e, aux) /\ Keeps(page, view, w)
    BY <1>1, <1>8, <1>9 DEF Shown, Keeps, PageNames, Functional
  <1> QED
    BY <1>7, <1>8, <1>10, RerunTyped

LEMMA ScheduleActionsTyped ==
  ASSUME Typed, ScheduleActions
  PROVE  Typed'
  BY RuleActionsTyped, SlotActionsTyped, OverrideActionsTyped, TurnStepTyped, ActivateTyped, TurnMonthTyped
     DEF ScheduleActions, WizardActions

----------------------------------------------------------------------------
(* The list of booking pages. *)

LEMMA SetToSeqFacts ==
  ASSUME NEW S, IsFiniteSet(S)
  PROVE  /\ Cardinality(S) \in Nat /\ SetToSeq(S) \in [1 .. Cardinality(S) -> S]
         /\ \A i, j \in 1 .. Cardinality(S) : SetToSeq(S)[i] = SetToSeq(S)[j] => i = j
  <1>1. Cardinality(S) \in Nat /\ ExistsBijection(1 .. Cardinality(S), S)
    BY FS_CardinalityType
  <1>2. \E f \in [1 .. Cardinality(S) -> S] : IsInjective(f)
    BY <1>1 DEF ExistsBijection, Bijection, Injection, IsInjective
  <1>3. SetToSeq(S) \in [1 .. Cardinality(S) -> S] /\ IsInjective(SetToSeq(S))
    BY <1>2 DEF SetToSeq
  <1> QED
    BY <1>1, <1>3 DEF IsInjective

LEMMA FilteredFinite ==
  ASSUME NEW v
  PROVE  Filtered(v) \in SUBSET Pages /\ IsFiniteSet(Filtered(v))
  <1>1. Filtered(v) \in SUBSET Pages
    BY DEF Filtered
  <1> QED
    BY <1>1, HostConstantsOK, FS_Subset

\* The number of the last page is enough for all cards.
LEMMA LastPageFacts ==
  ASSUME NEW v
  PROVE  LET n == Cardinality(Filtered(v)) IN
         /\ n \in Nat /\ LastPage(v) \in Nat \ {0}
         /\ n > 0 => (LastPage(v) - 1) * PageSize < n
  <1>1. PICK n \in Nat : n = Cardinality(Filtered(v))
    BY FilteredFinite, FS_CardinalityType
  <1>2. PICK k \in Nat \ {0} : k = PageSize
    BY PageConstantsOK
  <1>3. PICK m : m = (n + k - 1) \div k
    OBVIOUS
  <1>4. m \in Nat /\ k * m <= n + k - 1
    BY <1>3
  <1>5. LastPage(v) = IF 1 >= m THEN 1 ELSE m
    <2>1. LastPage(v) = Max({1, m})
      BY <1>1, <1>2, <1>3 DEF LastPage
    <2> QED
      BY <1>4, <2>1, MaxOfTwo
  <1>6. ASSUME n > 0 PROVE (LastPage(v) - 1) * k < n
    <2>1. CASE 1 >= m
      BY <1>5, <1>6, <2>1
    <2>2. CASE ~(1 >= m)
      <3>1. k * m - k <= n - 1
        BY <1>4
      <3>2. (m - 1) * k = k * m - k
        BY <1>4
      <3> QED
        BY <1>4, <1>5, <2>2, <3>1, <3>2
    <2> QED
      BY <2>1, <2>2
  <1> QED
    BY <1>1, <1>2, <1>4, <1>5, <1>6

LEMMA CardsArePages ==
  ASSUME NEW v
  PROVE  Cards(v) \in SUBSET Pages
  <1>1. PICK S : S = Filtered(v)
    OBVIOUS
  <1>2. SetToSeq(S) \in [1 .. Cardinality(S) -> S] /\ S \in SUBSET Pages
    BY <1>1, FilteredFinite, SetToSeqFacts
  <1>3. ASSUME NEW p \in Cards(v) PROVE p \in Pages
    <2>1. PICK i \in DOMAIN SetToSeq(S) : p = SetToSeq(S)[i]
      BY <1>1 DEF Cards
    <2> QED
      BY <1>2, <2>1
  <1> QED
    BY <1>3

\* The list of pages is never blank while pages pass the filter: the number is
\* cut to a page that has cards.
LEMMA CardsShown ==
  ASSUME NEW v \in ServicesState, Filtered(v) # {}
  PROVE  Cards(v) # {}
  <1>1. PICK n \in Nat, last \in Nat \ {0}, k \in Nat \ {0} :
          n = Cardinality(Filtered(v)) /\ last = LastPage(v) /\ k = PageSize /\ (n > 0 => (last - 1) * k < n)
    BY LastPageFacts, PageConstantsOK
  <1>2. n > 0
    <2>1. n # 0
      BY <1>1, FilteredFinite, FS_EmptySet
    <2> QED
      BY <2>1
  <1>3. PICK number \in Nat \ {0} : number = (IF v.number > last THEN last ELSE v.number) /\ number <= last
    <2>1. v.number \in Nat \ {0}
      BY DEF ServicesState
    <2> QED
      BY <2>1
  <1>4. PICK i \in Nat : i = (number - 1) * k + 1
    OBVIOUS
  <1>5. (number - 1) * k <= (last - 1) * k
    <2>1. PICK a \in Nat, b \in Nat : a = number - 1 /\ b = last - 1 /\ a <= b
      BY <1>3
    <2>2. a * k <= b * k
      BY <2>1
    <2> QED
      BY <2>1, <2>2
  <1>6. i \in 1 .. n /\ i > (number - 1) * k /\ i <= number * k
    <2>1. number * k = (number - 1) * k + k
      OBVIOUS
    <2> QED
      BY <1>1, <1>2, <1>4, <1>5, <2>1
  <1>7. DOMAIN SetToSeq(Filtered(v)) = 1 .. n
    BY <1>1, FilteredFinite, SetToSeqFacts
  <1>8. SetToSeq(Filtered(v))[i] \in Cards(v)
    BY <1>1, <1>3, <1>6, <1>7 DEF Cards
  <1> QED
    BY <1>8

----------------------------------------------------------------------------
(* The other pages. *)

\* A click that only changes what the page shows.
LEMMA ShowTyped ==
  ASSUME Typed, NEW v, Show(v), Shown(page, v, load, aux), Keeps(page, view, v), page \in Functional => v.busy = view.busy
  PROVE  Typed'
  <1>1. view' = v /\ UNCHANGED <<db, page, load, aux, job, saved>>
    BY DEF Show
  <1>2. Functions'
    BY <1>1, FunctionsStay DEF Typed
  <1> QED
    BY <1>1, <1>2 DEF Typed

\* A click that starts a function of one request.
LEMMA StartOneTyped ==
  ASSUME Typed, page \in Functional \ {"setup"}, NEW r \in Requests, r.op \in OpsOn(page),
         NEW then, then \in {None} \cup Queries, then # None => then.kind \in EndsOn(page),
         page = "edit" => view.form # None,
         \/ \E mark \in Marks(page) : mark # None /\ Start(<<r>>, then, mark, [view EXCEPT !.busy = mark, !.error = FALSE])
         \/ Start(<<r>>, then, None, [view EXCEPT !.error = FALSE])
  PROVE  Typed'
  <1>1. PICK mark, v : /\ Start(<<r>>, then, mark, v) /\ mark \in {None} \cup Marks(page)
                       /\ \/ mark \in Marks(page) /\ mark # None /\ v = [view EXCEPT !.busy = mark, !.error = FALSE]
                          \/ mark = None /\ v = [view EXCEPT !.error = FALSE]
    OBVIOUS
  <1>2. page \in Functional /\ page # "setup" /\ Loaded(page, view)
    BY DEF Loaded
  <1>3. Shown(page, v, load, aux) /\ Keeps(page, view, v) /\ v.busy = IF mark = None THEN view.busy ELSE mark
    <2>1. CASE mark \in Marks(page) /\ mark # None /\ v = [view EXCEPT !.busy = mark, !.error = FALSE]
      BY <1>2, <2>1, Pressed
    <2>2. CASE mark = None /\ v = [view EXCEPT !.error = FALSE]
      BY <1>2, <2>2, PressedUnmarked
    <2> QED
      BY <1>1, <2>1, <2>2
  <1>4. Fits(Job(<<r>>, then, mark), page, v)
    <2>1. mark \in {None, "yes"} \cup Pages \cup Users
      BY <1>1 DEF Marks
    <2>2. Loaded(page, v) /\ (page = "edit" => v.form # None)
      BY <1>2, <1>3 DEF Loaded, Keeps
    <2> QED
      BY <1>2, <2>1, <2>2, OneJobFits
  <1> QED
    BY <1>1, <1>2, <1>3, <1>4, StartTyped

LEMMA ServicesTyped ==
  ASSUME Typed, ChooseStatus \/ ChooseListed \/ Turn \/ DeletePage
  PROVE  Typed'
  <1>1. page = "services" /\ page \in Functional
    BY DEF ChooseStatus, ChooseListed, Turn, DeletePage, Functional
  <1>2. ServicesOK(view, load, aux) /\ view \in ServicesState
    BY <1>1 DEF Typed, Shown, ServicesOK
  <1>3. ASSUME NEW v \in ServicesState, Show(v), v.busy = view.busy PROVE Typed'
    <2>1. Shown(page, v, load, aux) /\ Keeps(page, view, v)
      BY <1>1, <1>2, <1>3 DEF Shown, ServicesOK, Keeps, PageNames
    <2> QED
      BY <1>3, <2>1, ShowTyped
  <1> DEFINE Refiltered(filter) == [view EXCEPT !.filter = filter, !.number = 1]
  <1>4. ASSUME NEW filter \in Filters PROVE Refiltered(filter) \in ServicesState /\ Refiltered(filter).busy = view.busy
    <2>1. PICK n \in Nat \ {0} : n = 1
      OBVIOUS
    <2>2. [view EXCEPT !.filter = filter, !.number = n] \in ServicesState
      BY <1>2 DEF ServicesState
    <2> QED
      BY <1>2, <2>1, <2>2 DEF ServicesState
  <1>5. CASE ChooseStatus
    <2>1. PICK f \in {"draft", "active"} : Show([view EXCEPT !.filter.status = f, !.number = 1])
      BY <1>5 DEF ChooseStatus
    <2>2. PICK filter : filter = [view.filter EXCEPT !.status = f]
      OBVIOUS
    <2>3. filter \in Filters
      BY <1>2, <2>2 DEF ServicesState, Filters
    <2>4. PICK v : v = Refiltered(filter)
      OBVIOUS
    <2>5. v = [view EXCEPT !.filter.status = f, !.number = 1]
      BY <1>2, <2>2, <2>4 DEF ServicesState
    <2>6. v \in ServicesState /\ v.busy = view.busy
      BY <1>4, <2>3, <2>4
    <2> QED
      BY <1>3, <2>1, <2>5, <2>6
  <1>6. CASE ChooseListed
    <2>1. PICK f \in {"listed", "unlisted"} : Show([view EXCEPT !.filter.listed = f, !.number = 1])
      BY <1>6 DEF ChooseListed
    <2>2. PICK filter : filter = [view.filter EXCEPT !.listed = f]
      OBVIOUS
    <2>3. filter \in Filters
      BY <1>2, <2>2 DEF ServicesState, Filters
    <2>4. PICK v : v = Refiltered(filter)
      OBVIOUS
    <2>5. v = [view EXCEPT !.filter.listed = f, !.number = 1]
      BY <1>2, <2>2, <2>4 DEF ServicesState
    <2>6. v \in ServicesState /\ v.busy = view.busy
      BY <1>4, <2>3, <2>4
    <2> QED
      BY <1>3, <2>1, <2>5, <2>6
  <1>7. CASE Turn
    <2>1. PICK n : n \in 1 .. LastPage(view) /\ Show([view EXCEPT !.number = n])
      BY <1>7 DEF Turn
    <2>2. n \in Nat \ {0}
      BY <2>1, LastPageFacts
    <2>3. PICK v : v = [view EXCEPT !.number = n]
      OBVIOUS
    <2>4. v \in ServicesState /\ v.busy = view.busy
      BY <1>2, <2>2, <2>3 DEF ServicesState
    <2> QED
      BY <1>3, <2>1, <2>3, <2>4
  <1>8. CASE DeletePage
    <2>1. PICK p \in Cards(view) : Start(<<Request("delete", p)>>, None, p, [view EXCEPT !.busy = p, !.error = FALSE])
      BY <1>8 DEF DeletePage
    <2>2. p \in Pages
      BY CardsArePages
    <2>3. PICK r : r = Request("delete", p)
      OBVIOUS
    <2>4. r \in Requests /\ r.op \in OpsOn(page)
      BY <1>1, <2>2, <2>3, MadeRequests, RequestFields DEF OpsOn
    <2>5. p \in Marks(page) /\ p # None /\ None \in {None} \cup Queries
      BY <1>1, <2>2, HostConstantsOK DEF Marks
    <2>6. Start(<<r>>, None, p, [view EXCEPT !.busy = p, !.error = FALSE])
      BY <2>1, <2>3
    <2> QED
      BY <1>1, <2>4, <2>5, <2>6, StartOneTyped
  <1> QED
    BY <1>5, <1>6, <1>7, <1>8

LEMMA EditingTyped ==
  ASSUME Typed, Create \/ Type \/ Save \/ ActivatePage \/ Discard
  PROVE  Typed'
  <1> USE HostConstantsOK
  <1>1. page \in {"new", "edit"} /\ page \in Functional
    BY DEF Create, Type, Save, ActivatePage, Discard, Editing, Functional
  <1>2. CASE Create
    <2>1. PICK s \in Slugs, m \in Durations, l \in BOOLEAN :
            Start(<<Request("create", [slug |-> s, mins |-> m, listed |-> l])>>, None, "yes",
                  [view EXCEPT !.busy = "yes", !.error = FALSE])
      BY <1>2 DEF Create
    <2>2. page = "new"
      BY <1>2 DEF Create
    <2>3. PICK w, r : w = [slug |-> s, mins |-> m, listed |-> l] /\ r = Request("create", w)
      OBVIOUS
    <2>4. w \in [slug: STRING, mins: Nat \ {0}, listed: BOOLEAN]
      BY <2>3, PageConstantsOK
    <2>5. r \in Requests /\ r.op \in OpsOn(page)
      BY <2>2, <2>3, <2>4, MadeRequests, RequestFields DEF OpsOn
    <2>6. Start(<<r>>, None, "yes", [view EXCEPT !.busy = "yes", !.error = FALSE]) /\ "yes" \in Marks(page) /\ "yes" # None
      BY <2>1, <2>2, <2>3 DEF Marks
    <2>7. None \in {None} \cup Queries
      OBVIOUS
    <2> QED
      BY <1>1, <2>2, <2>5, <2>6, <2>7, StartOneTyped
  <1>3. ASSUME Editing PROVE page = "edit" /\ view \in EditState /\ view.form \in Settings /\ view.id \in Pages
    BY <1>3 DEF Typed, Shown, EditOK, EditState, Editing
  <1>4. CASE Type
    <2>1. PICK s \in Slugs, m \in Durations, l \in BOOLEAN :
            Show([view EXCEPT !.form.slug = s, !.form.mins = m, !.form.listed = l])
      BY <1>4 DEF Type
    <2>2. Editing
      BY <1>4 DEF Type
    <2>3. PICK form : form = [view.form EXCEPT !.slug = s, !.mins = m, !.listed = l]
      OBVIOUS
    <2>4. form \in Settings /\ form # None
      <3>1. form \in Settings
        BY <1>3, <2>2, <2>3, PageConstantsOK DEF Settings
      <3> QED
        BY <3>1, NoneIsNoRecord
    <2>5. PICK v : v = [view EXCEPT !.form = form]
      OBVIOUS
    <2>6. Show(v)
      <3>1. [view EXCEPT !.form.slug = s, !.form.mins = m, !.form.listed = l] = v
        BY <1>3, <2>2, <2>3, <2>5 DEF EditState, Settings
      <3> QED
        BY <2>1, <3>1
    <2>7. v \in EditState /\ v.id = view.id /\ v.form # None /\ v.busy = view.busy
      BY <1>3, <2>2, <2>4, <2>5 DEF EditState
    <2>8. Shown(page, v, load, aux) /\ Keeps(page, view, v)
      BY <1>3, <2>2, <2>7 DEF Typed, Shown, EditOK, Keeps, Editing
    <2> QED
      BY <2>6, <2>7, <2>8, ShowTyped
  <1>5. CASE Save
    <2>1. Editing /\ Start(<<Request("update", [page |-> view.id, form |-> view.form])>>, None, "yes",
                           [view EXCEPT !.busy = "yes", !.error = FALSE])
      BY <1>5 DEF Save
    <2>2. PICK w, r : w = [page |-> view.id, form |-> view.form] /\ r = Request("update", w)
      OBVIOUS
    <2>3. w \in [page: Pages, form: Settings]
      BY <1>3, <2>1, <2>2
    <2>4. r \in Requests /\ r.op \in OpsOn(page)
      BY <1>3, <2>1, <2>2, <2>3, MadeRequests, RequestFields DEF OpsOn
    <2>5. Start(<<r>>, None, "yes", [view EXCEPT !.busy = "yes", !.error = FALSE]) /\ "yes" \in Marks(page) /\ "yes" # None
      BY <1>3, <2>1, <2>2 DEF Marks
    <2>6. None \in {None} \cup Queries /\ view.form # None
      BY <2>1 DEF Editing
    <2> QED
      BY <1>1, <1>3, <2>1, <2>4, <2>5, <2>6, StartOneTyped
  <1>6. ASSUME NEW op \in {"activate", "discard"}, Editing,
               Start(<<Request(op, view.id)>>, None, None, [view EXCEPT !.error = FALSE])
        PROVE  Typed'
    <2>1. PICK r : r = Request(op, view.id)
      OBVIOUS
    <2>2. r \in Requests /\ r.op \in OpsOn(page)
      BY <1>3, <1>6, <2>1, MadeRequests, RequestFields DEF OpsOn
    <2>3. None \in {None} \cup Queries /\ view.form # None /\ Start(<<r>>, None, None, [view EXCEPT !.error = FALSE])
      BY <1>6, <2>1 DEF Editing
    <2> QED
      BY <1>1, <1>3, <1>6, <2>2, <2>3, StartOneTyped
  <1>7. CASE ActivatePage \/ Discard
    BY <1>6, <1>7 DEF ActivatePage, Discard
  <1> QED
    BY <1>2, <1>4, <1>5, <1>7

\* A row of the dashboard's day.
LEMMA RowFacts ==
  ASSUME NEW v, v.bookings \in BookingLists, NEW s
  PROVE  /\ RowOf(v, s).booking \in {None} \cup Books
         /\ RowOf(v, s).booking # None =>
              v.bookings[RowOf(v, s).booking] # None /\ RowOf(v, s).state = v.bookings[RowOf(v, s).booking].status
  <1>0. PICK active : active = ActiveAt(v.bookings, At(s))
    OBVIOUS
  <1>1. active = ActiveAt(v.bookings, At(s)) /\ \A b \in active : b \in Books /\ v.bookings[b] # None
    BY <1>0 DEF ActiveAt
  <1>2. CASE s.status # "BOOKED" \/ active = {}
    BY <1>1, <1>2 DEF RowOf
  <1>3. CASE s.status = "BOOKED" /\ active # {}
    <2>1. PICK b : b = CHOOSE x \in active : TRUE
      OBVIOUS
    <2>2. b \in active
      BY <1>3, <2>1
    <2>3. RowOf(v, s) = [state |-> v.bookings[b].status, booking |-> b]
      BY <1>1, <1>3, <2>1 DEF RowOf
    <2> QED
      BY <1>1, <2>2, <2>3
  <1> QED
    BY <1>2, <1>3

LEMMA DashboardTyped ==
  ASSUME Typed, ChooseDay \/ OpenBookingModal \/ CloseBookingModal
  PROVE  Typed'
  <1>1. page = "dashboard" /\ page \notin Functional
    BY DEF ChooseDay, OpenBookingModal, CloseBookingModal, ShowsSchedule, Functional
  <1>2. DashboardOK(view, load, aux) /\ view \in DashboardState
    BY <1>1 DEF Typed, Shown, DashboardOK
  <1>3. ASSUME NEW v \in DashboardState, Show(v), v.slots = view.slots, v.bookings = view.bookings, v.row = view.row,
               v.day # None => view.day # None
        PROVE  Typed'
    <2>1. Shown(page, v, load, aux) /\ Keeps(page, view, v)
      BY <1>1, <1>2, <1>3 DEF Shown, DashboardOK, Keeps, PageNames
    <2> QED
      BY <1>1, <1>3, <2>1, ShowTyped
  <1>4. CASE ChooseDay
    <2>1. PICK d \in Dates : Show([view EXCEPT !.day = d]) /\ view.day # None
      BY <1>4 DEF ChooseDay
    <2>2. PICK v : v = [view EXCEPT !.day = d]
      OBVIOUS
    <2>3. v \in DashboardState /\ v.slots = view.slots /\ v.bookings = view.bookings /\ v.row = view.row
      BY <1>2, <2>2 DEF DashboardState
    <2> QED
      BY <1>3, <2>1, <2>2, <2>3
  <1>5. ASSUME NEW m \in {None} \cup Books, Show([view EXCEPT !.modal = m]) PROVE Typed'
    <2>1. PICK v : v = [view EXCEPT !.modal = m]
      OBVIOUS
    <2>2. /\ v \in DashboardState /\ v.slots = view.slots /\ v.bookings = view.bookings /\ v.row = view.row
          /\ v.day = view.day
      BY <1>2, <2>1 DEF DashboardState
    <2> QED
      BY <1>3, <1>5, <2>1, <2>2
  <1>6. CASE OpenBookingModal
    <2>1. PICK b \in {r.booking : r \in RowsOf(view)} \ {None, view.modal} : Show([view EXCEPT !.modal = b])
      BY <1>6 DEF OpenBookingModal
    <2>2. view.bookings \in BookingLists
      BY <1>2, <1>6 DEF DashboardOK, DashboardState, OpenBookingModal, ShowsSchedule
    <2>3. b \in Books
      <3>1. PICK s : b = RowOf(view, s).booking
        BY DEF RowsOf
      <3> QED
        BY <2>2, <3>1, RowFacts
    <2> QED
      BY <1>5, <2>1, <2>3
  <1>7. CASE CloseBookingModal
    BY <1>5, <1>7 DEF CloseBookingModal
  <1> QED
    BY <1>4, <1>6, <1>7

LEMMA BookingsTyped ==
  ASSUME Typed, FilterBookings \/ DecideBooking \/ RejectWithoutReason
  PROVE  Typed'
  <1>1. CASE FilterBookings
    <2>1. PICK f \in {"ALL", "PENDING", "CONFIRMED"} : Rerun([view EXCEPT !.filter = f], Effect("bookings", f))
      BY <1>1 DEF FilterBookings
    <2>2. page = "bookings" /\ page \notin Functional
      BY <1>1 DEF FilterBookings, Functional
    <2>3. PICK v, e, q : v = [view EXCEPT !.filter = f] /\ e = Effect("bookings", f) /\ q = Query("bookings", f)
      OBVIOUS
    <2>4. q \in Queries /\ q.kind = "bookings" /\ q.of = f
      BY <2>3 DEF Query, Queries
    <2>5. e \in Reading("bookings", f) /\ e # None
      BY <2>3, <2>4, Started, ReadingIsSome
    <2>6. view \in BookingsState /\ aux = None
      BY <2>2 DEF Typed, Shown, BookingsOK
    <2>7. v \in BookingsState /\ v.filter = f
      BY <2>3, <2>6 DEF BookingsState
    <2>8. Shown(page, v, e, aux) /\ Keeps(page, view, v)
      BY <2>2, <2>5, <2>6, <2>7 DEF Shown, BookingsOK, BookingsShow, Keeps, PageNames
    <2> QED
      BY <2>1, <2>2, <2>3, <2>8, RerunTyped
  <1>2. ASSUME page = "booking" PROVE view \in BookingState /\ view.id \in Books
    BY <1>2 DEF Typed, Shown, BookingOK, BookingState
  <1>3. CASE DecideBooking
    <2>1. PICK op \in {"approve", "reject"} :
            Start(<<Request(op, view.id)>>, Query("detail", view.id), "yes", [view EXCEPT !.busy = "yes", !.error = FALSE])
      BY <1>3 DEF DecideBooking
    <2>2. page = "booking" /\ page \in Functional
      BY <1>3 DEF DecideBooking, Functional
    <2>3. PICK r, q : r = Request(op, view.id) /\ q = Query("detail", view.id)
      OBVIOUS
    <2>4. r \in Requests /\ r.op \in OpsOn(page)
      BY <1>2, <2>2, <2>3, MadeRequests, RequestFields DEF OpsOn
    <2>5. q \in Queries /\ q.kind \in EndsOn(page)
      BY <1>2, <2>2, <2>3 DEF Query, Queries, EndsOn
    <2>6. Start(<<r>>, q, "yes", [view EXCEPT !.busy = "yes", !.error = FALSE]) /\ "yes" \in Marks(page) /\ "yes" # None
      BY <2>1, <2>2, <2>3, HostConstantsOK DEF Marks
    <2> QED
      BY <2>2, <2>4, <2>5, <2>6, StartOneTyped
  <1>4. CASE RejectWithoutReason
    <2>1. page = "booking" /\ page \in Functional /\ Loaded(page, view) /\ Show([view EXCEPT !.error = TRUE])
      BY <1>4 DEF RejectWithoutReason, Functional, Loaded
    <2> QED
      BY <2>1, ShowError DEF Show
  <1> QED
    BY <1>1, <1>3, <1>4

\* The function that reads the pending requests.
LEMMA PendingFits ==
  ASSUME NEW v
  PROVE  Fits(Pending, "admin", v) /\ Pending.mine /\ Pending.mark = None /\ Pending # None
  <1>1. PICK q : q = Query("pending", None)
    OBVIOUS
  <1>2. q \in Queries /\ q.kind = "pending" /\ q # None
    BY <1>1, NoneIsNoRecord DEF Query, Queries
  <1>3. <<>> \in Seq(Requests) /\ DOMAIN <<>> = {} /\ "pending" \in EndsOn("admin") /\ Loaded("admin", v)
    BY DEF EndsOn, Loaded
  <1>4. Fits(Job(<<>>, q, None), "admin", v) /\ Job(<<>>, q, None).mine /\ Job(<<>>, q, None).mark = None
    BY <1>2, <1>3, NewJobFits
  <1> QED
    BY <1>1, <1>4, FitsIsSome DEF Pending

LEMMA AdminTyped ==
  ASSUME Typed, DecideUser \/ Retry
  PROVE  Typed'
  <1>1. page = "admin" /\ page \in Functional /\ Shown("admin", view, load, aux)
    BY DEF DecideUser, Retry, Functional, Typed
  <1>2. CASE DecideUser
    <2>1. PICK u \in view.items, verdict \in {"approved", "rejected"} :
            Start(<<Request("decide", [user |-> u, verdict |-> verdict])>>, Query("pending", None), u,
                  [view EXCEPT !.busy = u, !.error = FALSE])
      BY <1>2 DEF DecideUser
    <2>2. u \in Users
      <3>1. view.items # None
        BY <1>2 DEF DecideUser
      <3> QED
        BY <1>1, <3>1 DEF Shown, AdminOK, AdminState
    <2>3. PICK w, r, q : w = [user |-> u, verdict |-> verdict] /\ r = Request("decide", w) /\ q = Query("pending", None)
      OBVIOUS
    <2>4. w \in [user: Users, verdict: {"approved", "rejected"}]
      BY <2>2, <2>3
    <2>5. r \in Requests /\ r.op \in OpsOn(page)
      BY <1>1, <2>3, <2>4, MadeRequests, RequestFields DEF OpsOn
    <2>6. q \in Queries /\ q.kind \in EndsOn(page)
      BY <1>1, <2>3 DEF Query, Queries, EndsOn
    <2>7. u \in Marks(page) /\ u # None /\ Start(<<r>>, q, u, [view EXCEPT !.busy = u, !.error = FALSE])
      BY <1>1, <2>1, <2>2, <2>3, HostConstantsOK DEF Marks
    <2> QED
      BY <1>1, <2>5, <2>6, <2>7, StartOneTyped
  <1>3. CASE Retry
    <2>1. view' = [view EXCEPT !.loading = TRUE, !.error = FALSE] /\ Spawn(Pending) /\ UNCHANGED <<db, page, load, aux, saved>>
      BY <1>3 DEF Retry
    <2>2. PICK v : v = [view EXCEPT !.loading = TRUE, !.error = FALSE]
      OBVIOUS
    <2>3. Shown(page, v, load, aux) /\ Keeps(page, view, v) /\ v.busy = view.busy
      BY <1>1, <2>2, AdminShown
    <2>4. Functions'
      BY <1>1, <2>1, <2>2, <2>3, PendingFits, FunctionStarts DEF Typed
    <2> QED
      BY <2>1, <2>2, <2>3, <2>4 DEF Typed
  <1> QED
    BY <1>2, <1>3

LEMMA PageActionsTyped ==
  ASSUME Typed, PageActions
  PROVE  Typed'
  BY ServicesTyped, EditingTyped, DashboardTyped, BookingsTyped, AdminTyped DEF PageActions

----------------------------------------------------------------------------
(* Mounting a page. *)

LEMMA MountedSchedule ==
  ASSUME NEW p, MountSchedule(p)
  PROVE  page' = p /\ Shown(page', view', load', aux') /\ page' \in Functional /\ view'.busy = None
  <1>1. CASE p = "rules" /\ Mounted(p, RulesView, Effect("rules", None), None)
    <2>1. PICK q : q = Query("rules", None)
      OBVIOUS
    <2>2. q \in Queries /\ Effect(q.kind, q.of) \in Reading(q.kind, q.of) /\ q.kind = "rules" /\ q.of = None
      BY <2>1, Started DEF Query, Queries
    <2>3. RulesView \in RulesState /\ RulesView.busy = None
      BY DEF RulesView, RulesState
    <2> QED
      BY <1>1, <2>2, <2>3 DEF Mounted, Shown, RulesOK, PageNames, Functional
  <1>2. CASE p = "slots" /\ Mounted(p, SlotsView, Effect("count", ThisMonth), None)
    <2>1. Effect("count", ThisMonth) \in Reading("count", ThisMonth)
      BY ScheduleConstantsOK, RangeReading
    <2>2. SlotsView \in SlotsState /\ SlotsView.busy = None /\ SlotsView.range = ThisMonth
      BY ScheduleConstantsOK DEF SlotsView, SlotsState
    <2> QED
      BY <1>2, <2>1, <2>2 DEF Mounted, Shown, SlotsOK, PageNames, Functional
  <1>3. CASE p = "overrides" /\ Mounted(p, OverridesView, Effect("overrides", ThisMonth), None)
    <2>1. Effect("overrides", ThisMonth) \in Reading("overrides", ThisMonth)
      BY ScheduleConstantsOK, RangeReading
    <2>2. OverridesView \in OverridesState /\ OverridesView.busy = None
      BY DEF OverridesView, OverridesState
    <2> QED
      BY <1>3, <2>1, <2>2 DEF Mounted, Shown, OverridesOK, PageNames, Functional
  <1>4. CASE p = "setup" /\ Mounted(p, SetupView, Effect("wizard", None), None)
    <2>1. PICK q : q = Query("wizard", None)
      OBVIOUS
    <2>2. q \in Queries /\ q.kind = "wizard" /\ q.of = None
      BY <2>1 DEF Query, Queries
    <2>3. Effect("wizard", None) \in Reading("wizard", None) /\ Effect("wizard", None) # None
      BY <2>2, Started, ReadingIsSome
    <2>4. PICK v : v = SetupView
      OBVIOUS
    <2>5. v \in SetupState
      BY <2>4, ScheduleConstantsOK DEF SetupView, SetupState
    <2>6. /\ v.busy = None /\ v.loaded = FALSE /\ v.step = 2 /\ v.day = None /\ v.date = None /\ v.activated = FALSE
          /\ v.error = FALSE
      BY <2>4 DEF SetupView
    <2>7. view' = v /\ load' = Effect("wizard", None) /\ aux' = None /\ page' = "setup"
      BY <1>4, <2>4 DEF Mounted
    <2>8. SetupOK(view', load', aux')
      BY <2>3, <2>5, <2>6, <2>7 DEF SetupOK
    <2>9. SetupShows(view', aux')
      BY <2>6, <2>7 DEF SetupShows
    <2> QED
      BY <1>4, <2>6, <2>7, <2>8, <2>9 DEF Shown, PageNames, Functional
  <1> QED
    BY <1>1, <1>2, <1>3, <1>4 DEF MountSchedule

LEMMA LinkedAreBookings ==
  Linked \subseteq Books
  BY DEF Linked, Todo

LEMMA MountedPage ==
  ASSUME NEW p, MountPage(p)
  PROVE  page' = p /\ Shown(page', view', load', aux') /\ (page' \in Functional => view'.busy = None)
  <1>1. This \in Pages
    BY HostConstantsOK
  <1>2. /\ Effect("settings", None) \in Reading("settings", None)
        /\ Effect("setting", This) \in Reading("setting", This) /\ Effect("preview", This) \in Reading("preview", This)
        /\ Effect("bookings", "ALL") \in Reading("bookings", "ALL") /\ Effect("bookings", "ALL") # None
        /\ \A b \in Books : Effect("detail", b) \in Reading("detail", b)
    <2>1. \A kind, of : Query(kind, of).kind = kind /\ Query(kind, of).of = of
      BY DEF Query
    <2>2. /\ Query("settings", None) \in Queries /\ Query("setting", This) \in Queries /\ Query("preview", This) \in Queries
          /\ Query("bookings", "ALL") \in Queries /\ \A b \in Books : Query("detail", b) \in Queries
      BY <1>1 DEF Query, Queries
    <2>3. \A q \in Queries : Effect(q.kind, q.of) \in Reading(q.kind, q.of) /\ Effect(q.kind, q.of) # None
      BY Started, ReadingIsSome
    <2> QED
      BY <2>1, <2>2, <2>3
  <1>3. CASE p = "home" /\ Mounted(p, HomeView, Effect("settings", None), None)
    <2>1. HomeView \in HomeState
      BY DEF HomeView, HomeState
    <2> QED
      BY <1>2, <1>3, <2>1 DEF Mounted, Shown, HomeOK, PageNames, Functional
  <1>4. CASE p = "services" /\ Mounted(p, ServicesView, Effect("settings", None), None)
    <2>1. ServicesView \in ServicesState /\ ServicesView.busy = None
      BY DEF ServicesView, ServicesState, NoFilter, Filters
    <2> QED
      BY <1>2, <1>4, <2>1 DEF Mounted, Shown, ServicesOK, PageNames, Functional
  <1>5. CASE p = "new" /\ Mounted(p, NewView, None, None)
    <2>1. NewView \in NewState /\ NewView.busy = None
      BY DEF NewView, NewState
    <2> QED
      BY <1>5, <2>1 DEF Mounted, Shown, NewOK, PageNames, Functional
  <1>6. CASE p = "edit" /\ Mounted(p, EditView(This), Effect("setting", This), Effect("preview", This))
    <2>1. EditView(This) \in EditState /\ EditView(This).busy = None /\ EditView(This).id = This
      BY <1>1 DEF EditView, EditState
    <2> QED
      BY <1>2, <1>6, <2>1 DEF Mounted, Shown, EditOK, PageNames, Functional
  <1>7. CASE p = "dashboard" /\ \E key \in {"id", "slug"} : Mounted(p, DashboardView(This, key), Effect("settings", None), None)
    <2>1. PICK key \in {"id", "slug"} : Mounted(p, DashboardView(This, key), Effect("settings", None), None)
      BY <1>7
    <2>2. PICK v : v = DashboardView(This, key)
      OBVIOUS
    <2>3. v \in DashboardState /\ v.slots = None /\ v.day = None
      BY <1>1, <2>2 DEF DashboardView, DashboardState
    <2>4. view' = v /\ load' = Effect("settings", None) /\ aux' = None /\ page' = "dashboard"
      BY <1>7, <2>1, <2>2 DEF Mounted
    <2> QED
      BY <1>2, <1>7, <2>3, <2>4 DEF Shown, DashboardOK, PageNames, Functional
  <1>8. CASE p = "bookings" /\ Mounted(p, BookingsView, Effect("bookings", "ALL"), None)
    <2>1. BookingsView \in BookingsState /\ BookingsView.filter = "ALL"
      BY DEF BookingsView, BookingsState
    <2> QED
      BY <1>2, <1>8, <2>1 DEF Mounted, Shown, BookingsOK, BookingsShow, PageNames, Functional
  <1>9. CASE p = "booking" /\ \E b \in Linked : Mounted(p, BookingView(b), Effect("detail", b), None)
    <2>1. PICK b \in Books : Mounted(p, BookingView(b), Effect("detail", b), None)
      BY <1>9, LinkedAreBookings
    <2>2. BookingView(b) \in BookingState /\ BookingView(b).busy = None /\ BookingView(b).id = b
      BY DEF BookingView, BookingState
    <2> QED
      BY <1>2, <1>9, <2>1, <2>2 DEF Mounted, Shown, BookingOK, PageNames, Functional
  <1>10. CASE p = "admin" /\ Mounted(p, AdminView, None, None)
    <2>1. AdminView \in AdminState /\ AdminView.busy = None
      BY DEF AdminView, AdminState
    <2> QED
      BY <1>10, <2>1 DEF Mounted, Shown, AdminOK, PageNames, Functional
  <1>11. CASE p = "elsewhere" /\ Mounted(p, None, None, None)
    BY <1>11 DEF Mounted, Shown, PageNames, Functional
  <1> QED
    BY <1>3, <1>4, <1>5, <1>6, <1>7, <1>8, <1>9, <1>10, <1>11 DEF MountPage

\* What the last page has started goes on without it.
LEMMA MountTyped ==
  ASSUME Typed, db' \in Database, NEW jobs, DOMAIN jobs = JobIds,
         \A j \in JobIds : jobs[j] # None => jobs[j] = job[j], NEW p, Mount(p, jobs)
  PROVE  Typed'
  <1>1. PICK q : MountSchedule(q) \/ MountPage(q)
    BY DEF Mount
  <1>2. Shown(page', view', load', aux') /\ (page' \in Functional => view'.busy = None)
    BY <1>1, MountedSchedule, MountedPage
  <1>3. PICK left : left = Orphaned(jobs)
    OBVIOUS
  <1>4. DOMAIN left = JobIds
    BY <1>3 DEF Orphaned
  <1>5. ASSUME NEW j \in JobIds, left[j] # None PROVE Fits(left[j], page', view') /\ ~left[j].mine
    <2>1. jobs[j] # None /\ left[j] = [jobs[j] EXCEPT !.mine = FALSE]
      BY <1>3, <1>5 DEF Orphaned
    <2>2. Fits(jobs[j], page, view)
      BY <2>1 DEF Typed, Functions
    <2> QED
      BY <2>1, <2>2, OrphanFits
  <1>6. Functions'
    <2>1. CASE page' = "admin"
      <3>1. PICK i \in JobIds : job' = [left EXCEPT ![i] = Pending]
        BY <1>3, <2>1 DEF Mount
      <3>2. DOMAIN job' = JobIds /\ job'[i] = Pending /\ \A j \in JobIds : j # i => job'[j] = left[j]
        BY <1>4, <3>1
      <3>3. \A j \in JobIds : job'[j] # None => Fits(job'[j], page', view')
        BY <1>5, <2>1, <3>2, PendingFits
      <3> QED
        BY <1>2, <2>1, <3>2, <3>3 DEF Functions, OneMarked, BusyWith
    <2>2. CASE page' # "admin"
      <3>1. job' = left
        BY <1>3, <2>2 DEF Mount
      <3> QED
        BY <1>2, <1>4, <1>5, <3>1 DEF Functions, OneMarked, BusyWith, Marked, Mine
    <2> QED
      BY <2>1, <2>2
  <1> QED
    BY <1>2, <1>6 DEF Typed, Mount

LEMMA ClicksTyped ==
  ASSUME Typed, Clicks
  PROVE  Typed'
  <1>1. ASSUME Open PROVE Typed'
    <2>1. PICK p : Mount(p, job)
      BY <1>1 DEF Open
    <2>2. db' = db
      BY <1>1 DEF Open
    <2> QED
      BY <2>1, <2>2, MountTyped DEF Typed, Functions
  <1> QED
    BY <1>1, ScheduleActionsTyped, PageActionsTyped DEF Clicks

----------------------------------------------------------------------------
(* The functions run. *)

\* The request that a function makes, and the ones after it.
LEMMA NextRequest ==
  ASSUME NEW f, NEW p, NEW v, Fits(f, p, v), f.todo # <<>>
  PROVE  /\ Head(f.todo) \in Requests /\ Head(f.todo) = f.todo[1] /\ 1 \in DOMAIN f.todo
         /\ f.mine => Head(f.todo).op \in OpsOn(p)
         /\ Tail(f.todo) \in Seq(Requests) /\ Len(f.todo) = Len(Tail(f.todo)) + 1
         /\ \A n \in DOMAIN Tail(f.todo) : /\ n + 1 \in DOMAIN f.todo /\ Tail(f.todo)[n] = f.todo[n + 1]
                                           /\ Tail(f.todo)[n].op \in {"rule", "unrule"}
         /\ Tail(f.todo) # <<>> => f.then # None
         /\ f.data = None
  <1>1. f.todo \in Seq(Requests)
    BY DEF Fits, JobOK, Jobs
  <1>2. PICK s, t : s = f.todo /\ t = Tail(f.todo)
    OBVIOUS
  <1>3. /\ Head(s) \in Requests /\ Head(s) = s[1] /\ 1 \in DOMAIN s
        /\ t \in Seq(Requests) /\ Len(s) = Len(t) + 1 /\ Len(t) \in Nat /\ DOMAIN t = 1 .. Len(t)
        /\ DOMAIN s = 1 .. Len(s)
        /\ \A n \in DOMAIN t : t[n] = s[n + 1]
    BY <1>1, <1>2
  <1>4. ASSUME NEW n \in DOMAIN t PROVE n + 1 \in DOMAIN s /\ n + 1 > 1
    BY <1>3
  <1>5. \A n \in DOMAIN t : t[n].op \in {"rule", "unrule"}
    BY <1>2, <1>3, <1>4 DEF Fits
  <1>6. t # <<>> => f.then # None
    BY <1>2, <1>3 DEF Fits, JobOK
  <1>7. f.data = None
    BY DEF Fits, JobOK
  <1>8. f.mine => s[1].op \in OpsOn(p)
    BY <1>2, <1>3 DEF Fits, JobOK
  <1> QED
    BY <1>2, <1>3, <1>4, <1>5, <1>6, <1>7, <1>8

\* A function with other requests to make.
LEMMA RequestsChange ==
  ASSUME NEW f, NEW p, NEW v, Fits(f, p, v), f.todo # <<>>, NEW todo \in Seq(Requests),
         f.then = None => Len(todo) = 1,
         \A n \in DOMAIN todo : todo[n].op # "complete" /\ (n > 1 => todo[n].op \in {"rule", "unrule"}),
         f.mine => \A n \in DOMAIN todo : todo[n].op \in OpsOn(p)
  PROVE  LET g == [f EXCEPT !.todo = todo] IN Fits(g, p, v) /\ g.mine = f.mine /\ g.mark = f.mark /\ g.then = f.then
  <1>1. PICK g : g = [f EXCEPT !.todo = todo]
    OBVIOUS
  <1>2. f \in Jobs(f.then) /\ f.then \in {None} \cup Queries /\ f.data = None
    BY NextRequest DEF Fits, JobOK
  <1>3. /\ g.todo = todo /\ g.then = f.then /\ g.mark = f.mark /\ g.data = f.data /\ g.mine = f.mine
        /\ g \in Jobs(f.then)
    BY <1>1, <1>2 DEF Jobs
  <1>4. g.mark = "lost" => ~g.mine /\ g.then = None
    BY <1>3 DEF Fits, JobOK
  <1>5. g.mine => (\A n \in DOMAIN g.todo : g.todo[n].op \in OpsOn(p)) /\ (g.then # None => g.then.kind \in EndsOn(p))
    BY <1>3 DEF Fits, JobOK
  <1>6. JobOK(g, p)
    BY <1>2, <1>3, <1>4, <1>5 DEF JobOK
  <1>7. ASSUME g.mine, p = "setup"
        PROVE  /\ v.loaded
               /\ g.mark # None => v.busy # None
               /\ g.todo # <<>> /\ g.todo[1].op = "complete" => g.mark # None /\ v.step = 4 /\ ~v.activated
    <2>1. g.todo # <<>> => 1 \in DOMAIN todo
      BY <1>3
    <2> QED
      BY <1>3, <1>7, <2>1 DEF Fits
  <1>8. g.mine /\ p = "edit" => v.form # None
    BY <1>3 DEF Fits
  <1> QED
    BY <1>1, <1>3, <1>6, <1>7, <1>8 DEF Fits

\* The view of the other functions' page, when function j has changed it.
LEMMA OthersFit ==
  ASSUME Functions, NEW w, Keeps(page, view, w), page \in Functional => w.busy = view.busy,
         NEW i \in JobIds, job[i] # None
  PROVE  Fits(job[i], page, w)
  <1>1. Fits(job[i], page, view)
    BY DEF Functions
  <1>2. page = "setup" /\ job[i].mine /\ job[i].mark # None => w.busy # None
    BY <1>1 DEF Fits, Functional
  <1> QED
    BY <1>1, <1>2, FitsKept

LEMMA KeepsItself ==
  ASSUME NEW p, NEW v
  PROVE  Keeps(p, v, v)
  BY DEF Keeps

\* A handler of several steps has made one.
LEMMA SecondTypes ==
  ASSUME db \in Database, NEW r \in Requests, Accepts(r), r.op \in TwoSteps
  PROVE  /\ Second(r) \in Requests /\ Second(r).op \in {"insert", "grant", "confirm", "reopen", "close"}
         /\ \A p : r.op \in OpsOn(p) => Second(r).op \in OpsOn(p)
  <1>1. CASE r.op = "generate"
    <2>1. r.what \in Ranges
      BY <1>1, RequestTypes
    <2>2. PICK S \in SlotLists : S = Missing(r.what)
      BY <1>1, <2>1, MissingTypes DEF Accepts
    <2>3. Second(r) = Request("insert", S)
      BY <1>1, <2>2 DEF Second
    <2>4. \A p : "generate" \in OpsOn(p) => "insert" \in OpsOn(p)
      BY DEF OpsOn
    <2> QED
      BY <1>1, <2>2, <2>3, <2>4, MadeRequests, RequestFields
  <1>2. CASE r.op = "decide"
    <2>1. r.what \in [user: Users, verdict: {"approved", "rejected"}]
      BY <1>2, RequestTypes
    <2>2. Second(r) = Request("grant", r.what)
      BY <1>2 DEF Second
    <2>3. \A p : "decide" \in OpsOn(p) => "grant" \in OpsOn(p)
      BY DEF OpsOn
    <2> QED
      BY <1>2, <2>1, <2>2, <2>3, MadeRequests, RequestFields
  <1>3. CASE r.op \in {"approve", "reject", "reopen"}
    <2>1. r.what \in Books
      BY <1>3, RequestTypes
    <2>2. PICK w : w = [book |-> r.what, frees |-> Frees(r.what)]
      OBVIOUS
    <2>3. Frees(r.what) \in BOOLEAN
      BY DEF Frees
    <2>4. w \in [book: Books, frees: BOOLEAN]
      BY <2>1, <2>2, <2>3
    <2>5. /\ r.op = "approve" => Second(r) = Request("confirm", r.what)
          /\ r.op = "reject" => Second(r) = Request("reopen", r.what)
          /\ r.op = "reopen" => Second(r) = Request("close", w)
      BY <2>2 DEF Second
    <2>6. \A p : r.op \in OpsOn(p) => {"confirm", "reopen", "close"} \subseteq OpsOn(p)
      BY <1>3 DEF OpsOn
    <2> QED
      BY <1>3, <2>1, <2>4, <2>5, <2>6, MadeRequests, RequestFields
  <1> QED
    BY <1>1, <1>2, <1>3 DEF TwoSteps

\* The overrides of the wizard's last step that are still being read.
LEMMA DetachedFits ==
  ASSUME NEW l \in Reading("overrides", ThisMonth), NEW v, v.loaded
  PROVE  LET f == [Job(<<>>, Query(l.kind, l.of), None) EXCEPT !.data = l.data]
         IN Fits(f, "setup", v) /\ f.mine /\ f.mark = None /\ f.todo = <<>>
  <1>1. PICK q, f : q = Query(l.kind, l.of) /\ f = [Job(<<>>, q, None) EXCEPT !.data = l.data]
    OBVIOUS
  <1>2. l.kind = "overrides" /\ l.of = ThisMonth /\ l.data \in Data("overrides", ThisMonth)
    BY DEF Reading
  <1>3. q \in Queries /\ q.kind = "overrides" /\ q.of = ThisMonth /\ q # None
    BY <1>1, <1>2, ScheduleConstantsOK, NoneIsNoRecord DEF Query, Queries
  <1>4. /\ f.todo = <<>> /\ f.then = q /\ f.mark = None /\ f.data = l.data /\ f.mine = TRUE
        /\ f = [todo |-> <<>>, then |-> q, mark |-> None, data |-> l.data, mine |-> TRUE]
    BY <1>1 DEF Job
  <1>5. f \in Jobs(q)
    BY <1>2, <1>3, <1>4 DEF Jobs
  <1>6. "lost" # None /\ "overrides" \in EndsOn("setup") /\ DOMAIN <<>> = {}
    BY HostConstantsOK DEF EndsOn
  <1>7. JobOK(f, "setup")
    BY <1>3, <1>4, <1>5, <1>6 DEF JobOK
  <1> QED
    BY <1>1, <1>4, <1>6, <1>7 DEF Fits

\* A function goes on, and an effect becomes one more function.
LEMMA FunctionIsJoined ==
  ASSUME Functions, page' = page, NEW j \in JobIds, job[j] # None, NEW g, NEW i \in JobIds, NEW h,
         [job EXCEPT ![j] = g][i] = None, job' = [[job EXCEPT ![j] = g] EXCEPT ![i] = h],
         h.mine, h.mark = None, Fits(h, page, view'),
         g.mine = job[j].mine, g.mark = job[j].mark, Fits(g, page, view'),
         \A k \in JobIds \ {j} : job[k] # None => Fits(job[k], page, view'),
         page \in Functional => view'.busy = view.busy
  PROVE  Functions'
  <1> USE DEF Functions
  <1>1. g # None /\ h # None
    BY FitsIsSome
  <1>2. i # j /\ job[i] = None
    BY <1>1
  <1>3. DOMAIN job' = JobIds /\ job'[j] = g /\ job'[i] = h /\ \A k \in JobIds : k # j /\ k # i => job'[k] = job[k]
    BY <1>2
  <1>4. \A k \in JobIds : k # i => (Mine(k)' <=> Mine(k)) /\ (Mine(k) => job'[k].mark = job[k].mark)
    BY <1>1, <1>3 DEF Mine
  <1>5. ~Mine(i) /\ ~Marked(i)'
    BY <1>2, <1>3 DEF Mine, Marked
  <1>6. \A k \in JobIds : job'[k] # None => Fits(job'[k], page', view')
    BY <1>3
  <1>7. \A k \in JobIds : Marked(k)' => Marked(k)
    BY <1>4, <1>5 DEF Marked
  <1>8. OneMarked'
    BY <1>7 DEF OneMarked
  <1>9. BusyWith'
    BY <1>4, <1>5 DEF BusyWith
  <1> QED
    BY <1>3, <1>6, <1>8, <1>9

\* The answer to complete-setup shows the calendar; no other function of the
\* wizard can be completing it.
LEMMA ActivationTyped ==
  ASSUME Typed, NEW j \in JobIds, Mine(j), job[j].todo # <<>>, Head(job[j].todo).op = "complete",
         NEW g, Fits(g, page, view), g.todo # <<>> => g.todo[1].op # "complete",
         g.mine = job[j].mine, g.mark = job[j].mark,
         Detached([job EXCEPT ![j] = g]), view' = Activated(view), load' = Effect("calendar", ThisMonth),
         UNCHANGED <<page, aux>>
  PROVE  Shown(page', view', load', aux') /\ Functions'
  <1>1. Fits(job[j], page, view) /\ page \in Functional
    BY FunctionRuns
  <1>2. job[j].todo[1].op = "complete" /\ page = "setup"
    BY <1>1, NextRequest DEF Mine, OpsOn, Functional
  <1>3. view.loaded /\ view.busy # None /\ job[j].mark # None /\ view.step = 4 /\ ~view.activated
    BY <1>1, <1>2 DEF Fits, Mine
  <1>4. SetupOK(view, load, aux) /\ SetupShows(view, aux) /\ view \in SetupState
    BY <1>2 DEF Typed, Shown, SetupOK
  <1>5. PICK w : w = Activated(view)
    OBVIOUS
  <1>6. /\ w \in SetupState /\ w.activated = TRUE /\ w.step = 4 /\ w.loaded = TRUE /\ w.month = ThisMonth
        /\ w.calendar = None /\ w.day = view.day /\ w.date = view.date /\ w.busy = view.busy
    <2>1. ThisMonth \in Ranges
      BY ScheduleConstantsOK
    <2>2. w \in SetupState
      BY <1>4, <1>5, <2>1 DEF Activated, SetupState
    <2>3. /\ w.activated = TRUE /\ w.step = view.step /\ w.loaded = view.loaded /\ w.month = ThisMonth
          /\ w.calendar = None /\ w.day = view.day /\ w.date = view.date /\ w.busy = view.busy
      BY <1>4, <1>5 DEF Activated, SetupState
    <2> QED
      BY <1>3, <1>4, <2>2, <2>3 DEF SetupState
  <1>7. Effect("calendar", ThisMonth) \in Reading("calendar", ThisMonth)
    BY ScheduleConstantsOK, RangeReading
  <1>8. Shown(page', view', load', aux')
    <2>1. SetupOK(w, load', aux)
      BY <1>3, <1>4, <1>6, <1>7 DEF SetupOK
    <2>2. SetupShows(w, aux)
      BY <1>4, <1>6 DEF SetupShows
    <2> QED
      BY <1>2, <1>5, <2>1, <2>2 DEF Shown, PageNames, Functional
  <1>9. ASSUME NEW i \in JobIds \ {j}, job[i] # None PROVE Fits(job[i], page, w)
    <2>1. Fits(job[i], page, view)
      BY <1>9 DEF Typed, Functions
    <2>2. ASSUME job[i].mine, job[i].todo # <<>>, job[i].todo[1].op = "complete" PROVE FALSE
      <3>1. job[i].mark # None
        BY <1>2, <2>1, <2>2 DEF Fits
      <3> QED
        BY <1>2, <1>3, <1>9, <2>2, <3>1 DEF Typed, Functions, OneMarked, Marked, Mine
    <2> QED
      BY <1>2, <1>3, <1>6, <2>1, <2>2 DEF Fits
  <1>10. Fits(g, page, w)
    BY <1>2, <1>3, <1>6 DEF Fits
  <1>11. CASE load = None
    <2>1. job' = [job EXCEPT ![j] = g]
      BY <1>11 DEF Detached
    <2> QED
      BY <1>1, <1>5, <1>6, <1>8, <1>9, <1>10, <2>1, FunctionGoesOn DEF Typed, Mine
  <1>12. CASE load # None
    <2>1. PICK h : h = [Job(<<>>, Query(load.kind, load.of), None) EXCEPT !.data = load.data]
      OBVIOUS
    <2>2. PICK i \in JobIds : [job EXCEPT ![j] = g][i] = None /\ job' = [[job EXCEPT ![j] = g] EXCEPT ![i] = h]
      BY <1>12, <2>1 DEF Detached
    <2>3. load \in Reading("overrides", ThisMonth)
      BY <1>3, <1>4, <1>12 DEF SetupOK
    <2>4. Fits(h, page, w) /\ h.mine /\ h.mark = None
      BY <1>2, <1>6, <2>1, <2>3, DetachedFits
    <2>5. page \in Functional => view'.busy = view.busy
      BY <1>5, <1>6
    <2>6. \A k \in JobIds \ {j} : job[k] # None => Fits(job[k], page, view')
      BY <1>5, <1>9
    <2>7. Functions /\ job[j] # None
      BY DEF Typed, Mine
    <2>8. Functions'
      BY <1>5, <1>10, <2>2, <2>4, <2>5, <2>6, <2>7, FunctionIsJoined
    <2> QED
      BY <1>8, <2>8
  <1> QED
    BY <1>11, <1>12

LEMMA ServeTyped ==
  ASSUME Typed, NEW j \in JobIds, Serve(j)
  PROVE  Typed'
  <1>1. PICK r, rest : r = Head(job[j].todo) /\ rest = Tail(job[j].todo)
    OBVIOUS
  <1>2. job[j] # None /\ job[j].todo # <<>> /\ Accepts(r) /\ Fits(job[j], page, view)
    BY <1>1 DEF Serve, Typed, Functions
  <1>3. /\ r \in Requests /\ r = job[j].todo[1] /\ (job[j].mine => r.op \in OpsOn(page))
        /\ rest \in Seq(Requests) /\ (\A n \in DOMAIN rest : rest[n].op \in {"rule", "unrule"})
        /\ (rest # <<>> => job[j].then # None)
        /\ \A n \in DOMAIN rest : job[j].mine => rest[n].op \in OpsOn(page)
    BY <1>1, <1>2, NextRequest DEF Fits, JobOK
  <1>4. CASE r.op \in TwoSteps
    <2>1. /\ job' = [job EXCEPT ![j].todo = <<Second(r)>> \o rest]
          /\ UNCHANGED <<db, page, view, load, aux, saved>>
      BY <1>1, <1>4 DEF Serve
    <2>2. PICK x \in Requests : /\ x = Second(r) /\ x.op \in {"insert", "grant", "confirm", "reopen", "close"}
                                /\ \A p : r.op \in OpsOn(p) => x.op \in OpsOn(p)
      BY <1>2, <1>3, <1>4, SecondTypes DEF Typed
    <2>3. PICK todo : todo = <<x>> \o rest
      OBVIOUS
    <2>4. /\ todo \in Seq(Requests) /\ todo[1] = x /\ Len(todo) = Len(rest) + 1
          /\ \A n \in DOMAIN todo : n # 1 => n - 1 \in DOMAIN rest /\ todo[n] = rest[n - 1]
      BY <1>3, <2>3
    <2>5. \A n \in DOMAIN todo : todo[n].op # "complete" /\ (n > 1 => todo[n].op \in {"rule", "unrule"})
      BY <1>3, <2>2, <2>4
    <2>6. job[j].mine => \A n \in DOMAIN todo : todo[n].op \in OpsOn(page)
      BY <1>3, <2>2, <2>4
    <2>7. job[j].then = None => Len(todo) = 1
      BY <1>3, <2>4
    <2>8. PICK g : g = [job[j] EXCEPT !.todo = todo]
      OBVIOUS
    <2>9. Fits(g, page, view) /\ g.mine = job[j].mine /\ g.mark = job[j].mark
      BY <1>2, <2>4, <2>5, <2>6, <2>7, <2>8, RequestsChange
    <2>10. job' = [job EXCEPT ![j] = g]
      BY <2>1, <2>2, <2>3, <2>8 DEF Typed, Functions
    <2>11. Functions'
      BY <1>2, <2>1, <2>9, <2>10, FunctionGoesOn DEF Typed, Functions
    <2> QED
      BY <2>1, <2>11 DEF Typed
  <1>5. CASE r.op \notin TwoSteps
    <2>1. db' \in Database
      BY <1>1, <1>2, <1>3, <1>5, ServedTypes DEF Serve, Typed
    <2>2. CASE rest # <<>> \/ job[j].then # None
      <3>1. PICK jobs : /\ jobs = [job EXCEPT ![j].todo = rest] /\ WizardAfter(PageAfter(view, r), r, j, jobs)
                        /\ UNCHANGED <<page, saved>>
        BY <1>1, <1>5, <2>2 DEF Serve
      <3>2. PICK g : g = [job[j] EXCEPT !.todo = rest]
        OBVIOUS
      <3>3. job[j].then # None
        BY <1>3, <2>2
      <3>4. Fits(g, page, view) /\ g.mine = job[j].mine /\ g.mark = job[j].mark /\ g.todo = rest
        <4>1. \A n \in DOMAIN rest : rest[n].op # "complete" /\ (n > 1 => rest[n].op \in {"rule", "unrule"})
          BY <1>3
        <4>2. job[j] \in Jobs(job[j].then)
          BY <1>2 DEF Fits, JobOK
        <4>3. g.todo = rest
          BY <3>2, <4>2 DEF Jobs
        <4> QED
          BY <1>2, <1>3, <3>2, <3>3, <4>1, <4>3, RequestsChange
      <3>5. jobs = [job EXCEPT ![j] = g]
        BY <3>1, <3>2 DEF Typed, Functions
      <3>6. CASE r.op = "complete" /\ job[j].mine
        <4>1. page = "setup" /\ PageAfter(view, r) = view
          <5>1. page \in Functional
            BY <1>2, <3>6, FunctionRuns DEF Mine
          <5> QED
            BY <1>3, <3>6, <5>1 DEF OpsOn, Functional, PageAfter
        <4>2. rest # <<>> => rest[1].op # "complete"
          <5>1. rest # <<>> => 1 \in DOMAIN rest
            BY <1>3
          <5> QED
            BY <1>3, <5>1
        <4>3. view' = Activated(view) /\ load' = Effect("calendar", ThisMonth) /\ aux' = aux /\ Detached(jobs)
          BY <3>1, <3>6, <4>1 DEF WizardAfter
        <4>4. Shown(page', view', load', aux') /\ Functions'
          BY <1>1, <1>2, <3>1, <3>4, <3>5, <3>6, <4>2, <4>3, ActivationTyped DEF Mine
        <4> QED
          BY <2>1, <3>1, <4>4 DEF Typed
      <3>7. CASE ~(r.op = "complete" /\ job[j].mine)
        <4>1. /\ UNCHANGED <<load, aux>> /\ job' = jobs
              /\ view' = IF job[j].mine THEN PageAfter(view, r) ELSE view
          BY <3>1, <3>7 DEF WizardAfter, MyView
        <4>2. Shown(page, view', load, aux) /\ Keeps(page, view, view') /\ view'.busy = view.busy
          BY <1>2, <1>3, <4>1, AfterShown, KeepsItself DEF Typed, Mine
        <4>3. Fits(g, page, view')
          <5>1. page = "setup" /\ g.mine /\ g.mark # None => view'.busy # None
            BY <3>4, <4>2 DEF Fits
          <5> QED
            BY <3>4, <4>2, <5>1, FitsKept
        <4>4. \A i \in JobIds \ {j} : job[i] # None => Fits(job[i], page, view')
          BY <4>2, OthersFit DEF Typed
        <4>5. Functions'
          BY <1>2, <3>1, <3>4, <3>5, <4>1, <4>2, <4>3, <4>4, FunctionGoesOn DEF Typed
        <4> QED
          BY <2>1, <3>1, <4>1, <4>2, <4>5 DEF Typed
      <3> QED
        BY <3>6, <3>7
    <2>3. CASE rest = <<>> /\ job[j].then = None /\ LeadsTo(r) # None /\ job[j].mark # "lost"
      <3>1. Mount(LeadsTo(r), [job EXCEPT ![j] = None])
        BY <1>1, <1>5, <2>3 DEF Serve
      <3>2. PICK jobs : jobs = [job EXCEPT ![j] = None]
        OBVIOUS
      <3>3. DOMAIN jobs = JobIds /\ \A i \in JobIds : jobs[i] # None => jobs[i] = job[i]
        BY <3>2 DEF Typed, Functions
      <3> QED
        BY <2>1, <3>1, <3>2, <3>3, MountTyped
    <2>4. CASE rest = <<>> /\ job[j].then = None /\ ~(LeadsTo(r) # None /\ job[j].mark # "lost")
      <3>1. Ended(j) /\ MyView(j, Unmarked(PageAfter(view, r), j)) /\ UNCHANGED <<page, load, aux, saved>>
        BY <1>1, <1>5, <2>4 DEF Serve
      <3>2. Mine(j) => /\ Shown(page, view', load, aux) /\ Keeps(page, view, view')
                       /\ view'.busy = IF job[j].mark = None THEN view.busy ELSE None
        <4>1. PICK w : w = PageAfter(view, job[j].todo[1])
          OBVIOUS
        <4>2. ASSUME Mine(j) PROVE Shown(page, w, load, aux) /\ Keeps(page, view, w) /\ w.busy = view.busy
          BY <1>2, <4>1, <4>2, AfterShown
        <4>3. Mine(j) => view' = Unmarked(w, j)
          BY <1>3, <3>1, <4>1 DEF MyView, Mine
        <4> QED
          BY <4>2, <4>3, UnmarkedShown
      <3>3. ~Mine(j) => view' = view
        BY <1>2, <3>1 DEF MyView, Mine
      <3>4. job' = [job EXCEPT ![j] = None]
        BY <3>1 DEF Ended
      <3>5. Functions'
        BY <1>2, <3>1, <3>2, <3>3, <3>4, FunctionEnds DEF Typed
      <3> QED
        BY <2>1, <3>1, <3>2, <3>3, <3>5 DEF Typed
    <2> QED
      BY <2>2, <2>3, <2>4
  <1> QED
    BY <1>4, <1>5

LEMMA RefuseTyped ==
  ASSUME Typed, NEW j \in JobIds, Refuse(j)
  PROVE  Typed'
  <1>1. /\ job[j] # None /\ Ended(j) /\ MyView(j, Failed(view, j))
        /\ UNCHANGED <<db, page, load, aux, saved>>
    BY DEF Refuse
  <1>2. Mine(j) => /\ Shown(page, view', load, aux) /\ Keeps(page, view, view')
                   /\ view'.busy = IF job[j].mark = None THEN view.busy ELSE None
    BY <1>1, FailedShown DEF MyView, Mine
  <1>3. ~Mine(j) => view' = view
    BY <1>1 DEF MyView, Mine
  <1>4. job' = [job EXCEPT ![j] = None]
    BY <1>1 DEF Ended
  <1>5. Functions'
    BY <1>1, <1>2, <1>3, <1>4, FunctionEnds DEF Typed
  <1> QED
    BY <1>1, <1>2, <1>3, <1>5 DEF Typed

\* The request that a page has given up.
LEMMA LostFits ==
  ASSUME NEW r \in Requests, NEW p, NEW v
  PROVE  LET g == [todo |-> <<r>>, then |-> None, mark |-> "lost", data |-> None, mine |-> FALSE]
         IN Fits(g, p, v) /\ ~g.mine
  <1>1. PICK g : g = [todo |-> <<r>>, then |-> None, mark |-> "lost", data |-> None, mine |-> FALSE]
    OBVIOUS
  <1>2. /\ g.todo = <<r>> /\ g.then = None /\ g.mark = "lost" /\ g.data = None /\ g.mine = FALSE
        /\ g \in Jobs(None)
    BY <1>1 DEF Jobs
  <1>3. Len(g.todo) = 1 /\ DOMAIN g.todo = {1}
    BY <1>2
  <1>4. JobOK(g, p)
    BY <1>2, <1>3 DEF JobOK
  <1> QED
    BY <1>1, <1>2, <1>3, <1>4 DEF Fits

LEMMA BreakTyped ==
  ASSUME Typed, NEW j \in JobIds, Break(j)
  PROVE  Typed'
  <1>1. /\ job[j] # None /\ MyView(j, Failed(view, j))
        /\ UNCHANGED <<db, page, load, aux, saved>>
    BY DEF Break
  <1>2. Mine(j) => /\ Shown(page, view', load, aux) /\ Keeps(page, view, view')
                   /\ view'.busy = IF job[j].mark = None THEN view.busy ELSE None
    BY <1>1, FailedShown DEF MyView, Mine
  <1>3. ~Mine(j) => view' = view
    BY <1>1 DEF MyView, Mine
  <1>4. PICK g : job' = [job EXCEPT ![j] = g] /\ (g = None \/ (Fits(g, page, view') /\ ~g.mine))
    <2>1. CASE Ended(j)
      BY <2>1 DEF Ended
    <2>2. CASE ~Ended(j)
      <3>1. PICK g : /\ g = [todo |-> <<Head(job[j].todo)>>, then |-> None, mark |-> "lost", data |-> None, mine |-> FALSE]
                     /\ job' = [job EXCEPT ![j] = g] /\ job[j].todo # <<>>
        BY <2>2 DEF Break
      <3>2. Head(job[j].todo) \in Requests
        BY <1>1, <3>1, NextRequest DEF Typed, Functions
      <3>3. Fits(g, page, view') /\ ~g.mine
        BY <3>1, <3>2, LostFits
      <3> QED
        BY <3>1, <3>3
    <2> QED
      BY <2>1, <2>2
  <1>5. Functions'
    BY <1>1, <1>2, <1>3, <1>4, FunctionEnds DEF Typed
  <1> QED
    BY <1>1, <1>2, <1>3, <1>5 DEF Typed

LEMMA ServeThenTyped ==
  ASSUME Typed, NEW j \in JobIds, ServeThen(j)
  PROVE  Typed'
  <1>1. /\ job[j] # None /\ job[j].todo = <<>> /\ job[j].data = None
        /\ UNCHANGED <<db, page, load, aux, saved>>
    BY DEF ServeThen
  <1>2. Fits(job[j], page, view) /\ job[j].then # None /\ job[j].then \in Queries
    <2>1. Fits(job[j], page, view)
      BY <1>1 DEF Typed, Functions
    <2>2. JobOK(job[j], page)
      BY <2>1 DEF Fits
    <2>3. job[j].then # None
      BY <1>1, <2>2 DEF JobOK
    <2> QED
      BY <2>1, <2>2, <2>3 DEF JobOK
  <1>3. CASE Answers(job[j].then.kind, job[j].then.of)
    <2>1. PICK data : data = <<Answer(job[j].then.kind, job[j].then.of)>>
      OBVIOUS
    <2>2. data \in Data(job[j].then.kind, job[j].then.of)
      <3>1. Answer(job[j].then.kind, job[j].then.of) \in Answered(job[j].then.kind, job[j].then.of)
        BY <1>2, <1>3, AnswerTypes DEF Typed
      <3> QED
        BY <2>1, <3>1 DEF Data
    <2>3. PICK g : g = [job[j] EXCEPT !.data = data]
      OBVIOUS
    <2>4. job' = [job EXCEPT ![j] = g] /\ view' = view
      BY <1>3, <2>1, <2>3 DEF ServeThen, Typed, Functions
    <2>5. job[j] \in Jobs(job[j].then)
      BY <1>2 DEF Fits, JobOK
    <2>6. /\ g \in Jobs(job[j].then) /\ g.todo = job[j].todo /\ g.then = job[j].then /\ g.mark = job[j].mark
          /\ g.mine = job[j].mine
      BY <1>2, <2>2, <2>3, <2>5 DEF Jobs
    <2>7. Fits(g, page, view)
      <3>1. JobOK(g, page)
        BY <1>1, <1>2, <2>6 DEF Fits, JobOK
      <3> QED
        BY <1>1, <1>2, <2>6, <3>1 DEF Fits
    <2>8. \A i \in JobIds \ {j} : job[i] # None => Fits(job[i], page, view')
      BY <2>4 DEF Typed, Functions
    <2>9. Functions'
      BY <1>1, <2>4, <2>6, <2>7, <2>8, FunctionGoesOn DEF Typed
    <2> QED
      BY <1>1, <2>4, <2>9 DEF Typed
  <1>4. CASE ~Answers(job[j].then.kind, job[j].then.of)
    <2>1. Ended(j) /\ MyView(j, Failed(view, j))
      BY <1>4 DEF ServeThen
    <2>2. Mine(j) => /\ Shown(page, view', load, aux) /\ Keeps(page, view, view')
                     /\ view'.busy = IF job[j].mark = None THEN view.busy ELSE None
      BY <2>1, FailedShown DEF MyView, Mine
    <2>3. ~Mine(j) => view' = view
      BY <1>1, <2>1 DEF MyView, Mine
    <2>4. job' = [job EXCEPT ![j] = None]
      BY <2>1 DEF Ended
    <2>5. Functions'
      BY <1>1, <2>2, <2>3, <2>4, FunctionEnds DEF Typed
    <2> QED
      BY <1>1, <2>2, <2>3, <2>5 DEF Typed
  <1> QED
    BY <1>3, <1>4

LEMMA ThenArrivesTyped ==
  ASSUME Typed, NEW j \in JobIds, ThenArrives(j)
  PROVE  Typed'
  <1>1. /\ job[j] # None /\ job[j].data # None /\ Ended(j) /\ MyView(j, Unmarked(ThenShown(view, j), j))
        /\ UNCHANGED <<db, page, load, aux>> /\ saved' \in {None, saved}
    BY DEF ThenArrives
  <1>2. Mine(j) => /\ Shown(page, view', load, aux) /\ Keeps(page, view, view')
                   /\ view'.busy = IF job[j].mark = None THEN view.busy ELSE None
    BY <1>1, ThenShownShown DEF MyView, Mine
  <1>3. ~Mine(j) => view' = view
    BY <1>1 DEF MyView, Mine
  <1>4. job' = [job EXCEPT ![j] = None]
    BY <1>1 DEF Ended
  <1>5. Functions'
    BY <1>1, <1>2, <1>3, <1>4, FunctionEnds DEF Typed
  <1> QED
    BY <1>1, <1>2, <1>3, <1>5 DEF Typed

LEMMA FunctionTyped ==
  ASSUME Typed, Function
  PROVE  Typed'
  BY ServeTyped, RefuseTyped, BreakTyped, ServeThenTyped, ThenArrivesTyped DEF Function

----------------------------------------------------------------------------
(* The effects run. *)

\* What the effect of page p asks while the page shows v.
Loads(p, v) ==
  CASE p = "rules"     -> Query("rules", None)
    [] p = "slots"     -> Query("count", v.range)
    [] p = "overrides" -> Query("overrides", ThisMonth)
    [] p = "setup"     -> IF ~v.loaded THEN Query("wizard", None)
                          ELSE IF v.activated THEN Query("calendar", v.month) ELSE Query("overrides", ThisMonth)
    [] p \in {"home", "services", "dashboard"} -> Query("settings", None)
    [] p = "edit"      -> Query("setting", v.id)
    [] p = "bookings"  -> Query("bookings", v.filter)
    [] p = "booking"   -> Query("detail", v.id)

LEMMA QueryFields ==
  ASSUME NEW kind, NEW of PROVE Query(kind, of).kind = kind /\ Query(kind, of).of = of
  BY DEF Query

LEMMA LoadsQuery ==
  ASSUME NEW p, NEW v, NEW l, NEW a, Shown(p, v, l, a), l # None
  PROVE  LET q == Loads(p, v)
         IN /\ q \in Queries /\ l \in Reading(q.kind, q.of)
            /\ \A e \in Reading(q.kind, q.of) : Shown(p, v, e, a)
            /\ p \in {"rules", "slots", "overrides", "setup", "home", "services", "dashboard", "edit", "bookings", "booking"}
  <1>1. PICK q : q = Loads(p, v)
    OBVIOUS
  <1>2. ASSUME NEW e, e \in Reading(q.kind, q.of), q \in Queries PROVE e # None
    BY <1>2, ReadingIsSome
  <1>3. CASE p = "rules"
    <2>1. q = Query("rules", None) /\ q \in Queries /\ q.kind = "rules" /\ q.of = None
      BY <1>1, <1>3 DEF Loads, Query, Queries
    <2> QED
      BY <1>1, <1>3, <2>1 DEF Shown, RulesOK
  <1>4. CASE p = "slots"
    <2>1. v.range \in Ranges
      BY <1>4 DEF Shown, SlotsOK, SlotsState
    <2>2. q \in Queries /\ q.kind = "count" /\ q.of = v.range
      BY <1>1, <1>4, <2>1 DEF Loads, Query, Queries
    <2> QED
      BY <1>1, <1>4, <2>2 DEF Shown, SlotsOK
  <1>5. CASE p = "overrides"
    <2>1. q \in Queries /\ q.kind = "overrides" /\ q.of = ThisMonth
      BY <1>1, <1>5, ScheduleConstantsOK DEF Loads, Query, Queries
    <2> QED
      BY <1>1, <1>5, <2>1 DEF Shown, OverridesOK
  <1>6. CASE p = "setup"
    <2>1. SetupOK(v, l, a) /\ SetupShows(v, a) /\ v.month \in Ranges /\ v.loaded \in BOOLEAN /\ v.activated \in BOOLEAN
      BY <1>6 DEF Shown, SetupOK, SetupState
    <2>2. /\ q \in Queries
          /\ ~v.loaded => q.kind = "wizard" /\ q.of = None
          /\ v.loaded /\ ~v.activated => q.kind = "overrides" /\ q.of = ThisMonth
          /\ v.activated => v.loaded /\ q.kind = "calendar" /\ q.of = v.month
      <3>1. /\ Query("wizard", None) \in Queries /\ Query("overrides", ThisMonth) \in Queries
            /\ Query("calendar", v.month) \in Queries
        BY <2>1, ScheduleConstantsOK DEF Query, Queries
      <3>2. CASE ~v.loaded
        <4>1. ~v.activated
          BY <2>1, <3>2 DEF SetupOK
        <4> QED
          BY <1>1, <1>6, <2>1, <3>1, <3>2, <4>1, QueryFields DEF Loads
      <3>3. CASE v.loaded
        BY <1>1, <1>6, <2>1, <3>1, <3>3, QueryFields DEF Loads
      <3> QED
        BY <3>2, <3>3
    <2>3. l \in Reading(q.kind, q.of)
      BY <2>1, <2>2 DEF SetupOK
    <2>4. ASSUME NEW e \in Reading(q.kind, q.of) PROVE SetupOK(v, e, a)
      <3>1. ~v.loaded => v.error = FALSE /\ a = None
        BY <2>1 DEF SetupOK, SetupState
      <3>2. e # None
        BY <1>2, <2>2, <2>4
      <3> QED
        BY <2>1, <2>2, <2>4, <3>1, <3>2 DEF SetupOK
    <2> QED
      BY <1>1, <1>6, <2>1, <2>2, <2>3, <2>4 DEF Shown
  <1>7. CASE p \in {"home", "services", "dashboard"}
    <2>1. q \in Queries /\ q.kind = "settings" /\ q.of = None
      BY <1>1, <1>7 DEF Loads, Query, Queries
    <2> QED
      BY <1>1, <1>7, <2>1 DEF Shown, HomeOK, ServicesOK, DashboardOK
  <1>8. CASE p = "edit"
    <2>1. v.id \in Pages
      BY <1>8 DEF Shown, EditOK, EditState
    <2>2. q \in Queries /\ q.kind = "setting" /\ q.of = v.id
      BY <1>1, <1>8, <2>1 DEF Loads, Query, Queries
    <2> QED
      BY <1>1, <1>8, <2>2 DEF Shown, EditOK
  <1>9. CASE p = "bookings"
    <2>1. v.filter \in {"ALL", "PENDING", "CONFIRMED"}
      BY <1>9 DEF Shown, BookingsOK, BookingsState
    <2>2. q \in Queries /\ q.kind = "bookings" /\ q.of = v.filter
      BY <1>1, <1>9, <2>1 DEF Loads, Query, Queries
    <2>3. ASSUME NEW e \in Reading(q.kind, q.of) PROVE BookingsOK(v, e, a) /\ BookingsShow(v, e)
      <3>1. e # None
        BY <1>2, <2>2, <2>3
      <3> QED
        BY <1>9, <2>2, <2>3, <3>1 DEF Shown, BookingsOK, BookingsShow
    <2> QED
      BY <1>1, <1>9, <2>2, <2>3 DEF Shown, BookingsOK
  <1>10. CASE p = "booking"
    <2>1. v.id \in Books
      BY <1>10 DEF Shown, BookingOK, BookingState
    <2>2. q \in Queries /\ q.kind = "detail" /\ q.of = v.id
      BY <1>1, <1>10, <2>1 DEF Loads, Query, Queries
    <2> QED
      BY <1>1, <1>10, <2>2 DEF Shown, BookingOK
  <1>11. CASE p \in {"new", "admin", "elsewhere"}
    BY <1>11 DEF Shown, NewOK, AdminOK
  <1> QED
    BY <1>3, <1>4, <1>5, <1>6, <1>7, <1>8, <1>9, <1>10, <1>11 DEF Shown, PageNames, Functional

\* An effect that changes what the page shows, and starts nothing.
LEMMA EffectTyped ==
  ASSUME Typed, UNCHANGED <<db, page, job, saved>>, Shown(page, view', load', aux'), Keeps(page, view, view'),
         page \in Functional => view'.busy = view.busy
  PROVE  Typed'
  <1>1. Functions'
    BY FunctionsStay DEF Typed
  <1> QED
    BY <1>1 DEF Typed

LEMMA ServeLoadTyped ==
  ASSUME Typed, ServeLoad
  PROVE  Typed'
  <1>1. /\ load # None /\ Answers(load.kind, load.of) /\ load' = [load EXCEPT !.data = <<Answer(load.kind, load.of)>>]
        /\ UNCHANGED <<db, page, view, aux, job, saved>>
    BY DEF ServeLoad, NotLoading
  <1>2. PICK q \in Queries : load \in Reading(q.kind, q.of) /\ \A e \in Reading(q.kind, q.of) : Shown(page, view, e, aux)
    BY <1>1, LoadsQuery DEF Typed
  <1>3. load' \in Reading(q.kind, q.of)
    BY <1>1, <1>2, ReadingServed DEF Typed
  <1> QED
    BY <1>1, <1>2, <1>3, EffectTyped, KeepsItself

\* The effects beside it: the wizard's slots of a day, the preview of the
\* form, the schedule of the dashboard.
LEMMA AuxQuery ==
  ASSUME Typed, aux # None
  PROVE  \/ page = "setup" /\ aux \in Reading("day", view.date) /\ Query("day", view.date) \in Queries /\ aux.kind = "day"
         \/ page = "edit" /\ aux \in Reading("preview", view.id) /\ Query("preview", view.id) \in Queries /\ aux.kind = "preview"
         \/ page = "dashboard" /\ aux \in ScheduleReading /\ aux.kind = "schedule"
  <1>1. CASE page = "setup"
    <2>1. aux \in Reading("day", view.date) /\ view.date \in Dates
      BY <1>1 DEF Typed, Shown, SetupOK, SetupState
    <2> QED
      BY <1>1, <2>1 DEF Query, Queries, Reading
  <1>2. CASE page = "edit"
    <2>1. aux \in Reading("preview", view.id) /\ view.id \in Pages
      BY <1>2 DEF Typed, Shown, EditOK, EditState
    <2> QED
      BY <1>2, <2>1 DEF Query, Queries, Reading
  <1>3. CASE page = "dashboard"
    BY <1>3 DEF Typed, Shown, DashboardOK, ScheduleReading
  <1>4. CASE page \notin {"setup", "edit", "dashboard"}
    BY <1>4 DEF Typed, Shown, RulesOK, SlotsOK, OverridesOK, HomeOK, ServicesOK, NewOK, BookingsOK, BookingOK, AdminOK,
                PageNames, Functional
  <1> QED
    BY <1>1, <1>2, <1>3, <1>4

LEMMA ServeAuxTyped ==
  ASSUME Typed, ServeAux
  PROVE  Typed'
  <1>1. /\ aux # None /\ aux.kind # "schedule" /\ Answers(aux.kind, aux.of)
        /\ aux' = [aux EXCEPT !.data = <<Answer(aux.kind, aux.of)>>]
        /\ UNCHANGED <<db, page, view, load, job, saved>>
    BY DEF ServeAux, NotLoading
  <1>2. CASE page = "setup" /\ aux \in Reading("day", view.date) /\ Query("day", view.date) \in Queries
    <2>1. aux' \in Reading("day", view.date)
      BY <1>1, <1>2, QueryFields, ReadingServed DEF Typed
    <2>2. SetupOK(view, load, aux') /\ SetupShows(view, aux')
      <3>1. aux' # None
        BY <1>2, <2>1, QueryFields, ReadingIsSome
      <3>2. SetupOK(view, load, aux) /\ SetupShows(view, aux)
        BY <1>2 DEF Typed, Shown
      <3> QED
        BY <1>1, <2>1, <3>1, <3>2 DEF SetupOK, SetupShows
    <2> QED
      BY <1>1, <1>2, <2>2, EffectTyped, KeepsItself DEF Shown, PageNames, Functional
  <1>3. CASE page = "edit" /\ aux \in Reading("preview", view.id) /\ Query("preview", view.id) \in Queries
    <2>1. aux' \in Reading("preview", view.id)
      BY <1>1, <1>3, QueryFields, ReadingServed DEF Typed
    <2>2. EditOK(view, load, aux')
      BY <1>3, <2>1 DEF Typed, Shown, EditOK
    <2> QED
      BY <1>1, <1>3, <2>2, EffectTyped, KeepsItself DEF Shown, PageNames, Functional
  <1> QED
    BY <1>1, <1>2, <1>3, AuxQuery

LEMMA AuxFailsTyped ==
  ASSUME Typed, AuxFails
  PROVE  Typed'
  <1>1. /\ aux # None /\ aux.kind # "schedule" /\ aux' = None
        /\ view' = IF aux.kind \in ScheduleKinds THEN ScheduleFails(view, aux.kind, aux.of) ELSE PageFails(view, aux.kind)
        /\ UNCHANGED <<db, page, load, job, saved>>
    BY DEF AuxFails, NotLoading
  <1>2. CASE page = "setup" /\ aux.kind = "day"
    <2>1. PICK S : S = {}
      OBVIOUS
    <2>2. S \in SlotLists
      BY <2>1, FS_EmptySet DEF SlotLists
    <2>3. view' = [view EXCEPT !.day = S]
      BY <1>1, <1>2, <2>1 DEF ScheduleKinds, ScheduleFails
    <2>4. SetupOK(view, load, aux) /\ SetupShows(view, aux) /\ view.step = 4 /\ view \in SetupState
      BY <1>1, <1>2 DEF Typed, Shown, SetupOK
    <2>5. /\ view' \in SetupState /\ view'.day = S /\ view'.step = view.step /\ view'.loaded = view.loaded
          /\ view'.activated = view.activated /\ view'.date = view.date /\ view'.month = view.month
          /\ view'.calendar = view.calendar /\ view'.busy = view.busy /\ view'.error = view.error
      BY <2>2, <2>3, <2>4 DEF SetupState
    <2>6. SetupOK(view', load, None) /\ SetupShows(view', None)
      BY <1>1, <2>1, <2>4, <2>5 DEF SetupOK, SetupShows
    <2>7. Keeps(page, view, view')
      BY <1>2, <2>5 DEF Keeps
    <2> QED
      BY <1>1, <1>2, <2>5, <2>6, <2>7, EffectTyped DEF Shown, PageNames, Functional
  <1>3. CASE page = "edit" /\ aux.kind = "preview"
    <2>1. view' = [view EXCEPT !.preview = None]
      BY <1>1, <1>3 DEF ScheduleKinds, PageFails
    <2>2. EditOK(view, load, aux)
      BY <1>3 DEF Typed, Shown
    <2>3. view' \in EditState /\ view'.id = view.id /\ view'.form = view.form /\ view'.busy = view.busy
      BY <2>1, <2>2 DEF EditOK, EditState
    <2>4. EditOK(view', load, None) /\ Keeps(page, view, view')
      BY <1>3, <2>2, <2>3 DEF EditOK, Keeps
    <2> QED
      BY <1>1, <1>3, <2>3, <2>4, EffectTyped DEF Shown, PageNames, Functional
  <1> QED
    BY <1>1, <1>2, <1>3, AuxQuery

LEMMA AuxArrivesTyped ==
  ASSUME Typed, AuxArrives
  PROVE  Typed'
  <1>1. /\ aux # None /\ aux.kind # "schedule" /\ aux.data # None /\ aux' = None
        /\ view' = ViewShows(view, aux.kind, aux.data[1])
        /\ UNCHANGED <<db, page, load, job, saved>>
    BY DEF AuxArrives, NotLoading
  <1>2. CASE page = "setup" /\ aux \in Reading("day", view.date) /\ Query("day", view.date) \in Queries /\ aux.kind = "day"
    <2>1. PICK S : S = aux.data[1]
      OBVIOUS
    <2>2. S \in Answered("day", view.date)
      BY <1>1, <1>2, <2>1, QueryFields, ReadingHas
    <2>3. S \in SlotLists /\ \A s \in S : s.date = view.date
      BY <2>2 DEF Answered
    <2>4. view' = [view EXCEPT !.day = S]
      BY <1>1, <1>2, <2>1 DEF ViewShows, ScheduleKinds, ScheduleShows
    <2>5. SetupOK(view, load, aux) /\ SetupShows(view, aux) /\ view.step = 4 /\ view \in SetupState
      BY <1>1, <1>2 DEF Typed, Shown, SetupOK
    <2>6. /\ view' \in SetupState /\ view'.day = S /\ view'.step = view.step /\ view'.loaded = view.loaded
          /\ view'.activated = view.activated /\ view'.date = view.date /\ view'.month = view.month
          /\ view'.calendar = view.calendar /\ view'.busy = view.busy /\ view'.error = view.error
      BY <2>3, <2>4, <2>5 DEF SetupState
    <2>7. SetupOK(view', load, None) /\ SetupShows(view', None)
      BY <1>1, <2>3, <2>5, <2>6 DEF SetupOK, SetupShows
    <2>8. Keeps(page, view, view')
      BY <1>2, <2>6 DEF Keeps
    <2> QED
      BY <1>1, <1>2, <2>6, <2>7, <2>8, EffectTyped DEF Shown, PageNames, Functional
  <1>3. CASE page = "edit" /\ aux \in Reading("preview", view.id) /\ Query("preview", view.id) \in Queries /\ aux.kind = "preview"
    <2>1. PICK s : s = aux.data[1]
      OBVIOUS
    <2>2. s \in Answered("preview", view.id)
      BY <1>1, <1>3, <2>1, QueryFields, ReadingHas
    <2>3. s \in Settings
      BY <2>2 DEF Answered
    <2>4. view' = [view EXCEPT !.preview = s]
      BY <1>1, <1>3, <2>1 DEF ViewShows, ScheduleKinds, PageShows
    <2>5. EditOK(view, load, aux)
      BY <1>3 DEF Typed, Shown
    <2>6. view' \in EditState /\ view'.id = view.id /\ view'.form = view.form /\ view'.busy = view.busy
      BY <2>3, <2>4, <2>5 DEF EditOK, EditState
    <2>7. EditOK(view', load, None) /\ Keeps(page, view, view')
      BY <1>3, <2>5, <2>6 DEF EditOK, Keeps
    <2> QED
      BY <1>1, <1>3, <2>6, <2>7, EffectTyped DEF Shown, PageNames, Functional
  <1> QED
    BY <1>1, <1>2, <1>3, AuxQuery

LEMMA ScheduleRead ==
  ASSUME Typed, aux # None, aux.kind = "schedule"
  PROVE  /\ page = "dashboard" /\ page \notin Functional /\ DashboardOK(view, load, aux) /\ aux \in ScheduleReading
         /\ aux.data.slots \in {None, <<>>} \cup [1..1 -> SlotLists]
         /\ aux.data.bookings \in {None, <<>>} \cup [1..1 -> BookingLists]
  <1>1. page = "dashboard" /\ aux \in ScheduleReading
    BY AuxQuery
  <1> QED
    BY <1>1 DEF Typed, Shown, ScheduleReading, Functional

LEMMA ServeScheduleTyped ==
  ASSUME Typed, ServeSchedule
  PROVE  Typed'
  <1>1. /\ aux # None /\ aux.kind = "schedule" /\ UNCHANGED <<db, page, view, load, job, saved>>
        /\ \/ \E got \in {<<db.slots>>, <<>>} : aux' = [aux EXCEPT !.data.slots = got]
           \/ \E got \in {<<db.booking>>, <<>>} : aux' = [aux EXCEPT !.data.bookings = got]
    BY DEF ServeSchedule, NotLoading
  <1>2. aux' \in ScheduleReading
    <2>1. PICK S, B : S = {None, <<>>} \cup [1..1 -> SlotLists] /\ B = {None, <<>>} \cup [1..1 -> BookingLists]
      OBVIOUS
    <2>2. {<<db.slots>>, <<>>} \subseteq S /\ {<<db.booking>>, <<>>} \subseteq B
      BY <2>1, DatabaseTypes DEF Typed, BookingLists
    <2>3. ScheduleReading = [kind: {"schedule"}, of: {This}, data: [slots: S, bookings: B]]
      BY <2>1 DEF ScheduleReading
    <2>4. aux \in [kind: {"schedule"}, of: {This}, data: [slots: S, bookings: B]]
      BY <1>1, <2>3, ScheduleRead
    <2>5. aux' \in [kind: {"schedule"}, of: {This}, data: [slots: S, bookings: B]]
      BY ONLY <1>1, <2>2, <2>4
    <2> QED
      BY <2>3, <2>5
  <1>3. DashboardOK(view, load, aux')
    BY <1>1, <1>2, ScheduleRead DEF DashboardOK
  <1> QED
    BY <1>1, <1>3, ScheduleRead, EffectTyped, KeepsItself DEF Shown, PageNames, Functional

LEMMA ScheduleArrivesTyped ==
  ASSUME Typed, ScheduleArrives
  PROVE  Typed'
  <1>1. PICK slots, bookings, error :
          /\ slots = Read(aux.data.slots, {}) /\ bookings = Read(aux.data.bookings, [b \in Books |-> None])
          /\ error = (aux.data.slots = <<>>)
    OBVIOUS
  <1>2. /\ aux # None /\ aux.kind = "schedule" /\ aux.data.slots # None /\ aux.data.bookings # None /\ aux' = None
        /\ view' = [view EXCEPT !.slots = slots, !.error = error, !.bookings = bookings]
        /\ UNCHANGED <<db, page, load, job, saved>>
    BY <1>1 DEF ScheduleArrives, NotLoading
  <1>3. slots \in SlotLists
    <2>1. {} \in SlotLists
      BY FS_EmptySet DEF SlotLists
    <2> QED
      BY <1>1, <1>2, <2>1, ScheduleRead DEF Read
  <1>4. bookings \in BookingLists /\ bookings # None
    <2>1. [b \in Books |-> None] \in BookingLists
      BY DEF BookingLists
    <2>2. bookings \in BookingLists
      BY <1>1, <1>2, <2>1, ScheduleRead DEF Read
    <2> QED
      BY <2>2, NoneIsNoRecord
  <1>5. error \in BOOLEAN
    BY <1>1
  <1>6. DashboardOK(view, load, aux)
    BY <1>2, ScheduleRead
  <1>7. view' \in DashboardState /\ view'.bookings = bookings /\ view'.day = view.day /\ view'.row = view.row
    BY <1>2, <1>3, <1>4, <1>5, <1>6 DEF DashboardOK, DashboardState
  <1>8. DashboardOK(view', load, None)
    BY <1>4, <1>6, <1>7 DEF DashboardOK
  <1>9. Keeps(page, view, view')
    BY <1>2, ScheduleRead DEF Keeps
  <1> QED
    BY <1>2, <1>8, <1>9, ScheduleRead, EffectTyped DEF Shown, PageNames, Functional

LEMMA LoadFailsTyped ==
  ASSUME Typed, LoadFails
  PROVE  Typed'
  <1>1. /\ load # None /\ load' = None
        /\ view' = IF load.kind \in ScheduleKinds THEN ScheduleFails(view, load.kind, load.of) ELSE PageFails(view, load.kind)
        /\ UNCHANGED <<db, page, aux, job, saved>>
    BY DEF LoadFails, NotLoading
  <1>2. PICK q \in Queries : q = Loads(page, view) /\ load \in Reading(q.kind, q.of) /\ load.kind = q.kind /\ load.of = q.of
    BY <1>1, LoadsQuery, ReadingHas DEF Typed
  <1>3. /\ Shown(page, view, load, aux)
        /\ page \in {"rules", "slots", "overrides", "setup", "home", "services", "dashboard", "edit", "bookings", "booking"}
    BY <1>1, LoadsQuery DEF Typed
  <1>4. SUFFICES Shown(page, view', None, aux) /\ Keeps(page, view, view') /\ (page \in Functional => view'.busy = view.busy)
    BY <1>1, EffectTyped
  <1>5. CASE page = "slots"
    <2>1. view \in SlotsState /\ q = Query("count", view.range)
      BY <1>2, <1>3, <1>5 DEF Shown, SlotsOK, Loads
    <2>2. load.kind = "count" /\ load.of = view.range /\ view.range \in Ranges
      BY <1>2, <2>1, QueryFields DEF SlotsState
    <2>6. PICK c : c = [of |-> load.of, n |-> 0]
      OBVIOUS
    <2>3. c \in Counts
      BY <2>2, <2>6 DEF Counts
    <2>4. view' = [view EXCEPT !.count = c, !.error = TRUE]
      BY <1>1, <2>2, <2>6 DEF ScheduleKinds, ScheduleFails
    <2>5. view' \in SlotsState /\ view'.busy = view.busy
      BY <2>1, <2>3, <2>4 DEF SlotsState
    <2> QED
      BY <1>3, <1>5, <2>5 DEF Shown, SlotsOK, Keeps, PageNames
  <1>6. CASE page = "setup" /\ ~view.loaded
    <2>1. q = Query("wizard", None)
      BY <1>2, <1>6 DEF Loads
    <2>2. view' = [view EXCEPT !.error = TRUE]
      BY <1>1, <1>2, <2>1, QueryFields DEF ScheduleKinds, PageFails
    <2>3. SetupOK(view, load, aux) /\ SetupShows(view, aux) /\ view \in SetupState
      BY <1>3, <1>6 DEF Shown, SetupOK
    <2>4. /\ view' \in SetupState /\ view'.day = view.day /\ view'.step = view.step /\ view'.loaded = view.loaded
          /\ view'.activated = view.activated /\ view'.date = view.date /\ view'.month = view.month
          /\ view'.calendar = view.calendar /\ view'.busy = view.busy /\ view'.error = TRUE
      BY <2>2, <2>3 DEF SetupState
    <2>5. SetupOK(view', None, aux) /\ SetupShows(view', aux)
      BY <1>6, <2>3, <2>4 DEF SetupOK, SetupShows
    <2> QED
      BY <1>6, <2>4, <2>5 DEF Shown, Keeps, PageNames, Functional
  <1>7. CASE page = "setup" /\ view.loaded /\ ~view.activated
    <2>1. q = Query("overrides", ThisMonth)
      BY <1>2, <1>7 DEF Loads
    <2>2. PICK O : O = {}
      OBVIOUS
    <2>3. O \in OverrideLists
      BY <2>2, FS_EmptySet DEF OverrideLists
    <2>4. view' = [view EXCEPT !.error = TRUE, !.overrides = O]
      BY <1>1, <1>2, <1>7, <2>1, <2>2, QueryFields DEF ScheduleKinds, ScheduleFails
    <2>5. SetupOK(view, load, aux) /\ SetupShows(view, aux) /\ view \in SetupState
      BY <1>3, <1>7 DEF Shown, SetupOK
    <2>6. /\ view' \in SetupState /\ view'.day = view.day /\ view'.step = view.step /\ view'.loaded = view.loaded
          /\ view'.activated = view.activated /\ view'.date = view.date /\ view'.month = view.month
          /\ view'.calendar = view.calendar /\ view'.busy = view.busy
      BY <2>3, <2>4, <2>5 DEF SetupState
    <2>7. SetupOK(view', None, aux) /\ SetupShows(view', aux)
      BY <1>7, <2>5, <2>6 DEF SetupOK, SetupShows
    <2> QED
      BY <1>7, <2>6, <2>7 DEF Shown, Keeps, PageNames, Functional
  <1>8. CASE page = "setup" /\ view.loaded /\ view.activated
    <2>1. q = Query("calendar", view.month)
      BY <1>2, <1>8 DEF Loads
    <2>2. PICK c : c = [overrides |-> {}, slots |-> {}]
      OBVIOUS
    <2>3. c \in [overrides: OverrideLists, slots: SlotLists] /\ c.slots = {}
      BY <2>2, FS_EmptySet DEF OverrideLists, SlotLists
    <2>4. view' = [view EXCEPT !.calendar = c]
      BY <1>1, <1>2, <2>1, <2>2, QueryFields DEF ScheduleKinds, ScheduleFails
    <2>5. SetupOK(view, load, aux) /\ SetupShows(view, aux) /\ view \in SetupState
      BY <1>3, <1>8 DEF Shown, SetupOK
    <2>6. /\ view' \in SetupState /\ view'.day = view.day /\ view'.step = view.step /\ view'.loaded = view.loaded
          /\ view'.activated = view.activated /\ view'.date = view.date /\ view'.month = view.month
          /\ view'.calendar = c /\ view'.busy = view.busy
      BY <2>3, <2>4, <2>5 DEF SetupState
    <2>7. SetupOK(view', None, aux) /\ SetupShows(view', aux)
      BY <1>8, <2>3, <2>5, <2>6 DEF SetupOK, SetupShows
    <2> QED
      BY <1>8, <2>6, <2>7 DEF Shown, Keeps, PageNames, Functional
  <1>9. CASE page \notin {"slots", "setup"}
    <2>1. q.kind \in {"rules", "overrides", "settings", "setting", "bookings", "detail"}
      BY <1>2, <1>3, <1>9, QueryFields DEF Loads
    <2>2. view' = [view EXCEPT !.error = TRUE]
      BY <1>1, <1>2, <1>9, <2>1 DEF ScheduleKinds, ScheduleFails, PageFails
    <2>3. CASE page \in Functional
      <3>1. PICK e \in BOOLEAN : e = TRUE
        OBVIOUS
      <3>2. PICK b : b = view.busy
        OBVIOUS
      <3>6. view' = [view EXCEPT !.error = e]
        BY <2>2, <3>1
      <3>3. view' = WithButtons(view, b, e) /\ b \in {None} \cup Marks(page)
        BY <1>3, <2>3, <3>2, <3>6, HasButtons
      <3>4. Shown(page, view, None, aux)
        <4>1. CASE page = "rules"
          BY <1>3, <4>1 DEF Shown, RulesOK
        <4>2. CASE page = "overrides"
          BY <1>3, <4>2 DEF Shown, OverridesOK
        <4>3. CASE page = "services"
          BY <1>3, <4>3 DEF Shown, ServicesOK
        <4>4. CASE page = "edit"
          BY <1>3, <4>4 DEF Shown, EditOK
        <4>5. CASE page = "booking"
          BY <1>3, <4>5 DEF Shown, BookingOK
        <4> QED
          BY <1>3, <1>9, <2>3, <4>1, <4>2, <4>3, <4>4, <4>5 DEF Functional
      <3>5. Shown(page, view', None, aux) /\ Keeps(page, view, view') /\ view'.busy = b
        BY <1>9, <2>3, <3>3, <3>4, ButtonsShown DEF Loaded
      <3> QED
        BY <3>2, <3>5
    <2>4. CASE page = "home"
      BY <1>3, <2>2, <2>4 DEF Shown, HomeOK, HomeState, Keeps, PageNames, Functional
    <2>5. CASE page = "dashboard"
      <3>1. DashboardOK(view, load, aux) /\ view \in DashboardState
        BY <1>3, <2>5 DEF Shown, DashboardOK
      <3>2. /\ view' \in DashboardState /\ view'.slots = view.slots /\ view'.bookings = view.bookings
            /\ view'.row = view.row /\ view'.day = view.day
        BY <2>2, <3>1 DEF DashboardState
      <3>3. DashboardOK(view', None, aux)
        BY <3>1, <3>2 DEF DashboardOK
      <3> QED
        BY <2>5, <3>3 DEF Shown, Keeps, PageNames, Functional
    <2>6. CASE page = "bookings"
      <3>1. BookingsOK(view, load, aux) /\ view \in BookingsState
        BY <1>3, <2>6 DEF Shown, BookingsOK
      <3>2. view' \in BookingsState /\ view'.error = TRUE
        BY <2>2, <3>1 DEF BookingsState
      <3> QED
        BY <2>6, <3>1, <3>2 DEF Shown, BookingsOK, BookingsShow, Keeps, PageNames, Functional
    <2> QED
      BY <1>3, <2>3, <2>4, <2>5, <2>6 DEF Functional
  <1> QED
    BY <1>3, <1>5, <1>6, <1>7, <1>8, <1>9

\* The wizard is told whether the setup is complete, and where to resume.
LEMMA WizardArrivesTyped ==
  ASSUME Typed, page = "setup", ~view.loaded, NEW data, data \in Answered("wizard", None), WizardArrives(data),
         UNCHANGED db
  PROVE  Typed'
  <1>1. data \in [setup: BOOLEAN, rules: RuleLists]
    BY DEF Answered
  <1>2. CASE data.setup
    <2>1. Mount("dashboard", job)
      BY <1>2 DEF WizardArrives
    <2> QED
      BY <2>1, MountTyped DEF Typed, Functions
  <1>3. CASE ~data.setup
    <2>1. PICK v, n : v = [view EXCEPT !.loaded = TRUE, !.rules = data.rules] /\ n = Resume(data.rules)
      OBVIOUS
    <2>2. EnterStep(n, v) /\ UNCHANGED <<page, saved>>
      BY <1>3, <2>1 DEF WizardArrives
    <2>3. SetupOK(view, load, aux) /\ SetupShows(view, aux) /\ view \in SetupState /\ view.activated = FALSE
      BY DEF Typed, Shown, SetupOK, SetupState
    <2>4. view.step = 2 /\ view.day = None
      BY <2>3 DEF SetupShows
    <2>5. PICK R \in RuleLists, t \in BOOLEAN : R = data.rules /\ t = TRUE
      BY <1>1
    <2>6. v = [view EXCEPT !.loaded = t, !.rules = R]
      BY <2>1, <2>5
    <2>7. /\ v \in SetupState /\ v.loaded = t /\ v.step = view.step /\ v.day = view.day /\ v.activated = view.activated
          /\ v.busy = view.busy
      BY <2>3, <2>6 DEF SetupState
    <2>8. n \in 2 .. 4
      BY <2>1 DEF Resume, Typed
    <2>9. v.loaded = TRUE /\ v.activated = FALSE /\ v.step # 4 /\ v.day = None /\ v.busy = view.busy
      BY <2>3, <2>4, <2>5, <2>7
    <2>10. Functions /\ page' = page /\ view.step # 4
      BY <2>2, <2>4 DEF Typed
    <2>11. Shown(page, view', load', aux') /\ Functions'
      BY <2>2, <2>7, <2>8, <2>9, <2>10, EnterStepTyped
    <2> QED
      BY <2>2, <2>11 DEF Typed
  <1> QED
    BY <1>2, <1>3

LEMMA HomeArrivesTyped ==
  ASSUME Typed, page = "home", NEW items \in SettingLists, HomeArrives(items), UNCHANGED db
  PROVE  Typed'
  <1>1. PICK mine : mine = {p \in Pages : items[p] # None}
    OBVIOUS
  <1>2. CASE mine = {}
    <2>1. Cardinality(mine) # 1
      BY <1>2, FS_EmptySet
    <2>2. view' = [view EXCEPT !.items = items] /\ load' = None /\ UNCHANGED <<page, aux, job, saved>>
      BY <1>1, <1>2, <2>1 DEF HomeArrives
    <2>3. HomeOK(view', None, aux)
      BY <2>2 DEF Typed, Shown, HomeOK, HomeState
    <2> QED
      BY <2>2, <2>3, EffectTyped DEF Shown, Keeps, PageNames, Functional
  <1>3. CASE mine # {}
    <2>1. Mount("dashboard", job) \/ Mount("services", job)
      BY <1>1, <1>3 DEF HomeArrives
    <2> QED
      BY <2>1, MountTyped DEF Typed, Functions
  <1> QED
    BY <1>2, <1>3

LEMMA RowArrivesTyped ==
  ASSUME Typed, page = "dashboard", NEW items \in SettingLists, RowArrives(items), UNCHANGED db
  PROVE  Typed'
  <1>1. DashboardOK(view, load, aux) /\ view \in DashboardState /\ view.id \in Pages
    BY DEF Typed, Shown, DashboardOK, DashboardState
  <1>2. PICK row : row = items[view.id]
    OBVIOUS
  <1>3. row \in {None} \cup Settings
    BY <1>1, <1>2 DEF SettingLists
  <1>4. PICK key, day : /\ key = IF row = None THEN view.key ELSE "slug"
                        /\ day = IF row = None THEN None ELSE IF view.row = None THEN Today ELSE view.day
    OBVIOUS
  <1>5. key \in {"id", "slug"} /\ day \in {None} \cup Dates /\ (row = None => day = None)
    BY <1>1, <1>4, PageConstantsOK DEF DashboardState
  <1>6. PICK w : w = [view EXCEPT !.row = row, !.slots = None, !.bookings = None, !.day = day]
    OBVIOUS
  <1>7. w \in DashboardState /\ w.row = row /\ w.slots = None /\ w.day = day /\ w.key = view.key
    BY <1>1, <1>3, <1>5, <1>6 DEF DashboardState
  <1>8. WithRow(view, row) = w
    BY <1>1, <1>4, <1>6 DEF WithRow, DashboardState
  <1>9. view' = [w EXCEPT !.key = key]
    BY <1>2, <1>4, <1>7, <1>8 DEF RowArrives, DashboardState
  <1>10. view' \in DashboardState /\ view'.row = row /\ view'.slots = None /\ view'.day = day
    BY <1>5, <1>7, <1>9 DEF DashboardState
  <1>11. load' \in {None} \cup Reading("settings", None)
    <2>1. Query("settings", None) \in Queries
      BY DEF Query, Queries
    <2>2. Effect("settings", None) \in Reading("settings", None)
      BY <2>1, QueryFields, Started
    <2> QED
      BY <2>2 DEF RowArrives
  <1>12. aux' \in {None} \cup ScheduleReading /\ (aux' # None => row # None)
    BY <1>2 DEF RowArrives, Schedule, ScheduleReading
  <1>13. DashboardOK(view', load', aux')
    BY <1>5, <1>10, <1>11, <1>12 DEF DashboardOK
  <1>14. UNCHANGED <<page, job, saved>>
    BY DEF RowArrives
  <1> QED
    BY <1>13, <1>14, EffectTyped DEF Shown, Keeps, PageNames, Functional

LEMMA LoadArrivesTyped ==
  ASSUME Typed, LoadArrives
  PROVE  Typed'
  <1>1. PICK data : data = load.data[1]
    OBVIOUS
  <1>2. load # None /\ load.data # None /\ UNCHANGED db
    BY DEF LoadArrives, NotLoading
  <1>3. PICK q \in Queries : q = Loads(page, view) /\ load \in Reading(q.kind, q.of) /\ load.kind = q.kind /\ load.of = q.of
    BY <1>2, LoadsQuery, ReadingHas DEF Typed
  <1>4. /\ Shown(page, view, load, aux) /\ data \in Answered(q.kind, q.of)
        /\ page \in {"rules", "slots", "overrides", "setup", "home", "services", "dashboard", "edit", "bookings", "booking"}
    BY <1>1, <1>2, <1>3, LoadsQuery, ReadingHas DEF Typed
  <1>5. CASE page = "setup" /\ ~view.loaded
    <2>1. q = Query("wizard", None)
      BY <1>3, <1>5 DEF Loads
    <2>2. WizardArrives(data)
      BY <1>1, <1>3, <2>1, QueryFields DEF LoadArrives
    <2> QED
      BY <1>2, <1>4, <1>5, <2>1, <2>2, QueryFields, WizardArrivesTyped
  <1>6. CASE page = "home"
    <2>1. q = Query("settings", None)
      BY <1>3, <1>6 DEF Loads
    <2>2. HomeArrives(data)
      BY <1>1, <1>3, <1>6, <2>1, QueryFields DEF LoadArrives
    <2>3. data \in SettingLists
      BY <1>4, <2>1, QueryFields DEF Answered
    <2> QED
      BY <1>2, <1>6, <2>2, <2>3, HomeArrivesTyped
  <1>7. CASE page = "dashboard"
    <2>1. q = Query("settings", None)
      BY <1>3, <1>7 DEF Loads
    <2>2. RowArrives(data)
      BY <1>1, <1>3, <1>7, <2>1, QueryFields DEF LoadArrives
    <2>3. data \in SettingLists
      BY <1>4, <2>1, QueryFields DEF Answered
    <2> QED
      BY <1>2, <1>7, <2>2, <2>3, RowArrivesTyped
  <1>8. CASE page \notin {"home", "dashboard"} /\ ~(page = "setup" /\ ~view.loaded)
    <2>1. q.kind # "wizard"
      BY <1>3, <1>4, <1>8, QueryFields DEF Loads
    <2>2. PICK v : v = ViewShows(view, q.kind, data)
      OBVIOUS
    <2>3. /\ load' = None /\ view' = IF page = "slots" THEN [v EXCEPT !.error = FALSE] ELSE v
          /\ UNCHANGED <<page, aux, job, saved>>
      BY <1>1, <1>3, <1>8, <2>1, <2>2 DEF LoadArrives
    <2>4. SUFFICES Shown(page, view', None, aux) /\ Keeps(page, view, view') /\ (page \in Functional => view'.busy = view.busy)
      BY <1>2, <2>3, EffectTyped
    <2>5. CASE page = "rules"
      <3>1. q = Query("rules", None) /\ data \in RuleLists
        BY <1>3, <1>4, <2>5, QueryFields DEF Loads, Answered
      <3>2. Shown(page, view, None, aux)
        BY <1>4, <2>5 DEF Shown, RulesOK
      <3>3. view' = [view EXCEPT !.rules = data]
        BY <2>2, <2>3, <2>5, <3>1, QueryFields DEF ViewShows, ScheduleKinds, ScheduleShows
      <3> QED
        BY <2>5, <3>1, <3>2, <3>3, RulesShownAgain
    <2>6. CASE page = "slots"
      <3>1. view \in SlotsState /\ view.range \in Ranges /\ q = Query("count", view.range)
        BY <1>3, <1>4, <2>6 DEF Shown, SlotsOK, SlotsState, Loads
      <3>2. data \in Counts
        <4>1. data \in {c \in Counts : c.of = view.range}
          BY <1>4, <3>1, QueryFields DEF Answered
        <4> QED
          BY <4>1
      <3>3. PICK e \in BOOLEAN : e = FALSE
        OBVIOUS
      <3>4. v = [view EXCEPT !.count = data] /\ view' = [v EXCEPT !.error = e]
        BY <2>2, <2>3, <2>6, <3>1, <3>3, QueryFields DEF ViewShows, ScheduleKinds, ScheduleShows
      <3>5. view' \in SlotsState /\ view'.busy = view.busy
        BY <3>1, <3>2, <3>4 DEF SlotsState
      <3> QED
        BY <1>4, <2>6, <3>5 DEF Shown, SlotsOK, Keeps, PageNames
    <2>7. CASE page \in {"overrides", "setup"} /\ q.kind = "overrides"
      <3>1. data \in OverrideLists
        BY <1>4, <2>7 DEF Answered
      <3>2. Shown(page, view, None, aux)
        <4>1. CASE page = "overrides"
          BY <1>4, <4>1 DEF Shown, OverridesOK
        <4>2. CASE page = "setup"
          <5>1. SetupOK(view, None, aux)
            BY <1>4, <1>8, <4>2 DEF Shown, SetupOK
          <5> QED
            BY <1>4, <4>2, <5>1 DEF Shown
        <4> QED
          BY <2>7, <4>1, <4>2
      <3>3. view' = [view EXCEPT !.overrides = data]
        BY <2>2, <2>3, <2>7 DEF ViewShows, ScheduleKinds, ScheduleShows
      <3> QED
        BY <2>7, <3>1, <3>2, <3>3, OverridesShownAgain
    <2>8. CASE page = "setup" /\ q.kind # "overrides"
      <3>1. q = Query("calendar", view.month) /\ view.activated
        BY <1>3, <1>8, <2>8, QueryFields DEF Loads
      <3>2. data \in [overrides: OverrideLists, slots: SlotLists] /\ \A s \in data.slots : s.date \in view.month
        <4>1. data \in [overrides: OverrideLists, slots: {S \in SlotLists : \A s \in S : s.date \in view.month}]
          BY <1>4, <3>1, QueryFields DEF Answered
        <4> QED
          BY <4>1
      <3>3. view' = [view EXCEPT !.calendar = data]
        BY <2>2, <2>3, <2>8, <3>1, QueryFields DEF ViewShows, ScheduleKinds, ScheduleShows
      <3>4. SetupOK(view, load, aux) /\ SetupShows(view, aux) /\ view \in SetupState
        BY <1>4, <2>8 DEF Shown, SetupOK
      <3>5. /\ view' \in SetupState /\ view'.day = view.day /\ view'.step = view.step /\ view'.loaded = view.loaded
            /\ view'.activated = view.activated /\ view'.date = view.date /\ view'.month = view.month
            /\ view'.calendar = data /\ view'.busy = view.busy
        BY <3>2, <3>3, <3>4 DEF SetupState
      <3>6. SetupOK(view', None, aux) /\ SetupShows(view', aux)
        BY <1>8, <2>8, <3>1, <3>2, <3>4, <3>5 DEF SetupOK, SetupShows
      <3> QED
        BY <2>8, <3>5, <3>6 DEF Shown, Keeps, PageNames, Functional
    <2>9. CASE page = "services"
      <3>1. q = Query("settings", None) /\ data \in SettingLists
        BY <1>3, <1>4, <2>9, QueryFields DEF Loads, Answered
      <3>2. view' = [view EXCEPT !.items = data]
        BY <2>2, <2>3, <2>9, <3>1, QueryFields DEF ViewShows, ScheduleKinds, PageShows
      <3>3. view' \in ServicesState /\ view'.busy = view.busy
        BY <1>4, <2>9, <3>1, <3>2 DEF Shown, ServicesOK, ServicesState
      <3> QED
        BY <1>4, <2>9, <3>3 DEF Shown, ServicesOK, Keeps, PageNames
    <2>10. CASE page = "edit"
      <3>1. q = Query("setting", view.id) /\ data \in Settings
        BY <1>3, <1>4, <2>10, QueryFields DEF Loads, Answered
      <3>2. PICK e \in BOOLEAN : e = FALSE
        OBVIOUS
      <3>3. view' = [view EXCEPT !.form = data, !.error = e]
        <4>1. view' = PageShows(view, "setting", data)
          BY <2>2, <2>3, <2>10, <3>1, QueryFields DEF ViewShows, ScheduleKinds
        <4>2. PageShows(view, "setting", data) = [view EXCEPT !.form = data, !.error = FALSE]
          BY <2>10 DEF PageShows
        <4> QED
          BY <3>2, <4>1, <4>2
      <3>4. view' \in EditState /\ view'.busy = view.busy /\ view'.form = data /\ view'.id = view.id
        BY <1>4, <2>10, <3>1, <3>3 DEF Shown, EditOK, EditState
      <3>5. data # None
        BY <3>1, NoneIsNoRecord
      <3> QED
        BY <1>4, <2>10, <3>4, <3>5 DEF Shown, EditOK, Keeps, PageNames
    <2>11. CASE page = "bookings"
      <3>1. q = Query("bookings", view.filter) /\ data \in StatusLists(view.filter)
        BY <1>3, <1>4, <2>11, QueryFields DEF Loads, Answered
      <3>2. data \in StatusLists("ALL")
        BY <3>1 DEF StatusLists
      <3>3. view' = [view EXCEPT !.items = data]
        BY <2>2, <2>3, <2>11, <3>1, QueryFields DEF ViewShows, ScheduleKinds, PageShows
      <3>4. view' \in BookingsState /\ view'.items = data /\ view'.filter = view.filter
        BY <1>4, <2>11, <3>2, <3>3 DEF Shown, BookingsOK, BookingsState
      <3> QED
        BY <1>4, <2>11, <3>1, <3>4 DEF Shown, BookingsOK, BookingsShow, Keeps, PageNames, Functional
    <2>12. CASE page = "booking"
      <3>1. q = Query("detail", view.id) /\ data \in BookStatuses
        BY <1>3, <1>4, <2>12, QueryFields DEF Loads, Answered
      <3>2. view' = [view EXCEPT !.status = data]
        BY <2>2, <2>3, <2>12, <3>1, QueryFields DEF ViewShows, ScheduleKinds, PageShows
      <3>3. view' \in BookingState /\ view'.busy = view.busy /\ view'.id = view.id
        BY <1>4, <2>12, <3>1, <3>2 DEF Shown, BookingOK, BookingState
      <3> QED
        BY <1>4, <2>12, <3>3 DEF Shown, BookingOK, Keeps, PageNames
    <2>13. page = "overrides" => q.kind = "overrides"
      BY <1>3, QueryFields DEF Loads
    <2> QED
      BY <1>4, <1>8, <2>5, <2>6, <2>7, <2>8, <2>9, <2>10, <2>11, <2>12, <2>13
  <1> QED
    BY <1>4, <1>5, <1>6, <1>7, <1>8

LEMMA EffectsTyped ==
  ASSUME Typed, Effects
  PROVE  Typed'
  BY ServeLoadTyped, LoadFailsTyped, LoadArrivesTyped, ServeAuxTyped, AuxFailsTyped, AuxArrivesTyped, ServeScheduleTyped,
     ScheduleArrivesTyped DEF Effects

----------------------------------------------------------------------------
(* The bookers. *)

LEMMA OthersTyped ==
  ASSUME Typed, Others
  PROVE  Typed'
  <1>1. UNCHANGED <<page, view, load, aux, job, saved>>
    BY DEF Others
  <1>2. db' \in Database
    <2>1. CASE Book
      <3>1. PICK s \in db.slots, b \in Books :
              db' = [db EXCEPT !.booking[b] = [date |-> s.date, from |-> s.from, status |-> "PENDING"],
                               !.slots = (@ \ {s}) \cup {[s EXCEPT !.status = "BOOKED"]}]
        BY <2>1 DEF Book
      <3>2. PICK t, k : t = [s EXCEPT !.status = "BOOKED"] /\ k = [date |-> s.date, from |-> s.from, status |-> "PENDING"]
        OBVIOUS
      <3>3. s \in Slots
        BY DatabaseTypes DEF Typed, SlotLists
      <3>4. t \in Slots /\ k \in Bookings
        BY <3>2, <3>3 DEF Slots, Bookings, BookStatuses, Active
      <3>5. PICK slots, booking : slots = (db.slots \ {s}) \cup {t} /\ booking = [db.booking EXCEPT ![b] = k]
        OBVIOUS
      <3>6. slots \in SlotLists
        <4>1. db.slots \in SUBSET Slots /\ IsFiniteSet(db.slots)
          BY DatabaseTypes DEF Typed, SlotLists
        <4>2. IsFiniteSet(db.slots \ {s})
          BY <4>1, FS_Subset
        <4> QED
          BY <3>4, <3>5, <4>1, <4>2, FiniteWith DEF SlotLists
      <3>7. booking \in [Books -> Bookings \cup {None}]
        BY <3>4, <3>5, DatabaseTypes DEF Typed
      <3>8. db' = [db EXCEPT !.booking = booking, !.slots = slots]
        BY <3>1, <3>2, <3>5 DEF Typed, Database
      <3> QED
        BY <3>6, <3>7, <3>8 DEF Typed, Database
    <2>2. ASSUME NEW b \in Books, NEW c \in Cancels, db' = [db EXCEPT !.cancel[b] = c] PROVE db' \in Database
      <3>1. [db.cancel EXCEPT ![b] = c] \in [Books -> Cancels]
        BY DatabaseTypes DEF Typed
      <3>2. db' = [db EXCEPT !.cancel = [db.cancel EXCEPT ![b] = c]]
        BY <2>2 DEF Typed, Database
      <3> QED
        BY <3>1, <3>2 DEF Typed, Database
    <2>3. CASE CancelRead
      BY <2>2, <2>3 DEF CancelRead, Cancels
    <2>4. CASE CancelSlot
      BY <2>2, <2>4 DEF CancelSlot, Cancels
    <2>5. CASE CancelCommit
      <3>1. PICK b \in Books :
              db' = IF db.booking[b] = None THEN [db EXCEPT !.cancel[b] = None]
                    ELSE [Close(b, "CANCELLED", db.cancel[b] = "frees") EXCEPT !.cancel[b] = None]
        BY <2>5 DEF CancelCommit
      <3>2. PICK d : d = Close(b, "CANCELLED", db.cancel[b] = "frees")
        OBVIOUS
      <3>3. CASE db.booking[b] = None
        BY <2>2, <3>1, <3>3 DEF Cancels
      <3>4. CASE db.booking[b] # None
        <4>1. d \in Database /\ d.cancel \in [Books -> Cancels]
          BY <3>2, <3>4, CloseTypes DEF Typed, BookStatuses, Database
        <4>2. [d.cancel EXCEPT ![b] = None] \in [Books -> Cancels]
          BY <4>1 DEF Cancels
        <4>3. db' = [d EXCEPT !.cancel = [d.cancel EXCEPT ![b] = None]]
          BY <3>1, <3>2, <3>4, <4>1 DEF Database
        <4> QED
          BY <4>1, <4>2, <4>3 DEF Database
      <3> QED
        BY <3>3, <3>4
    <2> QED
      BY <2>1, <2>3, <2>4, <2>5 DEF Others
  <1>3. Functions'
    BY <1>1, FunctionsStay, KeepsItself DEF Typed
  <1> QED
    BY <1>1, <1>2, <1>3 DEF Typed

----------------------------------------------------------------------------
(* The behaviours. *)

LEMMA TypedInitially ==
  ASSUME Init
  PROVE  Typed
  <1>1. db \in Database /\ page = "elsewhere" /\ load = None /\ aux = None /\ saved = None
    BY BeginningsOK DEF Init
  <1>2. DOMAIN job = JobIds /\ \A j \in JobIds : job[j] = None
    BY DEF Init
  <1>3. Shown(page, view, load, aux)
    BY <1>1 DEF Shown, PageNames
  <1>4. Functions
    BY <1>1, <1>2 DEF Functions, OneMarked, BusyWith, Marked, Mine, Functional
  <1> QED
    BY <1>1, <1>3, <1>4 DEF Typed

LEMMA TypedKept ==
  ASSUME Typed, [Next]_vars
  PROVE  Typed'
  <1>1. ASSUME UNCHANGED vars PROVE Typed'
    <2>1. UNCHANGED <<db, page, view, load, aux, job, saved>>
      BY <1>1 DEF vars
    <2>2. Functions'
      BY <2>1, FunctionsStay, KeepsItself DEF Typed
    <2> QED
      BY <2>1, <2>2 DEF Typed
  <1> QED
    BY <1>1, ClicksTyped, FunctionTyped, EffectsTyped, OthersTyped DEF Next

LEMMA SpecTyped ==
  Spec => []Typed
  BY TypedInitially, TypedKept, PTL DEF Spec

\* Types; a page has no effect under way but those of what it shows, and no
\* function but its own, whatever is pressed, answered or lost in between.
THEOREM HostTypes ==
  Spec => []TypeOK
  <1>1. Typed => TypeOK
    <2> SUFFICES ASSUME Typed PROVE TypeOK
      OBVIOUS
    <2>1. ScheduleOK
      BY DEF Typed, Shown, ScheduleOK
    <2>2. PagesOK
      BY DEF Typed, Shown, PagesOK
    <2>3. \A j \in Running : JobOK(job[j], page)
      BY DEF Typed, Functions, Fits, Running
    <2> QED
      BY <2>1, <2>2, <2>3 DEF Typed, TypeOK
  <1> QED
    BY <1>1, SpecTyped, PTL

\* Buttons are disabled only while the function that disabled them runs: every
\* way a function can end clears what it has marked, on its own page only.
THEOREM BusyHasItsFunction ==
  Spec => []BusyMeansRunning
  <1>1. Typed => BusyMeansRunning
    <2> SUFFICES ASSUME Typed, page # "elsewhere", "busy" \in DOMAIN view, view.busy # None
                 PROVE  \E j \in Running : job[j].mine /\ job[j].mark = view.busy
      BY DEF BusyMeansRunning
    <2>1. page \in Functional
      <3>1. page # "home"
        BY DEF Typed, Shown, HomeOK, HomeState
      <3>2. page # "dashboard"
        BY DEF Typed, Shown, DashboardOK, DashboardState
      <3>3. page # "bookings"
        BY DEF Typed, Shown, BookingsOK, BookingsState
      <3> QED
        BY <3>1, <3>2, <3>3 DEF Typed, Shown, PageNames
    <2> QED
      BY <2>1 DEF Typed, Functions, BusyWith, Mine, Running
  <1> QED
    BY <1>1, SpecTyped, PTL

\* The list of pages is never blank while pages pass the filter: the number of
\* the page that is shown is cut to the last one, whatever has been deleted.
THEOREM ListIsNotBlank ==
  Spec => []NoBlankPage
  <1>1. Typed => NoBlankPage
    BY CardsShown DEF Typed, Shown, ServicesOK, NoBlankPage
  <1> QED
    BY <1>1, SpecTyped, PTL

\* What is shown answers the last choice, however fast the user chooses and in
\* whatever order the answers come.
THEOREM ChoicesAnswered ==
  Spec => []AnswersMatchChoice
  <1>1. Typed => AnswersMatchChoice
    <2> SUFFICES ASSUME Typed PROVE AnswersMatchChoice
      OBVIOUS
    <2>1. ASSUME page = "bookings", load = None, ~view.error, view.items # None, view.filter # "ALL", NEW b \in Books
          PROVE  view.items[b] \in {None, view.filter}
      <3>1. view.items \in StatusLists(view.filter)
        BY <2>1 DEF Typed, Shown, BookingsShow
      <3> QED
        BY <2>1, <3>1 DEF StatusLists
    <2>2. ASSUME page = "setup", aux = None, view.day # None PROVE \A s \in view.day : s.date = view.date
      BY <2>2 DEF Typed, Shown, SetupShows
    <2>3. ASSUME page = "setup", view.activated, view.calendar # None, NEW d \in Dates \ view.month
          PROVE  Cell(d).slots = {}
      <3>1. \A s \in view.calendar.slots : s.date \in view.month
        BY <2>3 DEF Typed, Shown, SetupShows
      <3>2. Cell(d).slots = {s \in view.calendar.slots : s.date = d}
        BY DEF Cell
      <3> QED
        BY <2>3, <3>1, <3>2
    <2> QED
      BY <2>1, <2>2, <2>3 DEF AnswersMatchChoice
  <1> QED
    BY <1>1, SpecTyped, PTL

----------------------------------------------------------------------------
(* The timetable. *)

LEMMA SpansAreIntervals ==
  Spans \in SUBSET Intervals /\ IsFiniteSet(Spans)
  <1>1. PICK f : f = [p \in Clock \X Clock |-> Interval(p[1], p[2])]
    OBVIOUS
  <1>2. IsFiniteSet(Clock \X Clock)
    BY ClockOK, FS_Product
  <1>3. IsFiniteSet({f[p] : p \in Clock \X Clock})
    <2>1. DOMAIN f = Clock \X Clock
      BY <1>1
    <2> QED
      BY <1>2, <2>1, FiniteImage
  <1>4. ASSUME NEW i \in Spans PROVE i \in {f[p] : p \in Clock \X Clock} /\ i \in Intervals
    <2>1. i \in [from: Clock, to: Clock] /\ i.from < i.to
      BY DEF Spans
    <2>2. <<i.from, i.to>> \in Clock \X Clock /\ i = Interval(i.from, i.to)
      BY <2>1 DEF Interval
    <2>3. f[<<i.from, i.to>>] = i
      BY <1>1, <2>2
    <2>4. i \in Intervals
      BY <2>1, ClockOK DEF Intervals
    <2> QED
      BY <2>2, <2>3, <2>4
  <1> QED
    BY <1>3, <1>4, FS_Subset

LEMMA TaggedEntries ==
  ASSUME NEW S \in SUBSET Spans, NEW T \in SUBSET Spans, NEW k, NEW l
  PROVE  Entries(Tagged(k, S) \cup Tagged(l, T))
  <1>1. ASSUME NEW U \in SUBSET Spans, NEW m
        PROVE  IsFiniteSet(Tagged(m, U)) /\ \A x \in Tagged(m, U) : x.from \in Nat /\ x.to \in Nat /\ x.from < x.to
    <2>1. PICK f : f = [i \in U |-> [kind |-> m, from |-> i.from, to |-> i.to]]
      OBVIOUS
    <2>2. IsFiniteSet(U) /\ DOMAIN f = U
      BY <2>1, SpansAreIntervals, FS_Subset
    <2>3. IsFiniteSet({f[i] : i \in U})
      BY <2>2, FiniteImage
    <2>4. Tagged(m, U) = {f[i] : i \in U}
      BY <2>1 DEF Tagged
    <2>5. ASSUME NEW i \in U PROVE i.from \in Nat /\ i.to \in Nat /\ i.from < i.to
      BY SpansAreIntervals DEF Intervals
    <2> QED
      BY <2>1, <2>3, <2>4, <2>5
  <1>2. IsFiniteSet(Tagged(k, S) \cup Tagged(l, T))
    BY <1>1, FS_Union
  <1> QED
    BY <1>1, <1>2 DEF Entries

LEMMA DaysAreEntries ==
  /\ \A R \in DayRules : Entries(R)
  /\ \A O \in DayOverrides : Entries(O) /\ \A o \in O : o.kind # "DAY_OFF"
  <1>1. ASSUME NEW R \in DayRules PROVE Entries(R)
    <2>1. PICK o \in SUBSET Spans, b \in SUBSET Spans : R = Tagged("OPEN", o) \cup Tagged("BREAK", b)
      BY DEF DayRules, AtMost
    <2> QED
      BY <2>1, TaggedEntries
  <1>2. ASSUME NEW O \in DayOverrides PROVE Entries(O) /\ \A o \in O : o.kind # "DAY_OFF"
    <2>1. PICK b \in SUBSET Spans, o \in SUBSET Spans : O = Tagged("BLOCK", b) \cup Tagged("OPEN", o)
      BY DEF DayOverrides, AtMost
    <2>2. Entries(O)
      BY <2>1, TaggedEntries
    <2> QED
      BY <2>1, <2>2 DEF Tagged
  <1> QED
    BY <1>1, <1>2

\* What a request is about to fill is exactly what the rules and the overrides
\* of its dates leave, whatever they are.
THEOREM HostWindows ==
  Spec => []WindowsExact
  <1>1. SmallDays
    <2> SUFFICES ASSUME NEW rules \in DayRules, NEW overrides \in DayOverrides, NEW duration \in 1 .. 2,
                        NEW buffer \in 0 .. 1, OfKind(rules, "OPEN") # {}
                 PROVE  Windows(rules, overrides, duration, buffer) = WindowsByInstants(rules, overrides, duration, buffer)
      BY DEF SmallDays
    <2>1. duration \in Nat \ {0} /\ buffer \in Nat
      OBVIOUS
    <2> QED
      BY <2>1, DaysAreEntries, WindowsAreExact
  <1>2. Typed => WindowsExact
    <2> SUFFICES ASSUME Typed, db.setting[This] # None,
                        NEW j \in Running, Generating(j), NEW date \in Head(job[j].todo).what,
                        NEW day, day = {r \in db.rules : r.day = DayOf[date]}, NEW ours, ours = OverridesIn({date}),
                        OfKind(day, "OPEN") # {}, \A o \in ours : o.kind # "DAY_OFF"
                 PROVE  WindowsOf(date) = WindowsByInstants(day, ours, db.setting[This].mins, Buffer)
      BY <1>1 DEF WindowsExact
    <2>1. date \in Dates
      <3>1. Fits(job[j], page, view) /\ job[j].todo # <<>>
        BY DEF Typed, Functions, Running, Generating
      <3>2. Head(job[j].todo) \in Requests /\ Head(job[j].todo).op = "generate"
        BY <3>1, NextRequest DEF Generating
      <3>3. Head(job[j].todo).what \in Ranges
        BY <3>2, RequestTypes
      <3> QED
        BY <3>3, HostConstantsOK
    <2>2. Entries(day) /\ Entries(ours)
      BY DatabaseTypes, EntriesOfADay DEF Typed, OverridesIn
    <2>3. PICK mins : mins = db.setting[This].mins
      OBVIOUS
    <2>4. WindowsOf(date) = Windows(day, ours, mins, Buffer)
      BY <2>3 DEF WindowsOf
    <2>5. mins \in Nat \ {0} /\ Buffer \in Nat
      <3>1. db.setting[This] \in Settings
        BY HostConstantsOK, DatabaseTypes DEF Typed
      <3> QED
        BY <2>3, <3>1, HostConstantsOK DEF Settings
    <2> QED
      BY <2>2, <2>3, <2>4, <2>5, WindowsAreExact
  <1> QED
    BY <1>2, SpecTyped, PTL
=============================================================================
