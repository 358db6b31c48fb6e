----------------------------- MODULE HostConsole ----------------------------
(***************************************************************************)
(* One tab of a host or an admin, on one page after the other, against the *)
(* server; bookers book and cancel meanwhile.                              *)
(*                                                                         *)
(* HostSchedule and HostPages say what a click starts and what an answer   *)
(* changes; this module runs the functions and the effects, one request or *)
(* one answer a step, and mounts the pages.                                *)
(***************************************************************************)
EXTENDS HostSchedule, HostPages

CONSTANTS
  Beginnings,  \* [db, scope]: the databases and bounds of the behaviours
  Clock        \* instants of the days that WindowsExact goes through

ASSUME BeginningsOK ==
  \A b \in Beginnings :
    /\ b.db \in Database /\ Sound(b.db)
    /\ Disjoint(b.db.slots) /\ Kept(b.db) /\ Backed(b.db) /\ RolesMatch(b.db.user)
    /\ b.db.cancel = [x \in Books |-> None]
    /\ b.scope \in [clicks: Nat, others: Nat, pages: SUBSET STRING]
ASSUME ClockOK == IsFiniteSet(Clock) /\ Clock \subseteq Nat

Init ==
  /\ \E b \in Beginnings : db = b.db /\ scope = b.scope
  /\ page = "elsewhere" /\ view = None /\ load = None /\ aux = None
  /\ job = [j \in JobIds |-> None]
  /\ saved = None /\ doubt = {} /\ alone = TRUE /\ moved = {}

----------------------------------------------------------------------------
(* Mounting a page; what the last one has started goes on without it. *)

Orphaned(jobs) == [j \in JobIds |-> IF jobs[j] = None THEN None ELSE [jobs[j] EXCEPT !.mine = FALSE]]

\* The state and the effects of page p when it is mounted.
Mounted(p, v, l, a) == page' = p /\ view' = v /\ load' = l /\ aux' = a

MountSchedule(p) ==
  \/ p = "rules" /\ Mounted(p, RulesView, Effect("rules", None), None)
  \/ p = "slots" /\ Mounted(p, SlotsView, Effect("count", ThisMonth), None)
  \/ p = "overrides" /\ Mounted(p, OverridesView, Effect("overrides", ThisMonth), None)
  \/ p = "setup" /\ Mounted(p, SetupView, Effect("wizard", None), None)

MountPage(p) ==
  \/ p = "home" /\ Mounted(p, HomeView, Effect("settings", None), None)
  \/ p = "services" /\ Mounted(p, ServicesView, Effect("settings", None), None)
  \/ p = "new" /\ Mounted(p, NewView, None, None)
  \/ p = "edit" /\ Mounted(p, EditView(This), Effect("setting", This), Effect("preview", This))
  \/ p = "dashboard" /\ \E key \in {"id", "slug"} : Mounted(p, DashboardView(This, key), Effect("settings", None), None)
  \/ p = "bookings" /\ Mounted(p, BookingsView, Effect("bookings", "ALL"), None)
  \/ p = "booking" /\ \E b \in Linked : Mounted(p, BookingView(b), Effect("detail", b), None)
  \/ p = "admin" /\ Mounted(p, AdminView, None, None)
  \/ p = "elsewhere" /\ Mounted(p, None, None, None)

\* The page that is opened, or another one, outside this model's scope.
Mount(p, jobs) ==
  /\ LET q == IF p \in scope.pages THEN p ELSE "elsewhere" IN MountSchedule(q) \/ MountPage(q)
  /\ IF page' = "admin"
     THEN \E i \in JobIds : jobs[i] = None /\ job' = [Orphaned(jobs) EXCEPT ![i] = Pending]
     ELSE job' = Orphaned(jobs)
  /\ alone' = \A j \in JobIds : jobs[j] = None
  /\ UNCHANGED saved

Open == /\ \E p \in scope.pages \ {page} : Click /\ Mount(p, job)
        /\ moved' = {}
        /\ UNCHANGED <<db, doubt>>

----------------------------------------------------------------------------
(* The functions. *)

ScheduleKinds == {"rules", "overrides", "count", "day", "calendar"}
ViewShows(v, kind, data) == IF kind \in ScheduleKinds THEN ScheduleShows(v, kind, data) ELSE PageShows(v, kind, data)

\* A function has ended: its finally clears what it has marked.
Unmarked(v, j) == IF job[j].mark = None THEN v ELSE [v EXCEPT !.busy = None]
Ended(j) == job' = [job EXCEPT ![j] = None]

\* Mutant: an error leaves the buttons disabled.
FailedBusy(v, j) ==
  CASE job[j].then # None /\ job[j].then.kind = "count" /\ job[j].todo = <<>> ->
         [v EXCEPT !.count = [of |-> job[j].then.of, n |-> 0]]
    [] job[j].then # None /\ job[j].then.kind = "pending" /\ job[j].todo = <<>> -> PageFails(v, "pending")
    [] OTHER -> [v EXCEPT !.error = TRUE]

\* Mutant: an error is not shown.
FailedSilently(v, j) ==
  CASE job[j].then # None /\ job[j].then.kind = "count" /\ job[j].todo = <<>> ->
         Unmarked([v EXCEPT !.count = [of |-> job[j].then.of, n |-> 0]], j)
    [] OTHER -> Unmarked(v, j)

\* Its request has failed: an error, except that the queries of counts and of
\* the pending requests catch theirs.
Failed(v, j) ==
  CASE job[j].then # None /\ job[j].then.kind = "count" /\ job[j].todo = <<>> ->
         Unmarked([v EXCEPT !.count = [of |-> job[j].then.of, n |-> 0]], j)
    [] job[j].then # None /\ job[j].then.kind = "pending" /\ job[j].todo = <<>> ->
         Unmarked(PageFails(v, "pending"), j)
    [] OTHER -> Unmarked([v EXCEPT !.error = TRUE], j)
MyView(j, v) == view' = IF job[j].mine THEN v ELSE view

\* History: what request r does to the properties' premises.
Doubts(r) ==
  {d \in {"grid"} : r.op = "insert" /\ \E t \in db.slots \cup r.what : t.date \in {s.date : s \in r.what}
                                         /\ Span(t) \notin WindowsOf(t.date)}
  \cup {d \in {"completed"} : r.op = "complete"
          /\ (page = "edit" \/ \E i \in Running : job[i].todo # <<>> /\ job[i].todo[1].op = "discard")}

\* The overrides of step 4 that are still being read go on beside the calendar:
\* nothing cancels their effect, which is one more function from now on.
Detached(jobs) ==
  IF load = None THEN job' = jobs
  ELSE \E i \in JobIds : /\ jobs[i] = None
                         /\ job' = [jobs EXCEPT ![i] = [Job(<<>>, Query(load.kind, load.of), None)
                                                          EXCEPT !.data = load.data]]

\* The answer to complete-setup, which the wizard shows before it reads on; any
\* other answer shows v.  jobs: the functions afterwards.
WizardAfter(v, r, j, jobs) ==
  IF r.op = "complete" /\ job[j].mine
  THEN view' = Activated(v) /\ load' = Effect("calendar", ThisMonth) /\ Detached(jobs) /\ UNCHANGED aux
  ELSE MyView(j, v) /\ job' = jobs /\ UNCHANGED <<load, aux>>

\* The server serves the next request of job j and the function goes on.
\* A request whose sender has given up is the last one of its job.
Serve(j) ==
  /\ job[j] # None /\ job[j].todo # <<>>
  /\ LET r == Head(job[j].todo)
         rest == Tail(job[j].todo)
     IN /\ Accepts(r)
        /\ IF r.op \in TwoSteps
           THEN /\ job' = [job EXCEPT ![j].todo = <<Second(r)>> \o rest]
                /\ UNCHANGED <<db, page, view, load, aux, saved, alone, doubt>>
           ELSE /\ db' = Served(r) /\ doubt' = doubt \cup Doubts(r)
                /\ IF rest # <<>> \/ job[j].then # None
                   THEN /\ WizardAfter(PageAfter(view, r), r, j, [job EXCEPT ![j].todo = rest])
                        /\ UNCHANGED <<page, saved, alone>>
                   ELSE IF LeadsTo(r) # None /\ job[j].mark # "lost"
                   THEN Mount(LeadsTo(r), [job EXCEPT ![j] = None])
                   ELSE /\ Ended(j) /\ MyView(j, Unmarked(PageAfter(view, r), j))
                        /\ UNCHANGED <<page, load, aux, saved, alone>>
  /\ UNCHANGED scope

\* The server answers with an error: the first one ends the function.
Refuse(j) ==
  /\ job[j] # None /\ job[j].todo # <<>>
  /\ LET r == Head(job[j].todo) IN ~Accepts(r) \/ (r.op = "insert" /\ Taken(r.what) # {})
  /\ Ended(j) /\ MyView(j, Failed(view, j))
  /\ UNCHANGED <<db, page, load, aux, saved, scope, doubt, alone>>

\* The connection breaks: the function ends as with an error, and its request
\* may still be served.
Break(j) ==
  /\ job[j] # None /\ job[j].mark # "lost"
  /\ MyView(j, Failed(view, j))
  /\ \/ Ended(j)
     \/ /\ job[j].todo # <<>>
        /\ job' = [job EXCEPT ![j] = [todo |-> <<Head(job[j].todo)>>, then |-> None, mark |-> "lost",
                                      data |-> None, mine |-> FALSE]]
  /\ UNCHANGED <<db, page, load, aux, saved, scope, doubt, alone>>

\* The query at the end of the function is served, then its answer arrives.
ServeThen(j) ==
  /\ job[j] # None /\ job[j].todo = <<>> /\ job[j].data = None
  /\ IF Answers(job[j].then.kind, job[j].then.of)
     THEN job' = [job EXCEPT ![j].data = <<Answer(job[j].then.kind, job[j].then.of)>>] /\ UNCHANGED view
     ELSE Ended(j) /\ MyView(j, Failed(view, j))
  /\ UNCHANGED <<db, page, load, aux, saved, scope, doubt, alone>>

ThenShown(v, j) == ViewShows(v, job[j].then.kind, job[j].data[1])

ThenArrives(j) ==
  /\ job[j] # None /\ job[j].data # None
  /\ Ended(j) /\ MyView(j, Unmarked(ThenShown(view, j), j))
  /\ saved' = IF job[j].then.kind = "setting" THEN None ELSE saved
  /\ UNCHANGED <<db, page, load, aux, scope, doubt, alone>>

Function == \E j \in JobIds : Serve(j) \/ Refuse(j) \/ Break(j) \/ ServeThen(j) \/ ThenArrives(j)

----------------------------------------------------------------------------
(* The effects. *)

NotLoading == UNCHANGED <<db, scope, doubt>>

ServeLoad ==
  /\ load # None /\ load.data = None /\ Answers(load.kind, load.of)
  /\ load' = [load EXCEPT !.data = <<Answer(load.kind, load.of)>>]
  /\ UNCHANGED <<page, view, aux, job, saved, alone>> /\ NotLoading

LoadFails ==
  /\ load # None /\ load' = None
  /\ view' = IF load.kind \in ScheduleKinds THEN ScheduleFails(view, load.kind, load.of) ELSE PageFails(view, load.kind)
  /\ UNCHANGED <<page, aux, job, saved, alone>> /\ NotLoading

\* The wizard is told whether the setup is complete, and where to resume.
WizardArrives(data) ==
  IF data.setup THEN Mount("dashboard", job)
  ELSE /\ EnterStep(Resume(data.rules), [view EXCEPT !.loaded = TRUE, !.rules = data.rules])
       /\ UNCHANGED <<page, saved, alone>>

\* HostDashboardPage sends the host on, by the number of pages.
HomeArrives(items) ==
  LET mine == {p \in Pages : items[p] # None} IN
  CASE mine = {} -> view' = [view EXCEPT !.items = items] /\ load' = None
                            /\ UNCHANGED <<page, aux, job, saved, alone>>
    [] Cardinality(mine) = 1 -> Mount("dashboard", job)
    [] OTHER -> Mount("services", job)

\* The dashboard finds its row; by the id it goes on to the slug and asks again.
RowArrives(items) ==
  LET row == items[view.id]
  IN /\ view' = [WithRow(view, row) EXCEPT !.key = IF row = None THEN @ ELSE "slug"]
     /\ load' = IF row # None /\ view.key = "id" THEN Effect("settings", None) ELSE None
     /\ aux' = IF row = None THEN None ELSE Schedule
     /\ UNCHANGED <<page, job, saved, alone>>

LoadArrives ==
  /\ load # None /\ load.data # None
  /\ LET data == load.data[1]
     IN CASE load.kind = "wizard" -> WizardArrives(data)
          [] load.kind = "settings" /\ page = "home" -> HomeArrives(data)
          [] load.kind = "settings" /\ page = "dashboard" -> RowArrives(data)
          [] OTHER -> /\ load' = None
                      /\ view' = LET v == ViewShows(view, load.kind, data)
                                 IN IF page = "slots" THEN [v EXCEPT !.error = FALSE] ELSE v
                      /\ UNCHANGED <<page, aux, job, saved, alone>>
  /\ NotLoading

ServeAux ==
  /\ aux # None /\ aux.kind # "schedule" /\ aux.data = None /\ Answers(aux.kind, aux.of)
  /\ aux' = [aux EXCEPT !.data = <<Answer(aux.kind, aux.of)>>]
  /\ UNCHANGED <<page, view, load, job, saved, alone>> /\ NotLoading

AuxFails ==
  /\ aux # None /\ aux.kind # "schedule" /\ aux' = None
  /\ view' = IF aux.kind \in ScheduleKinds THEN ScheduleFails(view, aux.kind, aux.of) ELSE PageFails(view, aux.kind)
  /\ UNCHANGED <<page, load, job, saved, alone>> /\ NotLoading

AuxArrives ==
  /\ aux # None /\ aux.kind # "schedule" /\ aux.data # None
  /\ aux' = None /\ view' = ViewShows(view, aux.kind, aux.data[1])
  /\ UNCHANGED <<page, load, job, saved, alone>> /\ NotLoading

\* Promise.allSettled: the slots and the bookings are read one by one, each
\* may fail (<<>>); when the bookings do, none are shown and nothing is said.
ServeSchedule ==
  /\ aux # None /\ aux.kind = "schedule"
  /\ \/ aux.data.slots = None /\ \E got \in {<<db.slots>>, <<>>} : aux' = [aux EXCEPT !.data.slots = got]
     \/ aux.data.bookings = None
        /\ \E got \in {<<db.booking>>, <<>>} : aux' = [aux EXCEPT !.data.bookings = got]
  /\ UNCHANGED <<page, view, load, job, saved, alone>> /\ NotLoading

Read(got, none) == IF got = <<>> THEN none ELSE got[1]
ScheduleArrives ==
  /\ aux # None /\ aux.kind = "schedule" /\ aux.data.slots # None /\ aux.data.bookings # None
  /\ aux' = None
  /\ view' = [view EXCEPT !.slots = Read(aux.data.slots, {}), !.error = aux.data.slots = <<>>,
                          !.bookings = Read(aux.data.bookings, [b \in Books |-> None])]
  /\ UNCHANGED <<page, load, job, saved, alone>> /\ NotLoading

Effects == \/ ServeLoad \/ LoadFails \/ LoadArrives \/ ServeAux \/ AuxFails \/ AuxArrives
           \/ ServeSchedule \/ ScheduleArrives

----------------------------------------------------------------------------
(* The bookers. *)

\* The id of no booking, under which no request is under way either.
Names(r, b) == \/ r.op \in {"approve", "confirm", "reject", "reopen"} /\ r.what = b
               \/ r.op = "close" /\ r.what.book = b
Unnamed(b) == /\ db.booking[b] = None /\ db.cancel[b] = None
              /\ \A j \in Running : job[j].todo # <<>> => ~Names(Head(job[j].todo), b)

\* create_booking at its commit, under a new id: it holds the row lock of the
\* slot from its check of the status on, so no other write comes in between.
Book ==
  \E s \in db.slots : \E b \in Books :
    /\ s.status = "OPEN" /\ Unnamed(b)
    /\ db' = [db EXCEPT !.booking[b] = [date |-> s.date, from |-> s.from, status |-> "PENDING"],
                        !.slots = (@ \ {s}) \cup {[s EXCEPT !.status = "BOOKED"]}]

\* cancel_my_booking reads the booking ...
CancelRead ==
  \E b \in Books :
    /\ db.booking[b] # None /\ db.booking[b].status \in Active /\ db.cancel[b] = None
    /\ db' = [db EXCEPT !.cancel[b] = "read"]

\* ... then its slot ...
CancelSlot ==
  \E b \in Books : /\ db.cancel[b] = "read"
                   /\ db' = [db EXCEPT !.cancel[b] = IF Frees(b) THEN "frees" ELSE "keeps"]

\* ... and commits; the row may have been deleted with its page.
CancelCommit ==
  \E b \in Books :
    /\ db.cancel[b] \in {"frees", "keeps"}
    /\ db' = IF db.booking[b] = None THEN [db EXCEPT !.cancel[b] = None]
             ELSE [Close(b, "CANCELLED", db.cancel[b] = "frees") EXCEPT !.cancel[b] = None]

Others ==
  /\ \/ scope.others > 0 /\ scope' = [scope EXCEPT !.others = @ - 1] /\ (Book \/ CancelRead)
     \/ UNCHANGED scope /\ (CancelSlot \/ CancelCommit)
  /\ UNCHANGED <<page, view, load, aux, job, saved, doubt, alone>>

----------------------------------------------------------------------------
(* History: the slots whose bookings changed, or were not read, since the
   first part of the schedule on the dashboard was served. *)
Changed == {At(db.booking[b]) : b \in {x \in Books : db.booking[x] # None /\ db'.booking[x] # db.booking[x]}}
           \cup {At(db'.booking[b]) : b \in {x \in Books : db'.booking[x] # None /\ db'.booking[x] # db.booking[x]}}
Watch ==
  moved' = IF page' # "dashboard" \/ aux' = Schedule THEN {}
           ELSE moved \cup (IF aux' = None THEN {} ELSE Changed)
                      \cup (IF aux' # None /\ aux'.data.bookings = <<>> THEN {At(s) : s \in db.slots} ELSE {})

Clicks == ScheduleActions \/ PageActions \/ Open
Next == Clicks \/ ((Function \/ Effects \/ Others) /\ Watch)
Spec == Init /\ [][Next]_vars
----------------------------------------------------------------------------
(* Properties. *)

\* The requests and the last queries of the functions of page p.
OpsOn(p) ==
  CASE p = "rules"     -> {"rule", "unrule"}
    [] p = "slots"     -> {"generate", "insert", "clear"}
    [] p = "overrides" -> {"except", "unexcept"}
    [] p = "setup"     -> {"rule", "unrule", "generate", "insert", "clear", "except", "unexcept", "complete"}
    [] p = "services"  -> {"delete"}
    [] p = "new"       -> {"create"}
    [] p = "edit"      -> {"update", "activate", "discard"}
    [] p = "booking"   -> {"approve", "confirm", "reject", "reopen", "close"}
    [] p = "admin"     -> {"decide", "grant"}
    [] OTHER           -> {}
EndsOn(p) ==
  CASE p = "rules"     -> {"rules"}
    [] p = "slots"     -> {"count"}
    [] p = "overrides" -> {"overrides"}
    [] p = "setup"     -> {"rules", "count", "overrides", "setting"}
    [] p = "booking"   -> {"detail"}
    [] p = "admin"     -> {"pending"}
    [] OTHER           -> {}

Jobs(q) == [todo: Seq(Requests), then: {q}, mark: {None, "yes", "lost"} \cup Pages \cup Users,
            data: IF q = None THEN {None} ELSE Data(q.kind, q.of), mine: BOOLEAN]

ASSUME NoneIsNoRecord ==
  /\ \A q \in {None} \cup Queries : None \notin Jobs(q)
  /\ None \notin STRING \cup Dates /\ None \notin Settings /\ None \notin Bookings /\ None \notin ScheduleReading
  /\ \A q \in Queries : None \notin {q} \cup Reading(q.kind, q.of) \cup [1..1 -> Answered(q.kind, q.of)]
  /\ None \notin BookingLists \cup [1..1 -> SlotLists] \cup [1..1 -> BookingLists] \cup {<<>>}

JobOK(f, p) ==
  /\ f.then \in {None} \cup Queries /\ f \in Jobs(f.then)
  /\ f.then = None => Len(f.todo) = 1
  /\ f.data # None => f.todo = <<>>
  /\ f.mark = "lost" => ~f.mine /\ f.then = None
  /\ f.mine => /\ \A n \in DOMAIN f.todo : f.todo[n].op \in OpsOn(p)
               /\ f.then # None => f.then.kind \in EndsOn(p)

\* Types; a page has no effect under way but those of what it shows, and no
\* function but its own.
TypeOK == db \in Database /\ ScheduleOK /\ PagesOK /\ \A j \in Running : JobOK(job[j], page)

\* Schedules of one day: up to two OPEN rules, a break, an override.
Spans == {i \in [from: Clock, to: Clock] : i.from < i.to}
AtMost(n, S) == {T \in SUBSET S : Cardinality(T) <= n}
Tagged(kind, S) == {[kind |-> kind, from |-> i.from, to |-> i.to] : i \in S}
DayRules == {Tagged("OPEN", o) \cup Tagged("BREAK", b) : o \in AtMost(2, Spans), b \in AtMost(1, Spans)}
DayOverrides == {Tagged("BLOCK", b) \cup Tagged("OPEN", o) : b, o \in AtMost(1, Spans)}

SmallDays ==
  \A rules \in DayRules, overrides \in DayOverrides, duration \in 1 .. 2, buffer \in 0 .. 1 :
    OfKind(rules, "OPEN") # {} =>
      Windows(rules, overrides, duration, buffer) = WindowsByInstants(rules, overrides, duration, buffer)

Generating(j) == job[j].todo # <<>> /\ Head(job[j].todo).op = "generate"

\* generate_slots makes exactly the windows that the rules and overrides of a
\* day leave, although it merges, cuts, appends and merges lists of intervals:
\* for every day of SmallDays, and for the dates a request is about to fill.
WindowsExact ==
  /\ SmallDays
  /\ db.setting[This] # None => \A date \in UNION {Head(job[j].todo).what : j \in {i \in Running : Generating(i)}} :
       LET day == {r \in db.rules : r.day = DayOf[date]}
           ours == OverridesIn({date})
       IN OfKind(day, "OPEN") # {} /\ (\A o \in ours : o.kind # "DAY_OFF") =>
            WindowsOf(date) = WindowsByInstants(day, ours, db.setting[This].mins, Buffer)

\* Two slots of a date overlap only once slots were generated on a date whose
\* slots are not all windows of its rules, overrides and duration: generating
\* again skips equal starts only, and the edit page may have changed the
\* duration, another page the rules, before it or between its two steps.
SlotsDisjoint == "grid" \notin doubt => Disjoint(db.slots)

\* Clearing a range (clear_slots_in_range) while bookers book and cancel and
\* the host decides: a booking, ended or not, never loses the row of its slot.
BookingsKeepSlots == Kept(db)

\* HostRulesPage reads the list again only when every request of a function
\* has succeeded: a list that is not the server's goes with an error, if
\* nothing was running when its functions started.  One way leads past it: a
\* function fails half-way over an empty list, and resetAllWizardRules takes the
\* error away, says that there is nothing to delete, and reads nothing.
StaleListShowsError ==
  page = "rules" /\ Quiet /\ alone /\ view.rules # None =>
    view.rules = db.rules \/ view.error \/ (view.rules = {} /\ "dismissed" \in doubt)

\* The number of slots that is shown is of the range that is shown, if no
\* range was chosen while slots were being made, cleared or counted.
CountMatchesRange ==
  page \in {"slots", "setup"} /\ Quiet /\ alone /\ view.count # None /\ (page = "setup" => view.step = 3)
    => view.count.of = view.range

\* What is shown answers the last choice, however fast the user chooses: the
\* bookings of the filter, the slots of the exception's date, the cells of
\* the calendar's month.
AnswersMatchChoice ==
  /\ page = "bookings" /\ load = None /\ ~view.error /\ view.items # None /\ view.filter # "ALL" =>
       \A b \in Books : view.items[b] \in {None, view.filter}
  /\ page = "setup" /\ aux = None /\ view.day # None => \A s \in view.day : s.date = view.date
  /\ page = "setup" /\ view.activated /\ view.calendar # None =>
       \A d \in Dates \ view.month : Cell(d).slots = {}

\* The wizard shows a page as set up only when the server has it so, also
\* when reading the page again fails.
ActivatedIsCompleted ==
  page = "setup" /\ view.activated /\ db.setting[This] # None => db.setting[This].setup

\* Buttons are disabled only while the function that disabled them runs.
BusyMeansRunning ==
  page # "elsewhere" /\ "busy" \in DOMAIN view /\ view.busy # None =>
    \E j \in Running : job[j].mine /\ job[j].mark = view.busy

\* A row "BOOKED" without a booking on the dashboard means that bookings of
\* the slot changed, or were not read, since the schedule was being read.
OrphanRowMeansMoved == ShowsSchedule => Orphans(view) \subseteq moved

\* A user has the role HOST exactly when the last decision was to approve,
\* if no two decisions on the user overlapped.
RoleMatchesDecision == "crossed" \notin doubt => RolesMatch(db.user)

\* A page whose setup is complete is deleted from the list only, unless it
\* was completed while its draft was open for editing or being deleted.
DraftsOnly ==
  [][\A p \in Pages :
       db.setting[p] # None /\ db.setting[p].setup /\ db'.setting[p] = None =>
         \/ \E j \in Running : job[j].todo # <<>> /\ Head(job[j].todo) = Request("delete", p)
         \/ "completed" \in doubt]_vars

\* The list of pages is never blank while pages pass the filter, also after
\* the last card of the last page has been deleted.
NoBlankPage ==
  page = "services" /\ view.items # None /\ Filtered(view) # {} => Cards(view) # {}
=============================================================================
