------------------------------ MODULE HostDesk ------------------------------
(***************************************************************************)
(* The host's side of the server, one request a step, and the asynchronous *)
(* functions of the pages that call it.                                    *)
(*                                                                         *)
(* db is the database.  A job is a function that a click has started: the  *)
(* requests it still has to make, one after the other, and what it reads   *)
(* back when all have been answered.  A job outlives its page.             *)
(***************************************************************************)
EXTENDS Timetable

CONSTANTS
  Pages,        \* booking pages of the host
  This,         \* the one whose schedule, slots and bookings are modelled
  Days, DayOf,  \* weekdays; DayOf[d]: the weekday of date d
  Ranges,       \* ranges of dates that are asked for; a month is one
  Durations,    \* slot_duration_mins that are filled in
  Buffer,       \* buffer_duration_mins: no form has it
  Books, Users, \* bookings, and users who have asked to become a host
  JobIds,       \* bound: functions that run at once
  None

Dates == DOMAIN DayOf

ASSUME HostConstantsOK ==
  /\ This \in Pages /\ IsFiniteSet(Pages) /\ "lost" \notin Pages \cup Users
  /\ None \notin Pages \cup Users \cup {"yes", "lost", "read", "frees", "keeps"}
  /\ Durations \subseteq Nat \ {0} /\ Buffer \in Nat
  /\ Days \subseteq Nat /\ IsFiniteSet(Days) /\ DayOf \in [Dates -> Days]
  /\ Ranges \subseteq SUBSET Dates /\ \A r \in Ranges : IsFiniteSet(r)

VARIABLES
  db,          \* the database and the bookers' requests in it: see Database;
               \* fresh: the ids that no page has had
  page, view,  \* the mounted page and its state
  load, aux,   \* its effects under way: [kind, of, data], data = None until served
  job,         \* the functions under way
  saved,       \* sessionStorage: the step of the setup wizard
  scope,       \* bound: [clicks, others, pages] the behaviour may still use or open
  doubt,       \* history: "grid", "completed", "crossed", "dismissed": see where each is added
  alone,       \* history: nothing the page started has overlapped anything else
  moved        \* history: bookings that changed since the schedule was first read

vars == <<db, page, view, load, aux, job, saved, scope, doubt, alone, moved>>

Rules == [id: Nat, day: Days, kind: {"OPEN", "BREAK"}, from: Nat, to: Nat]
Overrides == [id: Nat, date: Dates, kind: {"DAY_OFF", "OPEN", "BLOCK"}, from: Nat, to: Nat]
Slots == [date: Dates, from: Nat, to: Nat, status: {"OPEN", "BLOCKED", "BOOKED"}]
Settings == [slug: STRING, mins: Nat \ {0}, listed: BOOLEAN, setup: BOOLEAN, active: BOOLEAN]
Active == {"PENDING", "CONFIRMED"}
BookStatuses == Active \cup {"REJECTED", "CANCELLED"}
Bookings == [date: Dates, from: Nat, status: BookStatuses]
\* A booker's cancel_my_booking under way: it has read the booking, or also the
\* slot, which its commit frees or keeps as it is.
Cancels == {None, "read", "frees", "keeps"}
Hosts == [request: {"pending", "approved", "rejected"}, host: BOOLEAN]

RuleLists == {R \in SUBSET Rules : IsFiniteSet(R) /\ \A r \in R : r.from < r.to}
OverrideLists == {O \in SUBSET Overrides : IsFiniteSet(O) /\ \A o \in O : o.kind # "DAY_OFF" => o.from < o.to}
SlotLists == {S \in SUBSET Slots : IsFiniteSet(S)}

Database ==
  [rules: RuleLists, overrides: OverrideLists, slots: SlotLists, next: Nat, fresh: SUBSET Pages,
   setting: [Pages -> Settings \cup {None}], booking: [Books -> Bookings \cup {None}],
   cancel: [Books -> Cancels], user: [Users -> Hosts]]

Request(op, what) == [op |-> op, what |-> what]
Effect(kind, of) == [kind |-> kind, of |-> of, data |-> None]
Running == {j \in JobIds : job[j] # None}
Quiet == Running = {} /\ load = None /\ aux = None

----------------------------------------------------------------------------
(* The database. *)

At(s) == [date |-> s.date, from |-> s.from]

ActiveAt(booking, k) == {b \in Books : booking[b] # None /\ At(booking[b]) = k /\ booking[b].status \in Active}

\* What the database's constraints keep up: ids are used once, a start has one
\* slot of a page.
Sound(d) ==
  /\ \A p \in d.fresh : d.setting[p] = None
  /\ \A s, t \in d.slots : At(s) = At(t) => s = t

\* The properties of slots, bookings and users that the requests keep up.  That
\* a slot with an active booking is BOOKED is not one of them.
Disjoint(slots) == \A s, t \in slots : s # t /\ s.date = t.date => ~Meet(s, t)
Kept(d) == \A b \in Books : d.booking[b] # None => \E s \in d.slots : At(s) = At(d.booking[b])
Backed(d) == \A s \in d.slots : s.status = "BOOKED" => ActiveAt(d.booking, At(s)) # {}
RolesMatch(users) == \A u \in Users : users[u].host = (users[u].request = "approved")

BooksAt(k) == {b \in Books : db.booking[b] # None /\ At(db.booking[b]) = k}
SlotsIn(range) == {s \in db.slots : s.date \in range}
OverridesIn(range) == {o \in db.overrides : o.date \in range}

\* create_rule: the order of its times is all that the server checks.
CreateRule(d) ==
  [db EXCEPT !.rules = @ \cup {[id |-> db.next, day |-> d.day, kind |-> d.kind, from |-> d.from, to |-> d.to]},
             !.next = @ + 1]
DeleteRule(id) == [db EXCEPT !.rules = {r \in @ : r.id # id}]

\* create_override; a DAY_OFF has no times, here 0.
CreateOverride(d) ==
  [db EXCEPT !.overrides = @ \cup {[id |-> db.next, date |-> d.date, kind |-> d.kind,
                                    from |-> IF d.from = None THEN 0 ELSE d.from,
                                    to |-> IF d.to = None THEN 0 ELSE d.to]},
             !.next = @ + 1]
Timed(d) == IF d.kind = "DAY_OFF" THEN d.from = None /\ d.to = None
            ELSE d.from # None /\ d.to # None /\ d.from < d.to
DeleteOverride(id) == [db EXCEPT !.overrides = {o \in @ : o.id # id}]

\* The windows of a date by the rules, the overrides and the duration as they
\* are now.
WindowsOf(date) ==
  LET day == {r \in db.rules : r.day = DayOf[date]}
  IN Windows(day, OverridesIn({date}), db.setting[This].mins, Buffer)

\* generate_slots until its commit: the windows that have no slot yet.
Missing(range) ==
  {s \in UNION {{[date |-> d, from |-> w.from, to |-> w.to, status |-> "OPEN"] : w \in WindowsOf(d)} : d \in range} :
     \A t \in db.slots : At(t) # At(s)}

\* Its commit; a slot that another request has inserted by now fails it
\* (the unique constraint), or was seen by a later look-up.
Taken(slots) == {s \in slots : \E t \in db.slots : At(t) = At(s)}
Insert(slots) == [db EXCEPT !.slots = @ \cup (slots \ Taken(slots))]

\* Mutant: slots that only have ended bookings are cleared too.
ClearEnded(range) ==
  [db EXCEPT !.slots = {s \in @ : s.date \notin range \/ s.status = "BOOKED"}]

\* clear_slots_in_range: one DELETE, whose condition PostgreSQL evaluates
\* again on a row that a booking has just changed.
Clear(range) ==
  [db EXCEPT !.slots = {s \in @ : s.date \notin range \/ s.status = "BOOKED" \/ BooksAt(At(s)) # {}}]

\* complete_setup_wizard(activate = True)
CompleteSetup(p) == [db EXCEPT !.setting[p].setup = TRUE, !.setting[p].active = TRUE]
\* toggle_active
ToggleActive(p, on) == [db EXCEPT !.setting[p].active = on]

SlugFree(slug, p) == \A q \in Pages \ {p} : db.setting[q] # None => db.setting[q].slug # slug

\* create_host_setting(start_as_draft = True): the id is a new one.
NewId == CHOOSE p \in db.fresh : This \in db.fresh => p = This
CreateSetting(p, w) ==
  [db EXCEPT !.setting[p] = [slug |-> w.slug, mins |-> w.mins, listed |-> w.listed, setup |-> FALSE, active |-> FALSE],
             !.fresh = @ \ {p}]
\* update_host_setting with what the form of the page sends
UpdateSetting(p, form) ==
  [db EXCEPT !.setting[p] = [@ EXCEPT !.slug = form.slug, !.mins = form.mins, !.listed = form.listed]]

\* delete_host_setting: bookings first, then the page and by CASCADE the rest.
DeleteSetting(p) ==
  LET gone == [db EXCEPT !.setting[p] = None]
  IN IF p # This THEN gone
     ELSE [gone EXCEPT !.rules = {}, !.overrides = {}, !.slots = {}, !.booking = [b \in Books |-> None]]

\* approve_booking at its commit: whatever the booking is by now.
Confirm(b) == [db EXCEPT !.booking[b].status = "CONFIRMED"]

\* reject_booking and cancel_my_booking read the slot; the ORM writes OPEN
\* unless that is what they read ...
Frees(b) == db.booking[b] # None /\ \E s \in db.slots : At(s) = At(db.booking[b]) /\ s.status # "OPEN"
\* ... and at their commit the booking ends and the slot follows.
Close(b, status, frees) ==
  [db EXCEPT !.booking[b].status = status,
             !.slots = {IF frees /\ At(s) = At(db.booking[b]) THEN [s EXCEPT !.status = "OPEN"] ELSE s : s \in @}]

\* Mutant: whoever asked first, the role is granted by the last decision only.
DecideByLast(u, verdict) == [db EXCEPT !.user[u] = [request |-> verdict, host |-> FALSE]]

\* approve_host_request, reject_host_request, at their commit.
Decide(u, verdict) ==
  [db EXCEPT !.user[u] = [request |-> verdict, host |-> @.host \/ verdict = "approved"]]

----------------------------------------------------------------------------
(* Requests. *)

\* Whether the server does what r asks; else it answers with an error.
Accepts(r) ==
  LET w == r.what IN
  CASE r.op = "rule"     -> db.setting[This] # None /\ w.from < w.to
    [] r.op = "unrule"   -> \E x \in db.rules : x.id = w
    [] r.op = "except"   -> db.setting[This] # None /\ Timed(w)
    [] r.op = "unexcept" -> \E x \in db.overrides : x.id = w
    [] r.op \in {"generate", "clear", "insert"} -> db.setting[This] # None
    [] r.op \in {"complete", "activate", "delete", "discard"} -> db.setting[w] # None
    [] r.op = "create"   -> SlugFree(w.slug, None) /\ db.fresh # {}
    [] r.op = "update"   -> db.setting[w.page] # None /\ SlugFree(w.form.slug, w.page)
    [] r.op \in {"approve", "reject"} -> db.booking[w] # None /\ db.booking[w].status = "PENDING"
    [] r.op = "confirm"  -> db.booking[w] # None
    [] r.op = "close"    -> db.booking[w.book] # None
    [] r.op = "decide"   -> db.user[w.user].request = "pending"
    [] r.op \in {"reopen", "grant"} -> TRUE

\* A handler that reads before an await and goes on after it is two requests;
\* reject_booking is three: the booking, the slot, the commit.
TwoSteps == {"generate", "decide", "approve", "reject", "reopen"}
Second(r) ==
  CASE r.op = "generate" -> Request("insert", Missing(r.what))
    [] r.op = "decide"   -> Request("grant", r.what)
    [] r.op = "approve"  -> Request("confirm", r.what)
    [] r.op = "reject"   -> Request("reopen", r.what)
    [] r.op = "reopen"   -> Request("close", [book |-> r.what, frees |-> Frees(r.what)])

\* The database once r is served.
Served(r) ==
  LET w == r.what IN
  CASE r.op = "rule"     -> CreateRule(w)
    [] r.op = "unrule"   -> DeleteRule(w)
    [] r.op = "except"   -> CreateOverride(w)
    [] r.op = "unexcept" -> DeleteOverride(w)
    [] r.op = "insert"   -> Insert(w)
    [] r.op = "clear"    -> Clear(w)
    [] r.op = "complete" -> CompleteSetup(w)
    [] r.op = "activate" -> ToggleActive(w, TRUE)
    [] r.op = "create"   -> CreateSetting(NewId, w)
    [] r.op = "update"   -> UpdateSetting(w.page, w.form)
    [] r.op \in {"delete", "discard"} -> DeleteSetting(w)
    [] r.op = "confirm"  -> Confirm(w)
    [] r.op = "close"    -> Close(w.book, "REJECTED", w.frees)
    [] r.op = "grant"    -> Decide(w.user, w.verdict)

\* The queries: whether one is answered, and with what.
Answers(kind, of) ==
  CASE kind \in {"rules", "overrides", "count", "day", "calendar", "wizard"} -> db.setting[This] # None
    [] kind \in {"setting", "preview"} -> db.setting[of] # None
    [] kind = "detail" -> db.booking[of] # None
    [] OTHER -> TRUE

Answer(kind, of) ==
  CASE kind = "rules"     -> db.rules
    [] kind = "overrides" -> OverridesIn(of)
    [] kind = "count"     -> [of |-> of, n |-> Cardinality(SlotsIn(of))]
    [] kind = "day"       -> SlotsIn({of})
    [] kind = "calendar"  -> [overrides |-> OverridesIn(of), slots |-> SlotsIn(of)]
    [] kind = "wizard"    -> [setup |-> db.setting[This].setup, rules |-> db.rules]
    [] kind = "settings"  -> db.setting
    [] kind \in {"setting", "preview"} -> db.setting[of]
    [] kind = "bookings"  -> [b \in Books |-> IF db.booking[b] # None /\ of \in {"ALL", db.booking[b].status}
                                             THEN db.booking[b].status ELSE None]
    [] kind = "detail"    -> db.booking[of].status
    [] kind = "pending"   -> {u \in Users : db.user[u].request = "pending"}

\* What a request carries, and what a query is answered with.
Requests ==
       [op: {"rule"}, what: [day: Days, kind: {"OPEN", "BREAK"}, from: Nat, to: Nat]]
  \cup [op: {"unrule", "unexcept"}, what: Nat]
  \cup [op: {"except"}, what: [date: Dates, kind: {"DAY_OFF", "OPEN", "BLOCK"},
                              from: Nat \cup {None}, to: Nat \cup {None}]]
  \cup [op: {"generate", "clear"}, what: Ranges]
  \cup [op: {"insert"}, what: SlotLists]
  \cup [op: {"complete", "activate", "delete", "discard"}, what: Pages]
  \cup [op: {"create"}, what: [slug: STRING, mins: Nat \ {0}, listed: BOOLEAN]]
  \cup [op: {"update"}, what: [page: Pages, form: Settings]]
  \cup [op: {"approve", "reject", "confirm", "reopen"}, what: Books]
  \cup [op: {"close"}, what: [book: Books, frees: BOOLEAN]]
  \cup [op: {"decide", "grant"}, what: [user: Users, verdict: {"approved", "rejected"}]]

Counts == [of: Ranges, n: Nat]
SettingLists == [Pages -> Settings \cup {None}]
BookingLists == [Books -> Bookings \cup {None}]
StatusLists(filter) == [Books -> {s \in BookStatuses : filter \in {"ALL", s}} \cup {None}]
Answered(kind, of) ==
  CASE kind = "rules"     -> RuleLists
    [] kind = "overrides" -> OverrideLists
    [] kind = "count"     -> {c \in Counts : c.of = of}
    [] kind = "day"       -> {S \in SlotLists : \A s \in S : s.date = of}
    [] kind = "calendar"  -> [overrides: OverrideLists, slots: {S \in SlotLists : \A s \in S : s.date \in of}]
    [] kind = "wizard"    -> [setup: BOOLEAN, rules: RuleLists]
    [] kind = "settings"  -> SettingLists
    [] kind \in {"setting", "preview"} -> Settings
    [] kind = "bookings"  -> StatusLists(of)
    [] kind = "detail"    -> BookStatuses
    [] kind = "pending"   -> SUBSET Users
Queries == [kind: {"rules", "wizard", "settings", "pending"}, of: {None}]
           \cup [kind: {"count", "overrides", "calendar"}, of: Ranges] \cup [kind: {"day"}, of: Dates]
           \cup [kind: {"setting", "preview"}, of: Pages] \cup [kind: {"detail"}, of: Books]
           \cup [kind: {"bookings"}, of: {"ALL", "PENDING", "CONFIRMED"}]
Data(kind, of) == {None} \cup [1..1 -> Answered(kind, of)]
Reading(kind, of) == [kind: {kind}, of: {of}, data: Data(kind, of)]

----------------------------------------------------------------------------
(* Functions of the page. *)

Job(todo, then, mark) == [todo |-> todo, then |-> then, mark |-> mark, data |-> None, mine |-> TRUE]
\* What a job reads at its end: a query, or None.
Query(kind, of) == [kind |-> kind, of |-> of]

Spawn(j) == \E i \in JobIds : job[i] = None /\ job' = [job EXCEPT ![i] = j]
Click == scope.clicks > 0 /\ scope' = [scope EXCEPT !.clicks = @ - 1]

\* A click that starts a function; v is the page's state once it awaits.
Start(todo, then, mark, v) ==
  /\ Click /\ Spawn(Job(todo, then, mark)) /\ view' = v
  /\ alone' = (alone /\ Quiet)
  /\ UNCHANGED <<db, page, load, aux, saved, moved>>

\* A click that only changes what the page shows.
Show(v) == Click /\ view' = v /\ UNCHANGED <<db, page, load, aux, job, saved, doubt, alone, moved>>

\* A click that makes an effect run again: its last run is cancelled.
Rerun(v, effect) ==
  /\ Click /\ view' = v /\ load' = effect
  /\ alone' = (alone /\ Quiet)
  /\ UNCHANGED <<db, page, aux, job, saved, doubt, moved>>
=============================================================================
