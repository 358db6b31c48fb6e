--------------------------- MODULE HostDeskProofs ---------------------------
(***************************************************************************)
(* Types of the host's console: what the server's requests make of its     *)
(* data, what a query is answered with, and that every page keeps the      *)
(* state, the effects and the functions that are its own.                  *)
(***************************************************************************)
EXTENDS HostConsole, TimetableProofs

----------------------------------------------------------------------------
(* Requests. *)

LEMMA RequestTypes ==
  ASSUME NEW r \in Requests
  PROVE  /\ r = [op |-> r.op, what |-> r.what]
         /\ r.op \in {"rule", "unrule", "except", "unexcept", "generate", "insert", "clear", "complete", "activate",
                      "delete", "discard", "create", "update", "approve", "reject", "confirm", "reopen", "close",
                      "decide", "grant"}
         /\ r.op = "rule" => r.what \in [day: Days, kind: {"OPEN", "BREAK"}, from: Nat, to: Nat]
         /\ r.op \in {"unrule", "unexcept"} => r.what \in Nat
         /\ r.op = "except" => r.what \in [date: Dates, kind: {"DAY_OFF", "OPEN", "BLOCK"},
                                           from: Nat \cup {None}, to: Nat \cup {None}]
         /\ r.op \in {"generate", "clear"} => r.what \in Ranges
         /\ r.op = "insert" => r.what \in SlotLists
         /\ r.op \in {"complete", "activate", "delete", "discard"} => r.what \in Pages
         /\ r.op = "create" => r.what \in [slug: STRING, mins: Nat \ {0}, listed: BOOLEAN]
         /\ r.op = "update" => r.what \in [page: Pages, form: Settings]
         /\ r.op \in {"approve", "reject", "confirm", "reopen"} => r.what \in Books
         /\ r.op = "close" => r.what \in [book: Books, frees: BOOLEAN]
         /\ r.op \in {"decide", "grant"} => r.what \in [user: Users, verdict: {"approved", "rejected"}]
  BY DEF Requests

LEMMA MadeRequests ==
  /\ \A w \in [day: Days, kind: {"OPEN", "BREAK"}, from: Nat, to: Nat] : Request("rule", w) \in Requests
  /\ \A w \in Nat : Request("unrule", w) \in Requests /\ Request("unexcept", w) \in Requests
  /\ \A w \in [date: Dates, kind: {"DAY_OFF", "OPEN", "BLOCK"}, from: Nat \cup {None}, to: Nat \cup {None}] :
       Request("except", w) \in Requests
  /\ \A w \in Ranges : Request("generate", w) \in Requests /\ Request("clear", w) \in Requests
  /\ \A w \in SlotLists : Request("insert", w) \in Requests
  /\ \A w \in Pages, op \in {"complete", "activate", "delete", "discard"} : Request(op, w) \in Requests
  /\ \A w \in [slug: STRING, mins: Nat \ {0}, listed: BOOLEAN] : Request("create", w) \in Requests
  /\ \A w \in [page: Pages, form: Settings] : Request("update", w) \in Requests
  /\ \A w \in Books, op \in {"approve", "reject", "confirm", "reopen"} : Request(op, w) \in Requests
  /\ \A w \in [book: Books, frees: BOOLEAN] : Request("close", w) \in Requests
  /\ \A w \in [user: Users, verdict: {"approved", "rejected"}], op \in {"decide", "grant"} : Request(op, w) \in Requests
  BY DEF Requests, Request

LEMMA RequestFields ==
  ASSUME NEW op, NEW w PROVE Request(op, w).op = op /\ Request(op, w).what = w
  BY DEF Request

----------------------------------------------------------------------------
(* The database. *)

LEMMA DatabaseTypes ==
  ASSUME db \in Database
  PROVE  /\ db.rules \in RuleLists /\ db.overrides \in OverrideLists /\ db.slots \in SlotLists
         /\ db.next \in Nat /\ db.fresh \in SUBSET Pages
         /\ db.setting \in [Pages -> Settings \cup {None}]
         /\ db.booking \in [Books -> Bookings \cup {None}] /\ db.user \in [Users -> Hosts]
         /\ db.cancel \in [Books -> Cancels]
  BY DEF Database

LEMMA CloseTypes ==
  ASSUME db \in Database, NEW b \in Books, db.booking[b] # None, NEW status \in BookStatuses, NEW frees \in BOOLEAN
  PROVE  Close(b, status, frees) \in Database /\ Close(b, status, frees).cancel = db.cancel
  <1>1. PICK f : f = [s \in db.slots |-> IF frees /\ At(s) = At(db.booking[b]) THEN [s EXCEPT !.status = "OPEN"] ELSE s]
    OBVIOUS
  <1>2. PICK slots : slots = db.slots
    OBVIOUS
  <1>3. {f[s] : s \in slots} \in SlotLists
    <2>1. slots \in SUBSET Slots /\ IsFiniteSet(slots)
      BY <1>2, DatabaseTypes DEF SlotLists
    <2>2. \A s \in slots : f[s] \in Slots
      BY <1>1, <1>2, <2>1 DEF Slots
    <2>3. IsFiniteSet({f[s] : s \in slots})
      <3>1. DOMAIN f = slots
        BY <1>1, <1>2
      <3> QED
        BY <2>1, <3>1, FiniteImage
    <2> QED
      BY <2>2, <2>3 DEF SlotLists
  <1>4. [db.booking EXCEPT ![b].status = status] \in [Books -> Bookings \cup {None}]
    <2>1. [db.booking[b] EXCEPT !.status = status] \in Bookings
      BY DatabaseTypes DEF Bookings
    <2> QED
      BY <2>1, DatabaseTypes
  <1>5. Close(b, status, frees) = [db EXCEPT !.booking = [db.booking EXCEPT ![b].status = status],
                                            !.slots = {f[s] : s \in slots}]
    BY <1>1, <1>2 DEF Close, Database
  <1> QED
    BY <1>3, <1>4, <1>5 DEF Database

LEMMA FiniteWith ==
  ASSUME NEW S, IsFiniteSet(S), NEW x
  PROVE  IsFiniteSet(S \cup {x})
  BY FS_AddElement

LEMMA WindowsFinite ==
  ASSUME NEW rules, NEW overrides, Entries(rules), Entries(overrides), NEW duration \in Nat \ {0}, NEW buffer \in Nat
  PROVE  IsFiniteSet(Windows(rules, overrides, duration, buffer))
  <1>1. CASE OfKind(rules, "OPEN") = {} \/ \E o \in overrides : o.kind = "DAY_OFF"
    <2>1. Windows(rules, overrides, duration, buffer) = {}
      BY <1>1 DEF Windows
    <2> QED
      BY <2>1, FS_EmptySet
  <1>2. CASE OfKind(rules, "OPEN") # {} /\ \A o \in overrides : o.kind # "DAY_OFF"
    <2>1. PICK M : M = Runs(rules, overrides)
      OBVIOUS
    <2>2. M \in SUBSET Intervals /\ IsFiniteSet(M)
      BY <2>1, RunsAreFree
    <2> DEFINE f == [i \in M |-> Emit(i, duration, buffer)]
    <2>3. ASSUME NEW i \in M PROVE IsFiniteSet(f[i])
      <3> DEFINE T == {s \in i.from .. i.to : (s - i.from) % (duration + buffer) = 0 /\ s + duration <= i.to}
                 g == [t \in T |-> Interval(t, t + duration)]
      <3>1. i.from \in Int /\ i.to \in Int
        BY <2>2 DEF Intervals
      <3>2. IsFiniteSet(i.from .. i.to)
        BY <3>1, FS_Interval
      <3>3. IsFiniteSet(T)
        BY <3>2, FS_Subset
      <3>4. IsFiniteSet({g[t] : t \in T})
        BY <3>3, FiniteImage
      <3>5. {g[t] : t \in T} = f[i]
        BY DEF Emit
      <3> QED
        BY <3>4, <3>5
    <2>4. IsFiniteSet({f[i] : i \in M})
      BY <2>2, FiniteImage
    <2>5. IsFiniteSet(UNION {f[i] : i \in M})
      BY <2>3, <2>4, FS_UNION
    <2>6. Windows(rules, overrides, duration, buffer) = UNION {f[i] : i \in M}
      BY <1>2, <2>1, WindowsOfRuns
    <2> QED
      BY <2>5, <2>6
  <1> QED
    BY <1>1, <1>2

\* The rules of a day and the overrides of a date.
LEMMA EntriesOfADay ==
  /\ \A R \in RuleLists : \A d : Entries({r \in R : r.day = d})
  /\ \A O \in OverrideLists : \A range : Entries({o \in O : o.date \in range})
  <1>1. ASSUME NEW R \in RuleLists, NEW d PROVE Entries({r \in R : r.day = d})
    <2>1. IsFiniteSet({r \in R : r.day = d})
      BY FS_Subset DEF RuleLists
    <2>2. \A r \in R : r.from \in Nat /\ r.to \in Nat /\ r.from < r.to
      BY DEF RuleLists, Rules
    <2> QED
      BY <2>1, <2>2 DEF Entries
  <1>2. ASSUME NEW O \in OverrideLists, NEW range PROVE Entries({o \in O : o.date \in range})
    <2>1. IsFiniteSet({o \in O : o.date \in range})
      BY FS_Subset DEF OverrideLists
    <2>2. \A o \in O : o.from \in Nat /\ o.to \in Nat /\ (o.kind # "DAY_OFF" => o.from < o.to)
      BY DEF OverrideLists, Overrides
    <2> QED
      BY <2>1, <2>2 DEF Entries
  <1> QED
    BY <1>1, <1>2

LEMMA WindowsOfTypes ==
  ASSUME db \in Database, db.setting[This] # None, NEW date \in Dates
  PROVE  /\ WindowsOf(date) \in SUBSET Intervals /\ IsFiniteSet(WindowsOf(date))
         /\ \A v, w \in WindowsOf(date) : v # w => ~Meet(v, w)
  <1> DEFINE day == {r \in db.rules : r.day = DayOf[date]}
             ours == {o \in db.overrides : o.date \in {date}}
  <1>1. PICK R, O : R = day /\ O = ours
    OBVIOUS
  <1>2. Entries(R) /\ Entries(O)
    BY <1>1, DatabaseTypes, EntriesOfADay
  <1>3. WindowsOf(date) = Windows(R, O, db.setting[This].mins, Buffer)
    BY <1>1 DEF WindowsOf, OverridesIn
  <1>4. db.setting[This].mins \in Nat \ {0} /\ Buffer \in Nat
    <2>1. db.setting[This] \in Settings
      BY HostConstantsOK, DatabaseTypes
    <2> QED
      BY <2>1, HostConstantsOK DEF Settings
  <1>5. PICK W : W = Windows(R, O, db.setting[This].mins, Buffer)
    OBVIOUS
  <1>6. W \in SUBSET Intervals /\ IsFiniteSet(W) /\ \A v, w \in W : v # w => ~Meet(v, w)
    BY <1>2, <1>4, <1>5, WindowsDisjoint, WindowsFinite
  <1> QED
    BY <1>3, <1>5, <1>6

LEMMA MissingTypes ==
  ASSUME db \in Database, db.setting[This] # None, NEW range \in Ranges
  PROVE  /\ Missing(range) \in SlotLists
         /\ \A s \in Missing(range) : /\ s.date \in range /\ Span(s) \in WindowsOf(s.date) /\ s.status = "OPEN"
                                      /\ \A t \in db.slots : At(t) # At(s)
  <1> DEFINE New(d) == {[date |-> d, from |-> w.from, to |-> w.to, status |-> "OPEN"] : w \in WindowsOf(d)}
  <1>1. IsFiniteSet(range) /\ range \subseteq Dates
    BY HostConstantsOK
  <1>2. PICK f : f = [d \in range |-> New(d)]
    OBVIOUS
  <1>3. ASSUME NEW d \in range
        PROVE  IsFiniteSet(f[d]) /\ \A s \in f[d] : /\ s \in Slots /\ s.date = d
                                                   /\ Span(s) \in WindowsOf(d) /\ s.status = "OPEN"
    <2>1. PICK W : W = WindowsOf(d)
      OBVIOUS
    <2>2. W \in SUBSET Intervals /\ IsFiniteSet(W)
      BY <1>1, <2>1, WindowsOfTypes
    <2> DEFINE g == [w \in W |-> [date |-> d, from |-> w.from, to |-> w.to, status |-> "OPEN"]]
    <2>3. IsFiniteSet({g[w] : w \in W})
      BY <2>2, FiniteImage
    <2>4. f[d] = {g[w] : w \in W}
      BY <1>2, <2>1
    <2>5. ASSUME NEW s \in f[d]
          PROVE  s \in Slots /\ s.date = d /\ Span(s) \in WindowsOf(d) /\ s.status = "OPEN"
      <3>1. PICK w \in W : s = [date |-> d, from |-> w.from, to |-> w.to, status |-> "OPEN"]
        BY <2>4
      <3>2. w \in [from: Nat, to: Nat]
        BY <2>2 DEF Intervals
      <3>3. Span(s) = w
        BY <3>1, <3>2 DEF Span, Interval
      <3> QED
        BY <1>1, <2>1, <3>1, <3>2, <3>3 DEF Slots
    <2> QED
      BY <2>3, <2>4, <2>5
  <1>4. IsFiniteSet(UNION {f[d] : d \in range})
    <2>1. IsFiniteSet({f[d] : d \in range})
      <3>1. DOMAIN f = range
        BY <1>2
      <3> QED
        BY <1>1, <3>1, FiniteImage
    <2>2. \A T \in {f[d] : d \in range} : IsFiniteSet(T)
      BY <1>3
    <2> QED
      BY <2>1, <2>2, FS_UNION
  <1>5. Missing(range) = {s \in UNION {f[d] : d \in range} : \A t \in db.slots : At(t) # At(s)}
    BY <1>2 DEF Missing
  <1> HIDE DEF New
  <1>6. IsFiniteSet(Missing(range))
    <2>1. PICK M : M = Missing(range)
      OBVIOUS
    <2>2. M \subseteq UNION {f[d] : d \in range}
      BY <1>5, <2>1
    <2> QED
      BY <1>4, <2>1, <2>2, FS_Subset
  <1>7. ASSUME NEW s \in Missing(range)
        PROVE  /\ s \in Slots /\ s.date \in range /\ Span(s) \in WindowsOf(s.date) /\ s.status = "OPEN"
               /\ \A t \in db.slots : At(t) # At(s)
    <2>1. PICK d \in range : s \in f[d]
      BY <1>5
    <2> QED
      BY <1>3, <1>5, <2>1
  <1> QED
    BY <1>6, <1>7 DEF SlotLists

\* A request that the server accepts leaves a database of the same types.
LEMMA ServedTypes ==
  ASSUME db \in Database, NEW r \in Requests, Accepts(r), r.op \notin TwoSteps
  PROVE  Served(r) \in Database
  <1> USE DatabaseTypes
  <1>1. CASE r.op = "rule"
    <2>1. r.what \in [day: Days, kind: {"OPEN", "BREAK"}, from: Nat, to: Nat] /\ r.what.from < r.what.to
      BY <1>1, RequestTypes DEF Accepts
    <2>2. PICK x, R : /\ x = [id |-> db.next, day |-> r.what.day, kind |-> r.what.kind,
                              from |-> r.what.from, to |-> r.what.to]
                      /\ R = db.rules
      OBVIOUS
    <2>3. x \in Rules /\ x.from < x.to
      BY <2>1, <2>2 DEF Rules
    <2>4. R \cup {x} \in RuleLists
      <3>1. IsFiniteSet(R \cup {x})
        BY <2>2, FiniteWith DEF RuleLists
      <3> QED
        BY <2>2, <2>3, <3>1 DEF RuleLists
    <2>5. PICK n \in Nat : n = db.next + 1
      OBVIOUS
    <2>6. Served(r) = [db EXCEPT !.rules = R \cup {x}, !.next = n]
      BY <1>1, <2>2, <2>5 DEF Served, CreateRule, Database
    <2> QED
      BY <2>4, <2>6 DEF Database
  <1>2. CASE r.op = "unrule"
    <2>1. PICK R : R = {x \in db.rules : x.id # r.what}
      OBVIOUS
    <2>2. R \in RuleLists
      <3>1. IsFiniteSet(R)
        BY <2>1, FS_Subset DEF RuleLists
      <3> QED
        BY <2>1, <3>1 DEF RuleLists
    <2>3. Served(r) = [db EXCEPT !.rules = R]
      BY <1>2, <2>1 DEF Served, DeleteRule
    <2> QED
      BY <2>2, <2>3 DEF Database
  <1>3. CASE r.op = "except"
    <2>1. /\ r.what \in [date: Dates, kind: {"DAY_OFF", "OPEN", "BLOCK"}, from: Nat \cup {None}, to: Nat \cup {None}]
          /\ Timed(r.what)
      BY <1>3, RequestTypes DEF Accepts
    <2>2. PICK x, O : /\ x = [id |-> db.next, date |-> r.what.date, kind |-> r.what.kind,
                              from |-> IF r.what.from = None THEN 0 ELSE r.what.from,
                              to |-> IF r.what.to = None THEN 0 ELSE r.what.to]
                      /\ O = db.overrides
      OBVIOUS
    <2>3. x \in Overrides /\ (x.kind # "DAY_OFF" => x.from < x.to)
      BY <2>1, <2>2 DEF Overrides, Timed
    <2>4. O \cup {x} \in OverrideLists
      <3>1. IsFiniteSet(O \cup {x})
        BY <2>2, FiniteWith DEF OverrideLists
      <3> QED
        BY <2>2, <2>3, <3>1 DEF OverrideLists
    <2>5. PICK n \in Nat : n = db.next + 1
      OBVIOUS
    <2>6. Served(r) = [db EXCEPT !.overrides = O \cup {x}, !.next = n]
      BY <1>3, <2>2, <2>5 DEF Served, CreateOverride, Database
    <2> QED
      BY <2>4, <2>6 DEF Database
  <1>4. CASE r.op = "unexcept"
    <2>1. PICK O : O = {x \in db.overrides : x.id # r.what}
      OBVIOUS
    <2>2. O \in OverrideLists
      <3>1. IsFiniteSet(O)
        BY <2>1, FS_Subset DEF OverrideLists
      <3> QED
        BY <2>1, <3>1 DEF OverrideLists
    <2>3. Served(r) = [db EXCEPT !.overrides = O]
      BY <1>4, <2>1 DEF Served, DeleteOverride
    <2> QED
      BY <2>2, <2>3 DEF Database
  <1>5. CASE r.op = "insert"
    <2>1. PICK S, N : S = db.slots /\ N = r.what \ Taken(r.what)
      OBVIOUS
    <2>2. N \in SUBSET Slots /\ IsFiniteSet(N)
      <3>1. r.what \in SlotLists
        BY <1>5, RequestTypes
      <3>2. N \subseteq r.what
        BY <2>1
      <3> QED
        BY <3>1, <3>2, FS_Subset DEF SlotLists
    <2>3. S \cup N \in SlotLists
      <3>1. IsFiniteSet(S \cup N)
        BY <2>1, <2>2, FS_Union DEF SlotLists
      <3> QED
        BY <2>1, <2>2, <3>1 DEF SlotLists
    <2>4. Served(r) = [db EXCEPT !.slots = S \cup N]
      BY <1>5, <2>1 DEF Served, Insert
    <2> QED
      BY <2>3, <2>4 DEF Database
  <1>6. CASE r.op = "clear"
    <2>1. PICK S : S = {s \in db.slots : s.date \notin r.what \/ s.status = "BOOKED" \/ BooksAt(At(s)) # {}}
      OBVIOUS
    <2>2. S \in SlotLists
      <3>1. IsFiniteSet(S)
        BY <2>1, FS_Subset DEF SlotLists
      <3> QED
        BY <2>1, <3>1 DEF SlotLists
    <2>3. Served(r) = [db EXCEPT !.slots = S]
      BY <1>6, <2>1 DEF Served, Clear
    <2> QED
      BY <2>2, <2>3 DEF Database
  <1>7. CASE r.op = "complete" \/ r.op = "activate"
    <2>1. r.what \in Pages /\ db.setting[r.what] # None
      BY <1>7, RequestTypes DEF Accepts
    <2>2. PICK x : x = db.setting[r.what]
      OBVIOUS
    <2>3. x \in Settings
      BY <2>1, <2>2
    <2>4. [x EXCEPT !.setup = TRUE, !.active = TRUE] \in Settings /\ [x EXCEPT !.active = TRUE] \in Settings
      BY <2>3 DEF Settings
    <2>5. \/ Served(r) = [db EXCEPT !.setting = [db.setting EXCEPT ![r.what] = [x EXCEPT !.setup = TRUE, !.active = TRUE]]]
          \/ Served(r) = [db EXCEPT !.setting = [db.setting EXCEPT ![r.what] = [x EXCEPT !.active = TRUE]]]
      BY <1>7, <2>1, <2>2 DEF Served, CompleteSetup, ToggleActive, Database
    <2> QED
      BY <2>1, <2>4, <2>5 DEF Database
  <1>8. CASE r.op = "create"
    <2>1. r.what \in [slug: STRING, mins: Nat \ {0}, listed: BOOLEAN] /\ db.fresh # {}
      BY <1>8, RequestTypes DEF Accepts
    <2>2. PICK p : p = NewId
      OBVIOUS
    <2>3. p \in Pages
      BY <2>1, <2>2 DEF NewId
    <2>4. PICK x : x = [slug |-> r.what.slug, mins |-> r.what.mins, listed |-> r.what.listed,
                        setup |-> FALSE, active |-> FALSE]
      OBVIOUS
    <2>5. x \in Settings
      BY <2>1, <2>4 DEF Settings
    <2>6. Served(r) = [db EXCEPT !.setting = [db.setting EXCEPT ![p] = x], !.fresh = db.fresh \ {p}]
      BY <1>8, <2>2, <2>4 DEF Served, CreateSetting, Database
    <2>7. [db.setting EXCEPT ![p] = x] \in [Pages -> Settings \cup {None}]
      BY <2>3, <2>5
    <2> HIDE <2>5
    <2> QED
      BY <2>6, <2>7 DEF Database
  <1>9. CASE r.op = "update"
    <2>1. /\ r.what \in [page: Pages, form: Settings] /\ db.setting[r.what.page] # None
      BY <1>9, RequestTypes DEF Accepts
    <2>2. PICK p, x : p = r.what.page /\ x = db.setting[p]
      OBVIOUS
    <2>3. p \in Pages /\ x \in Settings
      BY <2>1, <2>2
    <2> DEFINE y == [x EXCEPT !.slug = r.what.form.slug, !.mins = r.what.form.mins, !.listed = r.what.form.listed]
    <2>4. y \in Settings
      BY <2>1, <2>3 DEF Settings
    <2>5. Served(r) = [db EXCEPT !.setting = [db.setting EXCEPT ![p] = y]]
      BY <1>9, <2>2, <2>3 DEF Served, UpdateSetting, Database
    <2> QED
      BY <2>3, <2>4, <2>5 DEF Database
  <1>10. CASE r.op = "delete" \/ r.op = "discard"
    <2>1. r.what \in Pages
      BY <1>10, RequestTypes
    <2>2. PICK gone : gone = [db EXCEPT !.setting = [db.setting EXCEPT ![r.what] = None]]
      OBVIOUS
    <2>3. gone \in Database
      BY <2>1, <2>2 DEF Database
    <2>4. {} \in RuleLists /\ {} \in OverrideLists /\ {} \in SlotLists
      BY FS_EmptySet DEF RuleLists, OverrideLists, SlotLists
    <2>5. [gone EXCEPT !.rules = {}, !.overrides = {}, !.slots = {}, !.booking = [b \in Books |-> None]] \in Database
      BY <2>3, <2>4 DEF Database
    <2>6. \/ Served(r) = gone
          \/ Served(r) = [gone EXCEPT !.rules = {}, !.overrides = {}, !.slots = {}, !.booking = [b \in Books |-> None]]
      BY <1>10, <2>2 DEF Served, DeleteSetting, Database
    <2> QED
      BY <2>3, <2>5, <2>6
  <1>11. CASE r.op = "confirm"
    <2>1. r.what \in Books /\ db.booking[r.what] # None
      BY <1>11, RequestTypes DEF Accepts
    <2>2. PICK b, x : b = r.what /\ x = [db.booking[b] EXCEPT !.status = "CONFIRMED"]
      OBVIOUS
    <2>3. x \in Bookings
      BY <2>1, <2>2 DEF Bookings, BookStatuses, Active
    <2>4. Served(r) = [db EXCEPT !.booking = [db.booking EXCEPT ![b] = x]]
      BY <1>11, <2>1, <2>2 DEF Served, Confirm, Database
    <2> QED
      BY <2>1, <2>2, <2>3, <2>4 DEF Database
  <1>13. CASE r.op = "close"
    <2>1. r.what \in [book: Books, frees: BOOLEAN] /\ db.booking[r.what.book] # None
      BY <1>13, RequestTypes DEF Accepts
    <2>2. Close(r.what.book, "REJECTED", r.what.frees) \in Database
      BY <2>1, CloseTypes DEF BookStatuses
    <2> QED
      BY <1>13, <2>2 DEF Served
  <1>12. CASE r.op = "grant"
    <2>1. r.what \in [user: Users, verdict: {"approved", "rejected"}]
      BY <1>12, RequestTypes
    <2>2. PICK u, x : u = r.what.user /\ x = [request |-> r.what.verdict,
                                             host |-> db.user[u].host \/ r.what.verdict = "approved"]
      OBVIOUS
    <2>3. u \in Users /\ x \in Hosts
      BY <2>1, <2>2 DEF Hosts
    <2>4. Served(r) = [db EXCEPT !.user = [db.user EXCEPT ![u] = x]]
      BY <1>12, <2>2, <2>3 DEF Served, Decide, Database
    <2> QED
      BY <2>3, <2>4 DEF Database
  <1> QED
    BY <1>1, <1>2, <1>3, <1>4, <1>5, <1>6, <1>7, <1>8, <1>9, <1>10, <1>11, <1>12, <1>13, RequestTypes DEF TwoSteps

\* A query is answered with what it asks for.
LEMMA AnswerTypes ==
  ASSUME db \in Database, NEW q \in Queries, Answers(q.kind, q.of)
  PROVE  Answer(q.kind, q.of) \in Answered(q.kind, q.of)
  <1> USE DatabaseTypes
  <1>1. CASE q \in [kind: {"rules", "wizard", "settings", "pending"}, of: {None}]
    <2>1. q.kind = "rules" => Answer(q.kind, q.of) \in Answered(q.kind, q.of)
      BY <1>1 DEF Answer, Answered
    <2>2. q.kind = "wizard" => Answer(q.kind, q.of) \in Answered(q.kind, q.of)
      <3> SUFFICES ASSUME q.kind = "wizard" PROVE Answer(q.kind, q.of) \in Answered(q.kind, q.of)
        OBVIOUS
      <3>1. db.setting[This] \in Settings
        BY HostConstantsOK DEF Answers
      <3> QED
        BY <3>1 DEF Answer, Answered, Settings
    <2>3. q.kind = "settings" => Answer(q.kind, q.of) \in Answered(q.kind, q.of)
      BY <1>1 DEF Answer, Answered, SettingLists
    <2>4. q.kind = "pending" => Answer(q.kind, q.of) \in Answered(q.kind, q.of)
      BY <1>1 DEF Answer, Answered
    <2> QED
      BY <1>1, <2>1, <2>2, <2>3, <2>4
  <1>2. CASE q \in [kind: {"count", "overrides", "calendar"}, of: Ranges]
    <2>1. PICK O : O = OverridesIn(q.of)
      OBVIOUS
    <2>2. O \in OverrideLists
      <3>1. IsFiniteSet(O)
        BY <2>1, FS_Subset DEF OverridesIn, OverrideLists
      <3> QED
        BY <2>1, <3>1 DEF OverridesIn, OverrideLists
    <2>3. PICK S : S = SlotsIn(q.of)
      OBVIOUS
    <2>4. S \in {T \in SlotLists : \A s \in T : s.date \in q.of} /\ Cardinality(S) \in Nat
      <3>1. IsFiniteSet(S)
        BY <2>3, FS_Subset DEF SlotsIn, SlotLists
      <3>2. S \in SlotLists
        BY <2>3, <3>1 DEF SlotsIn, SlotLists
      <3>3. Cardinality(S) \in Nat
        BY <3>1, FS_CardinalityType
      <3> QED
        BY <2>3, <3>2, <3>3 DEF SlotsIn
    <2>5. q.kind = "count" => Answer(q.kind, q.of) \in Answered(q.kind, q.of)
      BY <1>2, <2>3, <2>4 DEF Answer, Answered, Counts
    <2>6. q.kind = "overrides" => Answer(q.kind, q.of) \in Answered(q.kind, q.of)
      BY <2>1, <2>2 DEF Answer, Answered
    <2>7. q.kind = "calendar" => Answer(q.kind, q.of) \in Answered(q.kind, q.of)
      BY <2>1, <2>2, <2>3, <2>4 DEF Answer, Answered
    <2> QED
      BY <1>2, <2>5, <2>6, <2>7
  <1>3. CASE q \in [kind: {"day"}, of: Dates]
    <2>1. PICK S : S = SlotsIn({q.of})
      OBVIOUS
    <2>2. S \in SlotLists /\ \A s \in S : s.date = q.of
      <3>1. IsFiniteSet(S)
        BY <2>1, FS_Subset DEF SlotsIn, SlotLists
      <3> QED
        BY <2>1, <3>1 DEF SlotsIn, SlotLists
    <2> QED
      BY <1>3, <2>1, <2>2 DEF Answer, Answered
  <1>4. CASE q \in [kind: {"setting", "preview"}, of: Pages]
    BY <1>4 DEF Answer, Answered, Answers
  <1>5. CASE q \in [kind: {"detail"}, of: Books]
    <2>1. db.booking[q.of] \in Bookings
      BY <1>5 DEF Answers
    <2> QED
      BY <1>5, <2>1 DEF Answer, Answered, Bookings
  <1>6. CASE q \in [kind: {"bookings"}, of: {"ALL", "PENDING", "CONFIRMED"}]
    <2>1. ASSUME NEW b \in Books, db.booking[b] # None PROVE db.booking[b].status \in BookStatuses
      BY <2>1 DEF Bookings
    <2> QED
      BY <1>6, <2>1 DEF Answer, Answered, StatusLists
  <1> QED
    BY <1>1, <1>2, <1>3, <1>4, <1>5, <1>6 DEF Queries

\* An effect that is served, or fails, stays one of the page's.
LEMMA ReadingServed ==
  ASSUME db \in Database, NEW q \in Queries, NEW e \in Reading(q.kind, q.of), Answers(e.kind, e.of)
  PROVE  [e EXCEPT !.data = <<Answer(e.kind, e.of)>>] \in Reading(q.kind, q.of)
  <1>1. e.kind = q.kind /\ e.of = q.of
    BY DEF Reading
  <1>2. Answer(e.kind, e.of) \in Answered(q.kind, q.of)
    BY <1>1, AnswerTypes
  <1>3. <<Answer(e.kind, e.of)>> \in [1..1 -> Answered(q.kind, q.of)]
    BY <1>2
  <1> QED
    BY <1>3 DEF Reading, Data

LEMMA Started ==
  ASSUME NEW q \in Queries
  PROVE  Effect(q.kind, q.of) \in Reading(q.kind, q.of)
  BY DEF Effect, Reading, Data

LEMMA ReadingIsSome ==
  ASSUME NEW q \in Queries, NEW e \in Reading(q.kind, q.of)
  PROVE  e # None
  BY NoneIsNoRecord

\* What an effect has been answered with.
LEMMA ReadingHas ==
  ASSUME NEW q \in Queries, NEW e \in Reading(q.kind, q.of)
  PROVE  e.kind = q.kind /\ e.of = q.of /\ (e.data # None => e.data[1] \in Answered(q.kind, q.of))
  BY DEF Reading, Data
=============================================================================
