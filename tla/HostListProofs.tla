--------------------------- MODULE HostListProofs ---------------------------
(***************************************************************************)
(* What the pages of the host show of the server, or say that they do not: *)
(* the number of slots in a range, the list of rules, and the schedule of  *)
(* a day on the dashboard.                                                 *)
(***************************************************************************)
EXTENDS HostServerProofs

----------------------------------------------------------------------------
(* The number of slots is of the range that is shown. *)

CountJob(j) == Mine(j) /\ job[j].then # None /\ job[j].then.kind = "count"
Counting(j) == CountJob(j) /\ job[j].todo = <<>>

\* A number of another range is being read again, or not shown.
Counted ==
  page \in {"slots", "setup"} /\ alone =>
    /\ \A j \in JobIds : CountJob(j) => job[j].then.of = view.range
    /\ view.count # None => \/ view.count.of = view.range
                            \/ page = "slots" /\ load # None
                            \/ page = "setup" /\ view.step # 3
                            \/ \E j \in JobIds : Counting(j)

LEMMA CountStays ==
  ASSUME Counted, page \in {"slots", "setup"}, page' = page, alone' => alone, view'.range = view.range,
         view'.count = view.count \/ view'.count.of = view.range,
         page = "setup" => view'.step # 3 \/ view'.step = view.step,
         page = "slots" /\ load # None => load' # None \/ view'.count.of = view.range,
         \A j \in JobIds : CountJob(j)' => job'[j].then.of = view.range \/ (CountJob(j) /\ job'[j].then = job[j].then),
         \A j \in JobIds : Counting(j) => Counting(j)' \/ view'.count.of = view.range
  PROVE  Counted'
  BY DEF Counted

\* The functions that a page leaves behind are no longer its own.
LEMMA MountLeaves ==
  ASSUME Typed, NEW p, NEW jobs, DOMAIN jobs = JobIds, \A j \in JobIds : jobs[j] # None => jobs[j] = job[j],
         Mount(p, jobs), page' # "admin"
  PROVE  /\ \A j \in JobIds : ~Mine(j)'
         /\ alone' = \A j \in JobIds : jobs[j] = None
         /\ \A j \in JobIds : job'[j] # None => jobs[j] # None
  <1>1. job' = Orphaned(jobs) /\ alone' = \A j \in JobIds : jobs[j] = None
    BY DEF Mount
  <1>2. \A j \in JobIds : job'[j] = IF jobs[j] = None THEN None ELSE [jobs[j] EXCEPT !.mine = FALSE]
    BY <1>1 DEF Orphaned
  <1>3. ASSUME NEW j \in JobIds, jobs[j] # None PROVE ~[jobs[j] EXCEPT !.mine = FALSE].mine
    BY <1>3, OrphanFits DEF Typed, Functions
  <1> QED
    BY <1>1, <1>2, <1>3 DEF Mine

\* A page of lists when it is mounted.
LEMMA MountedList ==
  ASSUME NEW p, NEW jobs, Mount(p, jobs)
  PROVE  /\ page' = "rules" => view' = RulesView /\ load' = Effect("rules", None) /\ aux' = None
         /\ page' = "slots" => view' = SlotsView
         /\ page' = "setup" => view' = SetupView
         /\ page' = "dashboard" => aux' = None /\ \E q \in Pages, key \in {"id", "slug"} : view' = DashboardView(q, key)
  <1>1. PICK q : MountSchedule(q) \/ MountPage(q)
    BY DEF Mount
  <1> QED
    BY <1>1, HostConstantsOK DEF MountSchedule, MountPage, Mounted

LEMMA CountMounted ==
  ASSUME Typed, NEW p, NEW jobs, Mount(p, jobs), DOMAIN jobs = JobIds, \A j \in JobIds : jobs[j] # None => jobs[j] = job[j]
  PROVE  Counted'
  <1>1. page' \in {"slots", "setup"} => view'.count = None
    BY MountedList DEF SlotsView, SetupView
  <1>2. page' \in {"slots", "setup"} => \A j \in JobIds : ~Mine(j)'
    BY MountLeaves
  <1> QED
    BY <1>1, <1>2 DEF Counted, CountJob

\* The range, the number and the step of a page that counts.
SameCount(v, w) == w.range = v.range /\ w.count = v.count /\ (page = "setup" => w.step = v.step)

LEMMA CountFields ==
  ASSUME NEW v \in SlotsState \cup SetupState
  PROVE  /\ \A b, e : SameCount(v, [v EXCEPT !.busy = b, !.error = e])
         /\ \A b : SameCount(v, [v EXCEPT !.busy = b])
         /\ \A e : SameCount(v, [v EXCEPT !.error = e])
         /\ \A j : SameCount(v, Unmarked(v, j))
  BY DEF SlotsState, SetupState, SameCount, Unmarked

LEMMA CountShows ==
  ASSUME Typed, page \in {"slots", "setup"}
  PROVE  view \in SlotsState \cup SetupState /\ (page = "setup" => view \in SetupState)
  BY DEF Typed, Shown, SlotsOK, SetupOK

\* A function of the page has failed.
LEMMA FailedCount ==
  ASSUME Typed, page \in {"slots", "setup"}, NEW j \in JobIds, Mine(j), NEW w, w = Failed(view, j)
  PROVE  /\ Counting(j) => w.range = view.range /\ w.count.of = job[j].then.of /\ (page = "setup" => w.step = view.step)
         /\ ~Counting(j) => SameCount(view, w)
  <1>1. view \in SlotsState \cup SetupState /\ (page = "setup" => view \in SetupState)
    BY CountShows
  <1>2. job[j].then # None => job[j].then.kind # "pending"
    BY FunctionRuns DEF EndsOn
  <1>3. CASE Counting(j)
    <2>1. PICK v : v = [view EXCEPT !.count = [of |-> job[j].then.of, n |-> 0]]
      OBVIOUS
    <2>2. w = Unmarked(v, j)
      BY <1>3, <2>1 DEF Failed, Counting, CountJob
    <2>3. v.range = view.range /\ v.count.of = job[j].then.of /\ (page = "setup" => v.step = view.step)
      BY <1>1, <2>1 DEF SlotsState, SetupState
    <2>4. v \in [DOMAIN view -> {v[x] : x \in DOMAIN view}] /\ "range" \in DOMAIN v /\ "count" \in DOMAIN v
          /\ (page = "setup" => "step" \in DOMAIN v)
      BY <1>1, <2>1 DEF SlotsState, SetupState
    <2>5. w.range = v.range /\ w.count = v.count /\ (page = "setup" => w.step = v.step)
      BY <2>2, <2>4 DEF Unmarked
    <2> QED
      BY <1>3, <2>3, <2>5
  <1>4. CASE ~Counting(j)
    <2>1. w = Unmarked([view EXCEPT !.error = TRUE], j)
      BY <1>2, <1>4 DEF Failed, Counting, CountJob
    <2>2. w = [view EXCEPT !.error = TRUE] \/ w = [view EXCEPT !.busy = None, !.error = TRUE]
      BY <1>1, <2>1 DEF Unmarked, SlotsState, SetupState
    <2> QED
      BY <1>1, <1>4, <2>2 DEF SameCount, SlotsState, SetupState
  <1> QED
    BY <1>3, <1>4

LEMMA CountThen ==
  ASSUME Typed, Counted, page \in {"slots", "setup"}, NEW j \in JobIds, ThenArrives(j)
  PROVE  Counted'
  <1>1. /\ job[j] # None /\ job[j].data # None /\ job' = [job EXCEPT ![j] = None] /\ DOMAIN job = JobIds
        /\ MyView(j, Unmarked(ThenShown(view, j), j)) /\ page' = page /\ load' = load /\ alone' = alone
    BY DEF ThenArrives, Ended, Typed, Functions
  <1>2. view \in SlotsState \cup SetupState /\ (page = "setup" => view \in SetupState)
    BY CountShows
  <1>3. \A i \in JobIds : i # j => job'[i] = job[i]
    BY <1>1
  <1>4. ~Mine(j)'
    BY <1>1 DEF Mine
  <1>5. \A i \in JobIds : CountJob(i)' => CountJob(i) /\ job'[i].then = job[i].then
    BY <1>3, <1>4 DEF CountJob, Mine
  <1>6. \A i \in JobIds : i # j /\ Counting(i) => Counting(i)'
    BY <1>3 DEF Counting, CountJob, Mine
  <1>7. CASE ~job[j].mine
    <2>1. view' = view /\ ~Counting(j)
      BY <1>1, <1>7 DEF MyView, Counting, CountJob, Mine
    <2> QED
      BY <1>1, <1>5, <1>6, <2>1, CountStays
  <1>8. CASE job[j].mine
    <2>1. Mine(j)
      BY <1>1, <1>8 DEF Mine
    <2>2. Fits(job[j], page, view) /\ job[j].then # None /\ job[j].then \in Queries /\ job[j].then.kind \in EndsOn(page)
      BY <1>1, <2>1, FunctionRuns DEF Fits, JobOK
    <2>3. PICK w : w = ThenShown(view, j)
      OBVIOUS
    <2>4. view' = Unmarked(w, j)
      BY <1>1, <1>8, <2>3 DEF MyView
    <2>5. PICK d : d = job[j].data[1]
      OBVIOUS
    <2>6. CASE job[j].then.kind = "count"
      <3>1. w = [view EXCEPT !.count = d]
        BY <2>3, <2>5, <2>6 DEF ThenShown, ViewShows, ScheduleKinds, ScheduleShows
      <3>2. d.of = job[j].then.of
        <4>1. job[j].data \in Data("count", job[j].then.of)
          BY <2>2, <2>6 DEF Fits, JobOK, Jobs
        <4>2. d \in Answered("count", job[j].then.of)
          BY <1>1, <2>5, <4>1 DEF Data
        <4> QED
          BY <4>2 DEF Answered
      <3>3. view' = w \/ view' = [w EXCEPT !.busy = None]
        BY <2>4 DEF Unmarked
      <3>4. view'.range = view.range /\ view'.count = d /\ (page = "setup" => view'.step = view.step)
        BY <1>2, <3>1, <3>3 DEF SlotsState, SetupState
      <3>5. alone => d.of = view.range
        BY <2>1, <2>2, <2>6, <3>2 DEF Counted, CountJob
      <3> QED
        BY <1>1, <1>5, <3>4, <3>5 DEF Counted
    <2>7. CASE job[j].then.kind # "count"
      <3>1. w \in {view, [view EXCEPT !.rules = d], [view EXCEPT !.overrides = d]} /\ (page = "slots" => w = view)
        BY <2>2, <2>3, <2>5, <2>7 DEF EndsOn, ThenShown, ViewShows, ScheduleKinds, ScheduleShows, PageShows
      <3>2. view' = w \/ view' = [w EXCEPT !.busy = None]
        BY <2>4 DEF Unmarked
      <3>3. view'.range = view.range /\ view'.count = view.count /\ (page = "setup" => view'.step = view.step)
        BY <1>2, <3>1, <3>2 DEF SlotsState, SetupState
      <3>4. ~Counting(j)
        BY <2>7 DEF Counting, CountJob
      <3> QED
        BY <1>1, <1>5, <1>6, <3>3, <3>4, CountStays
    <2> QED
      BY <2>6, <2>7
  <1> QED
    BY <1>7, <1>8

\* The last query of a function is served.
LEMMA ThenServed ==
  ASSUME Typed, NEW j \in JobIds, ServeThen(j), Answers(job[j].then.kind, job[j].then.of)
  PROVE  /\ job[j] # None /\ job'[j] # None /\ job'[j].data = <<Answer(job[j].then.kind, job[j].then.of)>>
         /\ job'[j].mine = job[j].mine /\ job'[j].then = job[j].then /\ job'[j].todo = job[j].todo /\ job'[j].mark = job[j].mark
         /\ \A i \in JobIds \ {j} : job'[i] = job[i]
         /\ UNCHANGED <<db, page, view, load, aux, alone>>
  <1>1. job[j] # None /\ DOMAIN job = JobIds /\ Fits(job[j], page, view)
    BY DEF ServeThen, Typed, Functions
  <1>2. job[j] \in Jobs(job[j].then) /\ job[j].then \in {None} \cup Queries
    BY <1>1 DEF Fits, JobOK
  <1>3. PICK a : a = <<Answer(job[j].then.kind, job[j].then.of)>>
    OBVIOUS
  <1>4. PICK g : g = [job[j] EXCEPT !.data = a]
    OBVIOUS
  <1>5. job' = [job EXCEPT ![j] = g] /\ UNCHANGED <<db, page, view, load, aux, alone>>
    BY <1>1, <1>3, <1>4 DEF ServeThen
  <1>6. g.data = a /\ g.mine = job[j].mine /\ g.then = job[j].then /\ g.todo = job[j].todo /\ g.mark = job[j].mark
    BY <1>2, <1>4 DEF Jobs
  <1>7. job'[j] = g /\ \A i \in JobIds \ {j} : job'[i] = job[i]
    BY <1>1, <1>5
  <1>8. g # None
    <2>1. job[j].then # None /\ job[j].then \in Queries
      BY <1>1 DEF ServeThen, Fits, JobOK
    <2>2. a \in Data(job[j].then.kind, job[j].then.of)
      <3>1. Answer(job[j].then.kind, job[j].then.of) \in Answered(job[j].then.kind, job[j].then.of)
        BY <2>1, AnswerTypes DEF Typed
      <3> QED
        BY <1>3, <3>1 DEF Data
    <2>3. g \in Jobs(job[j].then)
      BY <1>2, <1>4, <2>1, <2>2 DEF Jobs
    <2> QED
      BY <1>2, <2>3, NoneIsNoRecord
  <1> QED
    BY <1>1, <1>3, <1>5, <1>6, <1>7, <1>8

LEMMA CountFails ==
  ASSUME Typed, Counted, page \in {"slots", "setup"}, NEW j \in JobIds, job[j] # None, MyView(j, Failed(view, j)),
         job' = [job EXCEPT ![j] = None] \/ (job[j].todo # <<>> /\ \E g : g.mine = FALSE /\ job' = [job EXCEPT ![j] = g]),
         UNCHANGED <<page, load, alone>>
  PROVE  Counted'
  <1>1. DOMAIN job = JobIds
    BY DEF Typed, Functions
  <1>2. \A i \in JobIds : i # j => job'[i] = job[i]
    BY <1>1
  <1>3. ~Mine(j)'
    BY <1>1 DEF Mine
  <1>4. \A i \in JobIds : CountJob(i)' => CountJob(i) /\ job'[i].then = job[i].then
    BY <1>2, <1>3 DEF CountJob, Mine
  <1>5. \A i \in JobIds : i # j /\ Counting(i) => Counting(i)'
    BY <1>2 DEF Counting, CountJob, Mine
  <1>6. CASE ~Mine(j)
    <2>1. view' = view /\ ~Counting(j)
      BY <1>6 DEF MyView, Counting, CountJob, Mine
    <2> QED
      BY <1>4, <1>5, <2>1, CountStays
  <1>7. CASE Mine(j) /\ ~Counting(j)
    <2>1. view' = Failed(view, j)
      BY <1>7 DEF MyView, Mine
    <2>2. SameCount(view, view')
      BY <1>7, <2>1, FailedCount
    <2> QED
      BY <1>4, <1>5, <1>7, <2>2, CountStays DEF SameCount
  <1>8. CASE Counting(j)
    <2>1. view' = Failed(view, j) /\ Mine(j)
      BY <1>8 DEF MyView, Counting, CountJob, Mine
    <2>2. view'.range = view.range /\ view'.count.of = job[j].then.of /\ (page = "setup" => view'.step = view.step)
      BY <1>8, <2>1, FailedCount
    <2>3. alone => view'.count.of = view'.range
      BY <1>8, <2>2 DEF Counted, Counting
    <2> QED
      BY <1>4, <2>2, <2>3 DEF Counted
  <1> QED
    BY <1>6, <1>7, <1>8

LEMMA CountGoesOn ==
  ASSUME Typed, Counted, page \in {"slots", "setup"}, NEW j \in JobIds, Refuse(j) \/ Break(j) \/ ServeThen(j) \/ ThenArrives(j)
  PROVE  Counted'
  <1>1. CASE Refuse(j)
    BY <1>1, CountFails DEF Refuse, Ended
  <1>2. CASE Break(j)
    BY <1>2, CountFails DEF Break, Ended
  <1>3. CASE ServeThen(j)
    <2>1. CASE Answers(job[j].then.kind, job[j].then.of)
      <3>1. /\ job[j] # None /\ job'[j] # None /\ job'[j].mine = job[j].mine /\ job'[j].then = job[j].then /\ job'[j].todo = job[j].todo
            /\ \A i \in JobIds \ {j} : job'[i] = job[i]
            /\ UNCHANGED <<db, page, view, load, aux, alone>>
        BY <1>3, <2>1, ThenServed
      <3>2. \A i \in JobIds : CountJob(i)' => CountJob(i) /\ job'[i].then = job[i].then
        BY <3>1 DEF CountJob, Mine
      <3>3. \A i \in JobIds : Counting(i) => Counting(i)'
        BY <3>1 DEF Counting, CountJob, Mine
      <3> QED
        BY <3>1, <3>2, <3>3, CountStays
    <2>2. CASE ~Answers(job[j].then.kind, job[j].then.of)
      BY <1>3, <2>2, CountFails DEF ServeThen, Ended
    <2> QED
      BY <2>1, <2>2
  <1> QED
    BY <1>1, <1>2, <1>3, CountThen

\* A function goes on that has not come to its last query.
LEMMA CountAwaits ==
  ASSUME Typed, Counted, page \in {"slots", "setup"}, NEW j \in JobIds, ~Counting(j),
         page' = page, alone' = alone, page = "slots" => load' = load,
         Mine(j)' => Mine(j) /\ job'[j].then = job[j].then, \A i \in JobIds \ {j} : job'[i] = job[i],
         view' \in {view, Unmarked(view, j)}
  PROVE  Counted'
  <1>1. \A i \in JobIds : CountJob(i)' => CountJob(i) /\ job'[i].then = job[i].then
    BY DEF CountJob, Mine
  <1>2. \A i \in JobIds : Counting(i) => Counting(i)'
    BY DEF Counting, CountJob, Mine
  <1>3. view \in SlotsState \cup SetupState /\ (page = "setup" => view \in SetupState)
    BY CountShows
  <1>4. view'.range = view.range /\ view'.count = view.count /\ (page = "setup" => view'.step = view.step)
    BY <1>3 DEF Unmarked, SlotsState, SetupState
  <1> QED
    BY <1>1, <1>2, <1>4, CountStays

\* An effect that goes on as a function reads what it read.
LEMMA DetachedReads ==
  ASSUME NEW jobs, DOMAIN jobs = JobIds, Detached(jobs)
  PROVE  \A i \in JobIds : \/ job'[i] = jobs[i]
                           \/ load # None /\ jobs[i] = None /\ job'[i].then.kind = load.kind
  <1>1. CASE load = None
    <2>1. job' = jobs
      BY <1>1 DEF Detached
    <2> QED
      BY <2>1
  <1>2. CASE load # None
    <2>1. PICK i, f : /\ i \in JobIds /\ jobs[i] = None
                      /\ f = [Job(<<>>, Query(load.kind, load.of), None) EXCEPT !.data = load.data]
                      /\ job' = [jobs EXCEPT ![i] = f]
      BY <1>2 DEF Detached
    <2>2. f.then.kind = load.kind
      BY <2>1 DEF Job, Query
    <2>3. job'[i] = f /\ \A k \in JobIds \ {i} : job'[k] = jobs[k]
      BY <2>1
    <2>4. jobs[i] = None
      BY <2>1
    <2> HIDE <2>1
    <2> QED
      BY <1>2, <2>2, <2>3, <2>4
  <1> QED
    BY <1>1, <1>2

\* The wizard's page is set up: the overrides that are still being read are one
\* more function, which counts nothing.
LEMMA CountActivates ==
  ASSUME Typed, Counted, page = "setup", page' = page, alone' = alone, NEW j \in JobIds, job[j] # None, job[j].todo # <<>>,
         job[j].todo[1].op = "complete", job[j].mine, NEW rest, NEW jobs, jobs = [job EXCEPT ![j].todo = rest],
         Detached(jobs), view' = Activated(view)
  PROVE  Counted'
  <1>1. view \in SetupState /\ DOMAIN job = JobIds /\ job[j] \in Jobs(job[j].then)
    BY CountShows DEF Typed, Shown, SetupOK, Functions, Fits, JobOK
  <1>2. view'.range = view.range /\ view'.count = view.count /\ view'.step = view.step
    BY <1>1 DEF Activated, SetupState
  <1>3. PICK g : g = [job[j] EXCEPT !.todo = rest]
    OBVIOUS
  <1>4. g.mine = job[j].mine /\ g.then = job[j].then
    BY <1>1, <1>3 DEF Jobs
  <1>5. DOMAIN jobs = JobIds /\ jobs[j] = g /\ \A i \in JobIds \ {j} : jobs[i] = job[i]
    BY <1>1, <1>3
  <1>6. ASSUME NEW i \in JobIds, NEW q, job'[i] = q, q.then.kind # "count" PROVE ~CountJob(i)'
    BY <1>6 DEF CountJob
  <1>7. \A i \in JobIds : \/ job'[i] = jobs[i]
                          \/ jobs[i] = None /\ job'[i].then.kind # "count"
    <2>1. load # None => load.kind # "count"
      BY <1>1 DEF Typed, Shown, SetupOK, Reading
    <2>2. DOMAIN jobs = JobIds
      BY <1>5
    <2>3. \A i \in JobIds : \/ job'[i] = jobs[i]
                            \/ load # None /\ jobs[i] = None /\ job'[i].then.kind = load.kind
      BY <2>2, DetachedReads
    <2> QED
      BY <2>1, <2>3
  <1>8. \A i \in JobIds : CountJob(i)' => CountJob(i) /\ job'[i].then = job[i].then
    BY <1>4, <1>5, <1>7 DEF CountJob, Mine
  <1>9. ASSUME NEW i \in JobIds, Counting(i) PROVE Counting(i)'
    <2>1. i # j /\ job[i] # None
      BY <1>9 DEF Counting, CountJob, Mine
    <2>2. job'[i] = job[i]
      BY <1>5, <1>7, <2>1
    <2> QED
      BY <1>9, <2>2 DEF Counting, CountJob, Mine
  <1> QED
    BY <1>2, <1>8, <1>9, CountStays

LEMMA CountServes ==
  ASSUME Typed, Counted, page \in {"slots", "setup"}, NEW j \in JobIds, Serve(j)
  PROVE  Counted'
  <1>1. PICK r, rest : r = Head(job[j].todo) /\ rest = Tail(job[j].todo)
    OBVIOUS
  <1>2. job[j] # None /\ job[j].todo # <<>> /\ Fits(job[j], page, view) /\ DOMAIN job = JobIds
    BY DEF Serve, Typed, Functions
  <1>3. r = job[j].todo[1] /\ (job[j].mine => r.op \in OpsOn(page))
    BY <1>1, <1>2, NextRequest
  <1>4. ~Counting(j) /\ view \in SlotsState \cup SetupState /\ (page = "setup" => view \in SetupState)
    BY <1>2, CountShows DEF Counting
  <1>5. ASSUME Mine(j) PROVE PageAfter(view, r) = view
    BY <1>3, <1>5 DEF OpsOn, PageAfter, Mine
  <1>6. CASE Mount(LeadsTo(r), [job EXCEPT ![j] = None])
    BY <1>2, <1>6, CountMounted
  <1>8. ASSUME MyView(j, PageAfter(view, r)) \/ MyView(j, Unmarked(PageAfter(view, r), j))
        PROVE  view' \in {view, Unmarked(view, j)}
    BY <1>2, <1>5, <1>8 DEF MyView, Mine
  <1>12. ASSUME NEW todo, job' = [job EXCEPT ![j].todo = todo]
         PROVE  (Mine(j)' => Mine(j) /\ job'[j].then = job[j].then) /\ \A i \in JobIds \ {j} : job'[i] = job[i]
    <2>1. job[j] \in Jobs(job[j].then)
      BY <1>2 DEF Fits, JobOK
    <2>2. PICK g : g = [job[j] EXCEPT !.todo = todo]
      OBVIOUS
    <2>3. g.mine = job[j].mine /\ g.then = job[j].then
      BY <2>1, <2>2 DEF Jobs
    <2>4. job' = [job EXCEPT ![j] = g]
      BY <1>2, <1>12, <2>2
    <2> QED
      BY <1>2, <2>3, <2>4 DEF Mine
  <1>13. ASSUME job' = [job EXCEPT ![j] = None]
         PROVE  (Mine(j)' => Mine(j) /\ job'[j].then = job[j].then) /\ \A i \in JobIds \ {j} : job'[i] = job[i]
    BY <1>2, <1>13 DEF Mine
  <1>9. CASE r.op \in TwoSteps
    <2>1. job' = [job EXCEPT ![j].todo = <<Second(r)>> \o rest] /\ UNCHANGED <<page, view, load, alone>>
      BY <1>1, <1>9 DEF Serve
    <2> QED
      BY CountAwaits, <1>4, <1>12, <2>1
  <1>10. CASE r.op \notin TwoSteps /\ (rest # <<>> \/ job[j].then # None)
    <2>1. PICK jobs : /\ jobs = [job EXCEPT ![j].todo = rest] /\ WizardAfter(PageAfter(view, r), r, j, jobs)
                      /\ page' = page /\ alone' = alone
      BY <1>1, <1>10 DEF Serve
    <2>2. CASE r.op = "complete" /\ job[j].mine
      <3>1. page = "setup"
        BY <1>3, <2>2 DEF OpsOn
      <3>2. view' = Activated(view) /\ Detached(jobs)
        BY <1>2, <1>5, <2>1, <2>2 DEF WizardAfter, Mine
      <3> QED
        BY <1>1, <1>2, <1>3, <2>1, <2>2, <3>1, <3>2, CountActivates
    <2>3. CASE ~(r.op = "complete" /\ job[j].mine)
      <3>1. UNCHANGED load /\ MyView(j, PageAfter(view, r)) /\ job' = [job EXCEPT ![j].todo = rest]
        BY <2>1, <2>3 DEF WizardAfter
      <3>2. view' \in {view, Unmarked(view, j)}
        BY <1>8, <3>1
      <3> QED
        BY CountAwaits, <1>4, <1>12, <2>1, <3>1, <3>2
    <2> QED
      BY <2>2, <2>3
  <1>11. CASE r.op \notin TwoSteps /\ rest = <<>> /\ job[j].then = None
    <2>1. \/ Mount(LeadsTo(r), [job EXCEPT ![j] = None])
          \/ job' = [job EXCEPT ![j] = None] /\ MyView(j, Unmarked(PageAfter(view, r), j)) /\ UNCHANGED <<page, load, alone>>
      BY <1>1, <1>11 DEF Serve, Ended
    <2>2. ASSUME MyView(j, Unmarked(PageAfter(view, r), j)) PROVE view' \in {view, Unmarked(view, j)}
      BY <1>8, <2>2
    <2>3. CASE job' = [job EXCEPT ![j] = None] /\ MyView(j, Unmarked(PageAfter(view, r), j)) /\ UNCHANGED <<page, load, alone>>
      <3>1. page' = page /\ load' = load /\ alone' = alone
        BY <2>3
      <3>2. view' \in {view, Unmarked(view, j)}
        BY <2>2, <2>3
      <3>3. Mine(j)' => Mine(j) /\ job'[j].then = job[j].then
        BY <1>13, <2>3
      <3>4. \A i \in JobIds \ {j} : job'[i] = job[i]
        BY <1>13, <2>3
      <3> QED
        BY CountAwaits, <1>4, <3>1, <3>2, <3>3, <3>4
    <2> QED
      BY <1>6, <2>1, <2>3
  <1> QED
    BY <1>9, <1>10, <1>11

\* A step of the page that neither starts nor ends a function.
LEMMA CountJobsStay ==
  ASSUME Counted, page \in {"slots", "setup"}, UNCHANGED <<page, job, alone>>, view'.range = view.range,
         view'.count = view.count \/ view'.count.of = view.range,
         page = "setup" => view'.step = view.step,
         page = "slots" /\ load # None => load' # None \/ view'.count.of = view.range
  PROVE  Counted'
  <1>1. \A j \in JobIds : CountJob(j)' => CountJob(j) /\ job'[j].then = job[j].then
    BY DEF CountJob, Mine
  <1>2. \A j \in JobIds : Counting(j) => Counting(j)'
    BY DEF Counting, CountJob, Mine
  <1> QED
    BY <1>1, <1>2, CountStays

\* A step of the wizard is entered without other functions.
LEMMA CountEnters ==
  ASSUME Typed, page = "setup", page' = page, NEW n, NEW v \in SetupState, v.range = view.range, EnterStep(n, v),
         alone' => \A j \in JobIds : ~Mine(j)
  PROVE  Counted'
  <1>1. view'.range = view.range /\ view'.step = n /\ view'.count = v.count
    BY DEF EnterStep, SetupState
  <1>2. CASE n # 3
    BY <1>1, <1>2 DEF EnterStep, Counted, CountJob, Mine
  <1>3. CASE n = 3
    <2>1. PICK f : f = Job(<<>>, Query("count", view.range), None)
      OBVIOUS
    <2>2. PICK i \in JobIds : job[i] = None /\ job' = [job EXCEPT ![i] = f]
      BY <1>3, <2>1 DEF EnterStep, Recount, Spawn
    <2>3. f.mine /\ f.todo = <<>> /\ f.then = Query("count", view.range)
      BY <2>1 DEF Job
    <2>4. f # None /\ f.then # None /\ f.then.kind = "count" /\ f.then.of = view.range
      <3>1. view.range \in Ranges
        BY DEF Typed, Shown, SetupOK, SetupState
      <3>2. Query("count", view.range) \in Queries
        BY <3>1 DEF Query, Queries
      <3>3. f.then # None
        BY <2>3, <3>2, NoneIsNoRecord
      <3>4. PICK w : w = [view EXCEPT !.loaded = TRUE]
        OBVIOUS
      <3>5. Loaded("setup", w) /\ w.range = view.range
        BY <3>4 DEF Typed, Shown, SetupOK, SetupState, Loaded
      <3>6. Fits(f, "setup", w)
        BY <2>1, <3>1, <3>5, RecountFits
      <3> QED
        BY <2>3, <3>3, <3>6, FitsIsSome DEF Query
    <2>5. job'[i] = f /\ \A j \in JobIds \ {i} : job'[j] = job[j]
      BY <2>2 DEF Typed, Functions
    <2>6. \A j \in JobIds : alone' /\ CountJob(j)' => j = i
      BY <2>5 DEF CountJob, Mine
    <2>7. Counting(i)'
      BY <2>3, <2>4, <2>5 DEF Counting, CountJob, Mine
    <2> QED
      BY <1>1, <2>4, <2>5, <2>6, <2>7 DEF Counted
  <1> QED
    BY <1>2, <1>3

LEMMA CountLoads ==
  ASSUME Typed, Counted, page \in {"slots", "setup"}, LoadArrives
  PROVE  Counted'
  <1>1. PICK data : data = load.data[1]
    OBVIOUS
  <1>2. load # None /\ load.data # None
    BY DEF LoadArrives
  <1>3. CASE load.kind = "wizard"
    <2>1. WizardArrives(data)
      BY <1>1, <1>3 DEF LoadArrives
    <2>2. CASE data.setup
      <3>1. Mount("dashboard", job) /\ DOMAIN job = JobIds
        BY <2>1, <2>2 DEF WizardArrives, Typed, Functions
      <3> QED
        BY <3>1, CountMounted
    <2>3. CASE ~data.setup
      <3>1. page = "setup" /\ view \in SetupState /\ load \in Reading("wizard", None) /\ ~view.loaded
        BY <1>2, <1>3 DEF Typed, Shown, SlotsOK, SetupOK, Reading
      <3>2. data \in Answered("wizard", None)
        BY <1>1, <1>2, <3>1 DEF Reading, Data
      <3>3. data.rules \in RuleLists
        BY <3>2 DEF Answered
      <3>4. PICK v : v = [view EXCEPT !.loaded = TRUE, !.rules = data.rules]
        OBVIOUS
      <3>5. v \in SetupState /\ v.range = view.range
        BY <3>1, <3>3, <3>4 DEF SetupState
      <3>6. EnterStep(Resume(data.rules), v) /\ page' = page
        BY <2>1, <2>3, <3>4 DEF WizardArrives
      <3>7. \A j \in JobIds : ~Mine(j)
        BY <3>1, FunctionRuns DEF Loaded
      <3> QED
        BY <3>1, <3>5, <3>6, <3>7, CountEnters
    <2> QED
      BY <2>2, <2>3
  <1>4. CASE load.kind # "wizard"
    <2>1. PICK v : v = ViewShows(view, load.kind, data)
      OBVIOUS
    <2>2. view' = (IF page = "slots" THEN [v EXCEPT !.error = FALSE] ELSE v) /\ UNCHANGED <<page, job, alone>>
      BY <1>1, <1>4, <2>1 DEF LoadArrives
    <2>3. CASE page = "slots"
      <3>1. view \in SlotsState /\ load \in Reading("count", view.range) /\ view.range \in Ranges
        BY <1>2, <2>3 DEF Typed, Shown, SlotsOK, SlotsState
      <3>2. load.kind = "count" /\ data \in Answered("count", view.range)
        BY <1>1, <1>2, <3>1 DEF Reading, Data
      <3>3. data.of = view.range
        BY <3>2 DEF Answered
      <3>4. v = [view EXCEPT !.count = data]
        BY <2>1, <3>2 DEF ViewShows, ScheduleKinds, ScheduleShows
      <3>5. view'.range = view.range /\ view'.count = data
        BY <2>2, <2>3, <3>1, <3>4 DEF SlotsState
      <3> QED
        BY <2>2, <2>3, <3>3, <3>5, CountJobsStay
    <2>4. CASE page = "setup"
      <3>1. view \in SetupState /\ load.kind \in {"overrides", "calendar"}
        BY <1>2, <1>4, <2>4 DEF Typed, Shown, SetupOK, Reading
      <3>2. v = [view EXCEPT !.overrides = data] \/ v = [view EXCEPT !.calendar = data]
        BY <2>1, <3>1 DEF ViewShows, ScheduleKinds, ScheduleShows
      <3>3. view'.range = view.range /\ view'.count = view.count /\ view'.step = view.step
        BY <2>2, <2>4, <3>1, <3>2 DEF SetupState
      <3> QED
        BY <2>2, <2>4, <3>3, CountJobsStay
    <2> QED
      BY <2>3, <2>4
  <1> QED
    BY <1>3, <1>4

LEMMA CountEffects ==
  ASSUME Typed, Counted, page \in {"slots", "setup"}, Effects
  PROVE  Counted'
  <1>1. CASE ServeLoad
    <2>1. /\ load # None /\ Answers(load.kind, load.of) /\ load' = [load EXCEPT !.data = <<Answer(load.kind, load.of)>>]
          /\ UNCHANGED <<db, page, view, aux, job, alone>>
      BY <1>1 DEF ServeLoad, NotLoading
    <2>2. PICK q \in Queries : load \in Reading(q.kind, q.of)
      BY <2>1, LoadsQuery DEF Typed
    <2>3. load' \in Reading(q.kind, q.of)
      BY <2>1, <2>2, ReadingServed DEF Typed
    <2>4. load' # None
      BY <2>3, ReadingIsSome
    <2> QED
      BY <2>1, <2>4, CountJobsStay
  <1>2. CASE LoadFails
    <2>1. load # None /\ UNCHANGED <<page, job, alone>>
          /\ view' = IF load.kind \in ScheduleKinds THEN ScheduleFails(view, load.kind, load.of) ELSE PageFails(view, load.kind)
      BY <1>2 DEF LoadFails
    <2>2. CASE page = "slots"
      <3>1. view \in SlotsState /\ load.kind = "count" /\ load.of = view.range
        BY <2>1, <2>2 DEF Typed, Shown, SlotsOK, Reading
      <3>2. view' = [view EXCEPT !.count = [of |-> view.range, n |-> 0], !.error = TRUE]
        BY <2>1, <3>1 DEF ScheduleKinds, ScheduleFails
      <3>3. view'.range = view.range /\ view'.count.of = view.range
        BY <3>1, <3>2 DEF SlotsState
      <3> QED
        BY <2>1, <2>2, <3>3, CountJobsStay
    <2>3. CASE page = "setup"
      <3>1. view \in SetupState /\ load.kind \in {"wizard", "overrides", "calendar"}
        BY <2>1, <2>3 DEF Typed, Shown, SetupOK, Reading
      <3>2. \/ view' = [view EXCEPT !.error = TRUE]
            \/ view' = [view EXCEPT !.error = TRUE, !.overrides = {}]
            \/ view' = [view EXCEPT !.calendar = [overrides |-> {}, slots |-> {}]]
        BY <2>1, <2>3, <3>1 DEF ScheduleKinds, ScheduleFails, PageFails
      <3>3. view'.range = view.range /\ view'.count = view.count /\ view'.step = view.step
        BY <3>1, <3>2 DEF SetupState
      <3> QED
        BY <2>1, <2>3, <3>3, CountJobsStay
    <2> QED
      BY <2>2, <2>3
  <1>3. CASE ServeAux
    BY <1>3, CountJobsStay DEF ServeAux
  <1>4. CASE AuxFails \/ AuxArrives
    <2>1. aux # None /\ UNCHANGED <<page, load, job, alone>>
          /\ \/ view' = IF aux.kind \in ScheduleKinds THEN ScheduleFails(view, aux.kind, aux.of) ELSE PageFails(view, aux.kind)
             \/ view' = ViewShows(view, aux.kind, aux.data[1])
      BY <1>4 DEF AuxFails, AuxArrives
    <2>2. aux.kind = "day" /\ page = "setup" /\ view \in SetupState
      BY <2>1, AuxQuery DEF Typed, Shown, SetupOK
    <2>3. PICK d : d = aux.data[1]
      OBVIOUS
    <2>4. view' = [view EXCEPT !.day = {}] \/ view' = [view EXCEPT !.day = d]
      BY <2>1, <2>2, <2>3 DEF ScheduleKinds, ScheduleFails, ViewShows, ScheduleShows
    <2>5. view'.range = view.range /\ view'.count = view.count /\ view'.step = view.step
      BY <2>2, <2>4 DEF SetupState
    <2> QED
      BY <2>1, <2>2, <2>5, CountJobsStay
  <1>5. ~ServeSchedule /\ ~ScheduleArrives
    BY ScheduleRead DEF ServeSchedule, ScheduleArrives
  <1> QED
    BY <1>1, <1>2, <1>3, <1>4, <1>5, CountLoads DEF Effects

\* A click starts a function; if it counts, then what the page shows.
LEMMA CountBegins ==
  ASSUME Typed, Counted, page \in {"slots", "setup"}, NEW f, Spawn(f), UNCHANGED <<page, load>>, alone' => alone,
         f.then.kind = "count" => f.then.of = view.range,
         view'.range = view.range, view'.count = view.count, page = "setup" => view'.step = view.step
  PROVE  Counted'
  <1>1. PICK i \in JobIds : job[i] = None /\ job' = [job EXCEPT ![i] = f]
    BY DEF Spawn
  <1>2. job'[i] = f /\ \A j \in JobIds \ {i} : job'[j] = job[j]
    BY <1>1 DEF Typed, Functions
  <1>3. \A j \in JobIds : CountJob(j)' => job'[j].then.of = view.range \/ (CountJob(j) /\ job'[j].then = job[j].then)
    BY <1>2 DEF CountJob, Mine
  <1>4. \A j \in JobIds : Counting(j) => Counting(j)'
    BY <1>1, <1>2 DEF Counting, CountJob, Mine
  <1> QED
    BY <1>3, <1>4, CountStays

LEMMA CountStarts ==
  ASSUME Typed, Counted, page \in {"slots", "setup"}, NEW todo, NEW q, NEW mark, NEW w,
         Start(todo, q, mark, w), w = [view EXCEPT !.busy = "yes", !.error = FALSE], q.kind = "count" => q.of = view.range
  PROVE  Counted'
  <1>1. view \in SlotsState \cup SetupState /\ (page = "setup" => view \in SetupState)
    BY CountShows
  <1>2. PICK f : f = Job(todo, q, mark)
    OBVIOUS
  <1>3. f.then = q
    BY <1>2 DEF Job
  <1>4. Spawn(f) /\ UNCHANGED <<page, load>> /\ (alone' => alone) /\ view' = w
    BY <1>2 DEF Start
  <1>5. view'.range = view.range /\ view'.count = view.count /\ (page = "setup" => view'.step = view.step)
    BY <1>1, <1>4 DEF SlotsState, SetupState
  <1> QED
    BY <1>3, <1>4, <1>5, CountBegins

LEMMA CountDismisses ==
  ASSUME Typed, Counted, page \in {"slots", "setup"}, NEW e, UNCHANGED <<page, job, load, alone>>,
         view' = [view EXCEPT !.error = e]
  PROVE  Counted'
  <1>1. view \in SlotsState \cup SetupState /\ (page = "setup" => view \in SetupState)
    BY CountShows
  <1>2. view'.range = view.range /\ view'.count = view.count /\ (page = "setup" => view'.step = view.step)
    BY <1>1 DEF SlotsState, SetupState
  <1> QED
    BY <1>2, CountJobsStay

LEMMA CountErrors ==
  ASSUME Typed, Counted, page \in {"slots", "setup"}, NEW e, Show([view EXCEPT !.error = e])
  PROVE  Counted'
  BY CountDismisses DEF Show

\* Another range is shown: nothing else works, and it is counted.
LEMMA CountChooses ==
  ASSUME Typed, page \in {"slots", "setup"}, ChooseRange \/ ChooseWizardRange
  PROVE  Counted'
  <1>1. view \in SlotsState \cup SetupState /\ (page = "setup" => view \in SetupState)
    BY CountShows
  <1>2. PICK r \in Ranges : view' = [view EXCEPT !.range = r]
    BY DEF ChooseRange, ChooseWizardRange, Rerun
  <1>3. view'.range = r
    BY <1>1, <1>2 DEF SlotsState, SetupState
  <1>4. page' = page /\ (alone' => \A j \in JobIds : job[j] = None)
    BY DEF ChooseRange, ChooseWizardRange, Rerun, Quiet, Running
  <1>5. CASE ChooseRange
    <2>1. page = "slots" /\ job' = job
      BY <1>5 DEF ChooseRange, Rerun
    <2>2. load' # None
      <3>1. PICK s \in Ranges : load' = Effect("count", s)
        BY <1>5 DEF ChooseRange, Rerun
      <3>2. PICK q \in Queries : q = Query("count", s)
        BY DEF Query, Queries
      <3>3. load' \in Reading(q.kind, q.of)
        BY <3>1, <3>2, Started, QueryFields
      <3> QED
        BY <3>3, ReadingIsSome
    <2> QED
      BY <1>4, <2>1, <2>2 DEF Counted, CountJob, Mine
  <1>6. CASE ChooseWizardRange
    <2>1. page = "setup" /\ view.loaded /\ Recount(view')
      BY <1>6 DEF ChooseWizardRange
    <2>2. PICK q, f : q = Query("count", r) /\ f = Job(<<>>, q, None)
      OBVIOUS
    <2>3. PICK i \in JobIds : job[i] = None /\ job' = [job EXCEPT ![i] = f]
      BY <1>3, <2>1, <2>2 DEF Recount, Spawn
    <2>4. q \in Queries /\ q.kind = "count" /\ q.of = r /\ q # None
      BY <2>2, NoneIsNoRecord DEF Query, Queries
    <2>5. f.mine /\ f.todo = <<>> /\ f.then = q /\ f # None
      <3>1. Loaded("setup", view') /\ view'.range \in Ranges
        BY <1>1, <1>2, <1>3, <2>1 DEF Loaded, SetupState
      <3>2. Fits(f, "setup", view')
        BY <1>3, <2>2, <3>1, RecountFits
      <3> QED
        BY <2>2, <3>2, FitsIsSome DEF Job
    <2>6. job'[i] = f /\ \A j \in JobIds \ {i} : job'[j] = job[j]
      BY <2>3 DEF Typed, Functions
    <2>7. Counting(i)'
      BY <2>4, <2>5, <2>6 DEF Counting, CountJob, Mine
    <2>8. alone' => \A j \in JobIds : CountJob(j)' => job'[j].then.of = r
      BY <1>4, <2>4, <2>5, <2>6 DEF CountJob, Mine
    <2> QED
      BY <1>3, <2>7, <2>8 DEF Counted
  <1> QED
    BY <1>5, <1>6

LEMMA CountClicks ==
  ASSUME Typed, Counted, page \in {"slots", "setup"}, Clicks
  PROVE  Counted'
  <1>1. CASE Open
    BY <1>1, CountMounted DEF Open, Typed, Functions
  <1>2. ~PageActions
    BY DEF PageActions, ChooseStatus, ChooseListed, Turn, DeletePage, Create, Type, Save, ActivatePage, Discard, Editing,
       ChooseDay, OpenBookingModal, CloseBookingModal, ShowsSchedule, FilterBookings, DecideBooking, RejectWithoutReason,
       DecideUser, Retry
  <1>3. CASE RuleActions
    <2>1. ASSUME NEW todo, StartRules(todo) PROVE Counted'
      <3>1. PICK q, w : q = Query("rules", None) /\ w = [view EXCEPT !.busy = "yes", !.error = FALSE]
        OBVIOUS
      <3>2. Start(todo, q, "yes", w)
        BY <3>1, <2>1 DEF StartRules
      <3>3. q.kind = "count" => q.of = view.range
        BY <3>1 DEF Query
      <3> QED
        BY <3>1, <3>2, <3>3, CountStarts
    <2>2. ASSUME NEW e, Show([view EXCEPT !.error = e]) PROVE Counted'
      BY <2>2, CountErrors
    <2>3. CASE ResetAll /\ List = {}
      <3>1. UNCHANGED <<page, job, load, alone>> /\ view' = [view EXCEPT !.error = FALSE]
        BY <2>3 DEF ResetAll
      <3> QED
        BY <3>1, CountDismisses
    <2> QED
      BY <1>3, <2>1, <2>2, <2>3 DEF RuleActions, AddRules, RemoveRule, ResetAll, TemplateBasic, TemplateLunch
  <1>4. CASE SlotActions
    <2>1. ASSUME NEW op, StartSlots(op) PROVE Counted'
      <3>1. PICK q, w : q = Query("count", view.range) /\ w = [view EXCEPT !.busy = "yes", !.error = FALSE]
        OBVIOUS
      <3>2. Start(<<Request(op, view.range)>>, q, "yes", w)
        BY <3>1, <2>1 DEF StartSlots
      <3>3. q.kind = "count" => q.of = view.range
        BY <3>1 DEF Query
      <3> QED
        BY <3>1, <3>2, <3>3, CountStarts
    <2> QED
      BY <1>4, <2>1, CountChooses DEF SlotActions
  <1>5. CASE OverrideActions
    <2>1. "yes" # None
      BY HostConstantsOK
    <2>2. ASSUME NEW todo, StartOverrides(todo, "yes") PROVE Counted'
      <3>1. PICK q, w : q = Query("overrides", ThisMonth) /\ w = [view EXCEPT !.busy = "yes", !.error = FALSE]
        OBVIOUS
      <3>2. Start(todo, q, "yes", w)
        BY <3>1, <2>1, <2>2 DEF StartOverrides
      <3>3. q.kind = "count" => q.of = view.range
        BY <3>1 DEF Query
      <3> QED
        BY <3>1, <3>2, <3>3, CountStarts
    <2>3. ASSUME NEW e, Show([view EXCEPT !.error = e]) PROVE Counted'
      BY <2>3, CountErrors
    <2>4. CASE ChooseException
      <3>1. page = "setup" /\ view \in SetupState /\ UNCHANGED <<page, load, job>> /\ (alone' => alone)
        BY <2>4 DEF ChooseException, WizardAt, Typed, Shown, SetupOK
      <3>2. PICK d, k : view' = [view EXCEPT !.date = d, !.kind = k, !.day = None] \/ view' = [view EXCEPT !.date = d, !.kind = k]
        BY <2>4 DEF ChooseException
      <3>3. view'.range = view.range /\ view'.count = view.count /\ view'.step = view.step
        BY <3>1, <3>2 DEF SetupState
      <3>4. \A j \in JobIds : (CountJob(j)' => CountJob(j) /\ job'[j].then = job[j].then) /\ (Counting(j) => Counting(j)')
        BY <3>1 DEF CountJob, Counting, Mine
      <3> QED
        BY <3>1, <3>3, <3>4, CountStays
    <2> QED
      BY <1>5, <2>2, <2>3, <2>4 DEF OverrideActions, SubmitOverride, RemoveOverride, AddOverride, RemoveOverrideWizard
  <1>6. CASE TurnStep
    <2>1. PICK n : EnterStep(n, view)
      BY <1>6 DEF TurnStep
    <2>2. page = "setup" /\ page' = page /\ view \in SetupState /\ (alone' => \A j \in JobIds : ~Mine(j))
      BY <1>6 DEF TurnStep, WizardAt, Typed, Shown, SetupOK, Quiet, Running, Mine
    <2> QED
      BY <2>1, <2>2, CountEnters
  <1>7. CASE Activate
    <2>1. PICK q, w : q = Query("setting", This) /\ w = [view EXCEPT !.busy = "yes", !.error = FALSE]
      OBVIOUS
    <2>2. Start(<<Request("complete", This)>>, q, "yes", w)
      BY <2>1, <1>7 DEF Activate
    <2>3. q.kind = "count" => q.of = view.range
      BY <2>1 DEF Query
    <2> QED
      BY <2>1, <2>2, <2>3, CountStarts
  <1>8. CASE TurnMonth
    <2>1. page = "setup" /\ view \in SetupState /\ UNCHANGED <<page, job>> /\ (alone' => alone)
      BY <1>8 DEF TurnMonth, Rerun, Typed, Shown, SetupOK
    <2>2. PICK m, c : view' = [view EXCEPT !.month = m, !.calendar = c]
      BY <1>8 DEF TurnMonth, Rerun
    <2>3. view'.range = view.range /\ view'.count = view.count /\ view'.step = view.step
      BY <2>1, <2>2 DEF SetupState
    <2>4. \A j \in JobIds : (CountJob(j)' => CountJob(j) /\ job'[j].then = job[j].then) /\ (Counting(j) => Counting(j)')
      BY <2>1 DEF CountJob, Counting, Mine
    <2> QED
      BY <2>1, <2>3, <2>4, CountStays
  <1> QED
    BY <1>1, <1>2, <1>3, <1>4, <1>5, <1>6, <1>7, <1>8 DEF Clicks, ScheduleActions, WizardActions

\* A page stays mounted, or another one is mounted.
LEMMA PageTurns ==
  ASSUME Typed, [Next]_vars
  PROVE  page' = page \/ \E p, jobs : /\ Mount(p, jobs) /\ DOMAIN jobs = JobIds
                                      /\ \A j \in JobIds : jobs[j] # None => jobs[j] = job[j]
  <1>1. PICK own : own = job /\ DOMAIN own = JobIds
    BY DEF Typed, Functions
  <1>2. CASE UNCHANGED vars \/ Others
    BY <1>2 DEF vars, Others
  <1>3. CASE Open
    BY <1>1, <1>3 DEF Open
  <1>4. ASSUME PageActions PROVE page' = page
    BY <1>4 DEF PageActions, ChooseStatus, ChooseListed, Turn, DeletePage, Create, Type, Save, ActivatePage, Discard, Editing,
       ChooseDay, OpenBookingModal, CloseBookingModal, ShowsSchedule, FilterBookings, DecideBooking, RejectWithoutReason,
       DecideUser, Retry, Show, Start, Rerun
  <1>5. ASSUME ScheduleActions PROVE page' = page
    BY <1>5 DEF ScheduleActions, RuleActions, AddRules, RemoveRule, ResetAll, TemplateBasic, TemplateLunch, StartRules,
       SlotActions, StartSlots, ChooseWizardRange, ChooseRange, OverrideActions, SubmitOverride, RemoveOverride, ChooseException,
       AddOverride, RemoveOverrideWizard, StartOverrides, WizardActions, TurnStep, Activate, TurnMonth, Show, Start, Rerun
  <1>6. ASSUME NEW j \in JobIds, Serve(j), page' # page
        PROVE  \E p, jobs : Mount(p, jobs) /\ DOMAIN jobs = JobIds /\ \A i \in JobIds : jobs[i] # None => jobs[i] = job[i]
    <2>1. PICK p, jobs : Mount(p, jobs) /\ jobs = [job EXCEPT ![j] = None]
      BY <1>6 DEF Serve
    <2>2. DOMAIN jobs = JobIds /\ \A i \in JobIds : jobs[i] # None => jobs[i] = job[i]
      BY <1>1, <2>1
    <2> QED
      BY <2>1, <2>2
  <1>7. CASE Function
    BY <1>6, <1>7 DEF Function, Refuse, Break, ServeThen, ThenArrives
  <1>8. CASE LoadArrives
    <2>1. ASSUME NEW data, WizardArrives(data) \/ HomeArrives(data) \/ RowArrives(data)
          PROVE  page' = page \/ \E p : Mount(p, job)
      BY <2>1 DEF WizardArrives, HomeArrives, RowArrives
    <2>2. page' = page \/ \E p : Mount(p, job)
      BY <1>8, <2>1 DEF LoadArrives
    <2> QED
      BY <1>1, <2>2
  <1>9. CASE ServeLoad \/ LoadFails \/ ServeAux \/ AuxFails \/ AuxArrives \/ ServeSchedule \/ ScheduleArrives
    BY <1>9 DEF ServeLoad, LoadFails, ServeAux, AuxFails, AuxArrives, ServeSchedule, ScheduleArrives
  <1> QED
    BY <1>2, <1>3, <1>4, <1>5, <1>7, <1>8, <1>9 DEF Next, Clicks, Effects

LEMMA CountedKept ==
  ASSUME Typed, Counted, [Next]_vars
  PROVE  Counted'
  <1>1. CASE page' # page
    BY <1>1, PageTurns, CountMounted
  <1>2. CASE page' = page /\ page \notin {"slots", "setup"}
    BY <1>2 DEF Counted
  <1>3. CASE page \in {"slots", "setup"} /\ (UNCHANGED vars \/ Others)
    <2>1. UNCHANGED <<page, view, load, job, alone>>
      BY <1>3 DEF vars, Others
    <2> QED
      BY <1>3, <2>1, CountJobsStay
  <1>4. CASE page \in {"slots", "setup"} /\ ~UNCHANGED vars /\ ~Others
    BY <1>4, CountClicks, CountEffects, CountServes, CountGoesOn DEF Next, Function
  <1> QED
    BY <1>1, <1>2, <1>3, <1>4

\* The number that the pages show is of the range they show, whatever was
\* refused, lost or counted late, if no range was chosen while something worked.
THEOREM CountsMatch ==
  Spec => []CountMatchesRange
  <1>1. Init => Counted
    BY DEF Init, Counted
  <1>2. Typed /\ Counted /\ [Next]_vars => Counted'
    BY CountedKept
  <1>3. Counted => CountMatchesRange
    <2> SUFFICES ASSUME Counted, page \in {"slots", "setup"}, Quiet, alone, view.count # None, page = "setup" => view.step = 3
                 PROVE  view.count.of = view.range
      BY DEF CountMatchesRange
    <2>1. \A j \in JobIds : ~Counting(j)
      BY DEF Quiet, Running, Counting, CountJob, Mine
    <2> QED
      BY <2>1 DEF Counted, Quiet
  <1> QED
    BY <1>1, <1>2, <1>3, SpecTyped, PTL DEF Spec

----------------------------------------------------------------------------
(* The list of rules that HostRulesPage shows. *)

\* A list that is not shown, or that is empty although an error was dismissed.
Unknown == view.rules = None \/ (view.rules = {} /\ "dismissed" \in doubt)

\* One function runs at a time, and what it reads are the rules; a list that is
\* not theirs is being read again, or goes with an error, or with one dismissed.
Listed ==
  page = "rules" /\ alone =>
    /\ \A i, j \in JobIds : job[i] # None /\ job[j] # None => i = j
    /\ load # None => /\ view.rules = None /\ \A j \in JobIds : job[j] = None
                      /\ load.data # None => load.data[1] = db.rules
    /\ \A j \in JobIds : Mine(j) => job[j].then # None /\ (job[j].data # None => job[j].data[1] = db.rules)
    /\ \/ \E j \in JobIds : Mine(j)
       \/ view.error \/ Unknown
       \/ view.rules = db.rules /\ \A j \in JobIds : job[j] = None

LEMMA RulesPage ==
  ASSUME Typed, page = "rules"
  PROVE  /\ view \in RulesState /\ aux = None /\ (load # None => load.kind = "rules" /\ load.of = None)
         /\ \A j \in JobIds : /\ job[j] # None => Fits(job[j], page, view) /\ job[j] \in Jobs(job[j].then)
                              /\ Mine(j) /\ job[j].then # None => job[j].then.kind = "rules" /\ job[j].then.of = None
                              /\ Mine(j) /\ job[j].todo # <<>> => job[j].todo[1].op \in {"rule", "unrule"}
  <1>1. RulesOK(view, load, aux)
    BY DEF Typed, Shown
  <1>2. view \in RulesState /\ aux = None /\ (load # None => load.kind = "rules" /\ load.of = None)
    BY <1>1 DEF RulesOK, Reading
  <1>3. ASSUME NEW j \in JobIds, job[j] # None PROVE Fits(job[j], page, view) /\ job[j] \in Jobs(job[j].then)
    BY <1>3 DEF Typed, Functions, Fits, JobOK
  <1>4. ASSUME NEW j \in JobIds, Mine(j)
        PROVE  /\ job[j].then # None => job[j].then.kind = "rules" /\ job[j].then.of = None
               /\ job[j].todo # <<>> => job[j].todo[1].op \in {"rule", "unrule"}
    BY <1>4, FunctionRuns DEF OpsOn, EndsOn, Queries
  <1> QED
    BY <1>2, <1>3, <1>4

LEMMA ListMounted ==
  ASSUME Typed, NEW p, NEW jobs, Mount(p, jobs), DOMAIN jobs = JobIds, \A j \in JobIds : jobs[j] # None => jobs[j] = job[j]
  PROVE  Listed'
  <1> SUFFICES ASSUME page' = "rules", alone' PROVE Listed'
    BY DEF Listed
  <1>1. \A j \in JobIds : job'[j] = None
    BY MountLeaves
  <1>2. view'.rules = None
    BY MountedList DEF RulesView
  <1>3. load'.data = None
    BY MountedList DEF Effect
  <1> QED
    BY <1>1, <1>2, <1>3 DEF Listed, Mine, Unknown

\* The list, and its errors, as they were; the rules too.
LEMMA ListStays ==
  ASSUME Listed, UNCHANGED <<page, view, load, job, alone, doubt>>, db'.rules = db.rules
  PROVE  Listed'
  BY DEF Listed, Mine, Unknown

LEMMA BookedRules ==
  ASSUME Typed, Others
  PROVE  db'.rules = db.rules
  <1>1. Booked
    BY DEF Others, Booked
  <1> QED
    BY <1>1, BookedKeeps DEF Typed

\* The function that runs on the page has failed, or was lost.
LEMMA ListFails ==
  ASSUME Typed, Listed, page = "rules", NEW j \in JobIds, job[j] # None, MyView(j, Failed(view, j)),
         job' = [job EXCEPT ![j] = None] \/ \E g : g.mine = FALSE /\ job' = [job EXCEPT ![j] = g],
         UNCHANGED <<db, page, load, alone, doubt>>
  PROVE  Listed'
  <1> SUFFICES ASSUME alone PROVE Listed'
    BY DEF Listed
  <1>1. DOMAIN job = JobIds /\ view \in RulesState
    BY RulesPage DEF Typed, Functions
  <1>2. load' = None /\ \A i \in JobIds \ {j} : job'[i] = None
    BY <1>1 DEF Listed
  <1>3. \A i \in JobIds : ~Mine(i)'
    BY <1>1, <1>2 DEF Mine
  <1>4. view'.error \/ Unknown'
    <2>1. CASE job[j].mine
      <3>1. Mine(j)
        BY <2>1 DEF Mine
      <3>2. job[j].then # None /\ job[j].then.kind = "rules"
        BY <3>1, RulesPage DEF Listed
      <3>3. view' = Unmarked([view EXCEPT !.error = TRUE], j)
        BY <2>1, <3>2 DEF MyView, Failed
      <3>4. view' = [view EXCEPT !.error = TRUE] \/ view' = [view EXCEPT !.busy = None, !.error = TRUE]
        BY <1>1, <3>3 DEF Unmarked, RulesState
      <3> QED
        BY <1>1, <3>4 DEF RulesState
    <2>2. CASE ~job[j].mine
      <3>1. view' = view /\ (view.error \/ Unknown)
        BY <2>2 DEF Listed, MyView, Mine
      <3> QED
        BY <3>1 DEF Unknown
    <2> QED
      BY <2>1, <2>2
  <1> QED
    BY <1>2, <1>3, <1>4 DEF Listed

LEMMA ListThen ==
  ASSUME Typed, Listed, page = "rules", NEW j \in JobIds, ThenArrives(j)
  PROVE  Listed'
  <1> SUFFICES ASSUME alone PROVE Listed'
    BY DEF Listed, ThenArrives
  <1>1. /\ job[j] # None /\ job[j].data # None /\ job' = [job EXCEPT ![j] = None] /\ DOMAIN job = JobIds
        /\ MyView(j, Unmarked(ThenShown(view, j), j)) /\ UNCHANGED <<db, page, load, alone, doubt>>
    BY DEF ThenArrives, Ended, Typed, Functions
  <1>2. load' = None /\ \A i \in JobIds : job'[i] = None
    BY <1>1 DEF Listed
  <1>3. CASE job[j].mine
    <2>1. Mine(j) /\ view \in RulesState
      BY <1>1, <1>3, RulesPage DEF Mine
    <2>2. job[j].then # None /\ job[j].then.kind = "rules" /\ job[j].data[1] = db.rules
      BY <1>1, <2>1, RulesPage DEF Listed
    <2>3. PICK w : w = [view EXCEPT !.rules = db.rules]
      OBVIOUS
    <2>4. ThenShown(view, j) = w
      BY <2>2, <2>3 DEF ThenShown, ViewShows, ScheduleKinds, ScheduleShows
    <2>5. view' = Unmarked(w, j)
      BY <1>1, <1>3, <2>4 DEF MyView
    <2>6. view'.rules = db.rules
      BY <2>1, <2>3, <2>5 DEF Unmarked, RulesState
    <2> QED
      BY <1>1, <1>2, <2>6 DEF Listed, Mine
  <1>4. CASE ~job[j].mine
    <2>1. view' = view /\ (view.error \/ Unknown)
      BY <1>1, <1>4 DEF MyView, Listed, Mine
    <2>2. view'.error \/ Unknown'
      BY <1>1, <2>1 DEF Unknown
    <2> QED
      BY <1>1, <1>2, <2>2 DEF Listed, Mine
  <1> QED
    BY <1>3, <1>4

LEMMA ListGoesOn ==
  ASSUME Typed, Listed, page = "rules", NEW j \in JobIds, Refuse(j) \/ Break(j) \/ ServeThen(j) \/ ThenArrives(j)
  PROVE  Listed'
  <1>1. CASE Refuse(j)
    BY <1>1, ListFails DEF Refuse, Ended
  <1>2. CASE Break(j)
    BY <1>2, ListFails DEF Break, Ended
  <1>3. CASE ServeThen(j)
    <2>1. CASE Answers(job[j].then.kind, job[j].then.of)
      <3>1. /\ job[j] # None /\ job'[j].data = <<Answer(job[j].then.kind, job[j].then.of)>>
            /\ job'[j] # None /\ job'[j].mine = job[j].mine /\ job'[j].then = job[j].then
            /\ \A i \in JobIds \ {j} : job'[i] = job[i]
            /\ UNCHANGED <<db, page, view, load, aux, alone, doubt>>
        BY <1>3, <2>1, ThenServed DEF ServeThen
      <3>2. (\A i \in JobIds : Mine(i)' = Mine(i)) /\ Unknown' = Unknown
        BY <3>1 DEF Mine, Unknown
      <3>3. alone /\ Mine(j) => job'[j].data[1] = db.rules
        <4>1. alone /\ Mine(j) => job[j].then.kind = "rules"
          BY RulesPage DEF Listed
        <4> QED
          BY <3>1, <4>1 DEF Answer
      <3>4. \A i \in JobIds : (job'[i] = None) = (job[i] = None)
        BY <3>1
      <3> QED
        BY <3>1, <3>2, <3>3, <3>4 DEF Listed
    <2>2. CASE ~Answers(job[j].then.kind, job[j].then.of)
      BY <1>3, <2>2, ListFails DEF ServeThen, Ended
    <2> QED
      BY <2>1, <2>2
  <1> QED
    BY <1>1, <1>2, <1>3, ListThen

\* A function goes on, or a request that its page does not wait for.
LEMMA ListAwaits ==
  ASSUME Typed, Listed, page = "rules", NEW j \in JobIds, job[j] # None, view' = view, UNCHANGED <<page, load, alone>>,
         doubt \subseteq doubt', \A i \in JobIds \ {j} : job'[i] = job[i],
         Mine(j)' => Mine(j) /\ job'[j].then = job[j].then /\ job'[j].data = None,
         Mine(j) => Mine(j)'
  PROVE  Listed'
  <1> SUFFICES ASSUME alone PROVE Listed'
    BY DEF Listed
  <1>1. load' = None /\ \A i \in JobIds \ {j} : job'[i] = None
    BY DEF Listed
  <1>2. \A i \in JobIds : Mine(i)' => i = j
    BY <1>1 DEF Mine
  <1>3. CASE Mine(j)
    BY <1>1, <1>2, <1>3 DEF Listed
  <1>4. CASE ~Mine(j)
    <2>1. \A i \in JobIds : ~Mine(i)
      BY <1>4 DEF Listed, Mine
    <2>2. view.error \/ Unknown
      BY <2>1 DEF Listed
    <2>3. view'.error \/ Unknown'
      BY <2>2 DEF Unknown
    <2> QED
      BY <1>1, <1>2, <1>4, <2>3 DEF Listed
  <1> QED
    BY <1>3, <1>4

LEMMA ListServes ==
  ASSUME Typed, Listed, page = "rules", NEW j \in JobIds, Serve(j), doubt \subseteq doubt'
  PROVE  Listed'
  <1>1. PICK r, rest : r = Head(job[j].todo) /\ rest = Tail(job[j].todo)
    OBVIOUS
  <1>2. job[j] # None /\ job[j].todo # <<>> /\ Fits(job[j], page, view) /\ DOMAIN job = JobIds
    BY DEF Serve, Typed, Functions
  <1>3. r = job[j].todo[1] /\ job[j].data = None /\ job[j] \in Jobs(job[j].then)
    BY <1>1, <1>2, NextRequest, RulesPage
  <1>4. Mine(j) => r.op \in {"rule", "unrule"}
    BY <1>2, <1>3, RulesPage
  <1>5. CASE Mount(LeadsTo(r), [job EXCEPT ![j] = None])
    BY <1>2, <1>5, ListMounted
  <1>6. CASE ~alone
    <2>1. alone' = alone \/ Mount(LeadsTo(r), [job EXCEPT ![j] = None])
      BY <1>1 DEF Serve
    <2> QED
      BY <1>5, <1>6, <2>1 DEF Listed
  <1>7. ASSUME NEW todo, job' = [job EXCEPT ![j].todo = todo]
        PROVE  /\ \A i \in JobIds \ {j} : job'[i] = job[i]
               /\ Mine(j)' => Mine(j) /\ job'[j].then = job[j].then /\ job'[j].data = None
               /\ Mine(j) => job'[j].mine
    <2>1. PICK g : g = [job[j] EXCEPT !.todo = todo]
      OBVIOUS
    <2>2. g.mine = job[j].mine /\ g.then = job[j].then /\ g.data = job[j].data
      BY <1>3, <2>1 DEF Jobs
    <2>3. job' = [job EXCEPT ![j] = g]
      BY <1>2, <1>7, <2>1
    <2> QED
      BY <1>2, <1>3, <2>2, <2>3 DEF Mine
  <1>8. CASE alone /\ r.op \in TwoSteps
    <2>1. job' = [job EXCEPT ![j].todo = <<Second(r)>> \o rest] /\ UNCHANGED <<page, view, load, alone>>
      BY <1>1, <1>8 DEF Serve
    <2>2. ~Mine(j)
      BY <1>4, <1>8 DEF TwoSteps
    <2> QED
      BY <1>2, <1>7, <2>1, <2>2, ListAwaits
  <1>9. CASE alone /\ r.op \notin TwoSteps /\ (rest # <<>> \/ job[j].then # None)
    <2>1. WizardAfter(PageAfter(view, r), r, j, [job EXCEPT ![j].todo = rest]) /\ page' = page /\ alone' = alone
      BY <1>1, <1>9 DEF Serve
    <2>2. load' = load /\ MyView(j, PageAfter(view, r)) /\ job' = [job EXCEPT ![j].todo = rest]
      BY <1>2, <1>4, <2>1 DEF WizardAfter, Mine
    <2>3. view' = view
      BY <1>2, <1>4, <2>2 DEF MyView, Mine, PageAfter
    <2>4. Mine(j) => Mine(j)'
      <3>1. Mine(j) => job'[j] # None
        <4>1. job'[j] = [job[j] EXCEPT !.todo = rest]
          BY <1>2, <2>2
        <4>4. Mine(j) => job[j].then # None
          BY <1>9 DEF Listed
        <4>5. Mine(j) => job[j].then \in Queries
          BY <4>4, FunctionRuns
        <4>6. rest \in Seq(Requests)
          BY <1>1, <1>2, NextRequest
        <4>2. Mine(j) => job[j].then \in Queries /\ rest \in Seq(Requests)
          BY <4>5, <4>6
        <4>3. Mine(j) => job'[j] \in Jobs(job[j].then)
          BY <1>3, <4>1, <4>2 DEF Jobs
        <4> QED
          BY <4>2, <4>3, NoneIsNoRecord
      <3> QED
        BY <1>7, <2>2, <3>1 DEF Mine
    <2> QED
      BY <1>2, <1>7, <2>1, <2>2, <2>3, <2>4, ListAwaits
  <1>10. CASE alone /\ r.op \notin TwoSteps /\ rest = <<>> /\ job[j].then = None
    <2>1. \/ Mount(LeadsTo(r), [job EXCEPT ![j] = None])
          \/ job' = [job EXCEPT ![j] = None] /\ MyView(j, Unmarked(PageAfter(view, r), j)) /\ UNCHANGED <<page, load, alone>>
      BY <1>1, <1>10 DEF Serve, Ended
    <2>2. ~Mine(j)
      BY <1>10 DEF Listed
    <2>3. CASE job' = [job EXCEPT ![j] = None] /\ MyView(j, Unmarked(PageAfter(view, r), j)) /\ UNCHANGED <<page, load, alone>>
      <3>1. view' = view
        BY <1>2, <2>2, <2>3 DEF MyView, Mine
      <3>2. job'[j] = None /\ \A i \in JobIds \ {j} : job'[i] = job[i]
        BY <1>2, <2>3
      <3> QED
        BY <1>2, <2>2, <2>3, <3>1, <3>2, ListAwaits DEF Mine
    <2> QED
      BY <1>5, <2>1, <2>3
  <1> QED
    BY <1>6, <1>8, <1>9, <1>10

\* A function begins on a page that shows the rules, or what they have been.
LEMMA ListBegins ==
  ASSUME Typed, Listed, page = "rules", NEW todo, Series(todo), NEW w, NEW q, q = Query("rules", None),
         Start(todo, q, "yes", w), w = [view EXCEPT !.busy = "yes", !.error = FALSE]
  PROVE  Listed'
  <1> SUFFICES ASSUME alone' PROVE Listed'
    BY DEF Listed
  <1>1. PICK f : f = Job(todo, q, "yes")
    OBVIOUS
  <1>2. f.then = q /\ f.data = None /\ f.mine
    BY <1>1 DEF Job
  <1>3. UNCHANGED <<db, page, load>> /\ alone /\ Quiet
    BY DEF Start
  <1>4. PICK i \in JobIds : job[i] = None /\ job' = [job EXCEPT ![i] = f]
    BY <1>1 DEF Start, Spawn
  <1>5. job'[i] = f /\ \A j \in JobIds \ {i} : job'[j] = None
    BY <1>3, <1>4 DEF Typed, Functions, Quiet, Running
  <1>6. q # None /\ f # None
    <2>1. q \in Queries
      BY DEF Query, Queries
    <2>2. q # None
      BY <2>1, NoneIsNoRecord
    <2>3. todo \in Seq(Requests)
      BY SeriesTypes DEF RuleRequests, RulesShown
    <2>4. f \in Jobs(q)
      BY <1>1, <2>2, <2>3 DEF Job, Jobs, Data
    <2> QED
      BY <2>1, <2>2, <2>4, NoneIsNoRecord
  <1>7. Mine(i)' /\ load' = None
    BY <1>2, <1>3, <1>5, <1>6 DEF Mine, Quiet
  <1> QED
    BY <1>2, <1>5, <1>6, <1>7 DEF Listed, Mine

\* Nothing but an error is shown, or one is dismissed.
LEMMA ListErrors ==
  ASSUME Typed, Listed, page = "rules", NEW e \in BOOLEAN, view' = [view EXCEPT !.error = e],
         UNCHANGED <<db, page, job, load, alone>>, doubt \subseteq doubt',
         e \/ (List = {} /\ (view.error => "dismissed" \in doubt'))
  PROVE  Listed'
  <1>1. view \in RulesState
    BY RulesPage
  <1>2. view'.rules = view.rules /\ view'.error = e
    BY <1>1 DEF RulesState
  <1>3. Unknown => Unknown'
    BY <1>2 DEF Unknown
  <1>4. view.error => view'.error \/ Unknown'
    BY <1>2 DEF List, Unknown
  <1> QED
    BY <1>2, <1>3, <1>4 DEF Listed, Mine

LEMMA ListClicks ==
  ASSUME Typed, Listed, page = "rules", Clicks
  PROVE  Listed'
  <1>1. CASE Open
    BY <1>1, ListMounted DEF Open, Typed, Functions
  <1>2. ~PageActions
    BY DEF PageActions, ChooseStatus, ChooseListed, Turn, DeletePage, Create, Type, Save, ActivatePage, Discard, Editing,
       ChooseDay, OpenBookingModal, CloseBookingModal, ShowsSchedule, FilterBookings, DecideBooking, RejectWithoutReason,
       DecideUser, Retry
  <1>3. ~SlotActions /\ ~OverrideActions /\ ~WizardActions
    BY DEF SlotActions, StartSlots, SlotsShown, ChooseWizardRange, ChooseRange, OverrideActions, SubmitOverride, RemoveOverride,
       ChooseException, AddOverride, RemoveOverrideWizard, WizardAt, WizardActions, TurnStep, Activate, TurnMonth
  <1>4. CASE RuleActions
    <2>1. ASSUME NEW todo, Series(todo), StartRules(todo) PROVE Listed'
      <3>1. PICK q, w : q = Query("rules", None) /\ w = [view EXCEPT !.busy = "yes", !.error = FALSE]
        OBVIOUS
      <3>2. Start(todo, q, "yes", w)
        BY <2>1, <3>1 DEF StartRules
      <3> QED
        BY <2>1, <3>1, <3>2, ListBegins
    <2>2. ASSUME Show([view EXCEPT !.error = TRUE]), UNCHANGED doubt PROVE Listed'
      BY <2>2, ListErrors DEF Show
    <2>3. CASE ResetAll /\ List = {}
      <3>1. /\ view' = [view EXCEPT !.error = FALSE] /\ UNCHANGED <<db, page, job, load, alone>>
            /\ doubt' = IF view.error THEN doubt \cup {"dismissed"} ELSE doubt
        BY <2>3 DEF ResetAll
      <3>2. view.error \in BOOLEAN
        BY RulesPage DEF RulesState
      <3> QED
        BY <2>3, <3>1, <3>2, ListErrors
    <2>4. ~(ResetAll /\ List = {}) /\ ResetAll => StartRules(DropRules(List))
      BY DEF ResetAll
    <2> QED
      BY <1>4, <2>1, <2>2, <2>3, <2>4 DEF RuleActions, AddRules, RemoveRule, TemplateBasic, TemplateLunch, Series, Show
  <1> QED
    BY <1>1, <1>2, <1>3, <1>4 DEF Clicks, ScheduleActions

LEMMA ListEffects ==
  ASSUME Typed, Listed, page = "rules", Effects
  PROVE  Listed'
  <1>1. aux = None /\ view \in RulesState /\ (load # None => load.kind = "rules" /\ load.of = None)
    BY RulesPage
  <1>2. ~ServeAux /\ ~AuxFails /\ ~AuxArrives /\ ~ServeSchedule /\ ~ScheduleArrives
    BY <1>1 DEF ServeAux, AuxFails, AuxArrives, ServeSchedule, ScheduleArrives
  <1>3. CASE ServeLoad
    <2>1. PICK a : a = <<Answer(load.kind, load.of)>>
      OBVIOUS
    <2>2. load # None /\ load' = [load EXCEPT !.data = a] /\ UNCHANGED <<db, page, view, job, alone, doubt>>
      BY <1>3, <2>1 DEF ServeLoad, NotLoading
    <2>3. a[1] = db.rules
      BY <1>1, <2>1, <2>2 DEF Answer
    <2>4. load \in Reading("rules", None)
      BY <2>2 DEF Typed, Shown, RulesOK
    <2>5. load'.data[1] = db.rules
      BY <2>2, <2>3, <2>4 DEF Reading
    <2> QED
      BY <2>2, <2>5 DEF Listed, Mine, Unknown
  <1>4. CASE LoadFails
    <2>1. view' = [view EXCEPT !.error = TRUE] /\ load' = None /\ UNCHANGED <<db, page, job, alone>>
      BY <1>1, <1>4 DEF LoadFails, NotLoading, ScheduleKinds, ScheduleFails
    <2>2. view'.error
      BY <1>1, <2>1 DEF RulesState
    <2> QED
      BY <2>1, <2>2 DEF Listed, Mine
  <1>5. CASE LoadArrives
    <2>1. PICK d : d = load.data[1]
      OBVIOUS
    <2>2. view' = [view EXCEPT !.rules = d] /\ load' = None /\ load # None /\ load.data # None /\ UNCHANGED <<db, page, job, alone>>
      BY <1>1, <1>5, <2>1 DEF LoadArrives, NotLoading, ViewShows, ScheduleKinds, ScheduleShows
    <2>3. view'.rules = d
      BY <1>1, <2>2 DEF RulesState
    <2>4. alone => d = db.rules /\ \A j \in JobIds : job[j] = None
      BY <2>1, <2>2 DEF Listed
    <2> QED
      BY <2>2, <2>3, <2>4 DEF Listed, Mine
  <1> QED
    BY <1>2, <1>3, <1>4, <1>5 DEF Effects

LEMMA ListedKept ==
  ASSUME Typed, Listed, [Next]_vars
  PROVE  Listed'
  <1>1. CASE page' # page
    BY <1>1, PageTurns, ListMounted
  <1>2. CASE page' = page /\ page # "rules"
    BY <1>2 DEF Listed
  <1>3. CASE page = "rules" /\ UNCHANGED vars
    BY <1>3, ListStays DEF vars
  <1>4. CASE page = "rules" /\ Others
    BY <1>4, ListStays, BookedRules DEF Others
  <1>5. CASE page = "rules" /\ ~UNCHANGED vars /\ ~Others
    BY <1>5, ListClicks, ListEffects, ListServes, ListGoesOn, DoubtGrows DEF Next, Function
  <1> QED
    BY <1>1, <1>2, <1>3, <1>4, <1>5

\* A list of rules that is not the server's goes with an error, wherever the
\* series of requests that a button sends was refused or lost, unless the list
\* is empty and an error was dismissed because nothing was there to delete.
THEOREM StaleListsSaySo ==
  Spec => []StaleListShowsError
  <1>1. Init => Listed
    BY DEF Init, Listed
  <1>2. Typed /\ Listed /\ [Next]_vars => Listed'
    BY ListedKept
  <1>3. Listed => StaleListShowsError
    BY DEF Listed, StaleListShowsError, Quiet, Running, Mine, Unknown
  <1> QED
    BY <1>1, <1>2, <1>3, SpecTyped, PTL DEF Spec

----------------------------------------------------------------------------
(* A slot that is marked has a booking. *)

\* A cancellation or a rejection of b is under way that will leave the slot as
\* it is: it has read it open.
Keeping(b) == \/ db.cancel[b] = "keeps"
              \/ \E j \in JobIds : Waiting(j, "close") /\ job[j].todo[1].what = [book |-> b, frees |-> FALSE]

\* Whoever ends the last of the bookings that hold a slot frees it.
Held == \A s \in db.slots : s.status = "BOOKED" => \E b \in ActiveAt(db.booking, At(s)) : ~Keeping(b)

LEMMA ServedCancels ==
  ASSUME db \in Database, NEW r \in Requests, r.op \notin TwoSteps
  PROVE  Served(r).cancel = db.cancel
  <1>2. CASE r.op = "grant"
    BY <1>2 DEF Served, Decide, Database
  <1>3. CASE r.op \in {"delete", "discard"}
    BY <1>3 DEF Served, DeleteSetting, Database
  <1>4. CASE r.op \in {"rule", "unrule", "except", "unexcept"}
    BY <1>4 DEF Served, CreateRule, DeleteRule, CreateOverride, DeleteOverride, Database
  <1>5. CASE r.op \in {"insert", "clear", "confirm", "close"}
    BY <1>5 DEF Served, Insert, Clear, Confirm, Close, Database
  <1>6. CASE r.op \in {"complete", "activate", "create", "update"}
    BY <1>6 DEF Served, CompleteSetup, ToggleActive, CreateSetting, UpdateSetting, Database
  <1> QED
    BY <1>2, <1>3, <1>4, <1>5, <1>6, RequestTypes DEF TwoSteps

\* What leaves its slot as it is has read it open.
LEMMA KeepingReads ==
  ASSUME Typed, [Next]_vars, NEW b \in Books, Keeping(b)'
  PROVE  Keeping(b) \/ (~Frees(b) /\ db'.slots = db.slots /\ db'.booking = db.booking)
  <1>1. db \in Database
    BY DEF Typed
  <1>2. CASE db'.cancel[b] = "keeps"
    <2>1. ASSUME NEW j \in JobIds, ServedBy(j) PROVE db'.cancel = db.cancel
      <3>1. job[j].todo[1] \in Requests /\ job[j].todo[1].op \notin TwoSteps /\ db' = Served(job[j].todo[1])
        BY <2>1, WaitingRequest DEF ServedBy
      <3> QED
        BY <1>1, <3>1, ServedCancels
    <2>2. CASE Book
      <3>1. db'.cancel = db.cancel
        BY <1>1, <2>2, BookedSlot
      <3> QED
        BY <1>2, <3>1 DEF Keeping
    <2>3. CASE Booked /\ ~Book
      <3>1. PICK c \in Books :
              \/ /\ db'.slots = db.slots /\ db'.booking = db.booking
                 /\ \A a \in Books \ {c} : db'.cancel[a] = db.cancel[a]
                 /\ db'.cancel[c] = "keeps" => ~Frees(c)
              \/ db'.cancel[c] = None /\ \A a \in Books \ {c} : db'.cancel[a] = db.cancel[a]
        BY <1>1, <2>3, Cancelling
      <3>2. "keeps" # None
        BY HostConstantsOK
      <3> QED
        BY <1>2, <3>1, <3>2 DEF Keeping
    <2>4. db'.cancel = db.cancel => Keeping(b)
      BY <1>2 DEF Keeping
    <2> QED
      BY <2>1, <2>2, <2>3, <2>4, Steps DEF HalfServed, Starts, Idle
  <1>3. ASSUME NEW j \in JobIds, Waiting(j, "close")', job'[j].todo[1].what = [book |-> b, frees |-> FALSE]
        PROVE  Keeping(b) \/ (~Frees(b) /\ db'.slots = db.slots /\ db'.booking = db.booking)
    <2>1. PICK r : r = job'[j].todo[1] /\ r.op = "close" /\ job'[j] # None /\ job'[j].todo # <<>>
      BY <1>3 DEF Waiting
    <2>2. CASE job[j] # None /\ job[j].todo # <<>> /\ r = job[j].todo[1]
      BY <1>3, <2>1, <2>2 DEF Keeping, Waiting
    <2>3. CASE HalfServed(j) /\ r = Second(job[j].todo[1])
      <3>1. job[j].todo[1].op \in TwoSteps /\ db' = db
        BY <2>3 DEF HalfServed
      <3>2. PICK q : q = job[j].todo[1]
        OBVIOUS
      <3>3. q.op = "reopen" /\ r.what = [book |-> q.what, frees |-> Frees(q.what)]
        BY <2>1, <2>3, <3>1, <3>2 DEF Second, Request, TwoSteps
      <3>4. q.what = b /\ Frees(q.what) = FALSE
        BY <1>3, <2>1, <3>3
      <3> QED
        BY <3>1, <3>4
    <2>4. CASE Starts /\ job[j] = None
      <3>1. r.op # "close"
        BY <2>1, <2>4, FirstRequest DEF Plain, Request
      <3> QED
        BY <2>1, <3>1
    <2> QED
      BY <2>1, <2>2, <2>3, <2>4, NextRequests
  <1> QED
    BY <1>2, <1>3 DEF Keeping

\* After a step a slot is marked because it was, and whoever held it holds it;
\* or because somebody has just booked it.
HoldsOn(s) == s \in db.slots /\ \A b \in ActiveAt(db.booking, At(s)) : ~Keeping(b) => b \in ActiveAt(db'.booking, At(s))
JustBooked(s) == \E b \in Books : /\ db.booking[b] = None /\ b \in ActiveAt(db'.booking, At(s))
                                  /\ ~Keeping(b) /\ Frees(b) = FALSE /\ ~Keeping(b)'

LEMMA ClosedHolds ==
  ASSUME db \in Database, NEW b \in Books, db.booking[b] # None, NEW status \in BookStatuses, NEW frees \in BOOLEAN,
         ~frees => Keeping(b), NEW d, d = Close(b, status, frees), db'.slots = d.slots, db'.booking = d.booking,
         NEW s \in db'.slots, s.status = "BOOKED"
  PROVE  HoldsOn(s)
  <1>1. s \in db.slots /\ ~(frees /\ At(s) = At(db.booking[b]))
    BY ClosedSlots
  <1>2. \A c \in Books \ {b} : db'.booking[c] = db.booking[c]
    BY ClosedSlots
  <1>3. ASSUME NEW c \in ActiveAt(db.booking, At(s)), ~Keeping(c) PROVE c \in ActiveAt(db'.booking, At(s))
    <2>1. c # b
      BY <1>1, <1>3 DEF ActiveAt
    <2> QED
      BY <1>2, <1>3, <2>1 DEF ActiveAt
  <1> QED
    BY <1>1, <1>3 DEF HoldsOn

LEMMA ServedHolds ==
  ASSUME Typed, Stored, NEW j \in JobIds, ServedBy(j), NEW s \in db'.slots, s.status = "BOOKED"
  PROVE  HoldsOn(s)
  <1>1. PICK r \in Requests : r = job[j].todo[1] /\ Accepts(r) /\ r.op \notin TwoSteps /\ db' = Served(r)
    BY WaitingRequest DEF ServedBy
  <1>2. db \in Database /\ Sound(db) /\ Kept(db) /\ (r.op = "insert" => Fillers(r.what))
    BY <1>1 DEF Typed, Stored, Waiting, ServedBy
  <1>3. ASSUME db'.booking = db.booking, s \in db.slots PROVE HoldsOn(s)
    BY <1>3 DEF HoldsOn
  <1>4. CASE r.op = "insert"
    <2>1. r.what \in SlotLists /\ db' = Insert(r.what)
      BY <1>1, <1>4, RequestTypes DEF Served
    <2>2. s \in db.slots \/ s \in r.what
      BY <1>2, <1>4, <2>1, InsertStored
    <2>3. s \in db.slots
      BY <1>2, <1>4, <2>2 DEF Fillers
    <2>4. db'.booking = db.booking
      BY <1>2, <2>1 DEF Insert, Database
    <2> QED
      BY <1>3, <2>3, <2>4
  <1>5. CASE r.op = "clear"
    <2>1. db' = Clear(r.what)
      BY <1>1, <1>5 DEF Served
    <2>2. db'.booking = db.booking /\ s \in db.slots
      BY <1>2, <2>1 DEF Clear, Database
    <2> QED
      BY <1>3, <2>2
  <1>6. CASE r.op \in {"delete", "discard"}
    <2>1. db' = DeleteSetting(r.what)
      BY <1>1, <1>6 DEF Served
    <2>2. (db'.booking = db.booking /\ db'.slots = db.slots) \/ db'.slots = {}
      BY <1>2, <2>1 DEF DeleteSetting, Database
    <2> QED
      BY <1>3, <2>2
  <1>7. CASE r.op = "confirm"
    <2>1. r.what \in Books /\ db.booking[r.what] # None /\ db' = Confirm(r.what)
      BY <1>1, <1>7, RequestTypes DEF Accepts, Served
    <2>2. /\ s \in db.slots /\ db'.booking[r.what] # None /\ At(db'.booking[r.what]) = At(db.booking[r.what])
          /\ db'.booking[r.what].status = "CONFIRMED" /\ \A c \in Books \ {r.what} : db'.booking[c] = db.booking[c]
      BY <1>2, <2>1, ConfirmedBooking
    <2> QED
      BY <2>1, <2>2 DEF HoldsOn, ActiveAt, Active
  <1>8. CASE r.op = "close"
    <2>1. /\ r.what \in [book: Books, frees: BOOLEAN] /\ db.booking[r.what.book] # None
          /\ db' = Close(r.what.book, "REJECTED", r.what.frees)
      BY <1>1, <1>8, RequestTypes DEF Accepts, Served
    <2>2. ~r.what.frees => Keeping(r.what.book)
      <3>1. Waiting(j, "close")
        BY <1>1, <1>8 DEF Waiting, ServedBy
      <3>2. ~r.what.frees => r.what = [book |-> r.what.book, frees |-> FALSE]
        BY <2>1
      <3> QED
        BY <1>1, <3>1, <3>2 DEF Keeping
    <2> QED
      BY <1>2, <2>1, <2>2, ClosedHolds DEF BookStatuses
  <1>9. CASE r.op \in {"rule", "unrule", "except", "unexcept", "grant"}
    <2>1. db'.slots = db.slots /\ db'.booking = db.booking
      BY <1>1, <1>2, <1>9 DEF Served, CreateRule, DeleteRule, CreateOverride, DeleteOverride, Decide, Database
    <2> QED
      BY <1>3, <2>1
  <1>10. CASE r.op \in {"complete", "activate", "create", "update"}
    <2>1. db'.slots = db.slots /\ db'.booking = db.booking
      BY <1>1, <1>2, <1>10 DEF Served, CompleteSetup, ToggleActive, CreateSetting, UpdateSetting, Database
    <2> QED
      BY <1>3, <2>1
  <1> QED
    BY <1>1, <1>4, <1>5, <1>6, <1>7, <1>8, <1>9, <1>10, RequestTypes DEF TwoSteps

LEMMA BookHolds ==
  ASSUME Typed, Stored, Book, job' = job, NEW u \in db'.slots, u.status = "BOOKED"
  PROVE  HoldsOn(u) \/ JustBooked(u)
  <1>1. PICK s \in db.slots, t \in db'.slots, b \in Books :
          /\ s.status = "OPEN" /\ Unnamed(b)
          /\ db'.slots = (db.slots \ {s}) \cup {t}
          /\ At(t) = At(s)
          /\ db'.booking[b] # None /\ At(db'.booking[b]) = At(s) /\ db'.booking[b].status = "PENDING"
          /\ \A c \in Books \ {b} : db'.booking[c] = db.booking[c]
          /\ db'.cancel = db.cancel
    BY BookedSlot DEF Typed
  <1>2. db.booking[b] = None /\ db.cancel[b] = None /\ "keeps" # None
    BY <1>1, HostConstantsOK DEF Unnamed
  <1>3. ~Keeping(b) /\ ~Keeping(b)'
    <2>1. ASSUME NEW j \in JobIds, Waiting(j, "close"), job[j].todo[1].what = [book |-> b, frees |-> FALSE] PROVE FALSE
      <3>1. j \in Running /\ job[j].todo # <<>> /\ job[j].todo[1].op = "close" /\ Head(job[j].todo) = job[j].todo[1]
        BY <2>1, NextRequest DEF Waiting, Running, Typed, Functions
      <3>2. job[j].todo[1].what.book = b
        BY <2>1
      <3>3. Names(Head(job[j].todo), b)
        BY <3>1, <3>2 DEF Names
      <3> QED
        BY <1>1, <3>1, <3>3 DEF Unnamed
    <2>2. ~Keeping(b)
      BY <1>2, <2>1 DEF Keeping
    <2> QED
      BY <1>1, <2>2 DEF Keeping, Waiting
  <1>4. CASE u = t
    <2>1. b \in ActiveAt(db'.booking, At(u))
      BY <1>1, <1>4 DEF ActiveAt, Active
    <2>2. Frees(b) = FALSE
      BY <1>2 DEF Frees
    <2> QED
      BY <1>2, <1>3, <2>1, <2>2 DEF JustBooked
  <1>5. CASE u # t
    <2>1. u \in db.slots
      BY <1>1, <1>5
    <2>2. \A c \in ActiveAt(db.booking, At(u)) : c \in ActiveAt(db'.booking, At(u))
      BY <1>1, <1>2 DEF ActiveAt
    <2> QED
      BY <2>1, <2>2 DEF HoldsOn
  <1> QED
    BY <1>4, <1>5

LEMMA StepHolds ==
  ASSUME Typed, Stored, [Next]_vars, NEW s \in db'.slots, s.status = "BOOKED"
  PROVE  HoldsOn(s) \/ JustBooked(s)
  <1>1. CASE db'.slots = db.slots /\ db'.booking = db.booking
    BY <1>1 DEF HoldsOn
  <1>2. CASE Booked
    <2>1. CASE Book
      BY <1>2, <2>1, BookHolds DEF Booked
    <2>2. ASSUME NEW b \in Books, NEW d \in Database, db.booking[b] # None, db.cancel[b] \in {"frees", "keeps"},
                 d = Close(b, "CANCELLED", db.cancel[b] = "frees"), db'.slots = d.slots, db'.booking = d.booking
          PROVE  HoldsOn(s)
      <3>1. PICK frees \in BOOLEAN : frees = (db.cancel[b] = "frees")
        OBVIOUS
      <3>2. ~frees => Keeping(b)
        BY <2>2, <3>1 DEF Keeping
      <3>3. d = Close(b, "CANCELLED", frees) /\ "CANCELLED" \in BookStatuses /\ db \in Database
        BY <2>2, <3>1 DEF BookStatuses, Typed
      <3> QED
        BY <2>2, <3>2, <3>3, ClosedHolds
    <2> QED
      BY <1>1, <1>2, <2>1, <2>2, Cancelling DEF Typed
  <1> QED
    BY <1>1, <1>2, Steps, ServedHolds DEF HalfServed, Starts, Idle

LEMMA HeldKept ==
  ASSUME Typed, Stored, Held, [Next]_vars
  PROVE  Held'
  <1> SUFFICES ASSUME NEW s \in db'.slots, s.status = "BOOKED"
               PROVE  \E b \in ActiveAt(db'.booking, At(s)) : ~Keeping(b)'
    BY DEF Held, At
  <1>1. CASE HoldsOn(s)
    <2>1. PICK b \in ActiveAt(db.booking, At(s)) : ~Keeping(b)
      BY <1>1 DEF HoldsOn, Held
    <2>2. b \in ActiveAt(db'.booking, At(s)) /\ b \in Books
      BY <1>1, <2>1 DEF HoldsOn, ActiveAt
    <2>3. Frees(b)
      BY <1>1, <2>1 DEF HoldsOn, ActiveAt, Frees
    <2>4. ~Keeping(b)'
      BY <2>1, <2>2, <2>3, KeepingReads
    <2> QED
      BY <2>2, <2>4
  <1>2. CASE JustBooked(s)
    BY <1>2 DEF JustBooked
  <1> QED
    BY <1>1, <1>2, StepHolds

LEMMA SpecHeld ==
  Spec => []Held
  <1>1. Init => Held
    <2> SUFFICES ASSUME Init PROVE Held
      OBVIOUS
    <2>1. Backed(db) /\ \A b \in Books : db.cancel[b] = None
      BY BeginningsOK DEF Init
    <2>2. "keeps" # None /\ \A j \in JobIds : job[j] = None
      BY HostConstantsOK DEF Init
    <2>3. \A b \in Books : ~Keeping(b)
      BY <2>1, <2>2 DEF Keeping, Waiting
    <2> QED
      BY <2>1, <2>3 DEF Held, Backed, ActiveAt
  <1>2. Typed /\ Stored /\ Held /\ [Next]_vars => Held'
    BY HeldKept
  <1> QED
    BY <1>1, <1>2, SpecTyped, SpecStored, PTL DEF Spec

----------------------------------------------------------------------------
(* The schedule of a day on the dashboard: slots joined to their bookings. *)

\* What has been read, or will be, joins a booking to a slot that starts at k,
\* unless the bookings of k changed meanwhile, or are not read.
Joins(k) ==
  \/ aux.data.bookings = None /\ ActiveAt(db.booking, k) # {}
  \/ aux.data.bookings \notin {None, <<>>} /\ ActiveAt(aux.data.bookings[1], k) # {}
  \/ k \in moved

\* The slots that will be shown: those that were read, or those there are.
BeingShown == IF aux.data.slots = None THEN db.slots ELSE Read(aux.data.slots, {})

Joined ==
  page = "dashboard" =>
    /\ view.slots # None => aux = None /\ Orphans(view) \subseteq moved
    /\ aux # None => \A s \in BeingShown : s.status = "BOOKED" => Joins(At(s))

LEMMA ScheduleIsSome ==
  Schedule # None /\ Schedule \in ScheduleReading /\ Schedule.data.bookings = None /\ Schedule.data.slots = None
  <1>1. Schedule \in ScheduleReading
    BY DEF Schedule, ScheduleReading
  <1>2. Schedule.data.bookings = None /\ Schedule.data.slots = None
    BY DEF Schedule
  <1> QED
    BY <1>1, <1>2, NoneIsNoRecord

LEMMA Dashboard ==
  ASSUME Typed, page = "dashboard"
  PROVE  /\ view \in DashboardState /\ (view.slots # None => view.bookings \in BookingLists /\ view.slots \in SlotLists)
         /\ aux # None => /\ aux \in ScheduleReading /\ aux.kind = "schedule"
                          /\ aux.data.slots \in {None, <<>>} \cup [1..1 -> SlotLists]
                          /\ aux.data.bookings \in {None, <<>>} \cup [1..1 -> BookingLists]
         /\ (load # None => load.kind = "settings") /\ \A j \in JobIds : ~Mine(j)
  <1>1. DashboardOK(view, load, aux)
    BY DEF Typed, Shown
  <1>2. view \in DashboardState /\ (view.slots # None => view.bookings \in BookingLists /\ view.slots \in SlotLists)
    BY <1>1 DEF DashboardOK, DashboardState
  <1>3. aux # None => aux \in ScheduleReading /\ aux.kind = "schedule"
    BY AuxQuery
  <1>4. load # None => load.kind = "settings"
    BY <1>1 DEF DashboardOK, Reading
  <1>5. \A j \in JobIds : ~Mine(j)
    BY FunctionRuns DEF Functional
  <1> QED
    BY <1>2, <1>3, <1>4, <1>5, ScheduleRead

\* A row "BOOKED" is of a slot that is marked so and has no active booking.
LEMMA OrphanFacts ==
  ASSUME NEW v, NEW s \in v.slots, RowOf(v, s).state = "BOOKED"
  PROVE  s.status = "BOOKED" /\ ActiveAt(v.bookings, At(s)) = {}
  <1>1. PICK active : active = ActiveAt(v.bookings, At(s))
    OBVIOUS
  <1>2. CASE s.status # "BOOKED" \/ active = {}
    BY <1>1, <1>2 DEF RowOf
  <1>3. CASE s.status = "BOOKED" /\ active # {}
    <2>1. PICK b : b = CHOOSE x \in active : TRUE
      OBVIOUS
    <2>2. b \in active
      BY <1>3, <2>1
    <2>3. v.bookings[b].status \in Active
      BY <1>1, <2>2 DEF ActiveAt
    <2>4. RowOf(v, s) = [state |-> v.bookings[b].status, booking |-> b]
      BY <1>1, <1>3, <2>1 DEF RowOf
    <2>5. RowOf(v, s).state # "BOOKED"
      BY <2>3, <2>4 DEF Active
    <2> QED
      BY <2>5
  <1> QED
    BY <1>2, <1>3

\* The rows depend on the slots and the bookings that are shown.
LEMMA SameOrphans ==
  ASSUME NEW v, NEW w, w.slots = v.slots, w.bookings = v.bookings
  PROVE  Orphans(w) = Orphans(v)
  BY DEF Orphans, RowOf

LEMMA JoinedMounted ==
  ASSUME NEW p, NEW jobs, Mount(p, jobs)
  PROVE  Joined'
  <1> SUFFICES ASSUME page' = "dashboard" PROVE Joined'
    BY DEF Joined
  <1>1. aux' = None /\ view'.slots = None
    BY MountedList DEF DashboardView
  <1> QED
    BY <1>1 DEF Joined

\* A booking that was active at k is so, or k changed.
LEMMA ActiveAfter ==
  ASSUME NEW k, NEW b \in ActiveAt(db.booking, k)
  PROVE  b \in ActiveAt(db'.booking, k) \/ k \in Changed
  BY DEF ActiveAt, Changed

\* A booking that is active has a slot, marked or not.
LEMMA ActiveKept ==
  ASSUME Stored, NEW k, NEW b \in ActiveAt(db.booking, k)
  PROVE  \E s \in db.slots : At(s) = k
  BY DEF Stored, Kept, ActiveAt

\* A slot that is marked was so before, or its bookings changed.
SlotMarked == \A s \in db'.slots : s.status = "BOOKED" => s \in db.slots \/ At(s) \in Changed

LEMMA StepMarks ==
  ASSUME Typed, Stored, [Next]_vars
  PROVE  SlotMarked
  BY StepHolds DEF SlotMarked, HoldsOn, JustBooked, Changed, ActiveAt

\* The page shows the same and reads on, while others book and cancel.
LEMMA JoinedStays ==
  ASSUME Typed, Held', SlotMarked, Joined, page = "dashboard", page' = page, Watch, aux' = aux,
         view'.slots = view.slots, view'.bookings = view.bookings
  PROVE  Joined'
  <1>1. CASE aux = None
    <2>1. moved \subseteq moved'
      BY <1>1, ScheduleIsSome DEF Watch
    <2> QED
      BY <1>1, <2>1, SameOrphans DEF Joined
  <1>2. CASE aux = Schedule
    <2>1. ASSUME NEW s \in db'.slots, s.status = "BOOKED" PROVE Joins(At(s))'
      <3>1. ActiveAt(db'.booking, At(s)) # {}
        BY <2>1 DEF Held, At
      <3> QED
        BY <1>2, <3>1, ScheduleIsSome DEF Joins, At
    <2> QED
      BY <1>2, <2>1, ScheduleIsSome DEF Joined, BeingShown
  <1>3. CASE aux # None /\ aux # Schedule
    <2>1. moved \cup Changed \subseteq moved'
      BY <1>3 DEF Watch
    <2>2. view'.slots = None
      BY <1>3 DEF Joined
    <2>3. ASSUME NEW k, Joins(k) PROVE Joins(k)'
      <3>1. CASE aux.data.bookings = None /\ ActiveAt(db.booking, k) # {}
        <4>1. PICK b : b \in ActiveAt(db.booking, k)
          BY <3>1
        <4> QED
          BY <2>1, <3>1, <4>1, ActiveAfter DEF Joins
      <3>2. CASE k \in moved \/ (aux.data.bookings \notin {None, <<>>} /\ ActiveAt(aux.data.bookings[1], k) # {})
        BY <2>1, <3>2 DEF Joins
      <3> QED
        BY <2>3, <3>1, <3>2 DEF Joins
    <2>4. CASE aux.data.slots # None
      BY <1>3, <2>2, <2>3, <2>4 DEF Joined, BeingShown, Read, At
    <2>5. CASE aux.data.slots = None
      <3>1. ASSUME NEW s \in db'.slots, s.status = "BOOKED" PROVE Joins(At(s))'
        <4>1. PICK k : k = At(s)
          OBVIOUS
        <4>3. CASE k \in Changed
          BY <2>1, <4>1, <4>3 DEF Joins, At
        <4>4. CASE s \in db.slots
          <5>2. Joins(k)
            BY <1>3, <2>5, <3>1, <4>1, <4>4 DEF Joined, BeingShown
          <5> QED
            BY <2>3, <4>1, <5>2
        <4> QED
          BY <3>1, <4>1, <4>3, <4>4 DEF SlotMarked
      <3> QED
        BY <1>3, <2>2, <2>5, <3>1 DEF Joined, BeingShown
    <2> QED
      BY <2>4, <2>5
  <1> QED
    BY <1>1, <1>2, <1>3

\* The slots or the bookings are read, or are not.
LEMMA JoinedReads ==
  ASSUME Typed, Stored, Joined, ServeSchedule, Watch
  PROVE  Joined'
  <1>1. aux # None /\ aux.kind = "schedule" /\ UNCHANGED <<db, page, view>>
    BY DEF ServeSchedule, NotLoading
  <1>2. /\ page = "dashboard" /\ aux \in ScheduleReading
        /\ aux.data.slots \in {None, <<>>} \cup [1..1 -> SlotLists]
        /\ aux.data.bookings \in {None, <<>>} \cup [1..1 -> BookingLists]
    BY <1>1, ScheduleRead
  <1>3. view.slots = None
    BY <1>1, <1>2 DEF Joined
  <1>4. <<>> # None /\ <<db.slots>> \notin {None, <<>>} /\ <<db.booking>> \notin {None, <<>>}
    <2>1. db.slots \in SlotLists /\ db.booking \in BookingLists
      BY DatabaseTypes DEF Typed, BookingLists
    <2>2. <<db.slots>> \in [1..1 -> SlotLists] /\ <<db.booking>> \in [1..1 -> BookingLists]
      BY <2>1
    <2> QED
      BY <2>2, NoneIsNoRecord
  <1>5. CASE aux.data.slots = None /\ \E got \in {<<db.slots>>, <<>>} : aux' = [aux EXCEPT !.data.slots = got]
    <2>1. PICK got \in {<<db.slots>>, <<>>} : aux' = [aux EXCEPT !.data.slots = got]
      BY <1>5
    <2>2. aux'.data.slots = got /\ aux'.data.bookings = aux.data.bookings
      BY <1>2, <2>1 DEF ScheduleReading
    <2>3. moved \subseteq moved' \/ aux' = Schedule
      BY <1>1, <1>2 DEF Watch
    <2>4. aux' # Schedule
      BY <1>4, <2>2, ScheduleIsSome
    <2>5. ASSUME NEW s \in Read(got, {}), s.status = "BOOKED" PROVE Joins(At(s))'
      <3>1. s \in db.slots
        BY <2>5 DEF Read
      <3>2. PICK k : k = At(s)
        OBVIOUS
      <3>3. Joins(k)
        BY <1>1, <1>2, <1>5, <2>5, <3>1, <3>2 DEF Joined, BeingShown
      <3> QED
        BY <1>1, <2>2, <2>3, <2>4, <3>2, <3>3 DEF Joins, At
    <2> QED
      BY <1>1, <1>3, <1>4, <2>2, <2>5 DEF Joined, BeingShown
  <1>6. CASE aux.data.bookings = None /\ aux' = [aux EXCEPT !.data.bookings = <<db.booking>>]
    <2>1. PICK got : got = <<db.booking>>
      OBVIOUS
    <2>2. aux'.data.bookings = got /\ aux'.data.slots = aux.data.slots
      BY <1>2, <1>6, <2>1 DEF ScheduleReading
    <2>3. moved \subseteq moved'
      BY <1>1, <1>2, <1>4, <2>1, <2>2, ScheduleIsSome DEF Watch
    <2>4. ASSUME NEW k, Joins(k) PROVE Joins(k)'
      BY <1>4, <1>6, <2>1, <2>2, <2>3, <2>4 DEF Joins
    <2> QED
      BY <1>1, <1>2, <1>3, <2>2, <2>4 DEF Joined, BeingShown, At
  <1>7. CASE aux.data.bookings = None /\ aux' = [aux EXCEPT !.data.bookings = <<>>]
    <2>1. PICK got : got = <<>>
      OBVIOUS
    <2>2. aux'.data.bookings = <<>> /\ aux'.data.slots = aux.data.slots
      BY <1>2, <1>7, <2>1 DEF ScheduleReading
    <2>3. aux' # None /\ aux' # Schedule
      <3>1. aux' \in ScheduleReading
        BY <1>2, <1>7, <2>1 DEF ScheduleReading
      <3> QED
        BY <1>4, <2>2, <3>1, NoneIsNoRecord, ScheduleIsSome
    <2>4. moved \subseteq moved' /\ {At(s) : s \in db.slots} \subseteq moved'
      BY <1>1, <1>2, <2>2, <2>3 DEF Watch
    <2>5. ASSUME NEW k, Joins(k) PROVE Joins(k)'
      <3>1. CASE k \in moved
        BY <2>4, <3>1 DEF Joins
      <3>2. CASE ActiveAt(db.booking, k) # {}
        <4>1. PICK s \in db.slots : At(s) = k
          BY <3>2, ActiveKept
        <4> QED
          BY <2>4, <4>1 DEF Joins
      <3> QED
        BY <1>7, <2>5, <3>1, <3>2 DEF Joins
    <2> QED
      BY <1>1, <1>2, <1>3, <2>2, <2>5 DEF Joined, BeingShown, At
  <1> QED
    BY <1>5, <1>6, <1>7 DEF ServeSchedule

\* Both have been read, or have failed: they are shown.
LEMMA JoinedShown ==
  ASSUME Typed, Joined, ScheduleArrives, Watch
  PROVE  Joined'
  <1>1. PICK slots, bookings, error :
          /\ slots = Read(aux.data.slots, {}) /\ bookings = Read(aux.data.bookings, [b \in Books |-> None])
          /\ error = (aux.data.slots = <<>>)
    OBVIOUS
  <1>2. /\ aux # None /\ aux.kind = "schedule" /\ aux.data.slots # None /\ aux.data.bookings # None /\ aux' = None
        /\ view' = [view EXCEPT !.slots = slots, !.error = error, !.bookings = bookings]
        /\ UNCHANGED <<db, page>>
    BY <1>1 DEF ScheduleArrives, NotLoading
  <1>3. page = "dashboard" /\ view \in DashboardState
    BY <1>2, ScheduleRead DEF DashboardOK
  <1>4. view'.slots = slots /\ view'.bookings = bookings
    BY <1>2, <1>3 DEF DashboardState
  <1>5. moved \subseteq moved'
    BY <1>2, <1>3, ScheduleIsSome DEF Watch
  <1>6. ASSUME NEW s \in slots, RowOf(view', s).state = "BOOKED" PROVE At(s) \in moved
    <2>1. s.status = "BOOKED" /\ ActiveAt(bookings, At(s)) = {}
      BY <1>4, <1>6, OrphanFacts
    <2>2. Joins(At(s))
      BY <1>1, <1>2, <1>3, <2>1 DEF Joined, BeingShown
    <2>3. aux.data.bookings # <<>> => bookings = aux.data.bookings[1]
      BY <1>1 DEF Read
    <2> QED
      BY <1>2, <2>1, <2>2, <2>3 DEF Joins
  <1>7. Orphans(view') \subseteq moved'
    BY <1>4, <1>5, <1>6 DEF Orphans
  <1> QED
    BY <1>2, <1>7 DEF Joined

LEMMA JoinedEffects ==
  ASSUME Typed, Stored, Held', SlotMarked, Joined, page = "dashboard", Effects, Watch
  PROVE  Joined'
  <1>1. view \in DashboardState /\ (aux # None => aux.kind = "schedule") /\ (load # None => load.kind = "settings")
    BY Dashboard
  <1>2. ~ServeAux /\ ~AuxFails /\ ~AuxArrives
    BY <1>1 DEF ServeAux, AuxFails, AuxArrives
  <1>3. CASE ServeLoad
    BY <1>3, JoinedStays DEF ServeLoad
  <1>4. CASE LoadFails
    <2>1. view' = [view EXCEPT !.error = TRUE] /\ UNCHANGED <<page, aux>>
      BY <1>1, <1>4 DEF LoadFails, ScheduleKinds, PageFails
    <2>2. view'.slots = view.slots /\ view'.bookings = view.bookings
      BY <1>1, <2>1 DEF DashboardState
    <2> QED
      BY <2>1, <2>2, JoinedStays
  <1>5. CASE LoadArrives
    <2>1. PICK items : RowArrives(items)
      BY <1>1, <1>5 DEF LoadArrives
    <2>2. PICK row, w : row = items[view.id] /\ w = WithRow(view, row)
      OBVIOUS
    <2>3. view' = [w EXCEPT !.key = IF row = None THEN @ ELSE "slug"] /\ aux' = (IF row = None THEN None ELSE Schedule)
          /\ UNCHANGED <<page, job>> /\ db' = db
      BY <1>5, <2>1, <2>2 DEF RowArrives, LoadArrives, NotLoading
    <2>4. w.slots = None /\ "slots" \in DOMAIN w /\ w \in [DOMAIN w -> {w[x] : x \in DOMAIN w}]
      BY <1>1, <2>2 DEF WithRow, DashboardState
    <2>5. view'.slots = None
      BY <2>3, <2>4
    <2>6. ASSUME aux' = Schedule, NEW s \in db'.slots, s.status = "BOOKED" PROVE Joins(At(s))'
      <3>1. ActiveAt(db'.booking, At(s)) # {}
        BY <2>6 DEF Held, At
      <3> QED
        BY <2>6, <3>1, ScheduleIsSome DEF Joins, At
    <2> QED
      BY <2>3, <2>5, <2>6, ScheduleIsSome DEF Joined, BeingShown
  <1> QED
    BY <1>2, <1>3, <1>4, <1>5, JoinedReads, JoinedShown DEF Effects

\* No function is the dashboard's: what others end changes no part of it.
LEMMA JoinedRuns ==
  ASSUME Typed, Held', SlotMarked, Joined, page = "dashboard", page' = page, Function, Watch
  PROVE  Joined'
  <1>1. \A j \in JobIds : job[j] # None => ~job[j].mine
    BY Dashboard DEF Mine
  <1>2. ASSUME NEW j \in JobIds, NEW v, job[j] # None, MyView(j, v) PROVE view' = view
    BY <1>1, <1>2 DEF MyView
  <1>3. ASSUME NEW j \in JobIds, Serve(j) PROVE (view' = view /\ aux' = aux) \/ \E p, jobs : Mount(p, jobs)
    <2>1. PICK r, rest : r = Head(job[j].todo) /\ rest = Tail(job[j].todo)
      OBVIOUS
    <2>2. job[j] # None /\ ~job[j].mine
      BY <1>1, <1>3 DEF Serve
    <2>3. ASSUME NEW own, WizardAfter(PageAfter(view, r), r, j, own) PROVE view' = view /\ aux' = aux
      BY <1>2, <2>2, <2>3 DEF WizardAfter
    <2> QED
      BY <1>2, <1>3, <2>1, <2>2, <2>3 DEF Serve
  <1>4. ASSUME NEW j \in JobIds, Refuse(j) \/ Break(j) \/ ServeThen(j) \/ ThenArrives(j) PROVE view' = view /\ aux' = aux
    BY <1>2, <1>4 DEF Refuse, Break, ServeThen, ThenArrives
  <1> QED
    BY <1>3, <1>4, JoinedMounted, JoinedStays DEF Function

LEMMA JoinedClicks ==
  ASSUME Typed, Joined, page = "dashboard", Clicks
  PROVE  Joined'
  <1>1. CASE Open
    BY <1>1, JoinedMounted DEF Open
  <1>2. ~ScheduleActions
    BY DEF ScheduleActions, RuleActions, RulesShown, SlotActions, StartSlots, SlotsShown, ChooseWizardRange, ChooseRange,
       OverrideActions, SubmitOverride, RemoveOverride, ChooseException, AddOverride, RemoveOverrideWizard, WizardAt,
       WizardActions, TurnStep, Activate, TurnMonth
  <1>3. CASE PageActions
    <2>1. PICK x : Show([view EXCEPT !.day = x]) \/ Show([view EXCEPT !.modal = x])
      BY <1>3 DEF PageActions, ChooseStatus, ChooseListed, Turn, DeletePage, Create, Type, Save, ActivatePage, Discard, Editing,
         ChooseDay, OpenBookingModal, CloseBookingModal, ShowsSchedule, FilterBookings, DecideBooking, RejectWithoutReason,
         DecideUser, Retry
    <2>2. view' \in {[view EXCEPT !.day = x], [view EXCEPT !.modal = x]} /\ UNCHANGED <<db, page, aux, moved>>
      BY <2>1 DEF Show
    <2>3. view'.slots = view.slots /\ view'.bookings = view.bookings
      BY <2>2, Dashboard DEF DashboardState
    <2> QED
      BY <2>2, <2>3, SameOrphans DEF Joined, BeingShown, Joins
  <1> QED
    BY <1>1, <1>2, <1>3 DEF Clicks

LEMMA JoinedKept ==
  ASSUME Typed, Stored, Held', Joined, [Next]_vars
  PROVE  Joined'
  <1>0. SlotMarked
    BY StepMarks
  <1>1. CASE page' # page
    BY <1>1, PageTurns, JoinedMounted
  <1>2. CASE page' = page /\ page # "dashboard"
    BY <1>2 DEF Joined
  <1>3. CASE page = "dashboard" /\ UNCHANGED vars
    BY <1>3, SameOrphans DEF vars, Joined, BeingShown, Joins
  <1>4. CASE page' = page /\ page = "dashboard" /\ Others /\ Watch
    BY <1>0, <1>4, JoinedStays DEF Others
  <1>5. CASE page' = page /\ page = "dashboard" /\ (Clicks \/ ((Function \/ Effects) /\ Watch))
    BY <1>0, <1>5, JoinedClicks, JoinedEffects, JoinedRuns
  <1> QED
    BY <1>1, <1>2, <1>3, <1>4, <1>5 DEF Next

\* A row "BOOKED" without a booking says that bookings of its slot changed
\* while the schedule was read in two parts, or that they were not read.
THEOREM OrphansMoved ==
  Spec => []OrphanRowMeansMoved
  <1>1. Init => Joined
    BY DEF Init, Joined
  <1>2. Typed /\ Stored /\ Held' /\ Joined /\ [Next]_vars => Joined'
    BY JoinedKept
  <1>3. Joined => OrphanRowMeansMoved
    BY DEF Joined, OrphanRowMeansMoved, ShowsSchedule
  <1> QED
    BY <1>1, <1>2, <1>3, SpecTyped, SpecStored, SpecHeld, PTL DEF Spec
=============================================================================
