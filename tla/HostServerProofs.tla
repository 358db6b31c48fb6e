-------------------------- MODULE HostServerProofs --------------------------
(***************************************************************************)
(* What the host's functions, the bookers and the admins keep up together  *)
(* in the database: slots and their bookings, decisions on users, pages    *)
(* whose setup is complete.                                                *)
(***************************************************************************)
EXTENDS HostConsoleProofs

----------------------------------------------------------------------------
(* The steps, by what they do to the database and to the functions. *)

\* The next request of function j is the one that it was, if it has any.
Same(j) ==
  job'[j] # None /\ job'[j].todo # <<>> =>
    /\ job[j] # None /\ job[j].todo # <<>>
    /\ job'[j].todo = job[j].todo \/ job'[j].todo = <<job[j].todo[1]>>

\* A function begins with the requests of todo.
Begins(todo) ==
  \E i \in JobIds : /\ job[i] = None /\ job'[i].todo = todo
                    /\ \A j \in JobIds \ {i} : job'[j] = job[j]

\* The next request of function j is served.
ServedBy(j) ==
  /\ job[j] # None /\ job[j].todo # <<>> /\ job[j].todo[1].op \notin TwoSteps /\ Accepts(job[j].todo[1])
  /\ db' = Served(job[j].todo[1]) /\ doubt' = doubt \cup Doubts(job[j].todo[1])
  /\ job'[j] # None /\ job'[j].todo # <<>> => job'[j].todo = Tail(job[j].todo)
  /\ \A i \in JobIds \ {j} : Same(i)

\* The first half of the next request of function j is served.
HalfServed(j) ==
  /\ job[j] # None /\ job[j].todo # <<>> /\ job[j].todo[1].op \in TwoSteps /\ Accepts(job[j].todo[1])
  /\ job'[j].todo = <<Second(job[j].todo[1])>> \o Tail(job[j].todo)
  /\ \A i \in JobIds \ {j} : job'[i] = job[i]
  /\ UNCHANGED <<db, page, view, load, aux, doubt>>

\* What the buttons for rules ask for.
Series(todo) ==
  \/ \E d \in Drafts : Acceptable(List, d) /\ todo = PostRules(d.days, d.kind, d)
  \/ \E r \in List : todo = DropRules({r})
  \/ todo = DropRules(List)
  \/ todo = DropRules({r \in List : r.kind = "OPEN" /\ r.day \in WorkDays}) \o PostRules(WorkDays, "OPEN", Hours)
  \/ todo = DropRules({r \in List : r.day \in WorkDays})
              \o PostRules(WorkDays, "OPEN", Hours) \o PostRules(WorkDays, "BREAK", Lunch)

Plain == {"generate", "clear", "except", "unexcept", "delete", "create", "update", "activate", "approve", "reject"}

\* A click starts a function.
Starts ==
  /\ db' = db
  /\ \/ \E r : r.op \in Plain /\ Begins(<<r>>) /\ doubt' = doubt
     \/ Begins(<<Request("complete", This)>>) /\ doubt' = doubt
     \/ page = "edit" /\ view.form # None /\ ~view.form.setup /\ Begins(<<Request("discard", view.id)>>) /\ doubt' = doubt
     \/ \E u \in Users, verdict \in {"approved", "rejected"} :
          /\ Begins(<<Request("decide", [user |-> u, verdict |-> verdict])>>)
          /\ doubt' = IF \E j \in Running : Deciding(j, u) THEN doubt \cup {"crossed"} ELSE doubt
     \/ \E todo : RulesShown /\ Series(todo) /\ Begins(todo) /\ doubt' = doubt

\* Nothing is asked for, and nothing is done.
Idle == db' = db /\ doubt' \in {doubt, doubt \cup {"dismissed"}} /\ \A j \in JobIds : Same(j)

LEMMA IdleJobs ==
  ASSUME UNCHANGED <<db, doubt, job>>
  PROVE  Idle
  BY DEF Idle, Same

LEMMA IdleSpawn ==
  ASSUME UNCHANGED <<db, doubt>>, NEW f, f.todo = <<>>, DOMAIN job = JobIds, Spawn(f)
  PROVE  Idle
  BY DEF Idle, Same, Spawn

LEMMA StartBegins ==
  ASSUME Functions, NEW todo, NEW then, NEW mark, NEW v, Start(todo, then, mark, v)
  PROVE  db' = db /\ page' = page /\ Begins(todo)
  <1>1. PICK i \in JobIds : job[i] = None /\ job' = [job EXCEPT ![i] = Job(todo, then, mark)]
    BY DEF Start, Spawn
  <1>2. DOMAIN job = JobIds
    BY DEF Functions
  <1>3. job'[i] = Job(todo, then, mark) /\ Job(todo, then, mark).todo = todo
    BY <1>1, <1>2 DEF Job
  <1> QED
    BY <1>1, <1>2, <1>3 DEF Start, Begins

\* Clicks.
LEMMA RuleClicks ==
  ASSUME Typed, RuleActions
  PROVE  Starts \/ Idle
  <1>1. DOMAIN job = JobIds /\ Functions /\ RulesShown
    BY DEF Typed, Functions, RuleActions
  <1>2. ASSUME NEW v, Show(v) PROVE Idle
    BY <1>2, IdleJobs DEF Show
  <1>3. ASSUME NEW todo, Series(todo), StartRules(todo) PROVE Starts
    <2>1. db' = db /\ Begins(todo) /\ doubt' = doubt
      BY <1>1, <1>3, StartBegins DEF StartRules
    <2> QED
      BY <1>1, <1>3, <2>1 DEF Starts
  <1>4. CASE AddRules
    BY <1>2, <1>3, <1>4 DEF AddRules, Series
  <1>5. CASE RemoveRule
    BY <1>3, <1>5 DEF RemoveRule, Series
  <1>6. CASE ResetAll
    <2>1. ASSUME UNCHANGED <<db, job>>, doubt' \in {doubt, doubt \cup {"dismissed"}} PROVE Idle
      BY <2>1 DEF Idle, Same
    <2> QED
      BY <1>3, <1>6, <2>1 DEF ResetAll, Series
  <1>7. CASE TemplateBasic
    BY <1>3, <1>7 DEF TemplateBasic, Series
  <1>8. CASE TemplateLunch
    BY <1>3, <1>8 DEF TemplateLunch, Series
  <1> QED
    BY <1>4, <1>5, <1>6, <1>7, <1>8 DEF RuleActions

LEMMA PlainStart ==
  ASSUME Typed, NEW op \in Plain, NEW what, NEW then, NEW mark, NEW v, Start(<<Request(op, what)>>, then, mark, v), UNCHANGED doubt
  PROVE  Starts
  <1>1. db' = db /\ Begins(<<Request(op, what)>>)
    BY StartBegins DEF Typed
  <1>2. Request(op, what).op \in Plain
    BY DEF Request
  <1> QED
    BY <1>1, <1>2 DEF Starts

LEMMA ScheduleClicks ==
  ASSUME Typed, ScheduleActions
  PROVE  Starts \/ Idle
  <1>1. DOMAIN job = JobIds
    BY DEF Typed, Functions
  <1>2. ASSUME NEW v, Show(v) PROVE Idle
    BY <1>2, IdleJobs DEF Show
  <1>3. ASSUME NEW v, NEW effect, Rerun(v, effect) PROVE Idle
    BY <1>3, IdleJobs DEF Rerun
  <1>4. \A q, mark : Job(<<>>, q, mark).todo = <<>>
    BY DEF Job
  <1>5. CASE SlotActions
    <2>1. ASSUME NEW op \in {"generate", "clear"}, StartSlots(op) PROVE Starts
      BY <2>1, PlainStart DEF StartSlots, Plain
    <2>2. CASE ChooseWizardRange
      BY <1>1, <1>4, <2>2, IdleSpawn DEF ChooseWizardRange, Recount
    <2>3. CASE ChooseRange
      BY <1>3, <2>3 DEF ChooseRange
    <2> QED
      BY <1>5, <2>1, <2>2, <2>3 DEF SlotActions
  <1>6. CASE OverrideActions
    <2>1. ASSUME NEW op \in {"except", "unexcept"}, NEW what, NEW mark, StartOverrides(<<Request(op, what)>>, mark) PROVE Starts
      BY <2>1, PlainStart DEF StartOverrides, Plain
    <2>2. CASE SubmitOverride
      BY <2>1, <2>2 DEF SubmitOverride
    <2>3. CASE RemoveOverride
      BY <2>1, <2>3 DEF RemoveOverride
    <2>4. CASE ChooseException
      BY <2>4, IdleJobs DEF ChooseException
    <2>5. CASE AddOverride
      BY <1>2, <2>1, <2>5 DEF AddOverride
    <2>6. CASE RemoveOverrideWizard
      BY <2>1, <2>6 DEF RemoveOverrideWizard
    <2> QED
      BY <1>6, <2>2, <2>3, <2>4, <2>5, <2>6 DEF OverrideActions
  <1>7. CASE WizardActions
    <2>1. CASE TurnStep
      <3>1. UNCHANGED <<db, doubt>> /\ \E n, v : EnterStep(n, v)
        BY <2>1 DEF TurnStep
      <3>2. job' = job \/ \E q : Spawn(Job(<<>>, q, None))
        BY <3>1 DEF EnterStep, Recount
      <3> QED
        BY <1>1, <1>4, <3>1, <3>2, IdleJobs, IdleSpawn
    <2>2. CASE Activate
      <3>1. db' = db /\ Begins(<<Request("complete", This)>>) /\ doubt' = doubt
        BY <2>2, StartBegins DEF Activate, Typed
      <3> QED
        BY <3>1 DEF Starts
    <2>3. CASE TurnMonth
      BY <1>3, <2>3 DEF TurnMonth
    <2> QED
      BY <1>7, <2>1, <2>2, <2>3 DEF WizardActions
  <1> QED
    BY <1>5, <1>6, <1>7, RuleClicks DEF ScheduleActions

LEMMA PageClicks ==
  ASSUME Typed, PageActions
  PROVE  Starts \/ Idle
  <1>1. DOMAIN job = JobIds
    BY DEF Typed, Functions
  <1>2. ASSUME NEW v, Show(v) PROVE Idle
    BY <1>2, IdleJobs DEF Show
  <1>3. CASE ChooseStatus \/ ChooseListed \/ Turn
    BY <1>2, <1>3 DEF ChooseStatus, ChooseListed, Turn
  <1>4. CASE DeletePage
    BY <1>4, PlainStart DEF DeletePage, Plain
  <1>5. CASE Create
    BY <1>5, PlainStart DEF Create, Plain
  <1>6. CASE Type
    BY <1>2, <1>6 DEF Type
  <1>7. CASE Save
    BY <1>7, PlainStart DEF Save, Plain
  <1>8. CASE ActivatePage
    BY <1>8, PlainStart DEF ActivatePage, Plain
  <1>9. CASE Discard
    <2>1. db' = db /\ Begins(<<Request("discard", view.id)>>) /\ doubt' = doubt
      BY <1>9, StartBegins DEF Discard, Typed
    <2> QED
      BY <1>9, <2>1 DEF Starts, Discard, Editing
  <1>10. CASE ChooseDay \/ OpenBookingModal \/ CloseBookingModal \/ RejectWithoutReason
    BY <1>2, <1>10 DEF ChooseDay, OpenBookingModal, CloseBookingModal, RejectWithoutReason
  <1>11. CASE FilterBookings
    BY <1>11, IdleJobs DEF FilterBookings, Rerun
  <1>12. CASE DecideBooking
    BY <1>12, PlainStart DEF DecideBooking, Plain
  <1>13. CASE DecideUser
    <2>1. PICK u \in view.items \ {view.busy}, verdict \in {"approved", "rejected"} :
            /\ Start(<<Request("decide", [user |-> u, verdict |-> verdict])>>, Query("pending", None), u,
                     [view EXCEPT !.busy = u, !.error = FALSE])
            /\ doubt' = IF \E j \in Running : Deciding(j, u) THEN doubt \cup {"crossed"} ELSE doubt
      BY <1>13 DEF DecideUser
    <2>2. view.items \in SUBSET Users
      BY <1>13 DEF DecideUser, Typed, Shown, AdminOK, AdminState
    <2>3. db' = db /\ Begins(<<Request("decide", [user |-> u, verdict |-> verdict])>>)
      BY <2>1, StartBegins DEF Typed
    <2> QED
      BY <2>1, <2>2, <2>3 DEF Starts
  <1>14. CASE Retry
    <2>1. Pending.todo = <<>>
      BY DEF Pending, Job
    <2> QED
      BY <1>1, <1>14, <2>1, IdleSpawn DEF Retry
  <1> QED
    BY <1>3, <1>4, <1>5, <1>6, <1>7, <1>8, <1>9, <1>10, <1>11, <1>12, <1>13, <1>14 DEF PageActions

\* Functions go on without their page.
LEMMA MountSame ==
  ASSUME Typed, NEW p, NEW jobs, DOMAIN jobs = JobIds, \A j \in JobIds : jobs[j] # None => jobs[j] = job[j], Mount(p, jobs)
  PROVE  \A j \in JobIds : \/ job'[j] = None \/ job'[j].todo = <<>>
                           \/ jobs[j] # None /\ job'[j].todo = jobs[j].todo
  <1> DEFINE left == Orphaned(jobs)
  <1>1. DOMAIN left = JobIds /\ \A j \in JobIds : left[j] = IF jobs[j] = None THEN None ELSE [jobs[j] EXCEPT !.mine = FALSE]
    BY DEF Orphaned
  <1>2. Pending.todo = <<>>
    BY DEF Pending, Job
  <1>3. job' = left \/ \E i \in JobIds : job' = [left EXCEPT ![i] = Pending]
    BY DEF Mount
  <1>4. ASSUME NEW j \in JobIds PROVE left[j] = None \/ (jobs[j] # None /\ left[j].todo = jobs[j].todo)
    BY <1>1, OrphanFits DEF Typed, Functions
  <1> HIDE DEF left
  <1>5. CASE job' = left
    BY <1>4, <1>5
  <1>6. ASSUME NEW i \in JobIds, job' = [left EXCEPT ![i] = Pending], NEW j \in JobIds
        PROVE  \/ job'[j] = None \/ job'[j].todo = <<>> \/ (jobs[j] # None /\ job'[j].todo = jobs[j].todo)
    BY <1>1, <1>2, <1>4, <1>6
  <1> QED
    BY <1>3, <1>5, <1>6

LEMMA MountIdle ==
  ASSUME Typed, NEW p, Mount(p, job), UNCHANGED <<db, doubt>>
  PROVE  Idle
  <1>1. DOMAIN job = JobIds
    BY DEF Typed, Functions
  <1> QED
    BY <1>1, MountSame DEF Idle, Same

LEMMA ClickSteps ==
  ASSUME Typed, Clicks
  PROVE  Starts \/ Idle
  BY ScheduleClicks, PageClicks, MountIdle DEF Clicks, Open

\* Effects.
LEMMA EffectSteps ==
  ASSUME Typed, Effects
  PROVE  Idle
  <1>1. UNCHANGED <<db, doubt>>
    BY DEF Effects, NotLoading, ServeLoad, LoadFails, LoadArrives, ServeAux, AuxFails, AuxArrives, ServeSchedule,
           ScheduleArrives
  <1>2. ASSUME ~LoadArrives PROVE job' = job
    BY <1>2 DEF Effects, ServeLoad, LoadFails, ServeAux, AuxFails, AuxArrives, ServeSchedule, ScheduleArrives
  <1>3. CASE LoadArrives
    <2>1. job' = job \/ (\E p : Mount(p, job)) \/ \E n, v : EnterStep(n, v)
      <3>1. ASSUME NEW data, WizardArrives(data) PROVE (\E p : Mount(p, job)) \/ \E n, v : EnterStep(n, v)
        BY <3>1 DEF WizardArrives
      <3>2. ASSUME NEW items, HomeArrives(items) PROVE job' = job \/ \E p : Mount(p, job)
        BY <3>2 DEF HomeArrives
      <3>3. ASSUME NEW items, RowArrives(items) PROVE job' = job
        BY <3>3 DEF RowArrives
      <3> QED
        BY <1>3, <3>1, <3>2, <3>3 DEF LoadArrives
    <2>2. ASSUME NEW n, NEW v, EnterStep(n, v) PROVE job' = job \/ \E q : Spawn(Job(<<>>, q, None))
      BY <2>2 DEF EnterStep, Recount
    <2>3. \A q : Job(<<>>, q, None).todo = <<>>
      BY DEF Job
    <2>4. DOMAIN job = JobIds
      BY DEF Typed, Functions
    <2> QED
      BY <1>1, <2>1, <2>2, <2>3, <2>4, IdleJobs, IdleSpawn, MountIdle
  <1> QED
    BY <1>1, <1>2, <1>3, IdleJobs

\* Functions.
LEMMA ServeSteps ==
  ASSUME Typed, NEW j \in JobIds, Serve(j)
  PROVE  ServedBy(j) \/ HalfServed(j)
  <1>1. PICK r, rest : r = Head(job[j].todo) /\ rest = Tail(job[j].todo)
    OBVIOUS
  <1>2. job[j] # None /\ job[j].todo # <<>> /\ Accepts(r) /\ Fits(job[j], page, view) /\ DOMAIN job = JobIds
    BY <1>1 DEF Serve, Typed, Functions
  <1>3. r = job[j].todo[1] /\ rest \in Seq(Requests)
    BY <1>1, <1>2, NextRequest
  <1>4. ASSUME NEW todo \in Seq(Requests) PROVE [job[j] EXCEPT !.todo = todo].todo = todo
    BY <1>2 DEF Fits, JobOK, Jobs
  <1>5. CASE r.op \in TwoSteps
    <2>1. job' = [job EXCEPT ![j] = [job[j] EXCEPT !.todo = <<Second(r)>> \o rest]] /\ UNCHANGED <<db, page, view, load, aux, doubt>>
      BY <1>1, <1>5 DEF Serve
    <2>2. <<Second(r)>> \o rest \in Seq(Requests)
      <3>1. r \in Requests
        BY <1>1, <1>2, NextRequest
      <3>2. Second(r) \in Requests
        BY <1>2, <1>5, <3>1, SecondTypes DEF Typed
      <3> QED
        BY <1>3, <3>2
    <2>3. job'[j].todo = <<Second(r)>> \o rest /\ \A i \in JobIds \ {j} : job'[i] = job[i]
      BY <1>2, <1>4, <2>1, <2>2
    <2> QED
      BY <1>1, <1>2, <1>3, <1>5, <2>1, <2>3 DEF HalfServed
  <1>6. CASE r.op \notin TwoSteps
    <2>1. db' = Served(r) /\ doubt' = doubt \cup Doubts(r)
      BY <1>1, <1>6 DEF Serve
    <2>2. /\ job'[j] # None /\ job'[j].todo # <<>> => job'[j].todo = rest
          /\ \A i \in JobIds \ {j} : Same(i)
      <3>1. CASE job' = [job EXCEPT ![j] = [job[j] EXCEPT !.todo = rest]]
        <4>1. job'[j].todo = rest /\ \A i \in JobIds \ {j} : job'[i] = job[i]
          BY <1>2, <1>3, <1>4, <3>1
        <4> QED
          BY <4>1 DEF Same
      <3>2. CASE Ended(j)
        <4>1. job'[j] = None /\ \A i \in JobIds \ {j} : job'[i] = job[i]
          BY <1>2, <3>2 DEF Ended
        <4> QED
          BY <4>1 DEF Same
      <3>3. CASE Mount(LeadsTo(r), [job EXCEPT ![j] = None])
        <4>1. PICK jobs : jobs = [job EXCEPT ![j] = None]
          OBVIOUS
        <4>2. DOMAIN jobs = JobIds /\ jobs[j] = None /\ \A i \in JobIds \ {j} : jobs[i] = job[i]
          BY <1>2, <4>1
        <4>3. \A i \in JobIds : job'[i] = None \/ job'[i].todo = <<>> \/ (jobs[i] # None /\ job'[i].todo = jobs[i].todo)
          <5>1. \A i \in JobIds : jobs[i] # None => jobs[i] = job[i]
            BY <4>2
          <5>2. Mount(LeadsTo(r), jobs)
            BY <3>3, <4>1
          <5> QED
            BY <4>2, <5>1, <5>2, MountSame
        <4> QED
          BY <4>2, <4>3 DEF Same
      <3>4. CASE Detached([job EXCEPT ![j] = [job[j] EXCEPT !.todo = rest]])
        <4>1. PICK jobs : jobs = [job EXCEPT ![j] = [job[j] EXCEPT !.todo = rest]]
          OBVIOUS
        <4>2. DOMAIN jobs = JobIds /\ jobs[j].todo = rest /\ \A i \in JobIds \ {j} : jobs[i] = job[i]
          BY <1>2, <1>3, <1>4, <4>1
        <4>3. \A q, data : [Job(<<>>, q, None) EXCEPT !.data = data].todo = <<>>
          BY DEF Job
        <4>4. ASSUME NEW i \in JobIds PROVE job'[i] = jobs[i] \/ job'[i].todo = <<>>
          <5>1. CASE load = None
            BY <3>4, <4>1, <5>1 DEF Detached
          <5>2. CASE load # None
            <6>1. PICK f : f = [Job(<<>>, Query(load.kind, load.of), None) EXCEPT !.data = load.data]
              OBVIOUS
            <6>2. PICK k \in JobIds : job' = [jobs EXCEPT ![k] = f]
              BY <3>4, <4>1, <5>2, <6>1 DEF Detached
            <6>3. f.todo = <<>>
              BY <4>3, <6>1
            <6> QED
              BY <4>2, <6>2, <6>3
          <5> QED
            BY <5>1, <5>2
        <4> QED
          BY <4>2, <4>4 DEF Same
      <3> QED
        BY <1>1, <1>6, <3>1, <3>2, <3>3, <3>4 DEF Serve, WizardAfter
    <2> QED
      BY <1>1, <1>2, <1>3, <1>6, <2>1, <2>2 DEF ServedBy
  <1> QED
    BY <1>5, <1>6

LEMMA OtherFunctionSteps ==
  ASSUME Typed, NEW j \in JobIds, Refuse(j) \/ Break(j) \/ ServeThen(j) \/ ThenArrives(j)
  PROVE  Idle
  <1>1. DOMAIN job = JobIds /\ (job[j] # None => Fits(job[j], page, view))
    BY DEF Typed, Functions
  <1>2. UNCHANGED <<db, doubt>>
    BY DEF Refuse, Break, ServeThen, ThenArrives
  <1>3. ASSUME Ended(j) PROVE Idle
    BY <1>1, <1>2, <1>3 DEF Ended, Idle, Same
  <1>4. CASE Refuse(j) \/ ThenArrives(j)
    BY <1>3, <1>4 DEF Refuse, ThenArrives
  <1>5. CASE Break(j)
    <2>1. CASE Ended(j)
      BY <1>3, <2>1
    <2>2. CASE job[j].todo # <<>> /\ job' = [job EXCEPT ![j] = [todo |-> <<Head(job[j].todo)>>, then |-> None, mark |-> "lost",
                                      data |-> None, mine |-> FALSE]]
      <3>1. job[j] # None /\ Head(job[j].todo) = job[j].todo[1]
        BY <1>1, <1>5, <2>2, NextRequest DEF Break
      <3>2. job'[j].todo = <<job[j].todo[1]>> /\ \A i \in JobIds \ {j} : job'[i] = job[i]
        BY <1>1, <2>2, <3>1
      <3> QED
        BY <1>2, <2>2, <3>1, <3>2 DEF Idle, Same
    <2> QED
      BY <1>5, <2>1, <2>2 DEF Break
  <1>6. CASE ServeThen(j)
    <2>1. CASE Ended(j)
      BY <1>3, <2>1
    <2>2. CASE ~Ended(j)
      <3>1. job[j] # None /\ job' = [job EXCEPT ![j].data = <<Answer(job[j].then.kind, job[j].then.of)>>]
        BY <1>6, <2>2 DEF ServeThen
      <3>2. job'[j].todo = job[j].todo /\ \A i \in JobIds \ {j} : job'[i] = job[i]
        BY <1>1, <3>1 DEF Fits, JobOK, Jobs
      <3> QED
        BY <1>1, <1>2, <3>1, <3>2 DEF Idle, Same
    <2> QED
      BY <2>1, <2>2
  <1> QED
    BY <1>4, <1>5, <1>6

\* A booker books or cancels.
Booked == (Book \/ CancelRead \/ CancelSlot \/ CancelCommit) /\ UNCHANGED <<page, view, load, aux, job, doubt>>

\* What a step does to the database, and to the requests that wait.
LEMMA Steps ==
  ASSUME Typed, [Next]_vars
  PROVE  (\E j \in JobIds : ServedBy(j) \/ HalfServed(j)) \/ Booked \/ Starts \/ Idle
  <1>1. CASE UNCHANGED vars
    BY <1>1, IdleJobs DEF vars
  <1>2. CASE Others
    BY <1>2 DEF Others, Booked
  <1>3. CASE Function
    BY <1>3, ServeSteps, OtherFunctionSteps DEF Function
  <1> QED
    BY <1>1, <1>2, <1>3, ClickSteps, EffectSteps DEF Next

\* Behind a request that was served there are only requests for rules.
LEMMA TailOfSeries ==
  ASSUME Typed, NEW j \in JobIds, ServedBy(j), job'[j] # None, job'[j].todo # <<>>
  PROVE  job'[j].todo[1].op \in {"rule", "unrule"}
  <1>1. job[j] # None /\ job[j].todo # <<>> /\ job'[j].todo = Tail(job[j].todo)
    BY DEF ServedBy
  <1>2. Fits(job[j], page, view)
    BY <1>1 DEF Typed, Functions
  <1>3. Tail(job[j].todo) \in Seq(Requests) /\ \A n \in DOMAIN Tail(job[j].todo) : Tail(job[j].todo)[n].op \in {"rule", "unrule"}
    BY <1>1, <1>2, NextRequest
  <1>4. 1 \in DOMAIN Tail(job[j].todo)
    BY <1>1, <1>3
  <1> QED
    BY <1>1, <1>3, <1>4

\* The request that a function makes next was its next one before; or it is
\* one of a series, the second half of one, or a new one.
LEMMA NextRequests ==
  ASSUME Typed, [Next]_vars, NEW j \in JobIds, job'[j] # None, job'[j].todo # <<>>
  PROVE  \/ job[j] # None /\ job[j].todo # <<>> /\ job'[j].todo[1] = job[j].todo[1]
         \/ job'[j].todo[1].op \in {"rule", "unrule"}
         \/ HalfServed(j) /\ job'[j].todo[1] = Second(job[j].todo[1])
         \/ Starts /\ Begins(job'[j].todo) /\ job[j] = None
  <1>1. ASSUME Same(j) PROVE job[j] # None /\ job[j].todo # <<>> /\ job'[j].todo[1] = job[j].todo[1]
    BY <1>1 DEF Same
  <1>2. ASSUME NEW i \in JobIds, ServedBy(i), ~Same(j) PROVE job'[j].todo[1].op \in {"rule", "unrule"}
    BY <1>2, TailOfSeries DEF ServedBy
  <1>3. ASSUME NEW i \in JobIds, HalfServed(i)
        PROVE  (i = j /\ job'[j].todo[1] = Second(job[j].todo[1])) \/ Same(j)
    <2>1. CASE i = j
      <3>1. job'[j].todo = <<Second(job[j].todo[1])>> \o Tail(job[j].todo)
        BY <1>3, <2>1 DEF HalfServed
      <3>2. Tail(job[j].todo) \in Seq(Requests)
        BY <1>3, <2>1, NextRequest DEF HalfServed, Typed, Functions
      <3> QED
        BY <2>1, <3>1, <3>2
    <2>2. CASE i # j
      BY <1>3, <2>2 DEF HalfServed, Same
    <2> QED
      BY <2>1, <2>2
  <1>4. CASE Starts
    <2>1. PICK todo : Begins(todo)
      BY <1>4 DEF Starts
    <2>2. PICK i \in JobIds : job[i] = None /\ job'[i].todo = todo /\ \A k \in JobIds \ {i} : job'[k] = job[k]
      BY <2>1 DEF Begins
    <2>3. i = j => Begins(job'[j].todo) /\ job[j] = None
      BY <2>2 DEF Begins
    <2>4. i # j => Same(j)
      BY <2>2 DEF Same
    <2> QED
      BY <1>1, <1>4, <2>3, <2>4
  <1>5. CASE Booked \/ Idle
    <2>1. Same(j)
      BY <1>5 DEF Booked, Idle, Same
    <2> QED
      BY <1>1, <2>1
  <1> QED
    BY <1>1, <1>2, <1>3, <1>4, <1>5, Steps

\* The buttons for rules ask for rules.
LEMMA SeriesTypes ==
  ASSUME Typed, RulesShown, NEW todo, Series(todo)
  PROVE  RuleRequests(todo)
  <1>1. \A P \in SUBSET List : RuleRequests(DropRules(P))
    BY ListTypes, DropRulesFacts
  <1>2. /\ RuleRequests(PostRules(WorkDays, "OPEN", Hours)) /\ RuleRequests(PostRules(WorkDays, "BREAK", Lunch))
        /\ \A d \in Drafts : RuleRequests(PostRules(d.days, d.kind, d))
    <2>1. WorkDays \in SUBSET Days /\ Hours \in [from: Nat, to: Nat] /\ Lunch \in [from: Nat, to: Nat]
      BY ScheduleConstantsOK
    <2>2. \A d \in Drafts : d.days \in SUBSET Days /\ d.kind \in {"OPEN", "BREAK"} /\ d.from \in Nat /\ d.to \in Nat
      BY ScheduleConstantsOK
    <2> QED
      BY <2>1, <2>2, PostRulesFacts
  <1>3. CASE \E r \in List : todo = DropRules({r})
    BY <1>1, <1>3
  <1>4. CASE todo = DropRules({r \in List : r.kind = "OPEN" /\ r.day \in WorkDays}) \o PostRules(WorkDays, "OPEN", Hours)
    <2>1. PICK P \in SUBSET List : P = {r \in List : r.kind = "OPEN" /\ r.day \in WorkDays}
      OBVIOUS
    <2>2. todo = DropRules(P) \o PostRules(WorkDays, "OPEN", Hours)
      BY <1>4, <2>1
    <2> QED
      BY <1>1, <1>2, <2>2, RequestsJoined
  <1>5. CASE todo = DropRules({r \in List : r.day \in WorkDays})
                      \o PostRules(WorkDays, "OPEN", Hours) \o PostRules(WorkDays, "BREAK", Lunch)
    <2>1. PICK P \in SUBSET List : P = {r \in List : r.day \in WorkDays}
      OBVIOUS
    <2>2. PICK a : a = DropRules(P) \o PostRules(WorkDays, "OPEN", Hours)
      OBVIOUS
    <2>3. RuleRequests(a)
      BY <1>1, <1>2, <2>2, RequestsJoined
    <2>4. todo = a \o PostRules(WorkDays, "BREAK", Lunch)
      BY <1>5, <2>1, <2>2
    <2> QED
      BY <1>2, <2>3, <2>4, RequestsJoined
  <1> QED
    BY <1>1, <1>2, <1>3, <1>4, <1>5 DEF Series

\* What a new function asks for first.
LEMMA FirstRequest ==
  ASSUME Typed, Starts, NEW j \in JobIds, job[j] = None, job'[j] # None, job'[j].todo # <<>>, NEW r, r = job'[j].todo[1]
  PROVE  /\ db' = db /\ \A i \in JobIds \ {j} : job'[i] = job[i]
         /\ \/ r.op \in Plain \cup {"rule", "unrule"}
            \/ r = Request("complete", This) /\ doubt' = doubt
            \/ /\ page = "edit" /\ view.form # None /\ ~view.form.setup
               /\ r = Request("discard", view.id) /\ doubt' = doubt
            \/ \E u \in Users, verdict \in {"approved", "rejected"} :
                 /\ r = Request("decide", [user |-> u, verdict |-> verdict])
                 /\ doubt' = IF \E i \in Running : Deciding(i, u) THEN doubt \cup {"crossed"} ELSE doubt
  <1>1. ASSUME NEW todo, Begins(todo) PROVE job'[j].todo = todo /\ \A i \in JobIds \ {j} : job'[i] = job[i]
    BY <1>1 DEF Begins
  <1>2. CASE \E q : q.op \in Plain /\ Begins(<<q>>)
    BY <1>1, <1>2 DEF Starts
  <1>3. CASE Begins(<<Request("complete", This)>>) /\ doubt' = doubt
    BY <1>1, <1>3 DEF Starts
  <1>4. CASE page = "edit" /\ view.form # None /\ ~view.form.setup /\ Begins(<<Request("discard", view.id)>>) /\ doubt' = doubt
    BY <1>1, <1>4 DEF Starts
  <1>5. ASSUME NEW u \in Users, NEW verdict \in {"approved", "rejected"},
               Begins(<<Request("decide", [user |-> u, verdict |-> verdict])>>),
               doubt' = IF \E i \in Running : Deciding(i, u) THEN doubt \cup {"crossed"} ELSE doubt
        PROVE  /\ r = Request("decide", [user |-> u, verdict |-> verdict])
               /\ \A i \in JobIds \ {j} : job'[i] = job[i]
    BY <1>1, <1>5
  <1>6. ASSUME NEW todo, RulesShown, Series(todo), Begins(todo)
        PROVE  r.op \in {"rule", "unrule"} /\ \A i \in JobIds \ {j} : job'[i] = job[i]
    <2>1. job'[j].todo = todo /\ \A i \in JobIds \ {j} : job'[i] = job[i]
      BY <1>1, <1>6
    <2>2. RuleRequests(todo)
      BY <1>6, SeriesTypes
    <2>3. todo \in Seq(Requests) /\ 1 \in DOMAIN todo
      BY <2>1, <2>2 DEF RuleRequests
    <2> QED
      BY <2>1, <2>2, <2>3 DEF RuleRequests
  <1> QED
    BY <1>2, <1>3, <1>4, <1>5, <1>6 DEF Starts

----------------------------------------------------------------------------
(* Decisions on users. *)

\* The request that function j makes next.
Waiting(j, op) == job[j] # None /\ job[j].todo # <<>> /\ job[j].todo[1].op = op

\* Decisions on a user, one at a time, are on a request that waits.
Decided ==
  "crossed" \notin doubt =>
    /\ RolesMatch(db.user)
    /\ \A j \in JobIds : Waiting(j, "grant") => db.user[job[j].todo[1].what.user].request = "pending"
    /\ \A i, j \in Running, u \in Users : Deciding(i, u) /\ Deciding(j, u) => i = j

LEMMA WaitingRequest ==
  ASSUME Typed, NEW j \in JobIds, job[j] # None, job[j].todo # <<>>
  PROVE  job[j].todo[1] \in Requests /\ j \in Running
  BY NextRequest DEF Typed, Functions, Running

\* Which functions are about to decide on a user, before and after a step.
LEMMA DecidingBefore ==
  ASSUME Typed, [Next]_vars, NEW j \in JobIds, job'[j] # None, NEW u \in Users, Deciding(j, u)'
  PROVE  \/ j \in Running /\ Deciding(j, u)
         \/ /\ Starts /\ db' = db /\ \A i \in JobIds \ {j} : job'[i] = job[i]
            /\ doubt' = IF \E i \in Running : Deciding(i, u) THEN doubt \cup {"crossed"} ELSE doubt
            /\ job'[j].todo[1].op = "decide"
  <1>1. PICK r : r = job'[j].todo[1] /\ job'[j].todo # <<>> /\ r.op \in {"decide", "grant"} /\ r.what.user = u
    BY DEF Deciding
  <1>2. CASE job[j] # None /\ job[j].todo # <<>> /\ r = job[j].todo[1]
    BY <1>1, <1>2 DEF Deciding, Running
  <1>3. CASE HalfServed(j) /\ r = Second(job[j].todo[1])
    <2>1. job[j].todo[1].op \in TwoSteps /\ job[j] # None /\ job[j].todo # <<>>
      BY <1>3 DEF HalfServed
    <2>2. job[j].todo[1].op = "decide" /\ r.what = job[j].todo[1].what
      BY <1>1, <1>3, <2>1 DEF Second, Request, TwoSteps
    <2> QED
      BY <1>1, <2>1, <2>2 DEF Deciding, Running
  <1>4. CASE Starts /\ job[j] = None
    <2>1. PICK v \in Users, verdict \in {"approved", "rejected"} :
            /\ r = Request("decide", [user |-> v, verdict |-> verdict])
            /\ doubt' = IF \E k \in Running : Deciding(k, v) THEN doubt \cup {"crossed"} ELSE doubt
      BY <1>1, <1>4, FirstRequest DEF Plain, Request
    <2>2. v = u /\ r.op = "decide"
      BY <1>1, <2>1 DEF Request
    <2> QED
      BY <1>1, <1>4, <2>1, <2>2, FirstRequest
  <1> QED
    BY <1>1, <1>2, <1>3, <1>4, NextRequests

LEMMA DoubtGrows ==
  ASSUME Typed, [Next]_vars
  PROVE  doubt \subseteq doubt'
  BY Steps DEF ServedBy, HalfServed, Booked, Starts, Idle

\* What the requests leave of the database.
LEMMA ServedUsers ==
  ASSUME db \in Database, NEW r \in Requests, r.op \notin TwoSteps
  PROVE  Served(r).user = IF r.op = "grant"
                          THEN [db.user EXCEPT ![r.what.user] = [request |-> r.what.verdict,
                                                                 host |-> @.host \/ r.what.verdict = "approved"]]
                          ELSE db.user
  <1>1. db = [rules |-> db.rules, overrides |-> db.overrides, slots |-> db.slots, next |-> db.next, fresh |-> db.fresh,
              setting |-> db.setting, booking |-> db.booking, cancel |-> db.cancel, user |-> db.user]
    BY DEF Database
  <1>2. CASE r.op = "grant"
    BY <1>1, <1>2 DEF Served, Decide
  <1>3. CASE r.op \in {"delete", "discard"}
    BY <1>1, <1>3 DEF Served, DeleteSetting
  <1>4. CASE r.op \in {"rule", "unrule", "except", "unexcept"}
    BY <1>1, <1>4 DEF Served, CreateRule, DeleteRule, CreateOverride, DeleteOverride
  <1>5. CASE r.op \in {"insert", "clear", "confirm", "close"}
    BY <1>1, <1>5 DEF Served, Insert, Clear, Confirm, Close
  <1>6. CASE r.op \in {"complete", "activate", "create", "update"}
    BY <1>1, <1>6 DEF Served, CompleteSetup, ToggleActive, CreateSetting, UpdateSetting
  <1> QED
    BY <1>2, <1>3, <1>4, <1>5, <1>6, RequestTypes DEF TwoSteps

LEMMA BookedKeeps ==
  ASSUME db \in Database, Booked
  PROVE  /\ db'.rules = db.rules /\ db'.overrides = db.overrides /\ db'.next = db.next /\ db'.fresh = db.fresh
         /\ db'.setting = db.setting /\ db'.user = db.user
  <1>1. CASE Book
    BY <1>1 DEF Book, Database
  <1>2. CASE CancelRead
    BY <1>2 DEF CancelRead, Database
  <1>3. CASE CancelSlot
    BY <1>3 DEF CancelSlot, Database
  <1>4. CASE CancelCommit
    BY <1>4 DEF CancelCommit, Close, Database
  <1> QED
    BY <1>1, <1>2, <1>3, <1>4 DEF Booked

LEMMA DecidedKept ==
  ASSUME Typed, Decided, [Next]_vars
  PROVE  Decided'
  <1> SUFFICES ASSUME "crossed" \notin doubt'
               PROVE  /\ RolesMatch(db'.user)
                      /\ \A j \in JobIds : Waiting(j, "grant")' => db'.user[job'[j].todo[1].what.user].request = "pending"
                      /\ \A i, j \in Running', u \in Users : Deciding(i, u)' /\ Deciding(j, u)' => i = j
    BY DEF Decided
  <1>1. /\ RolesMatch(db.user)
        /\ \A j \in JobIds : Waiting(j, "grant") => db.user[job[j].todo[1].what.user].request = "pending"
        /\ \A i, j \in Running, u \in Users : Deciding(i, u) /\ Deciding(j, u) => i = j
    BY DoubtGrows DEF Decided
  <1>2. db \in Database /\ db.user \in [Users -> Hosts]
    BY DatabaseTypes DEF Typed
  <1>3. ASSUME db'.user # db.user
        PROVE  \E j \in JobIds : /\ ServedBy(j) /\ job[j].todo[1].op = "grant" /\ job[j].todo[1] \in Requests
                                 /\ db'.user = Served(job[j].todo[1]).user
    <2>1. PICK j \in JobIds : ServedBy(j)
      BY <1>2, <1>3, Steps, BookedKeeps DEF HalfServed, Starts, Idle
    <2>2. job[j].todo[1] \in Requests /\ job[j].todo[1].op \notin TwoSteps /\ db' = Served(job[j].todo[1])
      BY <2>1, WaitingRequest DEF ServedBy
    <2> QED
      BY <1>2, <1>3, <2>1, <2>2, ServedUsers
  <1>4. ASSUME NEW j \in JobIds, ServedBy(j), job[j].todo[1].op = "grant", job[j].todo[1] \in Requests,
               db'.user = Served(job[j].todo[1]).user
        PROVE  /\ job[j].todo[1].what.user \in Users /\ Waiting(j, "grant")
               /\ \A u \in Users \ {job[j].todo[1].what.user} : db'.user[u] = db.user[u]
               /\ LET h == db'.user[job[j].todo[1].what.user] IN h.host = (h.request = "approved")
    <2>1. PICK w : w = job[j].todo[1].what
      OBVIOUS
    <2>2. w.user \in Users /\ w.verdict \in {"approved", "rejected"}
      BY <1>4, <2>1, RequestTypes
    <2>3. Waiting(j, "grant")
      BY <1>4 DEF ServedBy, Waiting
    <2>4. db.user[w.user].request = "pending" /\ db.user[w.user] \in Hosts
      BY <1>1, <1>2, <2>1, <2>2, <2>3
    <2>5. db.user[w.user].host = FALSE
      <3>1. db.user[w.user].host = (db.user[w.user].request = "approved")
        BY <1>1, <2>2 DEF RolesMatch
      <3> QED
        BY <2>4, <3>1
    <2>6. db'.user = [db.user EXCEPT ![w.user] = [request |-> w.verdict, host |-> @.host \/ w.verdict = "approved"]]
      BY <1>2, <1>4, <2>1, ServedUsers DEF TwoSteps
    <2>7. db'.user[w.user] = [request |-> w.verdict, host |-> db.user[w.user].host \/ w.verdict = "approved"]
      BY <1>2, <2>2, <2>6
    <2>8. db'.user[w.user].host = (db'.user[w.user].request = "approved")
      BY <2>5, <2>7
    <2> QED
      BY <1>2, <2>1, <2>2, <2>3, <2>6, <2>8
  <1>5. RolesMatch(db'.user)
    <2>1. CASE db'.user = db.user
      BY <1>1, <2>1
    <2>2. CASE db'.user # db.user
      BY <1>1, <1>3, <1>4, <2>2 DEF RolesMatch
    <2> QED
      BY <2>1, <2>2
  <1>6. ASSUME NEW k \in JobIds, Waiting(k, "grant")' PROVE db'.user[job'[k].todo[1].what.user].request = "pending"
    <2>1. PICK r : r = job'[k].todo[1] /\ r.op = "grant" /\ job'[k] # None /\ job'[k].todo # <<>>
      BY <1>6 DEF Waiting
    <2>2. CASE job[k] # None /\ job[k].todo # <<>> /\ r = job[k].todo[1]
      <3>1. Waiting(k, "grant") /\ k \in Running /\ r \in Requests
        BY <2>1, <2>2, WaitingRequest DEF Waiting
      <3>2. r.what.user \in Users /\ db.user[r.what.user].request = "pending"
        BY <1>1, <2>1, <2>2, <3>1, RequestTypes
      <3>3. CASE db'.user = db.user
        BY <2>1, <3>2, <3>3
      <3>4. CASE db'.user # db.user
        <4>1. PICK j \in JobIds : /\ ServedBy(j) /\ job[j].todo[1].op = "grant" /\ job[j].todo[1] \in Requests
                                  /\ db'.user = Served(job[j].todo[1]).user
          BY <1>3, <3>4
        <4>2. k # j
          BY <2>1, <4>1, TailOfSeries
        <4>3. j \in Running /\ Deciding(j, job[j].todo[1].what.user) /\ Deciding(k, r.what.user)
          BY <2>1, <2>2, <4>1 DEF Deciding, ServedBy, Running
        <4>4. r.what.user # job[j].todo[1].what.user
          BY <1>1, <3>1, <3>2, <4>2, <4>3
        <4> QED
          BY <1>4, <2>1, <3>2, <4>1, <4>4
      <3> QED
        BY <3>3, <3>4
    <2>3. CASE HalfServed(k) /\ r = Second(job[k].todo[1])
      <3>1. job[k].todo[1].op \in TwoSteps /\ Accepts(job[k].todo[1]) /\ db' = db
        BY <2>3 DEF HalfServed
      <3>2. job[k].todo[1].op = "decide" /\ r.what = job[k].todo[1].what
        BY <2>1, <2>3, <3>1 DEF Second, Request, TwoSteps
      <3>3. db.user[r.what.user].request = "pending"
        BY <3>1, <3>2 DEF Accepts
      <3> QED
        BY <2>1, <3>1, <3>3
    <2>4. CASE Starts /\ job[k] = None
      <3>1. r.op # "grant"
        BY <2>1, <2>4, FirstRequest DEF Plain, Request
      <3> QED
        BY <2>1, <3>1
    <2> QED
      BY <2>1, <2>2, <2>3, <2>4, NextRequests
  <1>7. ASSUME NEW i \in Running', NEW j \in Running', NEW u \in Users, Deciding(i, u)', Deciding(j, u)' PROVE i = j
    <2>1. i \in JobIds /\ j \in JobIds /\ job'[i] # None /\ job'[j] # None
      BY DEF Running
    <2>2. ASSUME NEW k \in JobIds, NEW l \in JobIds, k # l, job'[l] # None, Deciding(l, u)',
                 \A m \in JobIds \ {k} : job'[m] = job[m],
                 doubt' = IF \E m \in Running : Deciding(m, u) THEN doubt \cup {"crossed"} ELSE doubt
          PROVE  FALSE
      <3>1. l \in Running /\ Deciding(l, u)
        BY <2>2 DEF Running, Deciding
      <3> QED
        BY <2>2, <3>1
    <2> QED
      BY <1>1, <1>7, <2>1, <2>2, DecidingBefore
  <1> QED
    BY <1>5, <1>6, <1>7

LEMMA SpecDecided ==
  Spec => []Decided
  <1>1. Init => Decided
    BY BeginningsOK DEF Init, Decided, Waiting, Running
  <1>2. Typed /\ Decided /\ [Next]_vars => Decided'
    BY DecidedKept
  <1> QED
    BY <1>1, <1>2, SpecTyped, PTL DEF Spec

\* A user has the role HOST exactly when the last decision was to approve, if
\* no two decisions on the user overlapped: approve_host_request reads the
\* request before it waits, and grants the role after it.
THEOREM DecisionsAreRoles ==
  Spec => []RoleMatchesDecision
  <1>1. Decided => RoleMatchesDecision
    BY DEF Decided, RoleMatchesDecision
  <1> QED
    BY <1>1, SpecDecided, PTL

----------------------------------------------------------------------------
(* Slots and bookings. *)

\* What is about to be inserted: open slots, one for a start.
Fillers(S) == \A s \in S : s.status = "OPEN" /\ \A t \in S : At(s) = At(t) => s = t

Stored == Sound(db) /\ Kept(db) /\ \A j \in JobIds : Waiting(j, "insert") => Fillers(job[j].todo[1].what)

LEMMA MissingFillers ==
  ASSUME db \in Database, db.setting[This] # None, NEW range \in Ranges
  PROVE  Fillers(Missing(range))
  <1> SUFFICES ASSUME NEW s \in Missing(range), NEW t \in Missing(range), At(s) = At(t) PROVE s = t
    BY MissingTypes DEF Fillers
  <1>1. /\ s \in Slots /\ t \in Slots /\ s.status = "OPEN" /\ t.status = "OPEN" /\ s.date = t.date /\ s.from = t.from
        /\ Span(s) \in WindowsOf(s.date) /\ Span(t) \in WindowsOf(s.date)
    BY MissingTypes DEF SlotLists, At
  <1>2. s.date \in Dates
    BY <1>1 DEF Slots
  <1>3. Span(s) = Span(t)
    <2>1. /\ Span(s).from = s.from /\ Span(t).from = s.from
      BY <1>1 DEF Span, Interval
    <2>2. Span(s).from < Span(s).to /\ Span(t).from < Span(t).to
      BY <1>1, <1>2, WindowsOfTypes DEF Intervals
    <2>3. Meet(Span(s), Span(t))
      BY <2>1, <2>2 DEF Meet
    <2> QED
      BY <1>1, <1>2, <2>3, WindowsOfTypes
  <1>4. s.to = t.to
    BY <1>3 DEF Span, Interval
  <1> QED
    BY <1>1, <1>4 DEF Slots

\* The slots of the database after a booking has ended.
LEMMA ClosedSlots ==
  ASSUME db \in Database, NEW b \in Books, db.booking[b] # None, NEW status \in BookStatuses, NEW frees \in BOOLEAN,
         NEW d, d = Close(b, status, frees)
  PROVE  /\ \A t \in d.slots : \E s \in db.slots :
              /\ At(t) = At(s) /\ t.date = s.date /\ t.from = s.from /\ t.to = s.to
              /\ IF frees /\ At(s) = At(db.booking[b]) THEN t.status = "OPEN" ELSE t = s
         /\ \A s \in db.slots : \E t \in d.slots : At(t) = At(s)
         /\ \A s, t \in d.slots : (\A x, y \in db.slots : At(x) = At(y) => x = y) /\ At(s) = At(t) => s = t
         /\ d.fresh = db.fresh /\ d.setting = db.setting /\ d.cancel = db.cancel
         /\ d.booking[b] # None /\ At(d.booking[b]) = At(db.booking[b]) /\ d.booking[b].status = status
         /\ \A c \in Books \ {b} : d.booking[c] = db.booking[c]
  <1>1. db.booking \in [Books -> Bookings \cup {None}] /\ db.slots \in SUBSET Slots
    BY DatabaseTypes DEF SlotLists
  <1>2. PICK f : f = [s \in db.slots |-> IF frees /\ At(s) = At(db.booking[b]) THEN [s EXCEPT !.status = "OPEN"] ELSE s]
    OBVIOUS
  <1>3. ASSUME NEW s \in db.slots
        PROVE  /\ At(f[s]) = At(s) /\ f[s].date = s.date /\ f[s].from = s.from /\ f[s].to = s.to
               /\ IF frees /\ At(s) = At(db.booking[b]) THEN f[s].status = "OPEN" ELSE f[s] = s
    BY <1>1, <1>2 DEF At, Slots
  <1>4. /\ d.slots = {f[s] : s \in db.slots} /\ d.booking = [db.booking EXCEPT ![b].status = status]
        /\ d.fresh = db.fresh /\ d.setting = db.setting /\ d.cancel = db.cancel
    BY <1>2 DEF Close, Database
  <1>5. PICK x : x = [db.booking[b] EXCEPT !.status = status]
    OBVIOUS
  <1>6. x \in Bookings /\ At(x) = At(db.booking[b]) /\ x.status = status
    BY <1>1, <1>5 DEF Bookings, At
  <1>7. x # None /\ d.booking[b] = x /\ \A c \in Books \ {b} : d.booking[c] = db.booking[c]
    BY <1>1, <1>4, <1>5, <1>6, NoneIsNoRecord
  <1>8. \A s, t \in d.slots : (\A v, w \in db.slots : At(v) = At(w) => v = w) /\ At(s) = At(t) => s = t
    BY <1>3, <1>4
  <1>9. \A t \in d.slots : \E s \in db.slots :
          /\ At(t) = At(s) /\ t.date = s.date /\ t.from = s.from /\ t.to = s.to
          /\ IF frees /\ At(s) = At(db.booking[b]) THEN t.status = "OPEN" ELSE t = s
    BY <1>3, <1>4
  <1> QED
    BY <1>3, <1>4, <1>6, <1>7, <1>8, <1>9

\* A booking ends, and its slot is freed or left as it is.
LEMMA CloseStored ==
  ASSUME db \in Database, Sound(db), Kept(db), NEW b \in Books, db.booking[b] # None,
         NEW status \in BookStatuses, NEW frees \in BOOLEAN, NEW d, d = Close(b, status, frees)
  PROVE  Sound(d) /\ Kept(d)
  <1>1. Sound(d)
    BY ClosedSlots DEF Sound
  <1>2. ASSUME NEW c \in Books, d.booking[c] # None PROVE \E t \in d.slots : At(t) = At(d.booking[c])
    <2>1. db.booking[c] # None /\ At(db.booking[c]) = At(d.booking[c])
      BY <1>2, ClosedSlots
    <2>2. PICK s \in db.slots : At(s) = At(db.booking[c])
      BY <2>1 DEF Kept
    <2> QED
      BY <2>1, <2>2, ClosedSlots
  <1> QED
    BY <1>1, <1>2 DEF Kept

\* A booking is approved, whatever it was.
LEMMA ConfirmedBooking ==
  ASSUME db \in Database, NEW b \in Books, db.booking[b] # None, NEW d, d = Confirm(b)
  PROVE  /\ d.slots = db.slots /\ d.fresh = db.fresh /\ d.setting = db.setting /\ d.cancel = db.cancel
         /\ d.booking[b] # None /\ At(d.booking[b]) = At(db.booking[b]) /\ d.booking[b].status = "CONFIRMED"
         /\ \A c \in Books \ {b} : d.booking[c] = db.booking[c]
  <1>1. db.booking \in [Books -> Bookings \cup {None}]
    BY DatabaseTypes
  <1>2. PICK x : x = [db.booking[b] EXCEPT !.status = "CONFIRMED"]
    OBVIOUS
  <1>3. x \in Bookings /\ At(x) = At(db.booking[b]) /\ x.status = "CONFIRMED"
    BY <1>1, <1>2 DEF Bookings, At, BookStatuses, Active
  <1>4. /\ d.booking = [db.booking EXCEPT ![b] = x]
        /\ d.slots = db.slots /\ d.fresh = db.fresh /\ d.setting = db.setting /\ d.cancel = db.cancel
    BY <1>1, <1>2 DEF Confirm, Database
  <1>5. x # None
    BY <1>3, NoneIsNoRecord
  <1> QED
    BY <1>1, <1>3, <1>4, <1>5

\* One more slot for each start that has none.
LEMMA InsertStored ==
  ASSUME db \in Database, Sound(db), Kept(db), NEW S \in SlotLists, Fillers(S), NEW d, d = Insert(S)
  PROVE  /\ Sound(d) /\ Kept(d)
         /\ \A s \in d.slots : s \in db.slots \/ s \in S
  <1>1. PICK new : new = S \ Taken(S)
    OBVIOUS
  <1>2. d.slots = db.slots \cup new /\ d.booking = db.booking /\ d.fresh = db.fresh /\ d.setting = db.setting
    BY <1>1 DEF Insert, Database
  <1>3. \A s \in new : s \in S /\ \A t \in db.slots : At(t) # At(s)
    BY <1>1 DEF Taken
  <1>4. ASSUME NEW s \in d.slots, NEW t \in d.slots, At(s) = At(t) PROVE s = t
    <2>1. CASE s \in db.slots /\ t \in db.slots
      BY <1>4, <2>1 DEF Sound
    <2>2. CASE s \in new /\ t \in new
      BY <1>3, <1>4, <2>2 DEF Fillers
    <2>3. CASE s \in new /\ t \in db.slots
      BY <1>3, <1>4, <2>3
    <2>4. CASE s \in db.slots /\ t \in new
      BY <1>3, <1>4, <2>4
    <2> QED
      BY <1>2, <2>1, <2>2, <2>3, <2>4
  <1>5. Sound(d)
    BY <1>2, <1>4 DEF Sound
  <1>6. Kept(d)
    BY <1>2 DEF Kept
  <1> QED
    BY <1>2, <1>3, <1>5, <1>6

\* Requests after which slots and bookings are where they were.
LEMMA OtherStored ==
  ASSUME db \in Database, Sound(db), Kept(db), NEW d, d.slots = db.slots,
         \A b \in Books : d.booking[b] # None => db.booking[b] # None /\ At(d.booking[b]) = At(db.booking[b]),
         \A p \in d.fresh : p \in db.fresh /\ d.setting[p] = db.setting[p]
  PROVE  Sound(d) /\ Kept(d)
  <1>1. Sound(d)
    BY DEF Sound
  <1>2. ASSUME NEW b \in Books, d.booking[b] # None PROVE \E s \in d.slots : At(s) = At(d.booking[b])
    BY <1>2 DEF Kept
  <1> QED
    BY <1>1, <1>2 DEF Kept

\* A slot on which some booking is or was is not cleared.
LEMMA ClearStored ==
  ASSUME db \in Database, Sound(db), Kept(db), NEW range, NEW d, d = Clear(range)
  PROVE  Sound(d) /\ Kept(d) /\ d.slots \subseteq db.slots
  <1>1. /\ d.slots = {s \in db.slots : s.date \notin range \/ s.status = "BOOKED" \/ BooksAt(At(s)) # {}}
        /\ d.booking = db.booking /\ d.fresh = db.fresh /\ d.setting = db.setting
    BY DEF Clear, Database
  <1>2. Sound(d)
    BY <1>1 DEF Sound
  <1>3. ASSUME NEW b \in Books, d.booking[b] # None PROVE \E s \in d.slots : At(s) = At(d.booking[b])
    <2>1. PICK s \in db.slots : At(s) = At(db.booking[b])
      BY <1>1, <1>3 DEF Kept
    <2>2. b \in BooksAt(At(s))
      BY <1>1, <1>3, <2>1 DEF BooksAt
    <2> QED
      BY <1>1, <2>1, <2>2
  <1> QED
    BY <1>1, <1>2, <1>3 DEF Kept

LEMMA DeleteStored ==
  ASSUME db \in Database, Sound(db), Kept(db), NEW p \in Pages, NEW d, d = DeleteSetting(p)
  PROVE  Sound(d) /\ Kept(d) /\ d.slots \subseteq db.slots
  <1>1. d.fresh = db.fresh /\ d.setting = [db.setting EXCEPT ![p] = None]
    BY DEF DeleteSetting, Database
  <1>2. \A q \in d.fresh : q \in Pages /\ d.setting[q] = None
    BY <1>1, DatabaseTypes DEF Sound
  <1>3. CASE p # This
    <2>1. d.slots = db.slots /\ d.booking = db.booking
      BY <1>3 DEF DeleteSetting, Database
    <2> QED
      BY <1>2, <2>1 DEF Sound, Kept
  <1>4. CASE p = This
    <2>1. d.slots = {} /\ d.booking = [b \in Books |-> None]
      BY <1>4 DEF DeleteSetting, Database
    <2> QED
      BY <1>2, <2>1 DEF Sound, Kept
  <1> QED
    BY <1>3, <1>4

LEMMA ServedStored ==
  ASSUME db \in Database, Sound(db), Kept(db), NEW r \in Requests, Accepts(r), r.op \notin TwoSteps,
         r.op = "insert" => Fillers(r.what)
  PROVE  Sound(Served(r)) /\ Kept(Served(r))
  <1>1. CASE r.op = "insert"
    BY <1>1, InsertStored, RequestTypes DEF Served
  <1>2. CASE r.op = "clear"
    BY <1>2, ClearStored DEF Served
  <1>3. CASE r.op \in {"delete", "discard"}
    BY <1>3, DeleteStored, RequestTypes DEF Served
  <1>4. CASE r.op \in {"confirm", "close"}
    <2>1. CASE r.op = "confirm"
      <3>1. r.what \in Books /\ db.booking[r.what] # None
        BY <2>1, RequestTypes DEF Accepts
      <3>2. PICK d : d = Served(r) /\ d = Confirm(r.what)
        BY <2>1 DEF Served
      <3> QED
        BY <3>1, <3>2, ConfirmedBooking, OtherStored
    <2>2. CASE r.op = "close"
      <3>1. r.what.book \in Books /\ r.what.frees \in BOOLEAN /\ db.booking[r.what.book] # None
        BY <2>2, RequestTypes DEF Accepts
      <3>2. Served(r) = Close(r.what.book, "REJECTED", r.what.frees)
        BY <2>2 DEF Served
      <3> QED
        BY <3>1, <3>2, CloseStored DEF BookStatuses
    <2> QED
      BY <1>4, <2>1, <2>2
  <1>5. CASE r.op \in {"rule", "unrule", "except", "unexcept", "grant"}
    <2>1. PICK d : d = Served(r)
      OBVIOUS
    <2>2. d.slots = db.slots /\ d.booking = db.booking /\ d.fresh = db.fresh /\ d.setting = db.setting
      BY <1>5, <2>1 DEF Served, CreateRule, DeleteRule, CreateOverride, DeleteOverride, Decide, Database
    <2> QED
      BY <2>1, <2>2, OtherStored
  <1>6. CASE r.op \in {"complete", "activate", "update"}
    <2>1. PICK d, p : d = Served(r) /\ p = IF r.op = "update" THEN r.what.page ELSE r.what
      OBVIOUS
    <2>2. db.setting[p] # None
      BY <1>6, <2>1 DEF Accepts
    <2>3. /\ d.slots = db.slots /\ d.booking = db.booking /\ d.fresh = db.fresh
          /\ \A q \in Pages \ {p} : d.setting[q] = db.setting[q]
      BY <1>6, <2>1 DEF Served, CompleteSetup, ToggleActive, UpdateSetting, Database
    <2>4. \A q \in d.fresh : q \in Pages /\ q # p
      BY <2>2, <2>3, DatabaseTypes DEF Sound
    <2> QED
      BY <2>1, <2>3, <2>4, OtherStored
  <1>7. CASE r.op = "create"
    <2>1. PICK d, p : d = Served(r) /\ p = NewId
      OBVIOUS
    <2>2. /\ d.slots = db.slots /\ d.booking = db.booking /\ d.fresh = db.fresh \ {p}
          /\ \A q \in Pages \ {p} : d.setting[q] = db.setting[q]
      BY <1>7, <2>1 DEF Served, CreateSetting, Database
    <2>3. \A q \in d.fresh : q \in Pages /\ q # p
      BY <2>2, DatabaseTypes
    <2> QED
      BY <2>1, <2>2, <2>3, OtherStored
  <1> QED
    BY <1>1, <1>2, <1>3, <1>4, <1>5, <1>6, <1>7, RequestTypes DEF TwoSteps

\* A booking takes an open slot; no request under way is about its id.
LEMMA BookedSlot ==
  ASSUME db \in Database, Book
  PROVE  \E s \in db.slots, t \in db'.slots, b \in Books :
           /\ s.status = "OPEN" /\ Unnamed(b)
           /\ db'.slots = (db.slots \ {s}) \cup {t}
           /\ At(t) = At(s) /\ t.date = s.date /\ t.from = s.from /\ t.to = s.to
           /\ db'.booking[b] # None /\ At(db'.booking[b]) = At(s) /\ db'.booking[b].status = "PENDING"
           /\ \A c \in Books \ {b} : db'.booking[c] = db.booking[c]
           /\ db'.fresh = db.fresh /\ db'.setting = db.setting /\ db'.cancel = db.cancel
  <1>1. PICK s \in db.slots, b \in Books :
          /\ s.status = "OPEN" /\ Unnamed(b)
          /\ db' = [db EXCEPT !.booking[b] = [date |-> s.date, from |-> s.from, status |-> "PENDING"],
                              !.slots = (@ \ {s}) \cup {[s EXCEPT !.status = "BOOKED"]}]
    BY DEF Book
  <1>2. PICK t, k : t = [s EXCEPT !.status = "BOOKED"] /\ k = [date |-> s.date, from |-> s.from, status |-> "PENDING"]
    OBVIOUS
  <1>3. s \in Slots /\ db.booking \in [Books -> Bookings \cup {None}]
    BY DatabaseTypes DEF SlotLists
  <1>4. /\ At(t) = At(s) /\ At(k) = At(s) /\ k.status = "PENDING" /\ k \in Bookings
        /\ t.date = s.date /\ t.from = s.from /\ t.to = s.to
    BY <1>2, <1>3 DEF Slots, At, Bookings, BookStatuses, Active
  <1>5. /\ db'.slots = (db.slots \ {s}) \cup {t} /\ db'.booking = [db.booking EXCEPT ![b] = k]
        /\ db'.fresh = db.fresh /\ db'.setting = db.setting /\ db'.cancel = db.cancel
    BY <1>1, <1>2 DEF Database
  <1>6. k # None /\ db'.booking[b] = k /\ \A c \in Books \ {b} : db'.booking[c] = db.booking[c]
    BY <1>3, <1>4, <1>5, NoneIsNoRecord
  <1>7. t \in db'.slots
    BY <1>5
  <1>8. db'.booking[b] # None /\ At(db'.booking[b]) = At(s) /\ db'.booking[b].status = "PENDING"
    BY <1>4, <1>6
  <1> QED
    BY <1>1, <1>4, <1>5, <1>6, <1>7, <1>8

LEMMA BookStored ==
  ASSUME db \in Database, Sound(db), Kept(db), Book
  PROVE  /\ Sound(db') /\ Kept(db')
         /\ \A s \in db'.slots : \E t \in db.slots : s.date = t.date /\ s.from = t.from /\ s.to = t.to
  <1>1. PICK s \in db.slots, t \in db'.slots, b \in Books :
          /\ db'.slots = (db.slots \ {s}) \cup {t}
          /\ At(t) = At(s) /\ t.date = s.date /\ t.from = s.from /\ t.to = s.to
          /\ db'.booking[b] # None /\ At(db'.booking[b]) = At(s)
          /\ \A c \in Books \ {b} : db'.booking[c] = db.booking[c]
          /\ db'.fresh = db.fresh /\ db'.setting = db.setting
    BY BookedSlot
  <1>2. Sound(db')
    BY <1>1 DEF Sound
  <1>3. ASSUME NEW c \in Books, db'.booking[c] # None PROVE \E u \in db'.slots : At(u) = At(db'.booking[c])
    <2>1. CASE c = b
      BY <1>1, <2>1
    <2>2. CASE c # b
      <3>1. PICK u \in db.slots : At(u) = At(db.booking[c])
        BY <1>1, <1>3, <2>2 DEF Kept
      <3> QED
        BY <1>1, <2>2, <3>1
    <2> QED
      BY <2>1, <2>2
  <1>4. \A u \in db'.slots : \E v \in db.slots : u.date = v.date /\ u.from = v.from /\ u.to = v.to
    BY <1>1
  <1> QED
    BY <1>2, <1>3, <1>4 DEF Kept

\* What a booker's cancellation does, step by step.
LEMMA Cancelling ==
  ASSUME db \in Database, Booked
  PROVE  \/ Book
         \/ \E b \in Books :
              /\ db'.slots = db.slots /\ db'.booking = db.booking /\ db'.fresh = db.fresh /\ db'.setting = db.setting
              /\ \A c \in Books \ {b} : db'.cancel[c] = db.cancel[c]
              /\ db'.cancel[b] = "keeps" => ~Frees(b)
         \/ \E b \in Books, d \in Database :
              /\ db.booking[b] # None /\ db.cancel[b] \in {"frees", "keeps"} /\ d = Close(b, "CANCELLED", db.cancel[b] = "frees")
              /\ db'.slots = d.slots /\ db'.booking = d.booking /\ db'.fresh = d.fresh /\ db'.setting = d.setting
              /\ db'.cancel[b] = None /\ \A c \in Books \ {b} : db'.cancel[c] = db.cancel[c]
  <1>1. "keeps" # None /\ db.cancel \in [Books -> Cancels]
    <2>1. "keeps" # None
      BY HostConstantsOK
    <2> QED
      BY <2>1, DatabaseTypes
  <1>2. ASSUME NEW b \in Books, NEW x, db' = [db EXCEPT !.cancel[b] = x]
        PROVE  /\ db'.slots = db.slots /\ db'.booking = db.booking /\ db'.fresh = db.fresh /\ db'.setting = db.setting
               /\ \A c \in Books \ {b} : db'.cancel[c] = db.cancel[c]
               /\ db'.cancel[b] = x
    BY <1>1, <1>2 DEF Database
  <1>3. CASE CancelRead
    BY <1>2, <1>3 DEF CancelRead
  <1>4. CASE CancelSlot
    <2>1. PICK b \in Books : db' = [db EXCEPT !.cancel[b] = IF Frees(b) THEN "frees" ELSE "keeps"]
      BY <1>4 DEF CancelSlot
    <2>2. db'.cancel[b] = "keeps" => ~Frees(b)
      BY <1>2, <2>1
    <2> QED
      BY <1>2, <2>1, <2>2
  <1>5. CASE CancelCommit
    <2>1. PICK b \in Books :
            /\ db.cancel[b] \in {"frees", "keeps"}
            /\ db' = IF db.booking[b] = None THEN [db EXCEPT !.cancel[b] = None]
                     ELSE [Close(b, "CANCELLED", db.cancel[b] = "frees") EXCEPT !.cancel[b] = None]
      BY <1>5 DEF CancelCommit
    <2>2. CASE db.booking[b] = None
      BY <1>1, <1>2, <2>1, <2>2
    <2>3. CASE db.booking[b] # None
      <3>1. PICK d \in Database : d = Close(b, "CANCELLED", db.cancel[b] = "frees") /\ d.cancel = db.cancel
        BY <2>3, CloseTypes DEF BookStatuses
      <3>2. db' = [d EXCEPT !.cancel[b] = None]
        BY <2>1, <2>3, <3>1
      <3>3. /\ db'.slots = d.slots /\ db'.booking = d.booking /\ db'.fresh = d.fresh /\ db'.setting = d.setting
            /\ db'.cancel[b] = None /\ \A c \in Books \ {b} : db'.cancel[c] = d.cancel[c]
        BY <1>1, <3>1, <3>2 DEF Database
      <3> QED
        BY <2>1, <2>3, <3>1, <3>3
    <2> QED
      BY <2>2, <2>3
  <1> QED
    BY <1>3, <1>4, <1>5 DEF Booked

LEMMA BookedStored ==
  ASSUME db \in Database, Sound(db), Kept(db), Booked
  PROVE  Sound(db') /\ Kept(db')
  <1>1. ASSUME NEW d, Sound(d), Kept(d), db'.slots = d.slots, db'.booking = d.booking, db'.fresh = d.fresh,
               db'.setting = d.setting
        PROVE  Sound(db') /\ Kept(db')
    BY <1>1 DEF Sound, Kept
  <1>2. ASSUME NEW b \in Books, NEW d, db.booking[b] # None, d = Close(b, "CANCELLED", db.cancel[b] = "frees")
        PROVE  Sound(d) /\ Kept(d)
    BY <1>2, CloseStored DEF BookStatuses
  <1> QED
    BY <1>1, <1>2, BookStored, Cancelling

LEMMA StoredKept ==
  ASSUME Typed, Stored, [Next]_vars
  PROVE  Stored'
  <1>1. db \in Database /\ Sound(db) /\ Kept(db)
    BY DEF Typed, Stored
  <1>2. Sound(db') /\ Kept(db')
    <2>1. ASSUME NEW j \in JobIds, ServedBy(j) PROVE Sound(db') /\ Kept(db')
      <3>1. PICK r \in Requests : r = job[j].todo[1] /\ Accepts(r) /\ r.op \notin TwoSteps /\ db' = Served(r)
        BY <2>1, WaitingRequest DEF ServedBy
      <3>2. r.op = "insert" => Fillers(r.what)
        BY <2>1, <3>1 DEF Stored, Waiting, ServedBy
      <3> QED
        BY <1>1, <3>1, <3>2, ServedStored
    <2>2. ASSUME db' = db PROVE Sound(db') /\ Kept(db')
      BY <1>1, <2>2
    <2> QED
      BY <1>1, <2>1, <2>2, Steps, BookedStored DEF HalfServed, Starts, Idle
  <1>3. ASSUME NEW j \in JobIds, Waiting(j, "insert")' PROVE Fillers(job'[j].todo[1].what)
    <2>1. PICK r : r = job'[j].todo[1] /\ r.op = "insert" /\ job'[j] # None /\ job'[j].todo # <<>>
      BY <1>3 DEF Waiting
    <2>2. CASE job[j] # None /\ job[j].todo # <<>> /\ r = job[j].todo[1]
      BY <2>1, <2>2 DEF Stored, Waiting
    <2>3. CASE HalfServed(j) /\ r = Second(job[j].todo[1])
      <3>1. job[j].todo[1].op \in TwoSteps /\ job[j].todo[1] \in Requests
        BY <2>3, WaitingRequest DEF HalfServed
      <3>2. job[j].todo[1].op = "generate" /\ r.what = Missing(job[j].todo[1].what)
        BY <2>1, <2>3, <3>1 DEF Second, Request, TwoSteps
      <3>3. job[j].todo[1].what \in Ranges /\ db.setting[This] # None
        BY <2>3, <3>1, <3>2, RequestTypes DEF HalfServed, Accepts
      <3> QED
        BY <1>1, <2>1, <3>2, <3>3, MissingFillers
    <2>4. CASE Starts /\ job[j] = None
      <3>1. r.op # "insert"
        BY <2>1, <2>4, FirstRequest DEF Plain, Request
      <3> QED
        BY <2>1, <3>1
    <2> QED
      BY <2>1, <2>2, <2>3, <2>4, NextRequests
  <1> QED
    BY <1>2, <1>3 DEF Stored

LEMMA SpecStored ==
  Spec => []Stored
  <1>1. Init => Stored
    BY BeginningsOK DEF Init, Stored, Waiting
  <1>2. Typed /\ Stored /\ [Next]_vars => Stored'
    BY StoredKept
  <1> QED
    BY <1>1, <1>2, SpecTyped, PTL DEF Spec

\* A booking, ended or not, never loses the row of its slot, although hosts
\* clear and generate slots while bookers book and cancel.
THEOREM BookingsHaveSlots ==
  Spec => []BookingsKeepSlots
  <1>1. Stored => BookingsKeepSlots
    BY DEF Stored, BookingsKeepSlots
  <1> QED
    BY <1>1, SpecStored, PTL

\* Slots that are only marked or removed do not begin to overlap.
SlotsFrom(new, old) == \A s \in new : \E t \in old : s.date = t.date /\ s.from = t.from /\ s.to = t.to

LEMMA DisjointFrom ==
  ASSUME NEW old, Disjoint(old), NEW new, SlotsFrom(new, old), \A s, t \in new : At(s) = At(t) => s = t
  PROVE  Disjoint(new)
  <1> SUFFICES ASSUME NEW s \in new, NEW t \in new, s # t, s.date = t.date PROVE ~Meet(s, t)
    BY DEF Disjoint
  <1>1. PICK u \in old, v \in old : /\ s.date = u.date /\ s.from = u.from /\ s.to = u.to
                                    /\ t.date = v.date /\ t.from = v.from /\ t.to = v.to
    BY DEF SlotsFrom
  <1>2. u # v
    BY <1>1 DEF At
  <1>3. ~Meet(u, v)
    BY <1>1, <1>2 DEF Disjoint
  <1> QED
    BY <1>1, <1>3 DEF Meet

LEMMA CloseFrom ==
  ASSUME db \in Database, NEW b \in Books, db.booking[b] # None, NEW status \in BookStatuses, NEW frees \in BOOLEAN
  PROVE  SlotsFrom(Close(b, status, frees).slots, db.slots)
  BY ClosedSlots DEF SlotsFrom

LEMMA ServedFrom ==
  ASSUME db \in Database, Sound(db), Kept(db), NEW r \in Requests, Accepts(r), r.op \notin TwoSteps, r.op # "insert"
  PROVE  SlotsFrom(Served(r).slots, db.slots)
  <1>0. \A S \in SUBSET db.slots : SlotsFrom(S, db.slots)
    BY DEF SlotsFrom
  <1>1. CASE r.op \in {"clear", "delete", "discard"}
    <2>1. Served(r).slots \subseteq db.slots
      BY <1>1, ClearStored, DeleteStored, RequestTypes DEF Served
    <2> QED
      BY <1>0, <2>1
  <1>2. CASE r.op = "close"
    <2>1. r.what.book \in Books /\ r.what.frees \in BOOLEAN /\ db.booking[r.what.book] # None
      BY <1>2, RequestTypes DEF Accepts
    <2>2. Served(r) = Close(r.what.book, "REJECTED", r.what.frees)
      BY <1>2 DEF Served
    <2> QED
      BY <2>1, <2>2, CloseFrom DEF BookStatuses
  <1>3. CASE r.op \in {"rule", "unrule", "except", "unexcept", "grant", "complete", "activate", "update", "create",
                       "confirm"}
    <2>1. Served(r).slots = db.slots
      BY <1>3 DEF Served, CreateRule, DeleteRule, CreateOverride, DeleteOverride, Decide, CompleteSetup, ToggleActive,
                  UpdateSetting, CreateSetting, Confirm, Database
    <2> QED
      BY <1>0, <2>1
  <1> QED
    BY <1>1, <1>2, <1>3, RequestTypes DEF TwoSteps

\* Slots of a date that are all windows of one schedule do not overlap.
LEMMA InsertDisjoint ==
  ASSUME Typed, Stored, Disjoint(db.slots), db.setting[This] # None,
         NEW r \in Requests, r.op = "insert", Fillers(r.what), "grid" \notin Doubts(r)
  PROVE  Disjoint(Insert(r.what).slots)
  <1>1. PICK d : d = Insert(r.what)
    OBVIOUS
  <1>2. r.what \in SlotLists /\ db.slots \in SlotLists /\ db \in Database
    BY RequestTypes, DatabaseTypes DEF Typed
  <1>3. Sound(d) /\ \A s \in d.slots : s \in db.slots \/ s \in r.what
    BY <1>1, <1>2, InsertStored DEF Stored
  <1>4. \A t \in db.slots \cup r.what : t.date \in {s.date : s \in r.what} => Span(t) \in WindowsOf(t.date)
    BY DEF Doubts
  <1>5. ASSUME NEW s \in d.slots, NEW t \in d.slots, s # t, s.date = t.date, s \notin db.slots PROVE ~Meet(s, t)
    <2>1. s \in Slots /\ t \in Slots /\ s \in db.slots \cup r.what /\ t \in db.slots \cup r.what
      BY <1>2, <1>3 DEF SlotLists
    <2>2. Span(s) \in WindowsOf(s.date) /\ Span(t) \in WindowsOf(s.date) /\ s.date \in Dates
      BY <1>3, <1>4, <1>5, <2>1 DEF Slots
    <2>3. Span(s) # Span(t)
      <3>1. At(s) # At(t)
        BY <1>3, <1>5 DEF Sound
      <3> QED
        BY <1>5, <3>1 DEF At, Span, Interval
    <2>4. ~Meet(Span(s), Span(t))
      BY <1>2, <2>2, <2>3, WindowsOfTypes
    <2> QED
      BY <2>4 DEF Meet, Span, Interval
  <1>6. ASSUME NEW s \in d.slots, NEW t \in d.slots, s # t, s.date = t.date PROVE ~Meet(s, t)
    <2>1. CASE s \in db.slots /\ t \in db.slots
      BY <1>6, <2>1 DEF Disjoint
    <2>2. CASE s \notin db.slots
      BY <1>5, <1>6, <2>2
    <2>3. CASE t \notin db.slots
      <3>1. ~Meet(t, s)
        BY <1>5, <1>6, <2>3
      <3> QED
        BY <3>1 DEF Meet
    <2> QED
      BY <2>1, <2>2, <2>3
  <1> QED
    BY <1>1, <1>6 DEF Disjoint

LEMMA DisjointKept ==
  ASSUME Typed, Stored, Stored', SlotsDisjoint, [Next]_vars
  PROVE  SlotsDisjoint'
  <1> SUFFICES ASSUME "grid" \notin doubt' PROVE Disjoint(db'.slots)
    BY DEF SlotsDisjoint
  <1>1. Disjoint(db.slots) /\ db \in Database /\ Sound(db) /\ Kept(db)
    BY DoubtGrows DEF SlotsDisjoint, Typed, Stored
  <1>2. \A s, t \in db'.slots : At(s) = At(t) => s = t
    BY DEF Stored, Sound
  <1>3. ASSUME NEW j \in JobIds, ServedBy(j) PROVE Disjoint(db'.slots)
    <2>1. PICK r \in Requests : r = job[j].todo[1] /\ Accepts(r) /\ r.op \notin TwoSteps /\ db' = Served(r)
                                /\ doubt' = doubt \cup Doubts(r)
      BY <1>3, WaitingRequest DEF ServedBy
    <2>2. CASE r.op = "insert"
      <3>1. Fillers(r.what)
        BY <1>3, <2>1, <2>2 DEF Stored, Waiting, ServedBy
      <3>2. db' = Insert(r.what)
        BY <2>1, <2>2 DEF Served
      <3> QED
        BY <1>1, <2>1, <2>2, <3>1, <3>2, InsertDisjoint DEF Accepts
    <2>3. CASE r.op # "insert"
      <3>1. SlotsFrom(db'.slots, db.slots)
        BY <1>1, <2>1, <2>3, ServedFrom
      <3> QED
        BY <1>1, <1>2, <3>1, DisjointFrom
    <2> QED
      BY <2>2, <2>3
  <1>4. CASE Booked
    <2>1. SlotsFrom(db'.slots, db.slots)
      <3>1. ASSUME NEW b \in Books, db.booking[b] # None
            PROVE  SlotsFrom(Close(b, "CANCELLED", db.cancel[b] = "frees").slots, db.slots)
        BY <1>1, <3>1, CloseFrom DEF BookStatuses
      <3>2. SlotsFrom(db.slots, db.slots)
        BY DEF SlotsFrom
      <3>3. Book => SlotsFrom(db'.slots, db.slots)
        BY <1>1, BookStored DEF SlotsFrom
      <3> QED
        BY <1>1, <1>4, <3>1, <3>2, <3>3, Cancelling
    <2> QED
      BY <1>1, <1>2, <2>1, DisjointFrom
  <1> QED
    BY <1>1, <1>3, <1>4, Steps DEF HalfServed, Starts, Idle

\* Two slots of a date overlap only once slots were generated on a date whose
\* slots are not all windows of its rules, overrides and duration as they are
\* then: the edit page may have changed the duration, other pages the rules.
THEOREM SlotsKeepApart ==
  Spec => []SlotsDisjoint
  <1>1. Init => SlotsDisjoint
    BY BeginningsOK DEF Init, SlotsDisjoint
  <1>2. Typed /\ Stored /\ Stored' /\ SlotsDisjoint /\ [Next]_vars => SlotsDisjoint'
    BY DisjointKept
  <1> QED
    BY <1>1, <1>2, SpecTyped, SpecStored, PTL DEF Spec

----------------------------------------------------------------------------
(* The wizard shows that the page is set up. *)

Completed ==
  /\ page = "setup" /\ view.activated => This \notin db.fresh /\ (db.setting[This] = None \/ db.setting[This].setup)
  /\ \A j \in JobIds : Waiting(j, "complete") => job[j].todo[1].what = This

\* Only the answer to complete-setup activates the wizard.
Activation == page' = "setup" /\ view'.activated => page = "setup" /\ view.activated

LEMMA MountedWizard ==
  ASSUME NEW p, NEW jobs, Mount(p, jobs)
  PROVE  Activation
  <1>1. PICK q : MountSchedule(q) \/ MountPage(q)
    BY DEF Mount
  <1>2. ASSUME page' = "setup" PROVE view' = SetupView
    BY <1>1, <1>2 DEF MountSchedule, MountPage, Mounted
  <1> QED
    BY <1>2 DEF Activation, SetupView

\* What the wizard shows next leaves that alone.
LEMMA WizardFields ==
  ASSUME Typed, page = "setup"
  PROVE  /\ \A b : [view EXCEPT !.busy = b].activated = view.activated
         /\ \A e : [view EXCEPT !.error = e].activated = view.activated
         /\ \A kind, data : ScheduleShows(view, kind, data).activated = view.activated
         /\ \A kind, of : ScheduleFails(view, kind, of).activated = view.activated
  <1>1. view \in SetupState
    BY DEF Typed, Shown, SetupOK
  <1>2. PICK v \in SetupState : v = view
    BY <1>1
  <1>3. ASSUME NEW kind, NEW data PROVE ScheduleShows(v, kind, data).activated = v.activated
    BY DEF ScheduleShows, SetupState
  <1>4. ASSUME NEW kind, NEW of PROVE ScheduleFails(v, kind, of).activated = v.activated
    BY DEF ScheduleFails, SetupState
  <1>5. /\ \A b : [v EXCEPT !.busy = b].activated = v.activated
        /\ \A e : [v EXCEPT !.error = e].activated = v.activated
    BY DEF SetupState
  <1> QED
    BY <1>2, <1>3, <1>4, <1>5

LEMMA EnteredStep ==
  ASSUME NEW n, NEW v, v \in SetupState, EnterStep(n, v)
  PROVE  view'.activated = v.activated
  BY DEF EnterStep, SetupState

LEMMA WizardClicks ==
  ASSUME Typed, Clicks
  PROVE  Activation
  <1>1. ASSUME Open PROVE Activation
    BY <1>1, MountedWizard DEF Open
  <1>2. ASSUME PageActions PROVE page' = page /\ page # "setup"
    BY <1>2 DEF PageActions, ChooseStatus, ChooseListed, Turn, DeletePage, Create, Type, Save, ActivatePage, Discard, Editing,
       ChooseDay, OpenBookingModal, CloseBookingModal, ShowsSchedule, FilterBookings, DecideBooking, RejectWithoutReason,
       DecideUser, Retry, Show, Start, Rerun
  <1>3. ASSUME ScheduleActions, page = "setup" PROVE view'.activated = view.activated
    <2>1. view \in SetupState
      BY <1>3 DEF Typed, Shown, SetupOK
    <2>2. CASE RuleActions
      <3>1. ASSUME NEW todo, StartRules(todo) PROVE view' = [view EXCEPT !.busy = "yes", !.error = FALSE]
        BY <3>1 DEF StartRules, Start
      <3>2. ASSUME NEW e, Show([view EXCEPT !.error = e]) PROVE view' = [view EXCEPT !.error = e]
        BY <3>2 DEF Show
      <3>3. view' = [view EXCEPT !.busy = "yes", !.error = FALSE] \/ \E e : view' = [view EXCEPT !.error = e]
        BY <2>2, <3>1, <3>2 DEF RuleActions, AddRules, RemoveRule, ResetAll, TemplateBasic, TemplateLunch
      <3> QED
        BY <2>1, <3>3 DEF SetupState
    <2>3. CASE SlotActions
      <3>1. CASE ChooseWizardRange
        BY <2>1, <3>1 DEF ChooseWizardRange, SetupState
      <3>2. ASSUME NEW op, StartSlots(op) PROVE view' = [view EXCEPT !.busy = "yes", !.error = FALSE]
        BY <3>2 DEF StartSlots, Start
      <3> QED
        BY <1>3, <2>1, <2>3, <3>1, <3>2 DEF SlotActions, ChooseRange, SetupState
    <2>4. CASE OverrideActions
      <3>1. CASE ChooseException
        BY <2>1, <3>1 DEF ChooseException, SetupState
      <3>2. ASSUME NEW todo, StartOverrides(todo, "yes") PROVE view' = [view EXCEPT !.busy = "yes", !.error = FALSE]
        <4>1. "yes" # None
          BY HostConstantsOK
        <4> QED
          BY <3>2, <4>1 DEF StartOverrides, Start
      <3>3. ASSUME NEW e, Show([view EXCEPT !.error = e]) PROVE view' = [view EXCEPT !.error = e]
        BY <3>3 DEF Show
      <3>4. CASE AddOverride
        <4>1. view' = [view EXCEPT !.busy = "yes", !.error = FALSE] \/ \E e : view' = [view EXCEPT !.error = e]
          BY <3>2, <3>3, <3>4 DEF AddOverride
        <4> QED
          BY <2>1, <4>1 DEF SetupState
      <3>5. CASE RemoveOverrideWizard
        BY <2>1, <3>2, <3>5 DEF RemoveOverrideWizard, SetupState
      <3> QED
        BY <1>3, <2>4, <3>1, <3>4, <3>5 DEF OverrideActions, SubmitOverride, RemoveOverride
    <2>5. CASE WizardActions
      <3>1. CASE TurnStep
        BY <2>1, <3>1, EnteredStep DEF TurnStep
      <3>2. CASE Activate
        BY <2>1, <3>2 DEF Activate, Start, SetupState
      <3>3. CASE TurnMonth
        BY <2>1, <3>3 DEF TurnMonth, Rerun, SetupState
      <3> QED
        BY <2>5, <3>1, <3>2, <3>3 DEF WizardActions
    <2> QED
      BY <1>3, <2>2, <2>3, <2>4, <2>5 DEF ScheduleActions
  <1>4. ASSUME ScheduleActions PROVE page' = page
    BY <1>4 DEF ScheduleActions, RuleActions, AddRules, RemoveRule, ResetAll, TemplateBasic, TemplateLunch, StartRules,
       SlotActions, StartSlots, ChooseWizardRange, ChooseRange, OverrideActions, SubmitOverride, RemoveOverride, ChooseException,
       AddOverride, RemoveOverrideWizard, StartOverrides, WizardActions, TurnStep, Activate, TurnMonth, Show, Start, Rerun
  <1> QED
    BY <1>1, <1>2, <1>3, <1>4 DEF Clicks, Activation

LEMMA UnmarkedWizard ==
  ASSUME NEW v \in SetupState, NEW j
  PROVE  Unmarked(v, j).activated = v.activated
  BY DEF Unmarked, SetupState

LEMMA FailedWizard ==
  ASSUME Typed, page = "setup", NEW j \in JobIds, Mine(j)
  PROVE  Failed(view, j).activated = view.activated
  <1>1. view \in SetupState /\ Fits(job[j], page, view)
    BY DEF Typed, Shown, SetupOK, Functions, Mine
  <1>2. job[j].then # None => job[j].then.kind # "pending"
    BY <1>1 DEF Fits, JobOK, EndsOn, Mine
  <1>3. CASE job[j].then # None /\ job[j].then.kind = "count" /\ job[j].todo = <<>>
    <2>1. Failed(view, j) = Unmarked([view EXCEPT !.count = [of |-> job[j].then.of, n |-> 0]], j)
      BY <1>3 DEF Failed
    <2> QED
      BY <1>1, <2>1 DEF Unmarked, SetupState
  <1>4. CASE ~(job[j].then # None /\ job[j].then.kind = "count" /\ job[j].todo = <<>>)
    <2>1. Failed(view, j) = Unmarked([view EXCEPT !.error = TRUE], j)
      BY <1>2, <1>4 DEF Failed
    <2> QED
      BY <1>1, <2>1 DEF Unmarked, SetupState
  <1> QED
    BY <1>3, <1>4

LEMMA WizardServes ==
  ASSUME Typed, NEW j \in JobIds, Serve(j), job[j].todo[1].op # "complete"
  PROVE  Activation
  <1>1. PICK r, rest : r = Head(job[j].todo) /\ rest = Tail(job[j].todo)
    OBVIOUS
  <1>2. job[j] # None /\ job[j].todo # <<>> /\ Fits(job[j], page, view)
    BY DEF Serve, Typed, Functions
  <1>3. r = job[j].todo[1] /\ (job[j].mine => r.op \in OpsOn(page))
    BY <1>1, <1>2, NextRequest
  <1>4. ASSUME page = "setup", job[j].mine PROVE PageAfter(view, r) = view
    BY <1>3, <1>4 DEF OpsOn, PageAfter
  <1>5. CASE Mount(LeadsTo(r), [job EXCEPT ![j] = None])
    BY <1>5, MountedWizard
  <1>6. CASE page' = page /\ (MyView(j, PageAfter(view, r)) \/ MyView(j, Unmarked(PageAfter(view, r), j)))
    <2>1. ASSUME page = "setup" PROVE view'.activated = view.activated
      <3>1. view \in SetupState
        BY <2>1 DEF Typed, Shown, SetupOK
      <3> QED
        BY <1>4, <1>6, <2>1, <3>1, UnmarkedWizard DEF MyView
    <2> QED
      BY <1>6, <2>1 DEF Activation
  <1>7. CASE UNCHANGED <<page, view>>
    BY <1>7 DEF Activation
  <1>8. \/ UNCHANGED <<page, view>> \/ Mount(LeadsTo(r), [job EXCEPT ![j] = None])
        \/ page' = page /\ (MyView(j, PageAfter(view, r)) \/ MyView(j, Unmarked(PageAfter(view, r), j)))
    <2>1. r.op # "complete"
      BY <1>3
    <2> QED
      BY <1>1, <2>1 DEF Serve, WizardAfter
  <1> QED
    BY <1>5, <1>6, <1>7, <1>8

LEMMA WizardGoesOn ==
  ASSUME Typed, NEW j \in JobIds, Refuse(j) \/ Break(j) \/ ServeThen(j) \/ ThenArrives(j)
  PROVE  Activation
  <1>1. page' = page /\ job[j] # None
    BY DEF Refuse, Break, ServeThen, ThenArrives
  <1>2. ASSUME page = "setup" PROVE view'.activated = view.activated
    <2>1. view \in SetupState /\ Fits(job[j], page, view)
      BY <1>1, <1>2 DEF Typed, Shown, SetupOK, Functions
    <2>2. ASSUME MyView(j, Failed(view, j)) PROVE view'.activated = view.activated
      BY <1>1, <1>2, <2>2, FailedWizard DEF MyView, Mine
    <2>3. CASE ThenArrives(j)
      <3>1. PICK w : w = ThenShown(view, j)
        OBVIOUS
      <3>2. MyView(j, Unmarked(w, j)) /\ job[j].data # None
        BY <2>3, <3>1 DEF ThenArrives
      <3>3. CASE job[j].mine
        <4>1. job[j].then # None /\ job[j].then.kind \in {"rules", "count", "overrides", "setting"}
          BY <1>2, <2>1, <3>2, <3>3 DEF Fits, JobOK, Jobs, EndsOn
        <4>2. w \in {view} \cup {[view EXCEPT !.rules = job[j].data[1]], [view EXCEPT !.count = job[j].data[1]],
                                 [view EXCEPT !.overrides = job[j].data[1]]}
          BY <1>2, <3>1, <4>1 DEF ThenShown, ViewShows, ScheduleKinds, ScheduleShows, PageShows
        <4>3. Unmarked(w, j).activated = view.activated
          BY <2>1, <4>2 DEF Unmarked, SetupState
        <4> QED
          BY <3>2, <3>3, <4>3 DEF MyView
      <3>4. CASE ~job[j].mine
        BY <3>2, <3>4 DEF MyView
      <3> QED
        BY <3>3, <3>4
    <2>4. CASE Refuse(j) \/ Break(j)
      BY <2>2, <2>4 DEF Refuse, Break
    <2>5. CASE ServeThen(j)
      BY <2>2, <2>5 DEF ServeThen
    <2> QED
      BY <2>3, <2>4, <2>5
  <1> QED
    BY <1>1, <1>2 DEF Activation

LEMMA WizardEffects ==
  ASSUME Typed, Effects
  PROVE  Activation
  <1>1. CASE LoadArrives
    <2>1. PICK data : data = load.data[1]
      OBVIOUS
    <2>2. CASE load.kind = "wizard"
      <3>1. WizardArrives(data)
        BY <1>1, <2>1, <2>2 DEF LoadArrives
      <3>2. ASSUME data.setup PROVE Activation
        BY <3>1, <3>2, MountedWizard DEF WizardArrives
      <3>3. ASSUME ~data.setup, page = "setup" PROVE view'.activated = view.activated
        <4>1. view \in SetupState
          BY <3>3 DEF Typed, Shown, SetupOK
        <4>2. load \in Reading("wizard", None)
          BY <1>1, <2>2, <3>3 DEF LoadArrives, Typed, Shown, SetupOK, Reading
        <4>3. data \in Answered("wizard", None)
          BY <1>1, <2>1, <4>2 DEF LoadArrives, Reading, Data
        <4>4. data.rules \in RuleLists
          BY <4>3 DEF Answered
        <4>5. PICK v : v = [view EXCEPT !.loaded = TRUE, !.rules = data.rules]
          OBVIOUS
        <4>6. v \in SetupState /\ v.activated = view.activated
          BY <4>1, <4>4, <4>5 DEF SetupState
        <4>7. EnterStep(Resume(data.rules), v)
          BY <3>1, <3>3, <4>5 DEF WizardArrives
        <4> QED
          BY <4>6, <4>7, EnteredStep
      <3>4. ASSUME ~data.setup PROVE page' = page
        BY <3>1, <3>4 DEF WizardArrives
      <3> QED
        BY <3>2, <3>3, <3>4 DEF Activation
    <2>3. CASE load.kind # "wizard" /\ page \in {"home", "dashboard"}
      <3>1. ASSUME NEW items, HomeArrives(items) PROVE Activation \/ page' = page
        BY <3>1, MountedWizard DEF HomeArrives
      <3>2. ASSUME NEW items, RowArrives(items) PROVE page' = page
        BY <3>2 DEF RowArrives
      <3> QED
        BY <1>1, <2>1, <2>3, <3>1, <3>2 DEF LoadArrives, Activation
    <2>4. CASE load.kind # "wizard" /\ page \notin {"home", "dashboard"}
      <3>1. page' = page /\ (page = "setup" => view' = ViewShows(view, load.kind, data))
        BY <1>1, <2>1, <2>4 DEF LoadArrives
      <3>2. ASSUME page = "setup" PROVE load.kind \in {"overrides", "calendar"}
        BY <1>1, <2>4, <3>2 DEF LoadArrives, Typed, Shown, SetupOK, Reading
      <3>3. ASSUME page = "setup" PROVE view'.activated = view.activated
        BY <3>1, <3>2, <3>3, WizardFields DEF ViewShows, ScheduleKinds
      <3> QED
        BY <3>1, <3>3 DEF Activation
    <2> QED
      BY <2>2, <2>3, <2>4
  <1>2. CASE LoadFails
    <2>1. page' = page /\ load # None
          /\ view' = IF load.kind \in ScheduleKinds THEN ScheduleFails(view, load.kind, load.of) ELSE PageFails(view, load.kind)
      BY <1>2 DEF LoadFails
    <2>2. ASSUME page = "setup" PROVE view'.activated = view.activated
      <3>1. load.kind \in {"wizard", "overrides", "calendar"}
        BY <2>1, <2>2 DEF Typed, Shown, SetupOK, Reading
      <3> QED
        BY <2>1, <2>2, <3>1, WizardFields DEF PageFails, ScheduleKinds
    <2> QED
      BY <2>1, <2>2 DEF Activation
  <1>3. CASE AuxFails \/ AuxArrives
    <2>1. page' = page /\ aux # None
          /\ \/ view' = IF aux.kind \in ScheduleKinds THEN ScheduleFails(view, aux.kind, aux.of) ELSE PageFails(view, aux.kind)
             \/ view' = ViewShows(view, aux.kind, aux.data[1])
      BY <1>3 DEF AuxFails, AuxArrives
    <2>2. ASSUME page = "setup" PROVE view'.activated = view.activated
      <3>1. aux.kind = "day"
        BY <2>1, <2>2, AuxQuery
      <3> QED
        BY <2>1, <2>2, <3>1, WizardFields DEF ViewShows, ScheduleKinds
    <2> QED
      BY <2>1, <2>2 DEF Activation
  <1>4. CASE ScheduleArrives
    <2>1. page' = page /\ page # "setup"
      BY <1>4, ScheduleRead DEF ScheduleArrives
    <2> QED
      BY <2>1 DEF Activation
  <1>5. CASE ServeLoad \/ ServeAux \/ ServeSchedule
    BY <1>5 DEF ServeLoad, ServeAux, ServeSchedule, Activation
  <1> QED
    BY <1>1, <1>2, <1>3, <1>4, <1>5 DEF Effects

LEMMA WizardSteps ==
  ASSUME Typed, [Next]_vars
  PROVE  Activation \/ \E j \in JobIds : ServedBy(j) /\ job[j].todo[1].op = "complete"
  <1>1. CASE UNCHANGED vars \/ Others
    BY <1>1 DEF vars, Others, Activation
  <1>2. ASSUME NEW j \in JobIds, Serve(j), job[j].todo[1].op = "complete" PROVE ServedBy(j)
    BY <1>2, ServeSteps DEF HalfServed, TwoSteps
  <1>3. CASE Function
    BY <1>2, <1>3, WizardServes, WizardGoesOn DEF Function
  <1> QED
    BY <1>1, <1>3, WizardClicks, WizardEffects DEF Next

\* The pages after a request.
LEMMA ServedPages ==
  ASSUME db \in Database, Sound(db), NEW r \in Requests, r.op \notin TwoSteps, Accepts(r), NEW d, d = Served(r)
  PROVE  /\ d.fresh \subseteq db.fresh
         /\ r.op = "complete" => /\ d.setting[r.what].setup /\ r.what \in Pages \ db.fresh
                                 /\ \A p \in Pages \ {r.what} : d.setting[p] = db.setting[p]
         /\ r.op # "complete" => \A p \in Pages : \/ d.setting[p] = None
                                                  \/ p \in db.fresh /\ ~d.setting[p].setup
                                                  \/ db.setting[p] # None /\ d.setting[p].setup = db.setting[p].setup
  <1>1. PICK f : f = db.setting /\ f \in [Pages -> Settings \cup {None}]
    BY DatabaseTypes
  <1>2. PICK w : w = r.what
    OBVIOUS
  <1>3. CASE r.op = "complete"
    <2>1. w \in Pages /\ f[w] # None /\ f[w] \in Settings
      BY <1>1, <1>2, <1>3, RequestTypes DEF Accepts
    <2>2. d.fresh = db.fresh /\ d.setting = [f EXCEPT ![w].setup = TRUE, ![w].active = TRUE]
      BY <1>1, <1>2, <1>3 DEF Served, CompleteSetup, Database
    <2>3. d.setting[w].setup /\ \A p \in Pages \ {w} : d.setting[p] = f[p]
      BY <1>1, <2>1, <2>2 DEF Settings
    <2> QED
      BY <1>1, <1>2, <1>3, <2>1, <2>2, <2>3 DEF Sound
  <1>4. CASE r.op \in {"activate", "update"}
    <2>1. PICK p \in Pages, s \in Settings : d.setting = [f EXCEPT ![p] = s] /\ f[p] # None /\ s.setup = f[p].setup
      <3>1. CASE r.op = "activate"
        <4>1. w \in Pages /\ f[w] # None /\ f[w] \in Settings
          BY <1>1, <1>2, <3>1, RequestTypes DEF Accepts
        <4>2. d.setting = [f EXCEPT ![w].active = TRUE]
          BY <1>1, <1>2, <3>1 DEF Served, ToggleActive, Database
        <4>3. PICK s : s = [f[w] EXCEPT !.active = TRUE]
          OBVIOUS
        <4>4. s \in Settings /\ s.setup = f[w].setup /\ d.setting = [f EXCEPT ![w] = s]
          BY <4>1, <4>2, <4>3 DEF Settings
        <4> QED
          BY <4>1, <4>4
      <3>2. CASE r.op = "update"
        <4>1. w.page \in Pages /\ w.form \in Settings /\ f[w.page] # None /\ f[w.page] \in Settings
          BY <1>1, <1>2, <3>2, RequestTypes DEF Accepts
        <4>2. PICK s : s = [f[w.page] EXCEPT !.slug = w.form.slug, !.mins = w.form.mins, !.listed = w.form.listed]
          OBVIOUS
        <4>3. d.setting = [f EXCEPT ![w.page] = s]
          BY <1>1, <1>2, <3>2, <4>2 DEF Served, UpdateSetting, Database
        <4>4. s \in Settings /\ s.setup = f[w.page].setup
          BY <4>1, <4>2 DEF Settings
        <4> QED
          BY <4>1, <4>3, <4>4
      <3> QED
        BY <1>4, <3>1, <3>2
    <2>2. d.fresh = db.fresh
      BY <1>4 DEF Served, ToggleActive, UpdateSetting, Database
    <2>3. \A q \in Pages : d.setting[q] = IF q = p THEN s ELSE f[q]
      BY <1>1, <2>1
    <2>4. ASSUME NEW q \in Pages PROVE d.setting[q] = None \/ (f[q] # None /\ d.setting[q].setup = f[q].setup)
      BY <2>1, <2>3
    <2> QED
      BY <1>1, <1>4, <2>2, <2>4
  <1>5. CASE r.op = "create"
    <2>1. PICK p \in db.fresh : p = NewId
      BY <1>5 DEF Accepts, NewId
    <2>2. /\ d.fresh = db.fresh \ {p}
          /\ d.setting = [f EXCEPT ![p] = [slug |-> w.slug, mins |-> w.mins, listed |-> w.listed, setup |-> FALSE, active |-> FALSE]]
      BY <1>1, <1>2, <1>5, <2>1 DEF Served, CreateSetting, Database
    <2>3. p \in Pages
      BY DatabaseTypes
    <2>4. ~d.setting[p].setup /\ \A q \in Pages \ {p} : d.setting[q] = f[q]
      BY <1>1, <2>2, <2>3
    <2> QED
      BY <1>1, <1>5, <2>2, <2>4
  <1>6. CASE r.op \in {"delete", "discard"}
    <2>1. d.fresh = db.fresh /\ d.setting = [f EXCEPT ![w] = None]
      BY <1>1, <1>2, <1>6 DEF Served, DeleteSetting, Database
    <2>2. ASSUME NEW q \in Pages PROVE d.setting[q] = None \/ d.setting[q] = f[q]
      BY <1>1, <2>1
    <2> QED
      BY <1>1, <1>6, <2>1, <2>2
  <1>7. CASE r.op \in {"rule", "unrule", "except", "unexcept", "insert", "clear", "confirm", "close", "grant"}
    <2>1. d.fresh = db.fresh /\ d.setting = db.setting
      BY <1>7 DEF Served, CreateRule, DeleteRule, CreateOverride, DeleteOverride, Insert, Clear, Confirm, Close, Decide, Database
    <2> QED
      BY <1>1, <1>7, <2>1
  <1> QED
    BY <1>3, <1>4, <1>5, <1>6, <1>7, RequestTypes DEF TwoSteps

LEMMA CompletedKept ==
  ASSUME Typed, Stored, Completed, [Next]_vars
  PROVE  Completed'
  <1>1. db \in Database /\ Sound(db) /\ This \in Pages
    BY HostConstantsOK DEF Typed, Stored
  <1>2. ASSUME NEW j \in JobIds, Waiting(j, "complete")' PROVE job'[j].todo[1].what = This
    <2>1. PICK r : r = job'[j].todo[1] /\ r.op = "complete" /\ job'[j] # None /\ job'[j].todo # <<>>
      BY <1>2 DEF Waiting
    <2>2. CASE job[j] # None /\ job[j].todo # <<>> /\ r = job[j].todo[1]
      BY <2>1, <2>2 DEF Completed, Waiting
    <2>3. CASE HalfServed(j) /\ r = Second(job[j].todo[1])
      BY <2>1, <2>3 DEF HalfServed, TwoSteps, Second, Request
    <2>4. CASE Starts /\ job[j] = None
      BY <2>1, <2>4, FirstRequest DEF Plain, Request
    <2> QED
      BY <2>1, <2>2, <2>3, <2>4, NextRequests
  <1>3. ASSUME NEW j \in JobIds, ServedBy(j)
        PROVE  /\ job[j].todo[1] \in Requests /\ Accepts(job[j].todo[1]) /\ job[j].todo[1].op \notin TwoSteps
               /\ db' = Served(job[j].todo[1])
    BY <1>3, WaitingRequest DEF ServedBy
  <1>4. ASSUME This \notin db.fresh, db.setting[This] = None \/ db.setting[This].setup
        PROVE  This \notin db'.fresh /\ (db'.setting[This] = None \/ db'.setting[This].setup)
    <2>1. ASSUME NEW j \in JobIds, ServedBy(j) PROVE This \notin db'.fresh /\ (db'.setting[This] = None \/ db'.setting[This].setup)
      <3>1. PICK r, d : r \in Requests /\ r = job[j].todo[1] /\ d = Served(r)
        BY <1>3, <2>1
      <3>2. Accepts(r) /\ r.op \notin TwoSteps /\ db' = d
        BY <1>3, <2>1, <3>1
      <3>3. d.fresh \subseteq db.fresh
        BY <1>1, <3>1, <3>2, ServedPages
      <3>4. CASE r.op = "complete"
        <4>1. d.setting[r.what].setup /\ \A p \in Pages \ {r.what} : d.setting[p] = db.setting[p]
          BY <1>1, <3>1, <3>2, <3>4, ServedPages
        <4> QED
          BY <1>1, <1>4, <3>2, <3>3, <4>1
      <3>5. CASE r.op # "complete"
        <4>1. \/ d.setting[This] = None \/ This \in db.fresh
              \/ db.setting[This] # None /\ d.setting[This].setup = db.setting[This].setup
          BY <1>1, <3>1, <3>2, <3>5, ServedPages
        <4> QED
          BY <1>4, <3>2, <3>3, <4>1
      <3> QED
        BY <3>4, <3>5
    <2>2. ASSUME db'.fresh = db.fresh, db'.setting = db.setting
          PROVE  This \notin db'.fresh /\ (db'.setting[This] = None \/ db'.setting[This].setup)
      BY <1>4, <2>2
    <2> QED
      BY <1>1, <2>1, <2>2, Steps, BookedKeeps DEF HalfServed, Starts, Idle
  <1>5. ASSUME NEW j \in JobIds, ServedBy(j), job[j].todo[1].op = "complete"
        PROVE  This \notin db'.fresh /\ db'.setting[This].setup
    <2>1. PICK r, d : r \in Requests /\ r = job[j].todo[1] /\ d = Served(r)
      BY <1>3, <1>5
    <2>2. Accepts(r) /\ r.op \notin TwoSteps /\ db' = d
      BY <1>3, <1>5, <2>1
    <2>3. r.what = This
      BY <1>5, <2>1 DEF Completed, Waiting, ServedBy
    <2>4. d.fresh \subseteq db.fresh /\ d.setting[r.what].setup /\ r.what \in Pages \ db.fresh
      BY <1>1, <1>5, <2>1, <2>2, ServedPages
    <2> QED
      BY <2>2, <2>3, <2>4
  <1>6. ASSUME page' = "setup", view'.activated PROVE This \notin db'.fresh /\ (db'.setting[This] = None \/ db'.setting[This].setup)
    <2>1. CASE page = "setup" /\ view.activated
      BY <1>4, <2>1 DEF Completed
    <2> QED
      BY <1>5, <1>6, <2>1, WizardSteps DEF Activation
  <1> QED
    BY <1>2, <1>6 DEF Completed

LEMMA SpecCompleted ==
  Spec => []Completed
  <1>1. Init => Completed
    BY DEF Init, Completed, Waiting
  <1>2. Typed /\ Stored /\ Completed /\ [Next]_vars => Completed'
    BY CompletedKept
  <1> QED
    BY <1>1, <1>2, SpecTyped, SpecStored, PTL DEF Spec

\* The wizard shows the page as set up only when the server has it so: its
\* setup is never undone, and the id of a page that was deleted meanwhile is
\* not given to another one.
THEOREM ActivatedPagesAreSetUp ==
  Spec => []ActivatedIsCompleted
  <1>1. Completed => ActivatedIsCompleted
    BY DEF Completed, ActivatedIsCompleted
  <1> QED
    BY <1>1, SpecCompleted, PTL

----------------------------------------------------------------------------
(* A page whose setup is complete is not discarded as a draft. *)

Unset(p) == db.setting[p] = None \/ ~db.setting[p].setup

\* What the form of a draft shows, or is about to show, is a draft.
Drafted ==
  "completed" \notin doubt =>
    /\ \A j \in JobIds : Waiting(j, "discard") => Unset(job[j].todo[1].what)
    /\ page = "edit" /\ view.form # None /\ ~view.form.setup => Unset(view.id)
    /\ page = "edit" /\ load # None /\ load.data # None /\ ~load.data[1].setup => Unset(view.id)

\* What a step does to the form and to its effect.
NewForm == view' = EditView(This) /\ load' = Effect("setting", This)
FormKept ==
  /\ view'.id = view.id
  /\ \/ view'.form = view.form
     \/ view.form # None /\ view'.form # None /\ view'.form.setup = view.form.setup
     \/ load # None /\ load.data # None /\ view'.form = load.data[1]
LoadKept == \/ load' \in {load, None}
            \/ /\ db' = db /\ db.setting[view.id] # None
               /\ load'.data[1] = db.setting[view.id]
Formed == page' = "edit" => NewForm \/ (page = "edit" /\ FormKept /\ LoadKept)

LEMMA MountedForm ==
  ASSUME NEW p, NEW jobs, Mount(p, jobs)
  PROVE  Formed
  <1>1. PICK q : MountSchedule(q) \/ MountPage(q)
    BY DEF Mount
  <1>2. ASSUME page' = "edit" PROVE NewForm
    BY <1>1, <1>2 DEF MountSchedule, MountPage, Mounted, NewForm
  <1> QED
    BY <1>2 DEF Formed

LEMMA FormStays ==
  ASSUME UNCHANGED <<page, load>>, page = "edit" => view'.id = view.id /\ view'.form = view.form
  PROVE  Formed
  BY DEF Formed, FormKept, LoadKept

LEMMA FormClicks ==
  ASSUME Typed, Clicks
  PROVE  Formed
  <1>1. ASSUME Open PROVE Formed
    BY <1>1, MountedForm DEF Open
  <1>2. ASSUME ScheduleActions PROVE page' = page /\ page # "edit"
    <2>1. page' = page
      BY <1>2 DEF ScheduleActions, RuleActions, AddRules, RemoveRule, ResetAll, TemplateBasic, TemplateLunch, StartRules,
         SlotActions, StartSlots, ChooseWizardRange, ChooseRange, OverrideActions, SubmitOverride, RemoveOverride,
         ChooseException, AddOverride, RemoveOverrideWizard, StartOverrides, WizardActions, TurnStep, Activate, TurnMonth,
         Show, Start, Rerun
    <2>2. page # "edit"
      BY <1>2 DEF ScheduleActions, RuleActions, RulesShown, SlotActions, StartSlots, SlotsShown, ChooseWizardRange, ChooseRange,
         OverrideActions, SubmitOverride, RemoveOverride, ChooseException, AddOverride, RemoveOverrideWizard, WizardAt,
         WizardActions, TurnStep, Activate, TurnMonth
    <2> QED
      BY <2>1, <2>2
  <1>3. ASSUME page = "edit" PROVE view \in EditState
    BY <1>3 DEF Typed, Shown, EditOK
  <1>4. CASE Type
    <2>1. PICK s \in Slugs, m \in Durations, l \in BOOLEAN :
            Show([view EXCEPT !.form.slug = s, !.form.mins = m, !.form.listed = l])
      BY <1>4 DEF Type
    <2>2. page = "edit" /\ view.form # None /\ view.form \in Settings /\ UNCHANGED <<page, load>>
      BY <1>3, <1>4, <2>1 DEF Type, Editing, Show, EditState
    <2>3. PICK form : form = [view.form EXCEPT !.slug = s, !.mins = m, !.listed = l]
      OBVIOUS
    <2>4. form.setup = view.form.setup /\ form \in Settings
      BY <2>2, <2>3, PageConstantsOK, HostConstantsOK DEF Settings
    <2>5. view' = [view EXCEPT !.form = form]
      BY <1>3, <2>1, <2>2, <2>3 DEF Show, EditState
    <2>6. view'.id = view.id /\ view'.form = form
      BY <1>3, <2>2, <2>5 DEF EditState
    <2>7. form # None
      BY <2>4, NoneIsNoRecord
    <2> QED
      BY <2>2, <2>4, <2>6, <2>7 DEF Formed, FormKept, LoadKept
  <1>5. CASE Save \/ ActivatePage \/ Discard
    <2>1. page = "edit" /\ UNCHANGED <<page, load>>
          /\ view' \in {[view EXCEPT !.busy = "yes", !.error = FALSE], [view EXCEPT !.error = FALSE]}
      BY <1>5 DEF Save, ActivatePage, Discard, Editing, Start
    <2>2. view'.id = view.id /\ view'.form = view.form
      BY <1>3, <2>1 DEF EditState
    <2> QED
      BY <2>1, <2>2, FormStays
  <1>6. ASSUME PageActions, ~(Type \/ Save \/ ActivatePage \/ Discard) PROVE page' = page /\ page # "edit"
    BY <1>6 DEF PageActions, ChooseStatus, ChooseListed, Turn, DeletePage, Create,
       ChooseDay, OpenBookingModal, CloseBookingModal, ShowsSchedule, FilterBookings, DecideBooking, RejectWithoutReason,
       DecideUser, Retry, Show, Start, Rerun
  <1> QED
    BY <1>1, <1>2, <1>4, <1>5, <1>6 DEF Clicks, Formed

LEMMA FormServes ==
  ASSUME Typed, NEW j \in JobIds, Serve(j)
  PROVE  Formed
  <1>1. PICK r, rest : r = Head(job[j].todo) /\ rest = Tail(job[j].todo)
    OBVIOUS
  <1>2. job[j] # None /\ job[j].todo # <<>> /\ Fits(job[j], page, view)
    BY DEF Serve, Typed, Functions
  <1>3. job[j].mine => r.op \in OpsOn(page)
    BY <1>1, <1>2, NextRequest
  <1>4. CASE Mount(LeadsTo(r), [job EXCEPT ![j] = None])
    BY <1>4, MountedForm
  <1>5. CASE r.op = "complete" /\ job[j].mine
    <2>1. page # "edit"
      BY <1>3, <1>5 DEF OpsOn
    <2>2. page' = page \/ Mount(LeadsTo(r), [job EXCEPT ![j] = None])
      BY <1>1 DEF Serve
    <2> QED
      BY <1>4, <2>1, <2>2 DEF Formed
  <1>6. CASE UNCHANGED <<page, load>> /\ (MyView(j, PageAfter(view, r)) \/ MyView(j, Unmarked(PageAfter(view, r), j)))
    <2>1. CASE page = "edit" /\ job[j].mine
      <3>1. view \in EditState /\ view.form # None /\ view.form \in Settings
        BY <1>2, <2>1 DEF Typed, Shown, EditOK, Fits, EditState
      <3>2. PICK w : w = PageAfter(view, r)
        OBVIOUS
      <3>3. w = view \/ (r.op = "activate" /\ w = [view EXCEPT !.form.active = TRUE])
        BY <1>3, <2>1, <3>2 DEF OpsOn, PageAfter
      <3>4. CASE w = view
        <4>1. view'.id = view.id /\ view'.form = view.form
          BY <1>6, <2>1, <3>1, <3>2, <3>4 DEF MyView, Unmarked, EditState
        <4> QED
          BY <1>6, <4>1, FormStays
      <3>5. CASE w = [view EXCEPT !.form.active = TRUE]
        <4>1. PICK form : form = [view.form EXCEPT !.active = TRUE]
          OBVIOUS
        <4>2. form.setup = view.form.setup /\ form \in Settings
          BY <3>1, <4>1 DEF Settings
        <4>3. w = [view EXCEPT !.form = form]
          BY <3>1, <3>5, <4>1 DEF EditState
        <4>4. view'.id = view.id /\ view'.form = form
          BY <1>6, <2>1, <3>1, <3>2, <4>3 DEF MyView, Unmarked, EditState
        <4>5. form # None
          BY <4>2, NoneIsNoRecord
        <4> QED
          BY <1>6, <2>1, <3>1, <4>2, <4>4, <4>5 DEF Formed, FormKept, LoadKept
      <3> QED
        BY <3>3, <3>4, <3>5
    <2>2. CASE ~(page = "edit" /\ job[j].mine)
      BY <1>6, <2>2, FormStays DEF MyView
    <2> QED
      BY <2>1, <2>2
  <1>7. CASE UNCHANGED <<page, view, load>>
    BY <1>7, FormStays
  <1>8. \/ UNCHANGED <<page, view, load>> \/ Mount(LeadsTo(r), [job EXCEPT ![j] = None]) \/ (r.op = "complete" /\ job[j].mine)
        \/ UNCHANGED <<page, load>> /\ (MyView(j, PageAfter(view, r)) \/ MyView(j, Unmarked(PageAfter(view, r), j)))
    BY <1>1 DEF Serve, WizardAfter
  <1> QED
    BY <1>4, <1>5, <1>6, <1>7, <1>8

LEMMA FormGoesOn ==
  ASSUME Typed, NEW j \in JobIds, Refuse(j) \/ Break(j) \/ ServeThen(j) \/ ThenArrives(j)
  PROVE  Formed
  <1>1. UNCHANGED <<page, load>> /\ job[j] # None
    BY DEF Refuse, Break, ServeThen, ThenArrives
  <1>2. \/ view' = view \/ MyView(j, Failed(view, j))
        \/ job[j].data # None /\ MyView(j, Unmarked(ThenShown(view, j), j))
    BY DEF Refuse, Break, ServeThen, ThenArrives
  <1>3. ASSUME page = "edit" PROVE view'.id = view.id /\ view'.form = view.form
    <2>1. view \in EditState /\ Fits(job[j], page, view)
      BY <1>1, <1>3 DEF Typed, Shown, EditOK, Functions
    <2>2. ASSUME job[j].mine PROVE job[j].then = None /\ job[j].data = None
      BY <1>3, <2>1, <2>2 DEF Fits, JobOK, Jobs, EndsOn
    <2>3. ASSUME job[j].mine PROVE Failed(view, j) = Unmarked([view EXCEPT !.error = TRUE], j)
      BY <2>2, <2>3 DEF Failed
    <2> QED
      BY <1>2, <2>1, <2>2, <2>3 DEF MyView, Unmarked, EditState
  <1> QED
    BY <1>1, <1>3, FormStays

LEMMA FormEffects ==
  ASSUME Typed, Effects
  PROVE  Formed
  <1>1. ASSUME page = "edit" PROVE view \in EditState /\ load \in {None} \cup Reading("setting", view.id) /\ aux \in {None} \cup Reading("preview", view.id)
    BY <1>1 DEF Typed, Shown, EditOK
  <1>2. ASSUME page = "edit", load # None PROVE load.kind = "setting" /\ load.of = view.id /\ load.data \in Data("setting", view.id)
    BY <1>1, <1>2 DEF Reading
  <1>3. CASE page = "edit" /\ ServeLoad
    <2>1. load # None /\ Answers(load.kind, load.of) /\ load' = [load EXCEPT !.data = <<Answer(load.kind, load.of)>>]
          /\ UNCHANGED <<db, page, view>>
      BY <1>3 DEF ServeLoad, NotLoading
    <2>2. db.setting[view.id] # None /\ load' = [load EXCEPT !.data = <<db.setting[view.id]>>]
      BY <1>2, <1>3, <2>1 DEF Answers, Answer
    <2>3. load'.data[1] = db.setting[view.id]
      BY <1>1, <1>3, <2>1, <2>2 DEF Reading
    <2> QED
      BY <1>3, <2>1, <2>2, <2>3 DEF Formed, FormKept, LoadKept
  <1>4. CASE page = "edit" /\ LoadFails
    <2>1. load' = None /\ page' = page /\ view' = [view EXCEPT !.error = TRUE]
      BY <1>2, <1>4 DEF LoadFails, ScheduleKinds, PageFails
    <2>2. view'.id = view.id /\ view'.form = view.form
      BY <1>1, <1>4, <2>1 DEF EditState
    <2> QED
      BY <1>4, <2>1, <2>2 DEF Formed, FormKept, LoadKept
  <1>5. CASE page = "edit" /\ LoadArrives
    <2>1. load # None /\ load.data # None /\ load.kind = "setting"
      BY <1>2, <1>5 DEF LoadArrives
    <2>2. load' = None /\ view' = ViewShows(view, "setting", load.data[1]) /\ page' = page
      BY <1>5, <2>1 DEF LoadArrives
    <2>3. view' = [view EXCEPT !.form = load.data[1], !.error = FALSE]
      BY <1>5, <2>2 DEF ViewShows, ScheduleKinds, PageShows
    <2>4. view'.id = view.id /\ view'.form = load.data[1]
      BY <1>1, <1>5, <2>3 DEF EditState
    <2> QED
      BY <1>5, <2>1, <2>2, <2>4 DEF Formed, FormKept, LoadKept
  <1>6. CASE page = "edit" /\ (AuxFails \/ AuxArrives)
    <2>1. UNCHANGED <<page, load>> /\ aux # None
          /\ \/ view' = IF aux.kind \in ScheduleKinds THEN ScheduleFails(view, aux.kind, aux.of) ELSE PageFails(view, aux.kind)
             \/ view' = ViewShows(view, aux.kind, aux.data[1])
      BY <1>6 DEF AuxFails, AuxArrives
    <2>2. aux.kind = "preview"
      BY <1>1, <1>6, <2>1 DEF Reading
    <2>3. view' \in {[view EXCEPT !.preview = None], [view EXCEPT !.preview = aux.data[1]]}
      BY <2>1, <2>2 DEF ViewShows, ScheduleKinds, PageShows, PageFails
    <2>4. view'.id = view.id /\ view'.form = view.form
      BY <1>1, <1>6, <2>3 DEF EditState
    <2> QED
      BY <2>1, <2>4, FormStays
  <1>7. CASE page = "edit" /\ ScheduleArrives
    BY <1>7, ScheduleRead DEF ScheduleArrives
  <1>8. CASE ServeAux \/ ServeSchedule
    BY <1>8, FormStays DEF ServeAux, ServeSchedule
  <1>9. CASE page # "edit"
    <2>1. page' = page \/ \E p : Mount(p, job)
      <3>1. ASSUME NEW data, WizardArrives(data) PROVE page' = page \/ \E p : Mount(p, job)
        BY <3>1 DEF WizardArrives
      <3>2. ASSUME NEW items, HomeArrives(items) \/ RowArrives(items) PROVE page' = page \/ \E p : Mount(p, job)
        BY <3>2 DEF HomeArrives, RowArrives
      <3>3. CASE LoadArrives
        BY <3>1, <3>2, <3>3 DEF LoadArrives
      <3> QED
        BY <3>3 DEF Effects, ServeLoad, LoadFails, ServeAux, AuxFails, AuxArrives, ServeSchedule, ScheduleArrives
    <2> QED
      BY <1>9, <2>1, MountedForm DEF Formed
  <1> QED
    BY <1>3, <1>4, <1>5, <1>6, <1>7, <1>8, <1>9 DEF Effects

LEMMA FormSteps ==
  ASSUME Typed, [Next]_vars
  PROVE  Formed
  <1>1. CASE UNCHANGED vars \/ Others
    BY <1>1, FormStays DEF vars, Others
  <1> QED
    BY <1>1, FormClicks, FormServes, FormGoesOn, FormEffects DEF Next, Function

\* Only complete-setup sets up a page that was not, and then it is known.
LEMMA UnsetKept ==
  ASSUME Typed, Stored, [Next]_vars, "completed" \notin doubt', NEW p \in Pages, Unset(p),
         page = "edit" \/ \E j \in JobIds : Waiting(j, "discard")
  PROVE  Unset(p)'
  <1>1. db \in Database /\ Sound(db)
    BY DEF Typed, Stored
  <1>2. ASSUME NEW j \in JobIds, ServedBy(j) PROVE Unset(p)'
    <2>1. PICK r, d : r \in Requests /\ r = job[j].todo[1] /\ d = Served(r) /\ Accepts(r) /\ r.op \notin TwoSteps /\ db' = d
                                   /\ doubt' = doubt \cup Doubts(r)
      BY <1>2, WaitingRequest DEF ServedBy
    <2>2. r.op # "complete"
      <3>1. \A i \in JobIds : Waiting(i, "discard") => i \in Running /\ job[i].todo # <<>> /\ job[i].todo[1].op = "discard"
        BY DEF Waiting, Running
      <3>2. ASSUME r.op = "complete" PROVE "completed" \in Doubts(r)
        BY <3>1, <3>2 DEF Doubts
      <3> QED
        BY <2>1, <3>2
    <2>3. \/ d.setting[p] = None \/ ~d.setting[p].setup
          \/ db.setting[p] # None /\ d.setting[p].setup = db.setting[p].setup
      BY <1>1, <2>1, <2>2, ServedPages
    <2> QED
      BY <2>1, <2>3 DEF Unset
  <1>3. ASSUME db'.setting = db.setting PROVE Unset(p)'
    BY <1>3 DEF Unset
  <1> QED
    BY <1>1, <1>2, <1>3, Steps, BookedKeeps DEF HalfServed, Starts, Idle

LEMMA DraftedKept ==
  ASSUME Typed, Stored, Drafted, [Next]_vars
  PROVE  Drafted'
  <1> SUFFICES ASSUME "completed" \notin doubt'
               PROVE  /\ \A j \in JobIds : Waiting(j, "discard")' => Unset(job[j].todo[1].what)'
                      /\ page' = "edit" /\ view'.form # None /\ ~view'.form.setup => Unset(view.id)'
                      /\ page' = "edit" /\ load' # None /\ load'.data # None /\ ~load'.data[1].setup => Unset(view.id)'
    BY DEF Drafted
  <1>1. /\ \A j \in JobIds : Waiting(j, "discard") => Unset(job[j].todo[1].what)
        /\ page = "edit" /\ view.form # None /\ ~view.form.setup => Unset(view.id)
        /\ page = "edit" /\ load # None /\ load.data # None /\ ~load.data[1].setup => Unset(view.id)
    BY DoubtGrows DEF Drafted
  <1>2. page = "edit" => view.id \in Pages
    BY DEF Typed, Shown, EditOK, EditState
  <1>3. ASSUME NEW j \in JobIds, Waiting(j, "discard")' PROVE Unset(job[j].todo[1].what)'
    <2>1. PICK r : r = job'[j].todo[1] /\ r.op = "discard" /\ job'[j] # None /\ job'[j].todo # <<>>
      BY <1>3 DEF Waiting
    <2>2. CASE job[j] # None /\ job[j].todo # <<>> /\ r = job[j].todo[1]
      <3>1. Waiting(j, "discard") /\ r.what \in Pages
        BY <2>1, <2>2, WaitingRequest, RequestTypes DEF Waiting
      <3>2. PICK p \in Pages : p = r.what
        BY <3>1
      <3>3. Unset(p)'
        BY <1>1, <2>2, <3>1, <3>2, UnsetKept
      <3> QED
        BY <2>1, <3>2, <3>3 DEF Unset
    <2>3. CASE HalfServed(j) /\ r = Second(job[j].todo[1])
      BY <2>1, <2>3 DEF HalfServed, TwoSteps, Second, Request
    <2>4. CASE Starts /\ job[j] = None
      <3>1. page = "edit" /\ view.form # None /\ ~view.form.setup /\ r = Request("discard", view.id) /\ db' = db
        BY <2>1, <2>4, FirstRequest DEF Plain, Request
      <3>2. Unset(view.id) /\ r.what = view.id
        BY <1>1, <3>1 DEF Request
      <3> QED
        BY <2>1, <3>1, <3>2 DEF Unset
    <2> QED
      BY <2>1, <2>2, <2>3, <2>4, NextRequests
  <1>4. ASSUME page' = "edit", NewForm
        PROVE  view'.form = None /\ load'.data = None
    BY <1>4 DEF NewForm, EditView, Effect
  <1>5. ASSUME page = "edit", FormKept, Unset(view.id) PROVE Unset(view.id)'
    <2>1. PICK p \in Pages : p = view.id
      BY <1>2, <1>5
    <2>2. Unset(p)' /\ view'.id = p
      BY <1>5, <2>1, UnsetKept DEF FormKept
    <2> QED
      BY <2>2 DEF Unset
  <1>6. ASSUME page' = "edit", page = "edit", FormKept, view'.form # None, ~view'.form.setup PROVE Unset(view.id)'
    BY <1>1, <1>5, <1>6 DEF FormKept
  <1>7. ASSUME page' = "edit", page = "edit", FormKept, LoadKept, load' # None, load'.data # None, ~load'.data[1].setup
        PROVE  Unset(view.id)'
    <2>1. CASE load' = load
      BY <1>1, <1>5, <1>7, <2>1
    <2>2. CASE db' = db /\ load'.data[1] = db.setting[view.id]
      BY <1>7, <2>2 DEF FormKept, Unset
    <2> QED
      BY <1>7, <2>1, <2>2 DEF LoadKept
  <1> QED
    BY <1>3, <1>4, <1>6, <1>7, FormSteps DEF Formed

LEMMA SpecDrafted ==
  Spec => []Drafted
  <1>1. Init => Drafted
    BY DEF Init, Drafted, Waiting
  <1>2. Typed /\ Stored /\ Drafted /\ [Next]_vars => Drafted'
    BY DraftedKept
  <1> QED
    BY <1>1, <1>2, SpecTyped, SpecStored, PTL DEF Spec

\* What takes a page away.
LEMMA PageGone ==
  ASSUME db \in Database, Sound(db), NEW r \in Requests, r.op \notin TwoSteps, Accepts(r), NEW d, d = Served(r),
         NEW p \in Pages, db.setting[p] # None, d.setting[p] = None
  PROVE  r.op \in {"delete", "discard"} /\ r.what = p
  <1>1. PICK f : f = db.setting /\ f \in [Pages -> Settings \cup {None}]
    BY DatabaseTypes
  <1>2. PICK w : w = r.what
    OBVIOUS
  <1>3. None \notin Settings
    BY NoneIsNoRecord
  <1>4. CASE r.op \in {"complete", "activate"}
    <2>1. w \in Pages /\ f[w] # None /\ f[w] \in Settings
      BY <1>1, <1>2, <1>4, RequestTypes DEF Accepts
    <2>2. PICK s : d.setting = [f EXCEPT ![w] = s] /\ s \in {[f[w] EXCEPT !.setup = TRUE, !.active = TRUE], [f[w] EXCEPT !.active = TRUE]}
      <3>1. CASE r.op = "complete"
        <4>1. d.setting = [f EXCEPT ![w].setup = TRUE, ![w].active = TRUE]
          BY <1>1, <1>2, <3>1 DEF Served, CompleteSetup, Database
        <4>2. d.setting = [f EXCEPT ![w] = [f[w] EXCEPT !.setup = TRUE, !.active = TRUE]]
          BY <1>1, <2>1, <4>1
        <4> QED
          BY <4>2
      <3>2. CASE r.op = "activate"
        <4>1. d.setting = [f EXCEPT ![w].active = TRUE]
          BY <1>1, <1>2, <3>2 DEF Served, ToggleActive, Database
        <4> QED
          BY <1>1, <4>1
      <3> QED
        BY <1>4, <3>1, <3>2
    <2>3. s \in Settings
      BY <2>1, <2>2 DEF Settings
    <2> QED
      BY <1>1, <1>3, <2>2, <2>3
  <1>5. CASE r.op = "update"
    <2>1. w.page \in Pages /\ w.form \in Settings /\ f[w.page] # None /\ f[w.page] \in Settings
      BY <1>1, <1>2, <1>5, RequestTypes DEF Accepts
    <2>2. PICK s : s = [f[w.page] EXCEPT !.slug = w.form.slug, !.mins = w.form.mins, !.listed = w.form.listed]
      OBVIOUS
    <2>3. d.setting = [f EXCEPT ![w.page] = s]
      BY <1>1, <1>2, <1>5, <2>2 DEF Served, UpdateSetting, Database
    <2>4. s \in Settings
      BY <2>1, <2>2 DEF Settings
    <2> QED
      BY <1>1, <1>3, <2>3, <2>4
  <1>6. CASE r.op = "create"
    <2>1. PICK q \in db.fresh : q = NewId
      BY <1>6 DEF Accepts, NewId
    <2>2. d.setting = [f EXCEPT ![q] = [slug |-> w.slug, mins |-> w.mins, listed |-> w.listed,
                                        setup |-> FALSE, active |-> FALSE]]
      BY <1>1, <1>2, <1>6, <2>1 DEF Served, CreateSetting, Database
    <2>3. f[q] = None /\ q \in Pages
      BY <1>1, <2>1, DatabaseTypes DEF Sound
    <2> QED
      BY <1>1, <2>2, <2>3
  <1>7. CASE r.op \in {"delete", "discard"}
    <2>1. d.setting = [f EXCEPT ![w] = None]
      BY <1>1, <1>2, <1>7 DEF Served, DeleteSetting, Database
    <2> QED
      BY <1>1, <1>2, <1>7, <2>1
  <1>8. CASE r.op \in {"rule", "unrule", "except", "unexcept", "insert", "clear", "confirm", "close", "grant"}
    <2>1. d.setting = db.setting
      BY <1>8 DEF Served, CreateRule, DeleteRule, CreateOverride, DeleteOverride, Insert, Clear, Confirm, Close, Decide, Database
    <2> QED
      BY <1>1, <1>8, <2>1
  <1> QED
    BY <1>4, <1>5, <1>6, <1>7, <1>8, RequestTypes DEF TwoSteps

\* A page whose setup is complete goes only by a deletion from the list,
\* unless its setup was completed while its draft was open for editing, or was
\* being discarded: the editor discards by what it has loaded.
THEOREM OnlyDraftsDiscarded ==
  Spec => DraftsOnly
  <1>1. ASSUME Typed, Stored, Drafted, [Next]_vars, NEW p \in Pages,
               db.setting[p] # None, db.setting[p].setup, db'.setting[p] = None, "completed" \notin doubt
        PROVE  \E j \in Running : job[j].todo # <<>> /\ Head(job[j].todo) = Request("delete", p)
    <2>1. db \in Database /\ Sound(db)
      BY <1>1 DEF Typed, Stored
    <2>2. PICK j \in JobIds : ServedBy(j)
      BY <1>1, <2>1, Steps, BookedKeeps DEF HalfServed, Starts, Idle
    <2>3. PICK r, d : r \in Requests /\ r = job[j].todo[1] /\ d = Served(r) /\ Accepts(r) /\ r.op \notin TwoSteps /\ db' = d
                                   /\ job[j] # None /\ job[j].todo # <<>> /\ j \in Running
      BY <1>1, <2>2, WaitingRequest DEF ServedBy
    <2>4. r.op \in {"delete", "discard"} /\ r.what = p
      BY <1>1, <2>1, <2>3, PageGone
    <2>5. r.op # "discard"
      BY <1>1, <2>3, <2>4 DEF Drafted, Waiting, Unset
    <2>6. r = Request("delete", p)
      BY <2>3, <2>4, <2>5, RequestTypes DEF Request
    <2>7. Head(job[j].todo) = r
      BY <1>1, <2>3, NextRequest DEF Typed, Functions
    <2> QED
      BY <2>3, <2>6, <2>7
  <1>2. Typed /\ Stored /\ Drafted /\ [Next]_vars =>
          [\A p \in Pages :
             db.setting[p] # None /\ db.setting[p].setup /\ db'.setting[p] = None =>
               \/ \E j \in Running : job[j].todo # <<>> /\ Head(job[j].todo) = Request("delete", p)
               \/ "completed" \in doubt]_vars
    BY <1>1
  <1> QED
    BY <1>2, SpecTyped, SpecStored, SpecDrafted, PTL DEF Spec, DraftsOnly
=============================================================================
