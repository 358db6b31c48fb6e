---------------------------- MODULE HostSchedule ----------------------------
(***************************************************************************)
(* The pages on which a host plans the schedule of the page This:          *)
(* HostRulesPage, HostSlotsPage, HostOverridesPage, and the setup wizard   *)
(* HostServiceSetupPage, which has the three as its steps 2 to 4, and      *)
(* after completion a calendar.                                            *)
(*                                                                         *)
(* view.busy is None, or what the running function has marked: the pages   *)
(* disable their buttons by it.                                            *)
(***************************************************************************)
EXTENDS HostDesk

CONSTANTS
  WorkDays,     \* Monday to Friday: the days of the templates
  Hours, Lunch, \* the intervals of the templates
  Drafts,       \* rules that are filled in: [days, kind, from, to]
  Times,        \* intervals that are filled in for an override
  ThisMonth     \* the dates of the current month

ASSUME ScheduleConstantsOK ==
  /\ WorkDays \subseteq Days /\ {Hours, Lunch} \cup Times \subseteq [from: Nat, to: Nat]
  /\ Drafts \subseteq [days: SUBSET Days, kind: {"OPEN", "BREAK"}, from: Nat, to: Nat]
  /\ ThisMonth \in Ranges

RulesView == [rules |-> None, busy |-> None, error |-> FALSE]
SlotsView == [range |-> ThisMonth, count |-> None, busy |-> None, error |-> FALSE]
OverridesView == [overrides |-> None, busy |-> None, error |-> FALSE]
SetupView ==
  [step |-> 2, loaded |-> FALSE, rules |-> None, range |-> ThisMonth, count |-> None,
   overrides |-> None, date |-> None, kind |-> "DAY_OFF", day |-> None,
   activated |-> FALSE, month |-> ThisMonth, calendar |-> None, busy |-> None, error |-> FALSE]

RulesState == [rules: {None} \cup RuleLists, busy: {None, "yes"}, error: BOOLEAN]
SlotsState == [range: Ranges, count: {None} \cup Counts, busy: {None, "yes"}, error: BOOLEAN]
OverridesState == [overrides: {None} \cup OverrideLists, busy: {None, "yes"}, error: BOOLEAN]
SetupState ==
  [step: 2..4, loaded: BOOLEAN, rules: {None} \cup RuleLists, range: Ranges, count: {None} \cup Counts,
   overrides: {None} \cup OverrideLists, date: {None} \cup Dates, kind: {"DAY_OFF", "OPEN", "BLOCK"},
   day: {None} \cup SlotLists, activated: BOOLEAN, month: Ranges,
   calendar: {None} \cup [overrides: OverrideLists, slots: SlotLists], busy: {None, "yes"}, error: BOOLEAN]

\* What a page shows, and its effects under way: each is one of what it shows.
RulesOK(v, l, a) == v \in RulesState /\ l \in {None} \cup Reading("rules", None) /\ a = None
SlotsOK(v, l, a) == v \in SlotsState /\ l \in {None} \cup Reading("count", v.range) /\ a = None
OverridesOK(v, l, a) == v \in OverridesState /\ l \in {None} \cup Reading("overrides", ThisMonth) /\ a = None
SetupOK(v, l, a) ==
  /\ v \in SetupState /\ a \in {None} \cup Reading("day", v.date)
  /\ ~v.loaded => l \in {None} \cup Reading("wizard", None) /\ a = None /\ (l = None) = v.error
  /\ v.loaded /\ ~v.activated => l \in {None} \cup Reading("overrides", ThisMonth)
  /\ v.activated => l \in {None} \cup Reading("calendar", v.month) /\ v.loaded /\ v.step = 4
  /\ a # None => v.date # None /\ v.step = 4

ScheduleOK ==
  /\ page = "rules" => RulesOK(view, load, aux)
  /\ page = "slots" => SlotsOK(view, load, aux)
  /\ page = "overrides" => OverridesOK(view, load, aux)
  /\ page = "setup" => SetupOK(view, load, aux)
  /\ saved \in {None} \cup 2..4

----------------------------------------------------------------------------
(* Rules: HostRulesPage, and step 2 of the wizard. *)

RulesShown == page = "rules" \/ (page = "setup" /\ view.loaded /\ view.step = 2)
List == IF view.rules = None THEN {} ELSE view.rules

\* A function that changes rules.
StartRules(todo) ==
  /\ Start(todo, Query("rules", None), "yes", [view EXCEPT !.busy = "yes", !.error = FALSE])
  /\ UNCHANGED doubt

InOrder(S) == [n \in 1 .. Cardinality(S) |-> CHOOSE x \in S : Cardinality({y \in S : y < x}) = n - 1]
PostRules(days, kind, i) ==
  LET Post(d) == Request("rule", [day |-> d, kind |-> kind, from |-> i.from, to |-> i.to])
      seq == InOrder(days)
  IN [n \in DOMAIN seq |-> Post(seq[n])]
DropRules(rules) ==
  LET seq == InOrder({r.id : r \in rules}) IN [n \in DOMAIN seq |-> Request("unrule", seq[n])]

\* addRulesWizard: a draft that is not acceptable only shows an error.
AddRules ==
  \E d \in Drafts :
    IF Acceptable(List, d) THEN StartRules(PostRules(d.days, d.kind, d))
    ELSE Show([view EXCEPT !.error = TRUE])

\* removeWizardRule
RemoveRule == \E r \in List : StartRules(DropRules({r}))

\* resetAllWizardRules: nothing to delete is not an error, and an error that was
\* shown is dismissed.
ResetAll ==
  IF List = {}
  THEN /\ Click /\ view' = [view EXCEPT !.error = FALSE]
       /\ doubt' = IF view.error THEN doubt \cup {"dismissed"} ELSE doubt
       /\ UNCHANGED <<db, page, load, aux, job, saved, alone, moved>>
  ELSE StartRules(DropRules(List))

\* applyTemplateBasic, applyTemplateLunch
TemplateBasic ==
  StartRules(DropRules({r \in List : r.kind = "OPEN" /\ r.day \in WorkDays}) \o PostRules(WorkDays, "OPEN", Hours))
TemplateLunch ==
  StartRules(DropRules({r \in List : r.day \in WorkDays})
             \o PostRules(WorkDays, "OPEN", Hours) \o PostRules(WorkDays, "BREAK", Lunch))

\* Every button that changes rules is disabled while one of them works.
RuleActions ==
  /\ RulesShown /\ view.busy = None
  /\ AddRules \/ RemoveRule \/ ResetAll \/ TemplateBasic \/ TemplateLunch

----------------------------------------------------------------------------
(* Slots: HostSlotsPage, and step 3 of the wizard. *)

SlotsShown == page = "slots" \/ (page = "setup" /\ view.loaded /\ view.step = 3)

\* onGenerate, onClearSlots; the count is read for the range they started with.
StartSlots(op) ==
  /\ SlotsShown /\ view.busy = None
  /\ Start(<<Request(op, view.range)>>, Query("count", view.range), "yes",
           [view EXCEPT !.busy = "yes", !.error = FALSE])
  /\ UNCHANGED doubt

\* Mutant: the count of the range chosen before still arrives.
ChooseRangeOnly ==
  page = "slots" /\ \E r \in Ranges \ {view.range} : Show([view EXCEPT !.range = r])

\* The dates of HostSlotsPage: its effect counts the slots of the new range.
ChooseRange ==
  page = "slots" /\ \E r \in Ranges \ {view.range} : Rerun([view EXCEPT !.range = r], Effect("count", r))

\* refetchWizardStep3Slots as an effect of the wizard: it is not cancelled.
Recount(v) == Spawn(Job(<<>>, Query("count", v.range), None))
ChooseWizardRange ==
  /\ page = "setup" /\ view.loaded /\ view.step = 3 /\ Click
  /\ \E r \in Ranges \ {view.range} :
       view' = [view EXCEPT !.range = r] /\ Recount(view')
  /\ alone' = (alone /\ Quiet)
  /\ UNCHANGED <<db, page, load, aux, saved, doubt, moved>>

SlotActions == (\E op \in {"generate", "clear"} : StartSlots(op)) \/ ChooseWizardRange
               \/ ChooseRange

----------------------------------------------------------------------------
(* Overrides: HostOverridesPage, and step 4 of the wizard. *)

StartOverrides(todo, mark) ==
  /\ Start(todo, Query("overrides", ThisMonth), mark,
           [view EXCEPT !.busy = IF mark = None THEN @ ELSE mark,
                        !.error = IF mark = None THEN @ ELSE FALSE])
  /\ UNCHANGED doubt

\* onSubmit of HostOverridesPage: it has no inputs for times.
SubmitOverride ==
  /\ page = "overrides" /\ view.busy = None
  /\ \E d \in ThisMonth, k \in {"DAY_OFF", "OPEN", "BLOCK"} :
       StartOverrides(<<Request("except", [date |-> d, kind |-> k, from |-> None, to |-> None])>>, "yes")

\* removeOverride of HostOverridesPage: whatever else is running.
RemoveOverride ==
  /\ page = "overrides" /\ view.overrides # None
  /\ \E o \in view.overrides : StartOverrides(<<Request("unexcept", o.id)>>, None)

WizardAt(step) == page = "setup" /\ view.loaded /\ ~view.activated /\ view.step = step

\* Date and kind of the wizard's form: the slots of the date are shown, and
\* until they arrive those of the last date are kept.
ChooseException ==
  /\ WizardAt(4) /\ Click
  /\ \E d \in Dates, k \in {"DAY_OFF", "OPEN", "BLOCK"} :
       /\ <<d, k>> # <<view.date, view.kind>>
       /\ IF k = "DAY_OFF"
          THEN view' = [view EXCEPT !.date = d, !.kind = k, !.day = None] /\ aux' = None
          ELSE view' = [view EXCEPT !.date = d, !.kind = k] /\ aux' = Effect("day", d)
  /\ alone' = (alone /\ Quiet)
  /\ UNCHANGED <<db, page, load, job, saved, doubt, moved>>

\* A BLOCK must meet an OPEN slot, if the list of the day has one.
Blocking(i) ==
  LET open == IF view.day = None THEN {} ELSE {s \in view.day : s.status = "OPEN"}
  IN view.kind = "BLOCK" => open = {} \/ \E s \in open : Meet(i, s)

\* onAddOverride
AddOverride ==
  /\ WizardAt(4) /\ view.busy = None /\ view.date # None
  /\ \/ /\ view.kind = "DAY_OFF"
        /\ StartOverrides(<<Request("except", [date |-> view.date, kind |-> view.kind, from |-> None, to |-> None])>>,
                          "yes")
     \/ /\ view.kind # "DAY_OFF"
        /\ \E i \in Times :
             IF i.from < i.to /\ Blocking(i)
             THEN StartOverrides(<<Request("except", [date |-> view.date, kind |-> view.kind,
                                                      from |-> i.from, to |-> i.to])>>, "yes")
             ELSE Show([view EXCEPT !.error = TRUE])

\* removeOverrideWizard
RemoveOverrideWizard ==
  /\ WizardAt(4) /\ view.busy = None /\ view.overrides # None
  /\ \E o \in view.overrides : StartOverrides(<<Request("unexcept", o.id)>>, "yes")

OverrideActions == SubmitOverride \/ RemoveOverride \/ ChooseException \/ AddOverride \/ RemoveOverrideWizard

----------------------------------------------------------------------------
(* The wizard. *)

\* The effects of a step: its count is one more function, its overrides and
\* the slots of the exception's date are effects that end with the step.
EnterStep(n, v) ==
  /\ view' = [v EXCEPT !.step = n, !.day = IF n = 4 THEN @ ELSE None]
  /\ IF n = 3 THEN Recount(v) ELSE UNCHANGED job
  /\ load' = IF n = 4 THEN Effect("overrides", ThisMonth) ELSE None
  /\ aux' = IF n = 4 /\ v.date # None /\ v.kind # "DAY_OFF" THEN Effect("day", v.date) ELSE None

\* Mutant: the step can be left while the rules are being changed.
TurnStepAnyTime ==
  /\ Click
  /\ \E s \in 2..4 : \E n \in {s - 1, s + 1} \cap 2..4 :
       WizardAt(s) /\ EnterStep(n, view) /\ saved' = n
  /\ alone' = (alone /\ Quiet)
  /\ UNCHANGED <<db, page, doubt, moved>>

\* Next needs a rule; previous and next of step 3 do not wait for its function.
TurnStep ==
  /\ Click
  /\ \E s \in 2..4 : \E n \in {s - 1, s + 1} \cap 2..4 :
       /\ WizardAt(s) /\ (s # 3 => view.busy = None)
       /\ s = 2 => List # {}
       /\ EnterStep(n, view) /\ saved' = n
  /\ alone' = (alone /\ Quiet)
  /\ UNCHANGED <<db, page, doubt, moved>>

\* The answer to complete-setup shows the calendar, which reads its month.
Activated(v) == [v EXCEPT !.activated = TRUE, !.calendar = None, !.month = ThisMonth]

\* Mutant: the calendar is shown before the answer.
ActivateAhead ==
  /\ WizardAt(4) /\ view.busy = None
  /\ Start(<<Request("complete", This)>>, Query("setting", This), "yes",
           [Activated(view) EXCEPT !.busy = "yes", !.error = FALSE])
  /\ UNCHANGED doubt

\* onActivate, for completing and for skipping.
Activate ==
  /\ WizardAt(4) /\ view.busy = None
  /\ Start(<<Request("complete", This)>>, Query("setting", This), "yes",
           [view EXCEPT !.busy = "yes", !.error = FALSE])
  /\ UNCHANGED doubt

\* The month buttons of the calendar.
TurnMonth ==
  /\ page = "setup" /\ view.activated
  /\ \E m \in Ranges \ {view.month} :
       Rerun([view EXCEPT !.month = m, !.calendar = IF @ = None THEN None ELSE [@ EXCEPT !.slots = {}]],
             Effect("calendar", m))

\* The day's cell: slots as they were read, marks by the overrides.
Cell(date) ==
  LET c == view.calendar
      ours == {o \in c.overrides : o.date = date}
  IN [slots |-> {s \in c.slots : s.date = date},
      dayOff |-> \E o \in ours : o.kind = "DAY_OFF",
      shown |-> IF \E o \in ours : o.kind = "DAY_OFF" THEN {o \in ours : o.kind = "DAY_OFF"} ELSE ours]

WizardActions == TurnStep \/ Activate \/ TurnMonth

----------------------------------------------------------------------------
(* Answers. *)

\* What the page shows once the query of a function or an effect is answered.
ScheduleShows(v, kind, data) ==
  CASE kind = "rules"     -> [v EXCEPT !.rules = data]
    [] kind = "overrides" -> [v EXCEPT !.overrides = data]
    [] kind = "count"     -> [v EXCEPT !.count = data]
    [] kind = "day"       -> [v EXCEPT !.day = data]
    [] kind = "calendar"  -> [v EXCEPT !.calendar = data]
    [] OTHER -> v

\* An effect that fails; a count that fails is 0, and an error only when the
\* slots page starts with it.
ScheduleFails(v, kind, of) ==
  CASE kind = "overrides" -> IF page = "setup" THEN [v EXCEPT !.error = TRUE, !.overrides = {}]
                             ELSE [v EXCEPT !.error = TRUE]
    [] kind = "count"     -> [v EXCEPT !.count = [of |-> of, n |-> 0], !.error = TRUE]
    [] kind = "day"       -> [v EXCEPT !.day = {}]
    [] kind = "calendar"  -> [v EXCEPT !.calendar = [overrides |-> {}, slots |-> {}]]
    [] OTHER -> [v EXCEPT !.error = TRUE]

\* The step at which the wizard of a draft resumes.
Resume(rules) == IF saved # None THEN saved ELSE IF rules = {} THEN 2 ELSE 3

ScheduleActions == RuleActions \/ SlotActions \/ OverrideActions \/ WizardActions
=============================================================================
