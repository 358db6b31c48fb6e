----------------------------- MODULE Timetable -----------------------------
(***************************************************************************)
(* Which slots a day has: slot_service computes them on the server from    *)
(* the operating rules of the weekday and the overrides of the date, and   *)
(* the rules pages check a new rule against the ones they show.            *)
(*                                                                         *)
(* A rule has kind OPEN or BREAK, an override DAY_OFF, OPEN or BLOCK; both *)
(* have the fields from and to.  Times are numbers of the clock's grid.    *)
(***************************************************************************)
EXTENDS Naturals, Sequences, FiniteSets, SequencesExt

Interval(a, b) == [from |-> a, to |-> b]
Span(x) == Interval(x.from, x.to)
OfKind(S, kind) == {Span(x) : x \in {y \in S : y.kind = kind}}
Meet(i, j) == i.from < j.to /\ j.from < i.to

Before(i, j) == i.from < j.from \/ (i.from = j.from /\ i.to < j.to)
\* The n-th interval has n - 1 before it.
Sorted(S) == [n \in 1 .. Cardinality(S) |-> CHOOSE i \in S : Cardinality({j \in S : Before(j, i)}) = n - 1]

----------------------------------------------------------------------------
(* The server. *)

\* Mutant: intervals that only touch are not joined.
JoinOverlapping(out, i) ==
  IF out # <<>> /\ i.from < Last(out).to
  THEN [out EXCEPT ![Len(out)].to = Max({@, i.to})]
  ELSE Append(out, i)

\* One step of _merge_intervals: i comes after the intervals already in out.
Join(out, i) ==
  IF out # <<>> /\ i.from <= Last(out).to
  THEN [out EXCEPT ![Len(out)].to = Max({@, i.to})]
  ELSE Append(out, i)

Merge(S) == ToSet(FoldLeft(Join, <<>>, Sorted(S)))

\* What cut c leaves of interval i.
Remains(i, c) ==
  IF Meet(i, c) THEN {p \in {Interval(i.from, c.from), Interval(c.to, i.to)} : p.from < p.to} ELSE {i}

Cut(cur, c) == UNION {Remains(i, c) : i \in cur}

\* _subtract_intervals
Subtract(S, cuts) == IF cuts = {} THEN S ELSE Merge(FoldLeft(Cut, S, Sorted(cuts)))

\* _emit_slot_windows: from the start of the interval, as long as one fits.
Emit(i, duration, buffer) ==
  {Interval(t, t + duration) :
     t \in {s \in i.from .. i.to : (s - i.from) % (duration + buffer) = 0 /\ s + duration <= i.to}}

\* Mutant: an OPEN override is appended and not merged.
WindowsUnmerged(rules, overrides, duration, buffer) ==
  LET open == Subtract(Merge(OfKind(rules, "OPEN")), OfKind(rules, "BREAK"))
      left == Subtract(open, OfKind(overrides, "BLOCK"))
  IN IF OfKind(rules, "OPEN") = {} \/ (\E o \in overrides : o.kind = "DAY_OFF") THEN {}
     ELSE UNION {Emit(i, duration, buffer) : i \in left \cup OfKind(overrides, "OPEN")}

\* One day of generate_slots: rules of its weekday, overrides of its date.
Windows(rules, overrides, duration, buffer) ==
  LET open == Subtract(Merge(OfKind(rules, "OPEN")), OfKind(rules, "BREAK"))
      left == Subtract(open, OfKind(overrides, "BLOCK"))
  IN IF OfKind(rules, "OPEN") = {} \/ (\E o \in overrides : o.kind = "DAY_OFF") THEN {}
     ELSE UNION {Emit(i, duration, buffer) : i \in Merge(left \cup OfKind(overrides, "OPEN"))}

\* The same windows by their instants: an instant is free when a rule opens it
\* and neither a break nor a block closes it, or an OPEN override does; windows
\* follow each other from the start of every run of free instants.
Covers(S, t) == \E i \in S : i.from <= t /\ t < i.to
Free(rules, overrides) ==
  {t \in UNION {x.from .. x.to : x \in rules \cup overrides} :
                 \/ /\ Covers(OfKind(rules, "OPEN"), t)
                    /\ ~Covers(OfKind(rules, "BREAK") \cup OfKind(overrides, "BLOCK"), t)
                 \/ Covers(OfKind(overrides, "OPEN"), t)}
WindowsByInstants(rules, overrides, duration, buffer) ==
  LET free == Free(rules, overrides)
      Starts == {t \in free : t - 1 \notin free}
  IN {Interval(t, t + duration) :
        t \in {x \in free : \E s \in Starts : /\ s <= x /\ (x - s) % (duration + buffer) = 0
                                              /\ s .. (x + duration - 1) \subseteq free}}

----------------------------------------------------------------------------
(* The browser. *)

\* validateWizardDraft: against the rules that the page has, day by day.
Acceptable(items, draft) ==
  /\ draft.days # {} /\ draft.from < draft.to
  /\ \A d \in draft.days :
       LET Ours(kind) == OfKind({r \in items : r.day = d}, kind)
       IN IF draft.kind = "OPEN"
          THEN \A i \in Ours("OPEN") : ~Meet(draft, i)
          ELSE /\ \E i \in Ours("OPEN") : draft.from >= i.from /\ draft.to <= i.to
               /\ \A i \in Ours("BREAK") : ~Meet(draft, i)
=============================================================================
