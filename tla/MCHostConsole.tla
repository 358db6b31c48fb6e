---------------------------- MODULE MCHostConsole ----------------------------
EXTENDS HostConsole, TLC
CONSTANTS p1, p2, u1, u2

\* Monday is 0, Saturday 5; one date of each.
MCDayOf == 1 :> 0 @@ 2 :> 5
MCDrafts == {[days |-> {0}, kind |-> "OPEN", from |-> 0, to |-> 4],
             [days |-> {0, 5}, kind |-> "OPEN", from |-> 3, to |-> 6],
             [days |-> {0}, kind |-> "BREAK", from |-> 2, to |-> 4]}
MCHours == Interval(0, 6)
MCLunch == Interval(2, 4)
MCTimes == {Interval(3, 5), Interval(1, 1)}
MCRanges == {{1}, {2}}
MCThisMonth == {1}

Rule(id, day, kind, from, to) == [id |-> id, day |-> day, kind |-> kind, from |-> from, to |-> to]
Page(slug, setup) == [slug |-> slug, mins |-> 2, listed |-> TRUE, setup |-> setup, active |-> setup]
Empty == [rules |-> {}, overrides |-> {}, slots |-> {}, next |-> 10, fresh |-> Pages \ {This},
          setting |-> [p \in Pages |-> IF p = This THEN Page("a", TRUE) ELSE None],
          booking |-> [b \in Books |-> None], cancel |-> [b \in Books |-> None],
          user |-> [u \in Users |-> [request |-> "pending", host |-> FALSE]]]
Planned == [Empty EXCEPT !.rules = {Rule(1, 0, "OPEN", 0, 4), Rule(2, 0, "BREAK", 2, 3), Rule(3, 5, "OPEN", 1, 4)},
                         !.overrides = {[id |-> 4, date |-> 1, kind |-> "OPEN", from |-> 1, to |-> 3]}]
Draft == [Planned EXCEPT !.setting[This] = Page("a", FALSE)]
Fresh == [Empty EXCEPT !.setting[This] = None, !.fresh = Pages]
Paused == [Empty EXCEPT !.setting[This].active = FALSE]
Slot(date, from, status) == [date |-> date, from |-> from, to |-> from + 2, status |-> status]
Sold == [Planned EXCEPT !.slots = {Slot(1, 0, "BOOKED"), Slot(2, 1, "OPEN")},
                        !.booking = [b \in Books |-> IF b = CHOOSE x \in Books : TRUE
                                                     THEN [date |-> 1, from |-> 0, status |-> "PENDING"] ELSE None]]
\* Generated while slots were three instants long.
Filled == [Planned EXCEPT !.setting[This].mins = 3, !.slots = {[Slot(1, 0, "OPEN") EXCEPT !.to = 3]}]
Two == [Draft EXCEPT !.fresh = {}, !.setting = [p \in Pages |-> Page(IF p = This THEN "a" ELSE "b", p # This)]]

Scope(clicks, others, pages) == [clicks |-> clicks, others |-> others, pages |-> pages]
Start1(d, clicks, others, pages) == [db |-> d, scope |-> Scope(clicks, others, pages)]
MCBeginnings ==
  {Start1(Planned, 4, 0, {"rules", "elsewhere"}),
   Start1(Planned, 3, 2, {"slots", "elsewhere"}),
   Start1(Sold, 3, 2, {"slots", "rules"}),
   Start1(Filled, 5, 0, {"slots", "edit"}),
   Start1(Planned, 4, 0, {"overrides", "elsewhere"}),
   Start1(Draft, 4, 0, {"setup", "dashboard"}),
   Start1(Paused, 4, 0, {"edit", "services"}),
   Start1(Fresh, 3, 0, {"home", "new", "setup"}),
   Start1(Two, 3, 0, {"home", "services"}),
   Start1(Two, 4, 0, {"services", "edit", "setup"}),
   Start1(Empty, 3, 0, {"services", "new", "setup"}),
   Start1(Sold, 3, 2, {"home", "dashboard", "bookings", "booking"}),
   Start1(Empty, 4, 0, {"admin", "elsewhere"})}
=============================================================================
