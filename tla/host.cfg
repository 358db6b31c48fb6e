SPECIFICATION Spec
CONSTANTS
  None = None
  p1 = p1
  p2 = p2
  u1 = u1
  u2 = u2
  Pages = {p1, p2}
  This = p1
  Days = {0, 5}
  DayOf <- MCDayOf
  Ranges <- MCRanges
  Durations = {2, 3}
  Buffer = 0
  Books = {b1, b2}
  Users = {u1, u2}
  JobIds = {j1, j2}
  WorkDays = {0}
  Hours <- MCHours
  Lunch <- MCLunch
  Drafts <- MCDrafts
  Times <- MCTimes
  ThisMonth <- MCThisMonth
  Slugs = {"a", "b"}
  PageSize = 1
  Today = 1
  Beginnings <- MCBeginnings
  Clock = {0, 1, 2, 3}
CHECK_DEADLOCK FALSE
INVARIANTS TypeOK WindowsExact SlotsDisjoint BookingsKeepSlots
           StaleListShowsError CountMatchesRange AnswersMatchChoice ActivatedIsCompleted
           BusyMeansRunning OrphanRowMeansMoved RoleMatchesDecision NoBlankPage
PROPERTIES DraftsOnly
