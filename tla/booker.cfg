SPECIFICATION Spec
CONSTANTS
  None = None
  s1 = s1
  Slots = {s1}
  Tokens = {k1, k2}
  Ids = {b1, b2}
  Initial = "PENDING"
  Busy = {s1}
  MaxWork = 1
  Months = {1, 2}
  MonthOf <- MCMonthOf
  Jobs <- MCJobs
  Links <- MCLinks
  Roles = {"member", "owner", "admin"}
  Queries = {q1}
SYMMETRY Sym
INVARIANTS TypeOK  BusyMeansWorking CancelNamesShownBooking
           NeverAhead OrphanMeansMoved ResultsMatchQuery
