SPECIFICATION Spec
CONSTANTS
  None = None
  Users = {u1}
  Slots = {s1, s2}
  Pages = {{s1, s2}}
  Keys = {k1, k2}
  Bookings = {b1, b2}
  Tokens = {t1, t2}
  Workers = {w1, w2}
  Ops = {"hold", "create"}
  AutoSlots = {}
  MaxActive <- Always1
  OpensAt <- Always0
  CloseAt <- Always1
  CancelAt <- Always0
  MaxTime = 0
SYMMETRY SymAll
INVARIANTS ActiveWithinLimit
