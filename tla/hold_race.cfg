SPECIFICATION Spec
CONSTANTS
  None = None
  Users = {u1, u2}
  Slots = {s1}
  Pages = {{s1}}
  Keys = {k1}
  Bookings = {b1}
  Tokens = {t1, t2, t3}
  Workers = {w1, w2}
  Ops = {"hold", "release"}
  AutoSlots = {}
  MaxActive <- Always1
  OpensAt <- Always0
  CloseAt <- Always1
  CancelAt <- Always0
  MaxTime = 0
SYMMETRY SymAll
PROPERTIES HoldNotTakenOver
