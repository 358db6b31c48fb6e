SPECIFICATION Spec
CONSTANTS
  None = None
  Users = {u1, u2}
  Slots = {s1}
  Pages = {{s1}}
  Keys = {k1, k2}
  Bookings = {b1, b2}
  Tokens = {t1, t2, t3}
  Workers = {w1, w2}
  Ops = {"hold", "create", "cancel", "approve", "block", "unblock"}
  AutoSlots = {}
  MaxActive <- Always2
  OpensAt <- Always0
  CloseAt <- Always1
  CancelAt <- Always0
  MaxTime = 0
SYMMETRY SymAll
INVARIANTS OneActiveBookingPerSlot
