SPECIFICATION Spec
CONSTANTS
  None = None
  Users = {u1}
  Slots = {s1, s2, s3}
  Pages = {{s1, s2, s3}}
  Keys = {k1, k2, k3}
  Bookings = {b1, b2, b3}
  Tokens = {t1, t2}
  Workers = {w1, w2}
  Ops = {"hold", "create", "cancel", "clear", "delete_page"}
  AutoSlots = {}
  MaxActive <- Always1
  OpensAt <- Always0
  CloseAt <- Always1
  CancelAt <- Always0
  MaxTime = 0
SYMMETRY SymLimit
INVARIANTS OverrunBounded
PROPERTIES HistoryKept 
