SPECIFICATION FairSpec
CONSTANTS
  None = None
  Users = {u1}
  Slots = {s1}
  Pages = {{s1}}
  Keys = {k1, k2}
  Bookings = {b1, b2}
  Tokens = {t1, t2}
  Workers = {w1, w2}
  Ops = {"hold", "create", "cancel", "reject", "block", "unblock", "delete_page"}
  AutoSlots = {s1}
  MaxActive <- Always1
  OpensAt <- Always0
  CloseAt <- Always1
  CancelAt <- Always0
  MaxTime = 1
PROPERTIES RequestsFinish
