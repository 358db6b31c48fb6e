SPECIFICATION Spec
CONSTANTS
  None = None
  Users = {u1}
  Slots = {s1}
  Pages = {{s1}}
  Keys = {k1}
  Bookings = {b1}
  Tokens = {t1, t2}
  Workers = {w1}
  Ops = {"hold", "create", "delete_page"}
  AutoSlots = {}
  MaxActive <- Always1
  OpensAt <- Always0
  CloseAt <- Always0
  CancelAt <- Always0
  MaxTime = 0
PROPERTIES BookedPageKept
