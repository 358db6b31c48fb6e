SPECIFICATION Spec
CONSTANTS
  None = None
  Users = {u1, u2}
  Slots = {s1}
  Pages = {{s1}}
  Keys = {k1, k2}
  Bookings = {b1, b2}
  Tokens = {t1, t2}
  Workers = {w1, w2}
  Ops = {"hold", "release", "create", "cancel", "approve", "reject", "block", "unblock", "clear", "delete_page"}
  AutoSlots = {}
  MaxActive <- Always2
  OpensAt <- Always0
  CloseAt <- Always1
  CancelAt <- Always0
  MaxTime = 1
SYMMETRY SymAll
INVARIANTS TypeOK LedgerConsistent LockedSlotStaysOpen OneBookingPerKey
PROPERTIES DecidedOnlyMovedByStaleCommit ImplementsLedger
