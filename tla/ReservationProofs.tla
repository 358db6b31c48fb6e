------------------------- MODULE ReservationProofs -------------------------
(***************************************************************************)
(* Proofs about Reservation, for any number of users, slots, bookings and  *)
(* concurrent requests.                                                    *)
(*                                                                         *)
(* The inductive invariant is built in layers.  Local says that the        *)
(* variables have their types and that a parked request's local variables  *)
(* fit the point where it is parked; on top of it come the row lock, the   *)
(* idempotency key and the ledger, each inductive relative to Local.       *)
(***************************************************************************)
EXTENDS Reservation, FiniteSetTheorems, TLAPS

Local == TypeOK /\ RequestsOK

----------------------------------------------------------------------------
(* Local is inductive *)

LEMMA IdleOK == Idle \in Request /\ RequestOK(Idle)
  <1>1. Idle \in Request
    BY DEF Idle, Request, Points
  <1>2. RequestOK(Idle)
    BY ConstantsOK DEF Idle, RequestOK
  <1> QED
    BY <1>1, <1>2

LEMMA InitLocal == Init => Local
  <1> SUFFICES ASSUME Init PROVE Local
    OBVIOUS
  <1>1. TypeOK
    <2>1. slots \in [Slots -> SlotStatus]
      BY DEF Init, SlotStatus
    <2>2. req \in [Workers -> Request]
      BY IdleOK DEF Init
    <2>3. clock \in 0..MaxTime
      BY ConstantsOK DEF Init
    <2> QED
      BY <2>1, <2>2, <2>3 DEF Init, TypeOK
  <1>2. RequestsOK
    BY IdleOK DEF Init, RequestsOK
  <1> QED
    BY <1>1, <1>2 DEF Local

\* Issued bookings stay issued, with their slot.
RowsKept == \A b \in Issued : bookings'[b] # None /\ bookings'[b].slot = bookings[b].slot

LEMMA RequestOKKept ==
  ASSUME NEW r, RequestOK(r), RowsKept, bookings \in [Bookings -> Row \cup {None}],
         bookings' \in [Bookings -> Row \cup {None}]
  PROVE  RequestOK(r)'
  BY DEF RequestOK, RowsKept, Issued

\* One request moves to r; the others stay where they are.
LEMMA OneRequestMoves ==
  ASSUME Local, RowsKept, bookings' \in [Bookings -> Row \cup {None}],
         NEW w \in Workers, NEW r \in Request, RequestOK(r),
         req' = [req EXCEPT ![w] = r]
  PROVE  req' \in [Workers -> Request] /\ RequestsOK'
  <1>0. RequestOK(r)'
    BY RequestOKKept DEF Local, TypeOK
  <1>1. req' \in [Workers -> Request]
    BY DEF Local, TypeOK
  <1>2. ASSUME NEW v \in Workers PROVE RequestOK(req[v])'
    <2>1. CASE v = w
      <3>1. req'[v] = r
        BY <2>1 DEF Local, TypeOK
      <3> QED
        BY <3>1, <1>0 DEF RequestOK, Issued
    <2>2. CASE v # w
      <3>1. req'[v] = req[v]
        BY <2>2 DEF Local, TypeOK
      <3>2. RequestOK(req[v])
        BY DEF Local, RequestsOK
      <3> DEFINE q == req[v]
      <3>3. RequestOK(q)
        BY <3>2
      <3> QED
        BY <3>1, <3>2 DEF RequestOK, RowsKept, Issued, Local, TypeOK
    <2> QED
      BY <2>1, <2>2
  <1> QED
    BY <1>1, <1>2 DEF RequestsOK

LEMMA RequestsStay ==
  ASSUME Local, RowsKept, bookings' \in [Bookings -> Row \cup {None}], UNCHANGED req
  PROVE  RequestsOK'
  BY DEF Local, TypeOK, RequestsOK, RequestOK, RowsKept, Issued

\* Actions that leave the bookings alone keep the rows.
LEMMA UnchangedRows == UNCHANGED bookings => RowsKept
  BY DEF RowsKept, Issued

\* An action that changes only what the requests remember.
LEMMA OnlyRequestMoves ==
  ASSUME Local, UNCHANGED <<slots, bookings, holds, clock, staleCommit>>,
         NEW w \in Workers, NEW r \in Request, RequestOK(r),
         req' = [req EXCEPT ![w] = r]
  PROVE  Local'
  <1>1. bookings' \in [Bookings -> Row \cup {None}]
    BY DEF Local, TypeOK
  <1>2. RowsKept
    BY UnchangedRows
  <1>4. req' \in [Workers -> Request] /\ RequestsOK'
    BY <1>1, <1>2, OneRequestMoves
  <1> QED
    BY <1>4 DEF Local, TypeOK

LEMMA StartLocal ==
  ASSUME Local, NEW w \in Workers,
         \/ \E s \in Slots : BlockRead(w, s) \/ UnblockRead(w, s)
         \/ \E u \in Users, s \in Slots : HoldRead(w, u, s)
         \/ \E u \in Users, s \in Slots, t \in Tokens : ReleaseRead(w, u, s, t)
  PROVE  Local'
  <1>1. ASSUME NEW s \in Slots, BlockRead(w, s) PROVE Local'
    <2> DEFINE r == [Idle EXCEPT !.pc = "block_commit", !.slot = s, !.sst = slots[s]]
    <2>1. r \in Request
      BY <1>1 DEF Idle, Request, Points, SlotStatus, BlockRead
    <2>2. RequestOK(r)
      BY <1>1 DEF Idle, RequestOK, BlockRead
    <2> QED
      BY <1>1, <2>1, <2>2, OnlyRequestMoves DEF BlockRead, Start
  <1>2. ASSUME NEW s \in Slots, UnblockRead(w, s) PROVE Local'
    <2> DEFINE r == [Idle EXCEPT !.pc = "unblock_commit", !.slot = s, !.sst = slots[s]]
    <2>1. r \in Request
      BY <1>2 DEF Idle, Request, Points, SlotStatus, UnblockRead
    <2>2. RequestOK(r)
      BY <1>2 DEF Idle, RequestOK, UnblockRead
    <2> QED
      BY <1>2, <2>1, <2>2, OnlyRequestMoves DEF UnblockRead, Start
  <1>3. ASSUME NEW u \in Users, NEW s \in Slots, HoldRead(w, u, s) PROVE Local'
    <2> DEFINE r == [Idle EXCEPT !.pc = "hold_exists", !.user = u, !.slot = s]
    <2>1. r \in Request
      BY DEF Idle, Request, Points
    <2>2. RequestOK(r)
      BY DEF Idle, RequestOK
    <2> QED
      BY <1>3, <2>1, <2>2, OnlyRequestMoves DEF HoldRead, Start
  <1>4. ASSUME NEW u \in Users, NEW s \in Slots, NEW t \in Tokens, ReleaseRead(w, u, s, t)
        PROVE  Local'
    <2> DEFINE r == [Idle EXCEPT !.pc = "release_del", !.user = u, !.slot = s]
    <2>1. r \in Request
      BY DEF Idle, Request, Points
    <2>2. RequestOK(r)
      BY DEF Idle, RequestOK
    <2> QED
      BY <1>4, <2>1, <2>2, OnlyRequestMoves DEF ReleaseRead, Start
  <1> QED
    BY <1>1, <1>2, <1>3, <1>4

LEMMA CallLocal ==
  ASSUME Local, NEW w \in Workers, Call(w)
  PROVE  Local'
  <1>1. ASSUME NEW u \in Users, NEW k \in Keys, NEW s \in Slots, NEW t \in Tokens,
               CreateLookup(w, u, k, s, t)
        PROVE  Local'
    <2> DEFINE r == [Idle EXCEPT
                       !.pc = IF WithKey(u, k) = {} THEN "verify" ELSE "drop_hold",
                       !.user = u, !.key = k, !.slot = s, !.token = t]
    <2>1. r \in Request
      BY DEF Idle, Request, Points
    <2>2. RequestOK(r)
      BY DEF Idle, RequestOK
    <2> QED
      BY <1>1, <2>1, <2>2, OnlyRequestMoves DEF CreateLookup, Start
  <1>2. ASSUME NEW b \in Issued PROVE bookings[b] \in Row
    BY <1>2 DEF Local, TypeOK, Issued
  <1>3. ASSUME NEW u \in Users, NEW b \in Bookings, CancelRead(w, u, b) PROVE Local'
    <2> DEFINE r == [Idle EXCEPT !.pc = "cancel_slot", !.user = u, !.booking = b,
                                 !.slot = bookings[b].slot, !.bst = bookings[b].status]
    <2>0. b \in Issued /\ bookings[b].status \in Active
      BY <1>3 DEF CancelRead, ActiveOf, Rows
    <2>1. r \in Request
      BY <2>0, <1>2 DEF Idle, Request, Points, Row
    <2>2. RequestOK(r)
      BY <2>0, <1>2 DEF Idle, RequestOK, Row
    <2> QED
      BY <1>3, <2>1, <2>2, OnlyRequestMoves DEF CancelRead, Start
  <1>4. ASSUME NEW b \in Bookings, ApproveRead(w, b) \/ RejectRead(w, b) PROVE Local'
    <2>1. PICK pc \in {"approve_commit", "reject_slot"} : HostRead(w, b, pc)
      BY <1>4 DEF ApproveRead, RejectRead
    <2> DEFINE r == [Idle EXCEPT !.pc = pc, !.booking = b, !.slot = bookings[b].slot,
                                 !.bst = bookings[b].status]
    <2>2. b \in Issued /\ bookings[b].status = "PENDING"
      BY <2>1 DEF HostRead, Rows
    <2>3. r \in Request
      BY <2>2, <1>2 DEF Idle, Request, Points, Row
    <2>4. RequestOK(r)
      BY <2>2, <1>2 DEF Idle, RequestOK, Row
    <2> QED
      BY <2>1, <2>3, <2>4, OnlyRequestMoves DEF HostRead, Start
  <1> QED
    BY <1>1, <1>3, <1>4, StartLocal DEF Call

\* A request that moves on within its operation, nothing else changing.
LEMMA GotoLocal ==
  ASSUME Local, NEW w \in Workers, NEW pc \in Points,
         RequestOK([req[w] EXCEPT !.pc = pc]), Goto(w, pc),
         UNCHANGED <<slots, bookings, holds, clock, staleCommit>>
  PROVE  Local'
  <1> DEFINE r == [req[w] EXCEPT !.pc = pc]
  <1>1. r \in Request
    BY DEF Local, TypeOK, Request
  <1>2. req' = [req EXCEPT ![w] = r]
    BY DEF Goto
  <1> QED
    BY <1>1, <1>2, OnlyRequestMoves

\* A request that ends, the rows being kept.
LEMMA FinishLocal ==
  ASSUME Local, NEW w \in Workers, Finish(w), RowsKept,
         slots' \in [Slots -> SlotStatus],
         bookings' \in [Bookings -> Row \cup {None}],
         holds' \in [Slots -> Hold \cup {None}],
         clock' = clock,
         staleCommit' \in BOOLEAN
  PROVE  Local'
  <1>2. req' \in [Workers -> Request] /\ RequestsOK'
    BY IdleOK, OneRequestMoves DEF Finish
  <1> QED
    BY <1>2 DEF Local, TypeOK

LEMMA HoldStepsLocal ==
  ASSUME Local, NEW w \in Workers,
         HoldExists(w) \/ HoldSet(w) \/ ReleaseDel(w) \/ DropHold(w)
  PROVE  Local'
  <1>0. req[w] \in Request /\ RequestOK(req[w])
    BY DEF Local, TypeOK, RequestsOK
  <1>1. CASE HoldExists(w)
    <2>1. CASE Goto(w, "hold_set")
      <3>1. RequestOK([req[w] EXCEPT !.pc = "hold_set"])
        BY <1>0, <1>1 DEF HoldExists, RequestOK, Request
      <3> QED
        BY <1>1, <2>1, <3>1, GotoLocal DEF HoldExists, Points
    <2>2. CASE Finish(w)
      BY <1>1, <2>2, FinishLocal, UnchangedRows DEF HoldExists, Local, TypeOK
    <2> QED
      BY <1>1, <2>1, <2>2 DEF HoldExists
  <1>2. CASE HoldSet(w)
    <2>1. holds' \in [Slots -> Hold \cup {None}]
      BY <1>0, <1>2 DEF HoldSet, Local, TypeOK, RequestOK, Hold
    <2> QED
      BY <1>2, <2>1, FinishLocal, UnchangedRows DEF HoldSet, Local, TypeOK
  <1>3. CASE ReleaseDel(w) \/ DropHold(w)
    BY <1>3, FinishLocal, UnchangedRows DEF ReleaseDel, DropHold, Local, TypeOK
  <1> QED
    BY <1>1, <1>2, <1>3

LEMMA CreateStepsLocal ==
  ASSUME Local, NEW w \in Workers, VerifyHold(w) \/ LockSlot(w) \/ CheckPolicy(w)
  PROVE  Local'
  <1>0. req[w] \in Request /\ RequestOK(req[w])
    BY DEF Local, TypeOK, RequestsOK
  <1>1. PICK pc \in {"lock", "policy", "insert", "drop_hold"} : Goto(w, pc)
    BY DEF VerifyHold, LockSlot, CheckPolicy
  <1>2. req[w].pc \in {"verify", "lock", "policy"}
    BY DEF VerifyHold, LockSlot, CheckPolicy
  <1>3. RequestOK([req[w] EXCEPT !.pc = pc])
    BY <1>0, <1>2 DEF RequestOK, Request
  <1>4. pc \in Points
    BY DEF Points
  <1>5. UNCHANGED <<slots, bookings, holds, clock, staleCommit>>
    BY DEF VerifyHold, LockSlot, CheckPolicy
  <1> QED
    BY <1>1, <1>3, <1>4, <1>5, GotoLocal

LEMMA InsertLocal ==
  ASSUME Local, NEW w \in Workers, InsertBooking(w)
  PROVE  Local' /\ RowsKept
  <1> DEFINE r == [req[w] EXCEPT !.pc = "drop_hold"]
  <1>0. req[w] \in Request /\ RequestOK(req[w]) /\ req[w].pc = "insert"
    BY DEF Local, TypeOK, RequestsOK, InsertBooking
  <1>1. NewRow(req[w]) \in Row
    BY <1>0 DEF NewRow, Row, RequestOK, BookingStatus, Active
  <1> DEFINE Inserted(b) == bookings' = [bookings EXCEPT ![b] = NewRow(req[w])]
  <1>a. \/ bookings' = bookings /\ slots' = slots
        \/ /\ \E b \in Bookings \ Issued : Inserted(b)
           /\ slots' = [slots EXCEPT ![req[w].slot] = "BOOKED"]
    BY DEF InsertBooking
  <1>2. bookings' \in [Bookings -> Row \cup {None}]
    BY <1>1, <1>a DEF Local, TypeOK
  <1>3. slots' \in [Slots -> SlotStatus]
    BY <1>a DEF Local, TypeOK, SlotStatus
  <1>4. RowsKept
    <2>1. CASE bookings' = bookings
      BY <2>1, UnchangedRows
    <2>2. ASSUME NEW b \in Bookings \ Issued, Inserted(b) PROVE RowsKept
      BY <2>2 DEF RowsKept, Issued, Local, TypeOK
    <2> QED
      BY <1>a, <2>1, <2>2
  <1>5. r \in Request
    BY <1>0 DEF Request, Points
  <1>6. RequestOK(r)
    BY <1>0 DEF RequestOK, Request
  <1>7. req' = [req EXCEPT ![w] = r]
    BY DEF InsertBooking, Goto
  <1>8. req' \in [Workers -> Request] /\ RequestsOK'
    BY <1>2, <1>4, <1>5, <1>6, <1>7, OneRequestMoves
  <1> QED
    BY <1>2, <1>3, <1>4, <1>8 DEF Local, TypeOK, InsertBooking

\* Writing a status keeps the row.
LEMMA StatusWritten ==
  ASSUME Local, NEW b \in Issued, NEW st \in BookingStatus, SetStatus(b, st)
  PROVE  bookings' \in [Bookings -> Row \cup {None}] /\ RowsKept
  <1>1. bookings[b] \in Row
    BY DEF Local, TypeOK, Issued
  <1>2. [bookings[b] EXCEPT !.status = st] \in Row
    BY <1>1 DEF Row
  <1>3. bookings' = [bookings EXCEPT ![b] = [bookings[b] EXCEPT !.status = st]]
    BY DEF SetStatus
  <1>4. bookings' \in [Bookings -> Row \cup {None}]
    BY <1>2, <1>3 DEF Local, TypeOK
  <1>5. ASSUME NEW x \in Issued
        PROVE  bookings'[x] # None /\ bookings'[x].slot = bookings[x].slot
    <2>1. CASE x = b
      <3>1. bookings'[x] = [bookings[b] EXCEPT !.status = st]
        BY <1>3, <2>1 DEF Local, TypeOK, Issued
      <3>2. bookings'[x].slot = bookings[b].slot
        BY <3>1, <1>1 DEF Row
      <3>3. bookings'[x] # None
        BY <3>1, <1>2, ConstantsOK
      <3> QED
        BY <3>2, <3>3, <2>1
    <2>2. CASE x # b
      BY <1>3, <2>2 DEF Local, TypeOK, Issued
    <2> QED
      BY <2>1, <2>2
  <1> QED
    BY <1>4, <1>5 DEF RowsKept

LEMMA CloseLocal ==
  ASSUME Local, NEW w \in Workers, CancelCommit(w) \/ RejectCommit(w) \/ ApproveCommit(w)
  PROVE  Local' /\ RowsKept
  <1> DEFINE b == req[w].booking
  <1>0. req[w] \in Request /\ RequestOK(req[w])
    BY DEF Local, TypeOK, RequestsOK
  <1>1. b \in Issued
    BY <1>0 DEF RequestOK, CancelCommit, RejectCommit, ApproveCommit
  <1>2. bookings' = bookings \/ \E st \in BookingStatus : SetStatus(b, st)
    BY DEF CancelCommit, RejectCommit, ApproveCommit, CloseBooking, BookingStatus, Active, Terminal
  <1>3. bookings' \in [Bookings -> Row \cup {None}] /\ RowsKept
    BY <1>1, <1>2, StatusWritten, UnchangedRows DEF Local, TypeOK
  <1>4. slots' \in [Slots -> SlotStatus]
    BY DEF CancelCommit, RejectCommit, ApproveCommit, CloseBooking, Local, TypeOK, SlotStatus
  <1>5. staleCommit' \in BOOLEAN
    BY DEF CancelCommit, RejectCommit, ApproveCommit, CloseBooking, Local, TypeOK,
           BookingMoved, SlotMoved
  <1>6. Finish(w) /\ UNCHANGED <<holds, clock>>
    BY DEF CancelCommit, RejectCommit, ApproveCommit, CloseBooking
  <1> QED
    BY <1>3, <1>4, <1>5, <1>6, FinishLocal DEF Local, TypeOK

LEMMA WriteSlotLocal ==
  ASSUME Local, NEW w \in Workers, BlockCommit(w) \/ UnblockCommit(w)
  PROVE  Local'
  <1>1. PICK st \in {"OPEN", "BLOCKED"} : WriteSlot(w, st)
    BY DEF BlockCommit, UnblockCommit
  <1>2. slots' \in [Slots -> SlotStatus]
    BY <1>1 DEF WriteSlot, Local, TypeOK, SlotStatus
  <1>3. staleCommit' \in BOOLEAN
    BY <1>1 DEF WriteSlot, Local, TypeOK, SlotMoved
  <1> QED
    BY <1>1, <1>2, <1>3, FinishLocal, UnchangedRows DEF WriteSlot, Local, TypeOK

LEMMA ReadSlotLocal ==
  ASSUME Local, NEW w \in Workers, CancelSlot(w) \/ RejectSlot(w)
  PROVE  Local'
  <1>0. req[w] \in Request /\ RequestOK(req[w])
    BY DEF Local, TypeOK, RequestsOK
  <1>1. CASE Finish(w) /\ CancelSlot(w)
    BY <1>1, FinishLocal, UnchangedRows DEF CancelSlot, Local, TypeOK
  <1>2. ASSUME NEW pc \in {"cancel_commit", "reject_commit"},
               pc = "cancel_commit" => req[w].pc = "cancel_slot",
               pc = "reject_commit" => req[w].pc = "reject_slot",
               req' = [req EXCEPT ![w].pc = pc, ![w].sst = slots[req[w].slot]]
        PROVE  Local'
    <2> DEFINE r == [req[w] EXCEPT !.pc = pc, !.sst = slots[req[w].slot]]
    <2>1. slots[req[w].slot] \in SlotStatus
      BY <1>0, <1>2 DEF RequestOK, Local, TypeOK
    <2>2. r \in Request
      BY <1>0, <2>1 DEF Request, Points
    <2>3. RequestOK(r)
      BY <1>0, <1>2, <2>1 DEF RequestOK, Request
    <2>4. req' = [req EXCEPT ![w] = r]
      BY <1>2 DEF Local, TypeOK
    <2>5. UNCHANGED <<slots, bookings, holds, clock, staleCommit>>
      BY DEF CancelSlot, RejectSlot
    <2> QED
      BY <2>2, <2>3, <2>4, <2>5, OnlyRequestMoves
  <1>3. \/ Finish(w) /\ CancelSlot(w)
        \/ /\ req[w].pc = "cancel_slot"
           /\ req' = [req EXCEPT ![w].pc = "cancel_commit", ![w].sst = slots[req[w].slot]]
        \/ /\ req[w].pc = "reject_slot"
           /\ req' = [req EXCEPT ![w].pc = "reject_commit", ![w].sst = slots[req[w].slot]]
    BY DEF CancelSlot, RejectSlot
  <1> QED
    BY <1>1, <1>2, <1>3

LEMMA ContinueLocal ==
  ASSUME Local, NEW w \in Workers, Continue(w)
  PROVE  Local'
  BY HoldStepsLocal, CreateStepsLocal, InsertLocal, CloseLocal, WriteSlotLocal,
     ReadSlotLocal DEF Continue

LEMMA EnvironmentLocal ==
  ASSUME Local,
         \/ \E S \in SUBSET Slots : GenerateSlots(S) \/ ClearSlots(S)
         \/ \E P \in Pages : DeletePage(P)
         \/ \E s \in Slots : ExpireHold(s)
         \/ \E w \in Workers : Crash(w)
         \/ Tick
  PROVE  Local'
  <1>1. ASSUME NEW S \in SUBSET Slots, GenerateSlots(S) \/ ClearSlots(S) PROVE Local'
    BY <1>1, RequestsStay, UnchangedRows
    DEF Local, TypeOK, SlotStatus, GenerateSlots, ClearSlots
  <1>2. ASSUME NEW s \in Slots, ExpireHold(s) PROVE Local'
    BY <1>2, RequestsStay, UnchangedRows DEF Local, TypeOK, ExpireHold
  <1>3. ASSUME NEW w \in Workers, Crash(w) PROVE Local'
    BY <1>3, FinishLocal, UnchangedRows DEF Local, TypeOK, Crash
  <1>4. CASE Tick
    BY <1>4, RequestsStay, UnchangedRows, ConstantsOK DEF Local, TypeOK, Tick
  <1>5. ASSUME NEW P \in Pages, DeletePage(P) PROVE Local'
    BY <1>5, RequestsStay, UnchangedRows DEF Local, TypeOK, SlotStatus, DeletePage
  <1> QED
    BY <1>1, <1>2, <1>3, <1>4, <1>5

LEMMA NextLocal == Local /\ [Next]_vars => Local'
  <1> SUFFICES ASSUME Local, [Next]_vars PROVE Local'
    OBVIOUS
  <1>1. CASE Next
    BY <1>1, CallLocal, ContinueLocal, EnvironmentLocal DEF Next
  <1>2. CASE UNCHANGED vars
    BY <1>2, RequestsStay, UnchangedRows DEF vars, Local, TypeOK
  <1> QED
    BY <1>1, <1>2

\* Type correctness, and every parked request fits its point: no statement of a
\* handler runs with an argument it has not read.
THEOREM RequestsWellFormed == Spec => [](TypeOK /\ RequestsOK)
  <1>1. Spec => []Local
    BY InitLocal, NextLocal, PTL DEF Spec
  <1> QED
    BY <1>1, PTL DEF Local

\* Rows, holds and requests keep their types in every behaviour of the handlers.
THEOREM TypesHold == Spec => []TypeOK
  <1>1. TypeOK /\ RequestsOK => TypeOK
    OBVIOUS
  <1> QED
    BY <1>1, RequestsWellFormed, PTL

----------------------------------------------------------------------------
(* The row lock *)

Window == {"policy", "insert"}

\* A request that goes anywhere but into the window locks nothing.
LEMMA NoNewLocker ==
  ASSUME Local, NEW w \in Workers, NEW r \in Request, r.pc \notin Window,
         req' = [req EXCEPT ![w] = r], NEW s \in Slots
  PROVE  Lockers(s)' \subseteq Lockers(s) \ {w}
  BY DEF Local, TypeOK, Lockers, Window

LEMMA FinishUnlocks ==
  ASSUME Local, NEW w \in Workers, Finish(w), NEW s \in Slots
  PROVE  Lockers(s)' \subseteq Lockers(s) \ {w}
  <1>1. Idle.pc \notin Window
    BY DEF Idle, Window
  <1> QED
    BY <1>1, IdleOK, NoNewLocker DEF Finish

LEMMA GotoUnlocks ==
  ASSUME Local, NEW w \in Workers, NEW pc \in Points \ Window, Goto(w, pc), NEW s \in Slots
  PROVE  Lockers(s)' \subseteq Lockers(s) \ {w}
  BY DEF Local, TypeOK, Lockers, Window, Goto, Request

\* When no request enters the window and no locked slot changes, the lock is safe.
LEMMA QuietLock ==
  ASSUME LockedSlotStaysOpen,
         \A s \in Slots : Lockers(s)' \subseteq Lockers(s),
         \A s \in Slots : slots'[s] = slots[s] \/ Lockers(s)' = {}
  PROVE  LockedSlotStaysOpen'
  BY DEF LockedSlotStaysOpen, AtMostOne, RowLocked

LEMMA SameRequestsSameLockers ==
  UNCHANGED req => \A s \in Slots : Lockers(s)' = Lockers(s)
  BY DEF Lockers

LEMMA StartUnlocks ==
  ASSUME Local, NEW w \in Workers, NEW r, r.pc \notin Window, Start(w, r)
  PROVE  \A s \in Slots : Lockers(s)' \subseteq Lockers(s)
  BY DEF Start, Local, TypeOK, Lockers, Window

LEMMA CallUnlocks ==
  ASSUME Local, NEW w \in Workers, Call(w)
  PROVE  \A s \in Slots : Lockers(s)' \subseteq Lockers(s)
  <1> DEFINE Quiet == \A s \in Slots : Lockers(s)' \subseteq Lockers(s)
  <1>1. ASSUME NEW s \in Slots, BlockRead(w, s) PROVE Quiet
    <2> DEFINE r == [Idle EXCEPT !.pc = "block_commit", !.slot = s, !.sst = slots[s]]
    <2>1. r.pc \notin Window
      BY DEF Idle, Window
    <2> QED
      BY <1>1, <2>1, StartUnlocks DEF BlockRead
  <1>2. ASSUME NEW s \in Slots, UnblockRead(w, s) PROVE Quiet
    <2> DEFINE r == [Idle EXCEPT !.pc = "unblock_commit", !.slot = s, !.sst = slots[s]]
    <2>1. r.pc \notin Window
      BY DEF Idle, Window
    <2> QED
      BY <1>2, <2>1, StartUnlocks DEF UnblockRead
  <1>3. ASSUME NEW u \in Users, NEW s \in Slots, HoldRead(w, u, s) PROVE Quiet
    <2> DEFINE r == [Idle EXCEPT !.pc = "hold_exists", !.user = u, !.slot = s]
    <2>1. r.pc \notin Window
      BY DEF Idle, Window
    <2> QED
      BY <1>3, <2>1, StartUnlocks DEF HoldRead
  <1>4. ASSUME NEW u \in Users, NEW s \in Slots, NEW t \in Tokens, ReleaseRead(w, u, s, t)
        PROVE  Quiet
    <2> DEFINE r == [Idle EXCEPT !.pc = "release_del", !.user = u, !.slot = s]
    <2>1. r.pc \notin Window
      BY DEF Idle, Window
    <2> QED
      BY <1>4, <2>1, StartUnlocks DEF ReleaseRead
  <1>5. ASSUME NEW u \in Users, NEW k \in Keys, NEW s \in Slots, NEW t \in Tokens,
               CreateLookup(w, u, k, s, t)
        PROVE  Quiet
    <2> DEFINE r == [Idle EXCEPT
                       !.pc = IF WithKey(u, k) = {} THEN "verify" ELSE "drop_hold",
                       !.user = u, !.key = k, !.slot = s, !.token = t]
    <2>1. r.pc \notin Window
      BY DEF Idle, Window
    <2> QED
      BY <1>5, <2>1, StartUnlocks DEF CreateLookup
  <1>6. ASSUME NEW u \in Users, NEW b \in Bookings, CancelRead(w, u, b) PROVE Quiet
    <2> DEFINE r == [Idle EXCEPT !.pc = "cancel_slot", !.user = u, !.booking = b,
                                 !.slot = bookings[b].slot, !.bst = bookings[b].status]
    <2>1. r.pc \notin Window
      BY DEF Idle, Window
    <2> QED
      BY <1>6, <2>1, StartUnlocks DEF CancelRead
  <1>7. ASSUME NEW b \in Bookings, ApproveRead(w, b) \/ RejectRead(w, b) PROVE Quiet
    <2>1. PICK pc \in {"approve_commit", "reject_slot"} : HostRead(w, b, pc)
      BY <1>7 DEF ApproveRead, RejectRead
    <2> DEFINE r == [Idle EXCEPT !.pc = pc, !.booking = b, !.slot = bookings[b].slot,
                                 !.bst = bookings[b].status]
    <2>2. r.pc \notin Window
      BY <2>1 DEF Idle, Window
    <2> QED
      BY <2>1, <2>2, StartUnlocks DEF HostRead
  <1> QED
    BY <1>1, <1>2, <1>3, <1>4, <1>5, <1>6, <1>7 DEF Call

LEMMA CallLock ==
  ASSUME Local, LockedSlotStaysOpen, NEW w \in Workers, Call(w)
  PROVE  LockedSlotStaysOpen'
  <1>1. slots' = slots
    BY DEF Call, BlockRead, UnblockRead, HoldRead, ReleaseRead, CreateLookup, CancelRead,
           ApproveRead, RejectRead, HostRead
  <1> QED
    BY <1>1, CallUnlocks, QuietLock

\* Steps of a request that leave the slots alone and do not enter the window.
LEMMA PassiveLock ==
  ASSUME Local, LockedSlotStaysOpen, NEW w \in Workers,
         \/ HoldExists(w) \/ HoldSet(w) \/ ReleaseDel(w) \/ VerifyHold(w) \/ DropHold(w)
         \/ CancelSlot(w) \/ ApproveCommit(w) \/ RejectSlot(w) \/ Crash(w)
  PROVE  LockedSlotStaysOpen'
  <1>1. slots' = slots
    BY DEF HoldExists, HoldSet, ReleaseDel, VerifyHold, DropHold, CancelSlot, ApproveCommit,
           RejectSlot, Crash
  <1>2. CASE Finish(w)
    BY <1>1, <1>2, FinishUnlocks, QuietLock
  <1>3. ASSUME NEW pc \in Points \ Window, Goto(w, pc) PROVE LockedSlotStaysOpen'
    BY <1>1, <1>3, GotoUnlocks, QuietLock
  <1>4. CASE CancelSlot(w) \/ RejectSlot(w)
    <2>1. CASE Finish(w)
      BY <2>1, <1>2
    <2>2. ASSUME NEW pc \in {"cancel_commit", "reject_commit"},
                 req' = [req EXCEPT ![w].pc = pc, ![w].sst = slots[req[w].slot]]
          PROVE  LockedSlotStaysOpen'
      <3>1. \A s \in Slots : Lockers(s)' \subseteq Lockers(s)
        BY <2>2 DEF Local, TypeOK, Lockers, Request
      <3> QED
        BY <1>1, <3>1, QuietLock
    <2> QED
      BY <1>4, <2>1, <2>2 DEF CancelSlot, RejectSlot
  <1>5. {"hold_set", "lock", "drop_hold"} \subseteq Points \ Window
    BY DEF Points, Window
  <1> QED
    BY <1>2, <1>3, <1>4, <1>5 DEF HoldExists, HoldSet, ReleaseDel, VerifyHold, DropHold,
       ApproveCommit, Crash

\* Writers of a slot wait until no request is in the window of that slot.
LEMMA WriterLock ==
  ASSUME Local, LockedSlotStaysOpen, NEW w \in Workers,
         BlockCommit(w) \/ UnblockCommit(w) \/ CancelCommit(w) \/ RejectCommit(w)
  PROVE  LockedSlotStaysOpen'
  <1>1. Finish(w)
    BY DEF BlockCommit, UnblockCommit, WriteSlot, CancelCommit, RejectCommit, CloseBooking
  <1>2. \A s \in Slots : Lockers(s)' \subseteq Lockers(s)
    BY <1>1, FinishUnlocks
  <1>3. \/ slots' = slots
        \/ ~RowLocked(req[w].slot) /\ \E st \in SlotStatus :
              slots' = [slots EXCEPT ![req[w].slot] = st]
    BY DEF BlockCommit, UnblockCommit, WriteSlot, CancelCommit, RejectCommit, CloseBooking,
           SlotStatus
  <1>4. ASSUME NEW s \in Slots PROVE slots'[s] = slots[s] \/ Lockers(s)' = {}
    <2>1. CASE s # req[w].slot
      BY <1>3, <2>1 DEF Local, TypeOK
    <2>2. CASE s = req[w].slot
      BY <1>2, <1>3, <2>2 DEF RowLocked
    <2> QED
      BY <2>1, <2>2
  <1> QED
    BY <1>2, <1>4, QuietLock

\* LockSlot is the way in: the window was empty and the slot has just been seen
\* OPEN.
LEMMA EnterWindow ==
  ASSUME Local, LockedSlotStaysOpen, NEW w \in Workers, LockSlot(w)
  PROVE  LockedSlotStaysOpen'
  <1>0. PICK s0 \in Slots : s0 = req[w].slot
    BY DEF LockSlot, Local, RequestsOK, RequestOK
  <1>1. slots' = slots
    BY DEF LockSlot
  <1>2. CASE Goto(w, "drop_hold")
    BY <1>1, <1>2, GotoUnlocks, QuietLock DEF Points, Window
  <1>3. CASE Goto(w, "policy") /\ slots[s0] = "OPEN"
    <2>1. Lockers(s0) = {} /\ Lockers(s0)' \subseteq {w}
      BY <1>0, <1>3 DEF LockSlot, RowLocked, Lockers, Goto, Local, TypeOK, Request
    <2>2. ASSUME NEW s \in Slots, s # s0 PROVE Lockers(s)' \subseteq Lockers(s)
      BY <1>0, <1>3, <2>2 DEF Lockers, Goto, Local, TypeOK, Request
    <2>3. ASSUME NEW s \in Slots
          PROVE  AtMostOne(Lockers(s)') /\ (Lockers(s)' # {} => slots[s] = "OPEN")
      <3>1. CASE s = s0
        BY <1>3, <2>1, <3>1 DEF AtMostOne
      <3>2. CASE s # s0
        BY <2>2, <3>2 DEF LockedSlotStaysOpen, AtMostOne, RowLocked
      <3> QED
        BY <3>1, <3>2
    <2> QED
      BY <1>1, <2>3 DEF LockedSlotStaysOpen, RowLocked, AtMostOne
  <1> QED
    BY <1>0, <1>2, <1>3 DEF LockSlot

\* CheckPolicy stays in the window or leaves it.
LEMMA InsideWindow ==
  ASSUME Local, LockedSlotStaysOpen, NEW w \in Workers, CheckPolicy(w)
  PROVE  LockedSlotStaysOpen'
  <1>1. slots' = slots
    BY DEF CheckPolicy
  <1>2. \A s \in Slots : Lockers(s)' \subseteq Lockers(s)
    BY DEF CheckPolicy, Goto, Lockers, Local, TypeOK, Request
  <1> QED
    BY <1>1, <1>2, QuietLock

\* InsertBooking leaves it, and the only locker of the slot was this request.
LEMMA LeaveWindow ==
  ASSUME Local, LockedSlotStaysOpen, NEW w \in Workers, InsertBooking(w)
  PROVE  LockedSlotStaysOpen'
  <1>0. PICK s0 \in Slots : s0 = req[w].slot
    BY DEF InsertBooking, Local, RequestsOK, RequestOK
  <1>1. Goto(w, "drop_hold")
    BY DEF InsertBooking
  <1>2. \A s \in Slots : Lockers(s)' \subseteq Lockers(s) \ {w}
    BY <1>1, GotoUnlocks DEF Points, Window
  <1>3. w \in Lockers(s0)
    BY <1>0 DEF InsertBooking, Lockers
  <1>4. Lockers(s0)' = {}
    BY <1>2, <1>3 DEF LockedSlotStaysOpen, AtMostOne
  <1>5. \A s \in Slots : s # s0 => slots'[s] = slots[s]
    BY <1>0 DEF InsertBooking, Local, TypeOK
  <1> QED
    BY <1>2, <1>4, <1>5, QuietLock

LEMMA EnvironmentLock ==
  ASSUME Local, LockedSlotStaysOpen,
         \/ \E S \in SUBSET Slots : GenerateSlots(S) \/ ClearSlots(S)
         \/ \E P \in Pages : DeletePage(P)
         \/ \E s \in Slots : ExpireHold(s)
         \/ Tick
  PROVE  LockedSlotStaysOpen'
  <1>1. UNCHANGED req
    BY DEF GenerateSlots, ClearSlots, DeletePage, ExpireHold, Tick
  <1>2. \A s \in Slots : Lockers(s)' = Lockers(s)
    BY <1>1, SameRequestsSameLockers
  <1>3. ASSUME NEW S \in SUBSET Slots, GenerateSlots(S), NEW s \in Slots
        PROVE  slots'[s] = slots[s] \/ Lockers(s)' = {}
    BY <1>2, <1>3 DEF GenerateSlots, LockedSlotStaysOpen, RowLocked
  <1>4. ASSUME NEW S \in SUBSET Slots, ClearSlots(S), NEW s \in Slots
        PROVE  slots'[s] = slots[s] \/ Lockers(s)' = {}
    BY <1>2, <1>4 DEF ClearSlots, RowLocked, Clearable
  <1>5. ASSUME NEW P \in Pages, DeletePage(P), NEW s \in Slots
        PROVE  slots'[s] = slots[s] \/ Lockers(s)' = {}
    BY <1>2, <1>5 DEF DeletePage, RowLocked
  <1>6. CASE slots' = slots
    BY <1>2, <1>6, QuietLock
  <1> QED
    BY <1>2, <1>3, <1>4, <1>5, <1>6, QuietLock DEF ExpireHold, Tick

LEMMA NextLock ==
  Local /\ LockedSlotStaysOpen /\ [Next]_vars => LockedSlotStaysOpen'
  <1> SUFFICES ASSUME Local, LockedSlotStaysOpen, [Next]_vars PROVE LockedSlotStaysOpen'
    OBVIOUS
  <1>1. ASSUME NEW w \in Workers, Continue(w) PROVE LockedSlotStaysOpen'
    BY <1>1, PassiveLock, WriterLock, EnterWindow, InsideWindow, LeaveWindow DEF Continue
  <1>2. CASE Next
    BY <1>1, <1>2, CallLock, PassiveLock, EnvironmentLock DEF Next
  <1>3. CASE UNCHANGED vars
    BY <1>3, SameRequestsSameLockers, QuietLock DEF vars
  <1> QED
    BY <1>2, <1>3

\* Between the status check of create_booking and its commit, the request is
\* alone in that window of its slot and the slot is OPEN.
THEOREM RowLockHolds == Spec => []LockedSlotStaysOpen
  <1>1. Init => LockedSlotStaysOpen
    BY DEF Init, LockedSlotStaysOpen, Lockers, RowLocked, AtMostOne, Idle
  <1> QED
    BY <1>1, InitLocal, NextLocal, NextLock, PTL DEF Spec

----------------------------------------------------------------------------
(* How the bookings change *)

\* w commits a new row.
Inserts(w, b) ==
  /\ req[w].pc = "insert"
  /\ WithKey(req[w].user, req[w].key) = {}
  /\ bookings' = [bookings EXCEPT ![b] = NewRow(req[w])]
  /\ slots' = [slots EXCEPT ![req[w].slot] = "BOOKED"]
  /\ Goto(w, "drop_hold")

\* w cancels or rejects, or approves, the booking it has read.
Closes(w) ==
  /\ req[w].pc \in {"cancel_commit", "reject_commit"}
  /\ req[w].booking \in Rows
  /\ \E st \in Terminal : CloseBooking(w, st)

Approves(w) == ApproveCommit(w) /\ req[w].booking \in Rows

\* The booking may have been deleted with its page; then nothing is written.
LEMMA CommitSteps ==
  ASSUME NEW w \in Workers, CancelCommit(w) \/ RejectCommit(w) \/ ApproveCommit(w)
  PROVE  Closes(w) \/ Approves(w) \/ UNCHANGED <<slots, bookings, staleCommit>>
  BY DEF CancelCommit, RejectCommit, ApproveCommit, CloseBooking, Closes, Approves, Terminal

LEMMA CallKeepsTables ==
  ASSUME NEW w \in Workers, Call(w)
  PROVE  UNCHANGED <<slots, bookings, staleCommit>>
  BY DEF Call, BlockRead, UnblockRead, HoldRead, ReleaseRead, CreateLookup,
         CancelRead, ApproveRead, RejectRead, HostRead

LEMMA BookingSteps ==
  ASSUME Next
  PROVE  \/ bookings' = bookings
         \/ \E w \in Workers, b \in Bookings \ Issued : Inserts(w, b)
         \/ \E w \in Workers : Closes(w) \/ Approves(w)
  <1> DEFINE Steps == \/ bookings' = bookings
                      \/ \E w \in Workers, b \in Bookings \ Issued : Inserts(w, b)
                      \/ \E w \in Workers : Closes(w) \/ Approves(w)
  <1>1. ASSUME NEW w \in Workers, InsertBooking(w) PROVE Steps
    BY <1>1 DEF InsertBooking, Inserts
  <1>2. ASSUME NEW w \in Workers, CancelCommit(w) \/ RejectCommit(w) \/ ApproveCommit(w)
        PROVE  Steps
    BY <1>2, CommitSteps
  <1>3. ASSUME NEW w \in Workers, Continue(w) PROVE Steps
    BY <1>1, <1>2, <1>3 DEF Continue, BlockCommit, UnblockCommit, WriteSlot, HoldExists,
       HoldSet, ReleaseDel, VerifyHold, LockSlot, CheckPolicy, DropHold, CancelSlot, RejectSlot
  <1> QED
    BY <1>3, CallKeepsTables DEF Next, Crash, ExpireHold, Tick, GenerateSlots, ClearSlots, DeletePage

LEMMA IssuedAreRows ==
  ASSUME Local, NEW b \in Issued
  PROVE  bookings[b] \in Row
  BY DEF Local, TypeOK, Issued

\* A commit of cancel, reject or approve: which row it writes, and that nothing
\* but the status of that row changes.
LEMMA StatusStep ==
  ASSUME Local, NEW w \in Workers, Closes(w) \/ Approves(w)
  PROVE  LET b == req[w].booking IN
         /\ b \in Rows
         /\ bookings[b] \in Row
         /\ bookings[b].slot = req[w].slot
         /\ \E st \in BookingStatus :
              /\ Closes(w) => st \in Terminal
              /\ Approves(w) => st = "CONFIRMED"
              /\ bookings' = [bookings EXCEPT ![b] = [bookings[b] EXCEPT !.status = st]]
  <1>1. req[w].booking \in Rows /\ bookings[req[w].booking].slot = req[w].slot
    BY DEF Local, RequestsOK, RequestOK, Closes, Approves, ApproveCommit
  <1>2. bookings[req[w].booking] \in Row
    BY <1>1, IssuedAreRows DEF Rows
  <1>3. CASE Closes(w)
    BY <1>1, <1>2, <1>3 DEF Closes, CloseBooking, SetStatus, Approves, ApproveCommit, BookingStatus
  <1>4. CASE Approves(w)
    BY <1>1, <1>2, <1>4 DEF Closes, SetStatus, Approves, ApproveCommit, BookingStatus, Active
  <1> QED
    BY <1>1, <1>2, <1>3, <1>4

\* Writing a status: the rows as they are afterwards.
LEMMA AfterStatus ==
  ASSUME Local, NEW b \in Issued, NEW st \in BookingStatus,
         bookings' = [bookings EXCEPT ![b] = [bookings[b] EXCEPT !.status = st]]
  PROVE  /\ Issued' = Issued
         /\ bookings'[b].status = st
         /\ \A x \in Issued :
              /\ bookings'[x] = [bookings[x] EXCEPT !.status = bookings'[x].status]
              /\ x # b => bookings'[x] = bookings[x]
              /\ bookings[x] \in Row
              /\ bookings'[x] \in Row
              /\ bookings'[x].slot = bookings[x].slot
  <1>1. \A x \in Issued : bookings[x] \in Row
    BY IssuedAreRows
  <1>2. [bookings[b] EXCEPT !.status = st] \in Row
    BY <1>1 DEF Row
  <1>3. bookings'[b] = [bookings[b] EXCEPT !.status = st]
    BY DEF Local, TypeOK, Issued
  <1>4. \A x \in Bookings : x # b => bookings'[x] = bookings[x]
    BY DEF Local, TypeOK
  <1>5. Issued' = Issued
    BY <1>2, <1>3, <1>4, ConstantsOK DEF Issued
  <1>6. bookings'[b].status = st /\ bookings'[b].slot = bookings[b].slot
    BY <1>1, <1>3 DEF Row
  <1>7. bookings'[b] = [bookings[b] EXCEPT !.status = bookings'[b].status]
    BY <1>3, <1>6
  <1>8. ASSUME NEW x \in Issued
        PROVE  bookings[x] = [bookings[x] EXCEPT !.status = bookings[x].status]
    BY <1>1, <1>8 DEF Row
  <1> QED
    BY <1>1, <1>2, <1>3, <1>4, <1>5, <1>6, <1>7, <1>8 DEF Issued

\* A commit of cancel, reject or approve neither adds nor deletes a row.
LEMMA RowsAfterStatus ==
  ASSUME Local, NEW w \in Workers, Closes(w) \/ Approves(w)
  PROVE  Rows' = Rows /\ Issued' = Issued
  <1>1. PICK b \in Rows : b = req[w].booking /\ bookings[b].slot = req[w].slot
    BY StatusStep
  <1>2. slots' = slots \/ slots' = [slots EXCEPT ![bookings[b].slot] = "OPEN"]
    BY <1>1 DEF Closes, CloseBooking, Approves, ApproveCommit
  <1>3. \A x \in Issued : bookings[x].slot \in Slots
    BY IssuedAreRows DEF Row
  <1>4. \A x \in Issued : slots'[bookings[x].slot] = "GONE" <=> slots[bookings[x].slot] = "GONE"
    BY <1>2, <1>3 DEF Rows, Local, TypeOK
  <1>5. Issued' = Issued /\ \A x \in Issued : bookings'[x].slot = bookings[x].slot
    BY <1>1, StatusStep, AfterStatus DEF Rows
  <1> QED
    BY <1>4, <1>5 DEF Rows

LEMMA RowInserted ==
  ASSUME Local, NEW w \in Workers, NEW b \in Bookings \ Issued, Inserts(w, b)
  PROVE  /\ NewRow(req[w]) \in Row
         /\ bookings'[b] = NewRow(req[w])
         /\ Issued' = Issued \cup {b}
         /\ \A x \in Issued : bookings'[x] = bookings[x]
  <1>1. NewRow(req[w]) \in Row
    BY DEF Inserts, NewRow, Row, Local, RequestsOK, RequestOK, BookingStatus, Active
  <1>2. bookings'[b] = NewRow(req[w]) /\ \A x \in Bookings : x # b => bookings'[x] = bookings[x]
    BY DEF Inserts, Local, TypeOK
  <1> QED
    BY <1>1, <1>2, ConstantsOK DEF Issued

LEMMA RowsAfterInsert ==
  ASSUME Local, LockedSlotStaysOpen,
         NEW w \in Workers, NEW b \in Bookings \ Issued, Inserts(w, b)
  PROVE  /\ Rows' = Rows \cup {b}
         /\ slots[req[w].slot] = "OPEN"
         /\ bookings'[b] = NewRow(req[w])
         /\ \A x \in Rows : bookings'[x] = bookings[x]
  <1>1. PICK s0 \in Slots : s0 = req[w].slot
    BY DEF Inserts, Local, RequestsOK, RequestOK
  <1>2. slots[s0] = "OPEN" /\ slots' = [slots EXCEPT ![s0] = "BOOKED"]
    BY <1>1 DEF Inserts, Lockers, LockedSlotStaysOpen, RowLocked
  <1>3. NewRow(req[w]).slot = s0
    BY <1>1 DEF NewRow
  <1>4. \A x \in Issued : bookings[x].slot \in Slots
    BY IssuedAreRows DEF Row
  <1>5. \A s \in Slots : slots'[s] = "GONE" <=> slots[s] = "GONE"
    BY <1>2 DEF Local, TypeOK
  <1>6. slots'[s0] # "GONE"
    BY <1>2 DEF Local, TypeOK
  <1> QED
    BY <1>1, <1>2, <1>3, <1>4, <1>5, <1>6, RowInserted DEF Rows

----------------------------------------------------------------------------
(* How a slot changes *)

\* w writes s for block_slot or unblock_slot.
Rewrites(w, s) ==
  /\ req[w].slot = s
  /\ Exists(s)
  /\ \/ req[w].pc = "block_commit" /\ slots'[s] = "BLOCKED"
     \/ req[w].pc = "unblock_commit" /\ slots'[s] = "OPEN"
  /\ staleCommit' = (staleCommit \/ slots[s] # req[w].sst)
  /\ bookings' = bookings

LEMMA SlotSteps ==
  ASSUME Local, Next, NEW s \in Slots
  PROVE  \/ slots'[s] = slots[s]
         \/ slots[s] = "NONE" /\ slots'[s] = "OPEN"
         \/ /\ slots[s] \in {"OPEN", "BLOCKED"} /\ slots'[s] = "GONE"
            /\ RowsOn(s) = {} /\ bookings' = bookings
         \/ \E P \in Pages : s \in P /\ DeletePage(P)
         \/ \E w \in Workers : Rewrites(w, s)
         \/ /\ slots'[s] = "OPEN"
            /\ \E w \in Workers : Closes(w) /\ req[w].slot = s
         \/ /\ slots'[s] = "BOOKED"
            /\ \E w \in Workers, b \in Bookings \ Issued : Inserts(w, b) /\ req[w].slot = s
  <1> DEFINE Steps ==
         \/ slots'[s] = slots[s]
         \/ slots[s] = "NONE" /\ slots'[s] = "OPEN"
         \/ /\ slots[s] \in {"OPEN", "BLOCKED"} /\ slots'[s] = "GONE"
            /\ RowsOn(s) = {} /\ bookings' = bookings
         \/ \E P \in Pages : s \in P /\ DeletePage(P)
         \/ \E w \in Workers : Rewrites(w, s)
         \/ /\ slots'[s] = "OPEN"
            /\ \E w \in Workers : Closes(w) /\ req[w].slot = s
         \/ /\ slots'[s] = "BOOKED"
            /\ \E w \in Workers, b \in Bookings \ Issued : Inserts(w, b) /\ req[w].slot = s
  <1>1. ASSUME NEW S \in SUBSET Slots, GenerateSlots(S) \/ ClearSlots(S) PROVE Steps
    BY <1>1 DEF GenerateSlots, ClearSlots, Clearable
  <1>2. ASSUME NEW w \in Workers, BlockCommit(w) \/ UnblockCommit(w) PROVE Steps
    <2>1. CASE req[w].slot = s /\ Exists(s)
      BY <1>2, <2>1 DEF BlockCommit, UnblockCommit, WriteSlot, SlotMoved, Rewrites, Local, TypeOK
    <2>2. CASE ~(req[w].slot = s /\ Exists(s))
      BY <1>2, <2>2 DEF BlockCommit, UnblockCommit, WriteSlot, Local, TypeOK
    <2> QED
      BY <2>1, <2>2
  <1>3. ASSUME NEW w \in Workers, CancelCommit(w) \/ RejectCommit(w) \/ ApproveCommit(w)
        PROVE  Steps
    <2>1. CASE Closes(w)
      BY <2>1 DEF Closes, CloseBooking, Local, TypeOK
    <2>2. CASE Approves(w) \/ UNCHANGED <<slots, bookings, staleCommit>>
      BY <2>2 DEF Approves, ApproveCommit
    <2> QED
      BY <1>3, <2>1, <2>2, CommitSteps
  <1>4. ASSUME NEW w \in Workers, InsertBooking(w) PROVE Steps
    <2>1. slots' = slots \/ \E b \in Bookings \ Issued : Inserts(w, b)
      BY <1>4 DEF InsertBooking, Inserts
    <2>2. ASSUME NEW b \in Bookings \ Issued, Inserts(w, b)
          PROVE  slots'[s] = slots[s] \/ (req[w].slot = s /\ slots'[s] = "BOOKED")
      BY <2>2 DEF Inserts, Local, TypeOK
    <2> QED
      BY <2>1, <2>2
  <1>5. ASSUME NEW w \in Workers, Continue(w) PROVE Steps
    BY <1>2, <1>3, <1>4, <1>5 DEF Continue, HoldExists, HoldSet, ReleaseDel, VerifyHold,
       LockSlot, CheckPolicy, DropHold, CancelSlot, RejectSlot
  <1>6. ASSUME NEW P \in Pages, DeletePage(P) PROVE Steps
    BY <1>6 DEF DeletePage
  <1> QED
    BY <1>1, <1>5, <1>6, CallKeepsTables DEF Next, Crash, ExpireHold, Tick

\* A deleted slot does not come back.
LEMMA GoneStays ==
  ASSUME Local, LockedSlotStaysOpen, Next, NEW s \in Slots, slots[s] = "GONE"
  PROVE  slots'[s] = "GONE"
  <1>1. ASSUME NEW w \in Workers PROVE ~Rewrites(w, s)
    BY DEF Rewrites, Exists
  <1>2. ASSUME NEW w \in Workers, Closes(w) PROVE req[w].slot # s
    BY <1>2, StatusStep DEF Rows
  <1>3. ASSUME NEW w \in Workers, NEW b \in Bookings \ Issued, Inserts(w, b) PROVE req[w].slot # s
    BY <1>3, RowsAfterInsert
  <1>4. ASSUME NEW P \in Pages, s \in P, DeletePage(P) PROVE slots'[s] = "GONE"
    BY <1>4 DEF DeletePage
  <1> QED
    BY <1>1, <1>2, <1>3, <1>4, SlotSteps

\* A step that writes no booking may still delete rows, with their page.
LEMMA RowsShrink ==
  ASSUME Local, LockedSlotStaysOpen, [Next]_vars, bookings' = bookings
  PROVE  Rows' \subseteq Rows
  <1>1. \A x \in Issued : bookings[x].slot \in Slots
    BY IssuedAreRows DEF Row
  <1>2. \A s \in Slots : slots[s] = "GONE" => slots'[s] = "GONE"
    BY GoneStays DEF vars
  <1> QED
    BY <1>1, <1>2 DEF Rows, Issued

----------------------------------------------------------------------------
(* One booking per idempotency key *)

LEMMA NextKey ==
  Local /\ LockedSlotStaysOpen /\ OneBookingPerKey /\ [Next]_vars => OneBookingPerKey'
  <1> SUFFICES ASSUME Local, LockedSlotStaysOpen, OneBookingPerKey, [Next]_vars
               PROVE  OneBookingPerKey'
    OBVIOUS
  <1>1. CASE bookings' = bookings
    BY <1>1, RowsShrink DEF OneBookingPerKey, WithKey, AtMostOne
  <1>2. ASSUME NEW w \in Workers, NEW b \in Bookings \ Issued, Inserts(w, b)
        PROVE  OneBookingPerKey'
    <2>1. \A x \in Rows : ~(bookings[x].user = req[w].user /\ bookings[x].key = req[w].key)
      BY <1>2 DEF Inserts, WithKey
    <2>2. NewRow(req[w]).user = req[w].user /\ NewRow(req[w]).key = req[w].key
      BY DEF NewRow
    <2>3. bookings'[b].user = req[w].user /\ bookings'[b].key = req[w].key
      BY <1>2, <2>2, RowsAfterInsert
    <2> QED
      BY <1>2, <2>1, <2>3, RowsAfterInsert DEF OneBookingPerKey, WithKey, AtMostOne
  <1>3. ASSUME NEW w \in Workers, Closes(w) \/ Approves(w)
        PROVE  OneBookingPerKey'
    <2>1. \A x \in Issued :
            /\ bookings[x] \in Row
            /\ bookings'[x] = [bookings[x] EXCEPT !.status = bookings'[x].status]
      BY <1>3, StatusStep, AfterStatus DEF Rows
    <2>2. \A x \in Issued : bookings'[x].user = bookings[x].user /\ bookings'[x].key = bookings[x].key
      BY <2>1 DEF Row
    <2>3. Rows' = Rows /\ Rows \subseteq Issued
      BY <1>3, RowsAfterStatus DEF Rows
    <2> QED
      BY <2>2, <2>3 DEF OneBookingPerKey, WithKey, AtMostOne
  <1> QED
    BY <1>1, <1>2, <1>3, BookingSteps DEF vars

LEMMA InitLock == Init => LockedSlotStaysOpen
  BY DEF Init, LockedSlotStaysOpen, Lockers, RowLocked, AtMostOne, Idle

\* Whatever the interleaving of a user's requests with one Idempotency-Key, at
\* most one booking comes of them.
THEOREM IdempotencyHolds == Spec => []OneBookingPerKey
  <1>1. Init => OneBookingPerKey
    BY DEF Init, OneBookingPerKey, WithKey, Rows, Issued, AtMostOne
  <1> QED
    BY <1>1, InitLock, InitLocal, NextLocal, NextLock, NextKey, PTL DEF Spec

----------------------------------------------------------------------------
(* The history of bookings *)

LEMMA RowStep ==
  ASSUME Local, [Next]_vars, NEW b \in Issued
  PROVE  /\ bookings[b] \in Row
         /\ b \in Issued'
         /\ bookings'[b] = [bookings[b] EXCEPT !.status = bookings'[b].status]
         /\ bookings'[b].slot = bookings[b].slot
  <1>1. bookings[b] \in Row
    BY IssuedAreRows
  <1>2. bookings[b] = [bookings[b] EXCEPT !.status = bookings[b].status]
    BY <1>1 DEF Row
  <1>3. ASSUME NEW w \in Workers, NEW x \in Bookings \ Issued, Inserts(w, x)
        PROVE  bookings'[b] = bookings[b]
    BY <1>3, RowInserted
  <1>4. ASSUME NEW w \in Workers, Closes(w) \/ Approves(w)
        PROVE  /\ bookings'[b] \in Row
               /\ bookings'[b] = [bookings[b] EXCEPT !.status = bookings'[b].status]
    BY <1>4, StatusStep, AfterStatus DEF Rows
  <1>5. /\ bookings'[b] \in Row
        /\ bookings'[b] = [bookings[b] EXCEPT !.status = bookings'[b].status]
    BY <1>1, <1>2, <1>3, <1>4, BookingSteps DEF vars
  <1>6. b \in Issued'
    BY <1>5, ConstantsOK DEF Issued
  <1>7. bookings'[b].slot = bookings[b].slot
    BY <1>1, <1>5 DEF Row
  <1> QED
    BY <1>1, <1>5, <1>6, <1>7

\* The slot of a booking is only deleted with its page.
LEMMA SlotOfRow ==
  ASSUME Local, LockedSlotStaysOpen, [Next]_vars, NEW b \in Rows,
         NEW s \in Slots, s = bookings[b].slot, slots'[s] = "GONE"
  PROVE  \E P \in Pages : s \in P /\ DeletePage(P)
  <1>1. slots[s] # "GONE" /\ b \in RowsOn(s)
    BY DEF Rows, RowsOn
  <1> QED
    BY <1>1, SlotSteps DEF Rewrites, vars

\* The booker, key and slot of a booking never change, and the host's clearing
\* of a range never deletes the slot it refers to: only deleting the whole page
\* does.
THEOREM BookingHistoryKept == Spec => HistoryKept
  <1> DEFINE Kept(b) ==
        \/ /\ b \in Rows'
           /\ bookings'[b] = [bookings[b] EXCEPT !.status = bookings'[b].status]
        \/ \E P \in Pages : bookings[b].slot \in P /\ \A s \in P : slots'[s] = "GONE"
  <1>1. ASSUME Local, LockedSlotStaysOpen, [Next]_vars, NEW b \in Rows PROVE Kept(b)
    <2>1. b \in Issued
      BY DEF Rows
    <2>2. PICK s \in Slots : s = bookings[b].slot
      BY <1>1, <2>1, IssuedAreRows DEF Row
    <2>3. /\ b \in Issued' /\ bookings'[b].slot = s
          /\ bookings'[b] = [bookings[b] EXCEPT !.status = bookings'[b].status]
      BY <1>1, <2>1, <2>2, RowStep
    <2>4. CASE slots'[s] # "GONE"
      BY <2>3, <2>4 DEF Rows
    <2>5. CASE slots'[s] = "GONE"
      BY <1>1, <2>2, <2>5, SlotOfRow, ConstantsOK DEF DeletePage
    <2> QED
      BY <2>4, <2>5
  <1>2. Local /\ LockedSlotStaysOpen /\ [Next]_vars
        => [\A b \in Rows :
              \/ /\ b \in Rows'
                 /\ bookings'[b] = [bookings[b] EXCEPT !.status = bookings'[b].status]
              \/ \E P \in Pages : /\ bookings[b].slot \in P
                                  /\ \A s \in P : slots'[s] = "GONE"]_vars
    BY <1>1
  <1> QED
    BY <1>2, InitLock, InitLocal, NextLocal, NextLock, PTL DEF Spec, HistoryKept

----------------------------------------------------------------------------
(* A decided booking *)

LEMMA DecidedStep ==
  ASSUME Local, Next, NEW b \in Rows, bookings[b].status \in Terminal,
         bookings'[b] # bookings[b]
  PROVE  staleCommit'
  <1>0. Rows \subseteq Issued
    BY DEF Rows
  <1>1. ASSUME NEW w \in Workers, Closes(w) \/ Approves(w) PROVE staleCommit'
    <2>1. req[w].booking = b
      <3>1. PICK x \in Rows : x = req[w].booking
        BY <1>1, StatusStep
      <3>2. PICK st \in BookingStatus :
              bookings' = [bookings EXCEPT ![x] = [bookings[x] EXCEPT !.status = st]]
        BY <1>1, <3>1, StatusStep
      <3>3. b \in Issued /\ x \in Issued
        BY <1>0
      <3> QED
        BY <3>1, <3>2, <3>3, AfterStatus
    <2>2. req[w].bst \in Active
      BY <1>1 DEF Closes, Approves, ApproveCommit, Local, RequestsOK, RequestOK, Active
    <2>3. BookingMoved(w)
      BY <2>1, <2>2 DEF BookingMoved, Active, Terminal
    <2> QED
      BY <1>1, <2>3 DEF Closes, CloseBooking, Approves, ApproveCommit, Local, TypeOK
  <1>2. ASSUME NEW w \in Workers, NEW x \in Bookings \ Issued, Inserts(w, x)
        PROVE  bookings'[b] = bookings[b]
    BY <1>0, <1>2, RowInserted
  <1> QED
    BY <1>1, <1>2, BookingSteps

\* Only a commit from a stale read moves a booking that is CANCELLED or REJECTED.
THEOREM DecisionsStand == Spec => DecidedOnlyMovedByStaleCommit
  <1>1. Local /\ [Next]_vars
        => [\A b \in Rows : bookings[b].status \in Terminal /\ bookings'[b] # bookings[b]
                              => staleCommit']_vars
    BY DecidedStep DEF vars
  <1> QED
    BY <1>1, InitLocal, NextLocal, PTL DEF Spec, DecidedOnlyMovedByStaleCommit

----------------------------------------------------------------------------
(* The ledger *)

\* How the set of active bookings of a slot follows a change of the rows.
LEMMA SameActive ==
  ASSUME bookings' = bookings, NEW s \in Slots, slots[s] = "GONE" <=> slots'[s] = "GONE"
  PROVE  ActiveOn(s)' = ActiveOn(s)
  BY DEF ActiveOn, RowsOn, Rows, Issued

LEMMA GoneIsFree ==
  ASSUME NEW s \in Slots
  PROVE  /\ slots[s] = "GONE" => ActiveOn(s) = {}
         /\ slots'[s] = "GONE" => ActiveOn(s)' = {}
  BY DEF ActiveOn, RowsOn, Rows

LEMMA ActiveAfterInsert ==
  ASSUME Local, LockedSlotStaysOpen,
         NEW w \in Workers, NEW b \in Bookings \ Issued, Inserts(w, b), NEW s \in Slots
  PROVE  ActiveOn(s)' = IF s = req[w].slot THEN ActiveOn(s) \cup {b} ELSE ActiveOn(s)
  <1>1. NewRow(req[w]).slot = req[w].slot /\ NewRow(req[w]).status \in Active
    BY DEF NewRow, Active
  <1>2. bookings'[b].slot = req[w].slot /\ bookings'[b].status \in Active
    BY <1>1, RowsAfterInsert
  <1>3. Rows' = Rows \cup {b} /\ \A x \in Rows : bookings'[x] = bookings[x]
    BY RowsAfterInsert
  <1> QED
    BY <1>2, <1>3 DEF ActiveOn, RowsOn

LEMMA ActiveAfterStatus ==
  ASSUME Local, NEW b \in Rows, NEW st \in BookingStatus,
         bookings' = [bookings EXCEPT ![b] = [bookings[b] EXCEPT !.status = st]],
         Rows' = Rows, NEW s \in Slots
  PROVE  /\ st \in Terminal => ActiveOn(s)' = ActiveOn(s) \ {b}
         /\ st \in Active /\ bookings[b].status \in Active => ActiveOn(s)' = ActiveOn(s)
  <1>1. /\ bookings'[b].status = st
        /\ \A x \in Issued : /\ x # b => bookings'[x] = bookings[x]
                             /\ bookings'[x].slot = bookings[x].slot
    <2>1. b \in Issued
      BY DEF Rows
    <2> QED
      BY <2>1, AfterStatus
  <1>2. Rows \subseteq Issued
    BY DEF Rows
  <1>3. Active \cap Terminal = {}
    BY DEF Active, Terminal
  <1> QED
    BY <1>1, <1>2, <1>3 DEF ActiveOn, RowsOn

\* A commit from rows that have not changed is made by the owner of the slot.
LEMMA CleanClose ==
  ASSUME Local, LedgerConsistent, NEW w \in Workers, Closes(w), ~staleCommit',
         NEW s0 \in Slots, s0 = req[w].slot
  PROVE  /\ ~staleCommit
         /\ slots[s0] = "BOOKED"
         /\ slots' = [slots EXCEPT ![s0] = "OPEN"]
         /\ ActiveOn(s0) = {req[w].booking}
         /\ ActiveOn(s0)' = {}
         /\ \A s \in Slots : s # s0 => ActiveOn(s)' = ActiveOn(s)
         /\ Issued' = Issued
  <1>1. ~staleCommit /\ ~BookingMoved(w) /\ ~SlotMoved(w)
    BY DEF Closes, CloseBooking, Local, TypeOK
  <1>2. PICK b \in Rows : b = req[w].booking /\ bookings[b].slot = s0
    BY StatusStep
  <1>3. bookings[b].status \in Active
    BY <1>1, <1>2 DEF BookingMoved, Closes, Local, RequestsOK, RequestOK, Active
  <1>4. b \in ActiveOn(s0)
    BY <1>2, <1>3 DEF ActiveOn, RowsOn
  <1>5. slots[s0] = "BOOKED" /\ ActiveOn(s0) = {b}
    BY <1>1, <1>4 DEF LedgerConsistent, AtMostOne
  <1>6. slots' = [slots EXCEPT ![s0] = "OPEN"]
    BY <1>1, <1>5 DEF SlotMoved, Closes, CloseBooking
  <1>7. Issued' = Issued /\ \A s \in Slots : ActiveOn(s)' = ActiveOn(s) \ {b}
    <2>1. PICK st \in Terminal :
            bookings' = [bookings EXCEPT ![b] = [bookings[b] EXCEPT !.status = st]]
      BY <1>2, StatusStep
    <2>2. st \in BookingStatus
      BY DEF BookingStatus
    <2> QED
      BY <2>1, <2>2, ActiveAfterStatus, RowsAfterStatus
  <1>8. \A s \in Slots : s # s0 => b \notin ActiveOn(s)
    BY <1>2 DEF ActiveOn, RowsOn
  <1>9. ActiveOn(s0)' = {} /\ \A s \in Slots : s # s0 => ActiveOn(s)' = ActiveOn(s)
    <2>1. ActiveOn(s0)' = {}
      BY <1>5, <1>7
    <2>2. ASSUME NEW s \in Slots, s # s0 PROVE ActiveOn(s)' = ActiveOn(s)
      BY <1>7, <1>8, <2>2
    <2> QED
      BY <2>1, <2>2
  <1> QED
    BY <1>1, <1>2, <1>5, <1>6, <1>7, <1>9

LEMMA CleanApprove ==
  ASSUME Local, NEW w \in Workers, Approves(w), ~staleCommit'
  PROVE  /\ ~staleCommit /\ slots' = slots /\ Issued' = Issued
         /\ \A s \in Slots : ActiveOn(s)' = ActiveOn(s)
  <1>1. ~staleCommit /\ ~BookingMoved(w) /\ slots' = slots
    BY DEF Approves, ApproveCommit, Local, TypeOK
  <1>2. PICK b \in Rows : b = req[w].booking
    BY StatusStep
  <1>3. bookings' = [bookings EXCEPT ![b] = [bookings[b] EXCEPT !.status = "CONFIRMED"]]
    BY <1>2, StatusStep
  <1>4. bookings[b].status \in Active
    BY <1>1, <1>2 DEF BookingMoved, Approves, ApproveCommit, Local, RequestsOK, RequestOK, Active
  <1>5. "CONFIRMED" \in BookingStatus /\ "CONFIRMED" \in Active
    BY DEF BookingStatus, Active
  <1> QED
    BY <1>1, <1>3, <1>4, <1>5, ActiveAfterStatus, RowsAfterStatus

LEMMA CleanInsert ==
  ASSUME Local, LockedSlotStaysOpen, LedgerConsistent, ~staleCommit,
         NEW w \in Workers, NEW b \in Bookings \ Issued, Inserts(w, b),
         NEW s0 \in Slots, s0 = req[w].slot
  PROVE  /\ slots[s0] = "OPEN"
         /\ slots' = [slots EXCEPT ![s0] = "BOOKED"]
         /\ ActiveOn(s0) = {}
         /\ ActiveOn(s0)' = {b}
         /\ \A s \in Slots : s # s0 => ActiveOn(s)' = ActiveOn(s)
         /\ Issued' = Issued \cup {b}
  <1>1. w \in Lockers(s0)
    BY DEF Lockers, Inserts
  <1>2. slots[s0] = "OPEN"
    BY <1>1 DEF LockedSlotStaysOpen, RowLocked
  <1>3. ActiveOn(s0) = {}
    BY <1>2 DEF LedgerConsistent
  <1> QED
    BY <1>2, <1>3, ActiveAfterInsert, RowInserted DEF Inserts

LEMMA StaleStays ==
  ASSUME Local, Next, ~staleCommit'
  PROVE  ~staleCommit
  <1>1. ASSUME NEW w \in Workers, Continue(w) PROVE staleCommit => staleCommit'
    BY <1>1 DEF Continue, BlockCommit, UnblockCommit, WriteSlot, HoldExists, HoldSet,
       ReleaseDel, VerifyHold, LockSlot, CheckPolicy, InsertBooking, DropHold, CancelSlot,
       CancelCommit, RejectCommit, CloseBooking, ApproveCommit, RejectSlot
  <1> QED
    BY <1>1, CallKeepsTables DEF Next, Crash, ExpireHold, Tick, GenerateSlots, ClearSlots, DeletePage

LEMMA NextLedger ==
  Local /\ LockedSlotStaysOpen /\ LedgerConsistent /\ [Next]_vars => LedgerConsistent'
  <1> SUFFICES ASSUME Local, LockedSlotStaysOpen, LedgerConsistent, Next, ~staleCommit',
                      NEW s \in Slots
               PROVE  AtMostOne(ActiveOn(s)') /\ (slots'[s] = "BOOKED" <=> ActiveOn(s)' # {})
    BY SameActive DEF LedgerConsistent, AtMostOne, vars
  <1>1. ~staleCommit
    BY StaleStays
  <1>2. AtMostOne(ActiveOn(s)) /\ (slots[s] = "BOOKED" <=> ActiveOn(s) # {})
    BY <1>1 DEF LedgerConsistent
  <1>3. ASSUME NEW w \in Workers, Closes(w)
        PROVE  AtMostOne(ActiveOn(s)') /\ (slots'[s] = "BOOKED" <=> ActiveOn(s)' # {})
    <2>1. PICK s0 \in Slots : s0 = req[w].slot
      BY <1>3 DEF Closes, Local, RequestsOK, RequestOK
    <2>2. /\ slots' = [slots EXCEPT ![s0] = "OPEN"]
          /\ ActiveOn(s0)' = {}
          /\ \A s1 \in Slots : s1 # s0 => ActiveOn(s1)' = ActiveOn(s1)
      BY <1>1, <1>3, <2>1, CleanClose
    <2>3. CASE s = s0
      <3>1. slots'[s] = "OPEN"
        BY <2>2, <2>3 DEF Local, TypeOK
      <3> QED
        BY <2>2, <2>3, <3>1 DEF AtMostOne
    <2>4. CASE s # s0
      <3>1. slots'[s] = slots[s] /\ ActiveOn(s)' = ActiveOn(s)
        BY <2>2, <2>4
      <3> QED
        BY <1>2, <3>1 DEF AtMostOne
    <2> QED
      BY <2>3, <2>4
  <1>4. ASSUME NEW w \in Workers, NEW b \in Bookings \ Issued, Inserts(w, b)
        PROVE  AtMostOne(ActiveOn(s)') /\ (slots'[s] = "BOOKED" <=> ActiveOn(s)' # {})
    <2>1. PICK s0 \in Slots : s0 = req[w].slot
      BY <1>4 DEF Inserts, Local, RequestsOK, RequestOK
    <2>2. /\ slots' = [slots EXCEPT ![s0] = "BOOKED"]
          /\ ActiveOn(s0)' = {b}
          /\ \A s1 \in Slots : s1 # s0 => ActiveOn(s1)' = ActiveOn(s1)
      BY <1>1, <1>4, <2>1, CleanInsert
    <2>3. CASE s = s0
      <3>1. slots'[s] = "BOOKED"
        BY <2>2, <2>3 DEF Local, TypeOK
      <3> QED
        BY <2>2, <2>3, <3>1 DEF AtMostOne
    <2>4. CASE s # s0
      <3>1. slots'[s] = slots[s] /\ ActiveOn(s)' = ActiveOn(s)
        BY <2>2, <2>4
      <3> QED
        BY <1>2, <3>1 DEF AtMostOne
    <2> QED
      BY <2>3, <2>4
  <1>5. ASSUME NEW w \in Workers, Approves(w)
        PROVE  AtMostOne(ActiveOn(s)') /\ (slots'[s] = "BOOKED" <=> ActiveOn(s)' # {})
    BY <1>2, <1>5, CleanApprove
  <1>6. CASE /\ bookings' = bookings
             /\ ~\E w \in Workers : Closes(w)
             /\ ~\E w \in Workers, b \in Bookings \ Issued : Inserts(w, b)
    <2>1. CASE slots'[s] = "GONE"
      BY <2>1, GoneIsFree DEF AtMostOne
    <2>2. ASSUME NEW w \in Workers, Rewrites(w, s)
          PROVE  slots[s] # "BOOKED" /\ slots'[s] # "BOOKED"
      BY <1>1, <2>2 DEF Rewrites, Local, RequestsOK, RequestOK, TypeOK
    <2>3. CASE slots'[s] # "GONE"
      <3>1. ActiveOn(s)' = ActiveOn(s)
        BY <1>6, <2>3, GoneStays, SameActive
      <3>2. ASSUME NEW P \in Pages, s \in P, DeletePage(P) PROVE FALSE
        BY <2>3, <3>2 DEF DeletePage
      <3>3. slots'[s] = "BOOKED" <=> slots[s] = "BOOKED"
        BY <1>6, <2>2, <2>3, <3>2, SlotSteps
      <3> QED
        BY <1>2, <3>1, <3>3
    <2> QED
      BY <2>1, <2>3
  <1> QED
    BY <1>3, <1>4, <1>5, <1>6, BookingSteps

\* Until a commit is made from a row that had changed since it was read, a slot
\* is BOOKED exactly while it has an active booking, and it has one at most.
THEOREM LedgerHolds == Spec => []LedgerConsistent
  <1>1. Init => LedgerConsistent
    BY DEF Init, LedgerConsistent, ActiveOn, RowsOn, Rows, Issued, AtMostOne
  <1> QED
    BY <1>1, InitLock, InitLocal, NextLocal, NextLock, NextLedger, PTL DEF Spec

----------------------------------------------------------------------------
(* The requests implement the ledger *)

LEMMA OffersFollow ==
  ASSUME Local, Local', NEW S \in SUBSET Slots, NEW st \in SlotStatus,
         \A s \in Slots : slots'[s] = IF s \in S THEN st ELSE slots[s]
  PROVE  Offers' = [s \in Slots |-> IF s \in S THEN OfferOf[st] ELSE Offers[s]]
  BY DEF Offers

LEMMA OwnersFollow ==
  ASSUME \A s \in Slots : ActiveOn(s)' = ActiveOn(s)
  PROVE  Owners' = Owners
  BY DEF Owners, OwnerOf

\* The slots of S move together, none with an active booking.
LEMMA SlotsMove ==
  ASSUME Local, Local', bookings' = bookings, \A s \in Slots : ActiveOn(s)' = ActiveOn(s),
         NEW S \in SUBSET Slots, NEW from \in SUBSET SlotStatus, NEW st \in SlotStatus,
         \A s \in S : slots[s] \in from,
         \A s \in Slots : slots'[s] = IF s \in S THEN st ELSE slots[s]
  PROVE  Ledger!Move(S, {OfferOf[x] : x \in from}, OfferOf[st])
  <1>1. Owners' = Owners /\ Issued' = Issued
    BY OwnersFollow DEF Issued
  <1>2. \A s \in S : Offers[s] \in {OfferOf[x] : x \in from}
    BY DEF Offers
  <1> QED
    BY <1>1, <1>2, OffersFollow DEF Ledger!Move

\* What the ledger's steps do not change.
Unmoved == Offers' = Offers /\ Owners' = Owners /\ Issued' = Issued

LEMMA Stutter ==
  ASSUME slots' = slots, Issued' = Issued, \A s \in Slots : ActiveOn(s)' = ActiveOn(s)
  PROVE  Unmoved
  <1>1. Offers' = Offers
    BY DEF Offers
  <1> QED
    BY <1>1, OwnersFollow DEF Unmoved

LEMMA HostStep ==
  ASSUME Local, Local', NEW S \in SUBSET Slots, GenerateSlots(S) \/ ClearSlots(S)
  PROVE  Ledger!Sale
  <1>1. CASE GenerateSlots(S)
    <2>0. \A s \in Slots : ActiveOn(s)' = ActiveOn(s)
      BY <1>1, SameActive DEF GenerateSlots
    <2>1. Ledger!Move(S, {OfferOf[x] : x \in {"NONE"}}, OfferOf["OPEN"])
      BY <1>1, <2>0, SlotsMove DEF GenerateSlots, SlotStatus, Local, TypeOK
    <2>2. Ledger!Publish(S)
      BY <2>1 DEF Ledger!Publish, OfferOf
    <2> QED
      BY <2>2 DEF Ledger!Sale
  <1>2. CASE ClearSlots(S)
    <2> DEFINE C == Clearable(S)
    <2>1. PICK T \in SUBSET Slots : T = C
      BY DEF Clearable
    <2>0. ASSUME NEW s \in Slots PROVE ActiveOn(s)' = ActiveOn(s)
      <3>1. CASE s \in T
        <4>1. ActiveOn(s) = {}
          BY <2>1, <3>1 DEF Clearable, ActiveOn
        <4>2. slots'[s] = "GONE"
          BY <1>2, <2>1, <3>1 DEF ClearSlots
        <4> QED
          BY <4>1, <4>2, GoneIsFree
      <3>2. CASE s \notin T
        BY <1>2, <2>1, <3>2, SameActive DEF ClearSlots
      <3> QED
        BY <3>1, <3>2
    <2>2. Ledger!Move(T, {OfferOf[x] : x \in {"OPEN", "BLOCKED"}}, OfferOf["GONE"])
      BY <1>2, <2>0, <2>1, SlotsMove DEF ClearSlots, Clearable, SlotStatus, Local, TypeOK
    <2>3. {OfferOf[x] : x \in {"OPEN", "BLOCKED"}} = {"open", "blocked"}
      BY DEF OfferOf
    <2>4. Ledger!Withdraw(T)
      BY <2>2, <2>3 DEF Ledger!Withdraw, OfferOf
    <2> QED
      BY <2>4 DEF Ledger!Sale
  <1> QED
    BY <1>1, <1>2

LEMMA PageStep ==
  ASSUME Local, Local', NEW P \in Pages, DeletePage(P)
  PROVE  Ledger!Sale
  <1>1. PICK T \in SUBSET Slots : T = P
    BY ConstantsOK
  <1>2. Offers' = [s \in Slots |-> IF s \in P THEN "withdrawn" ELSE Offers[s]]
    BY <1>1, OffersFollow DEF DeletePage, SlotStatus, OfferOf
  <1>3. ASSUME NEW s \in Slots PROVE OwnerOf(s)' = IF s \in P THEN None ELSE OwnerOf(s)
    <2>1. CASE s \in P
      BY <2>1, GoneIsFree DEF DeletePage, OwnerOf
    <2>2. CASE s \notin P
      BY <2>2, SameActive DEF DeletePage, OwnerOf
    <2> QED
      BY <2>1, <2>2
  <1>4. Owners' = [s \in Slots |-> IF s \in P THEN None ELSE Owners[s]]
    BY <1>3 DEF Owners
  <1>5. Issued' = Issued
    BY DEF DeletePage, Issued
  <1> QED
    BY <1>2, <1>4, <1>5 DEF Ledger!Sale, Ledger!Discontinue

LEMMA WriteStep ==
  ASSUME Local, Local', NEW w \in Workers, BlockCommit(w) \/ UnblockCommit(w), ~staleCommit'
  PROVE  Ledger!Sale \/ Unmoved
  <1>1. PICK s \in Slots : s = req[w].slot
    BY DEF BlockCommit, UnblockCommit, Local, RequestsOK, RequestOK
  <1>2. CASE ~Exists(s)
    BY <1>1, <1>2, Stutter, SameActive DEF BlockCommit, UnblockCommit, WriteSlot, Issued
  <1>3. CASE Exists(s) /\ BlockCommit(w)
    <2>1. slots[s] = "OPEN" /\ slots' = [slots EXCEPT ![s] = "BLOCKED"] /\ bookings' = bookings
      BY <1>1, <1>3 DEF BlockCommit, WriteSlot, SlotMoved, Local, RequestsOK, RequestOK
    <2>0. \A x \in Slots : ActiveOn(x)' = ActiveOn(x)
      BY <2>1, SameActive DEF Local, TypeOK
    <2>2. Ledger!Move({s}, {OfferOf[x] : x \in {"OPEN"}}, OfferOf["BLOCKED"])
      BY <2>0, <2>1, SlotsMove DEF SlotStatus, Local, TypeOK
    <2>3. Ledger!Block(s)
      BY <2>2 DEF Ledger!Block, OfferOf
    <2> QED
      BY <2>3 DEF Ledger!Sale
  <1>4. CASE Exists(s) /\ UnblockCommit(w)
    <2>1. slots[s] = "BLOCKED" /\ slots' = [slots EXCEPT ![s] = "OPEN"] /\ bookings' = bookings
      BY <1>1, <1>4 DEF UnblockCommit, WriteSlot, SlotMoved, Local, RequestsOK, RequestOK
    <2>0. \A x \in Slots : ActiveOn(x)' = ActiveOn(x)
      BY <2>1, SameActive DEF Local, TypeOK
    <2>2. Ledger!Move({s}, {OfferOf[x] : x \in {"BLOCKED"}}, OfferOf["OPEN"])
      BY <2>0, <2>1, SlotsMove DEF SlotStatus, Local, TypeOK
    <2>3. Ledger!Unblock(s)
      BY <2>2 DEF Ledger!Unblock, OfferOf
    <2> QED
      BY <2>3 DEF Ledger!Sale
  <1> QED
    BY <1>2, <1>3, <1>4

LEMMA CloseStep ==
  ASSUME Local, LedgerConsistent, NEW w \in Workers, Closes(w), ~staleCommit'
  PROVE  Ledger!Sale
  <1>1. PICK s0 \in Slots : s0 = req[w].slot
    BY DEF Closes, Local, RequestsOK, RequestOK
  <1>2. /\ slots[s0] = "BOOKED"
        /\ slots' = [slots EXCEPT ![s0] = "OPEN"]
        /\ ActiveOn(s0)' = {}
        /\ \A s \in Slots : s # s0 => ActiveOn(s)' = ActiveOn(s)
        /\ Issued' = Issued
    BY <1>1, CleanClose
  <1>3. Offers[s0] = "taken"
    BY <1>2 DEF Offers, OfferOf
  <1>4. Offers' = [Offers EXCEPT ![s0] = "open"]
    BY <1>2 DEF Offers, OfferOf, Local, TypeOK
  <1>5. Owners' = [Owners EXCEPT ![s0] = None]
    BY <1>2 DEF Owners, OwnerOf
  <1>6. Ledger!GiveBack(s0)
    BY <1>2, <1>3, <1>4, <1>5 DEF Ledger!GiveBack
  <1> QED
    BY <1>6 DEF Ledger!Sale

LEMMA TakeStep ==
  ASSUME Local, LockedSlotStaysOpen, LedgerConsistent, ~staleCommit,
         NEW w \in Workers, NEW b \in Bookings \ Issued, Inserts(w, b)
  PROVE  Ledger!Sale
  <1>1. PICK s0 \in Slots : s0 = req[w].slot
    BY DEF Inserts, Local, RequestsOK, RequestOK
  <1>2. /\ slots[s0] = "OPEN"
        /\ slots' = [slots EXCEPT ![s0] = "BOOKED"]
        /\ ActiveOn(s0)' = {b}
        /\ \A s \in Slots : s # s0 => ActiveOn(s)' = ActiveOn(s)
        /\ Issued' = Issued \cup {b}
    BY <1>1, CleanInsert
  <1>3. Offers[s0] = "open"
    BY <1>2 DEF Offers, OfferOf
  <1>4. Offers' = [Offers EXCEPT ![s0] = "taken"]
    BY <1>2 DEF Offers, OfferOf, Local, TypeOK
  <1>5. Owners' = [Owners EXCEPT ![s0] = b]
    <2>1. OwnerOf(s0)' = b
      <3>1. OneOf({b}) = b
        BY DEF OneOf
      <3> QED
        BY <1>2, <3>1 DEF OwnerOf
    <2>2. ASSUME NEW s \in Slots, s # s0 PROVE OwnerOf(s)' = OwnerOf(s)
      BY <1>2, <2>2 DEF OwnerOf
    <2> QED
      BY <2>1, <2>2 DEF Owners
  <1>6. Ledger!Take(s0, b)
    BY <1>2, <1>3, <1>4, <1>5 DEF Ledger!Take
  <1> QED
    BY <1>6 DEF Ledger!Sale

\* A step that is not, and follows no, commit from a stale row.
LEMMA CleanStep ==
  ASSUME Local, Local', LockedSlotStaysOpen, LedgerConsistent, Next, ~staleCommit'
  PROVE  Ledger!Sale \/ Unmoved
  <1>1. ASSUME slots' = slots, bookings' = bookings PROVE Unmoved
    BY <1>1, Stutter, SameActive DEF Issued
  <1>3. ASSUME NEW w \in Workers, Continue(w)
        PROVE  Ledger!Sale \/ Unmoved
    <2>1. CASE BlockCommit(w) \/ UnblockCommit(w)
      BY <1>3, <2>1, WriteStep
    <2>2. CASE InsertBooking(w)
      <3>1. \/ slots' = slots /\ bookings' = bookings
            \/ \E b \in Bookings \ Issued : Inserts(w, b)
        BY <2>2 DEF InsertBooking, Inserts
      <3> QED
        BY <1>1, <1>3, <3>1, StaleStays, TakeStep
    <2>3. CASE CancelCommit(w) \/ RejectCommit(w) \/ ApproveCommit(w)
      <3>1. CASE Closes(w)
        BY <1>3, <3>1, CloseStep
      <3>2. CASE Approves(w)
        BY <1>3, <3>2, CleanApprove, Stutter
      <3> QED
        BY <1>1, <2>3, <3>1, <3>2, CommitSteps
    <2> QED
      BY <1>1, <1>3, <2>1, <2>2, <2>3 DEF Continue, HoldExists, HoldSet, ReleaseDel,
         VerifyHold, LockSlot, CheckPolicy, DropHold, CancelSlot, RejectSlot
  <1> QED
    BY <1>1, <1>3, CallKeepsTables, HostStep, PageStep DEF Next, Crash, ExpireHold, Tick

\* Whatever the step: deleted slots and issued ids stay.
LEMMA AnyStep ==
  ASSUME Local, Local', LockedSlotStaysOpen, Next
  PROVE  /\ Issued \subseteq Issued'
         /\ \A s \in Slots : Offers[s] = "withdrawn" => Offers'[s] = "withdrawn"
  <1>1. Issued \subseteq Issued'
    BY BookingSteps, RowsAfterStatus, RowInserted, StatusStep DEF Issued
  <1>2. ASSUME NEW s \in Slots, Offers[s] = "withdrawn" PROVE Offers'[s] = "withdrawn"
    <2>1. slots[s] = "GONE"
      BY <1>2 DEF Offers, OfferOf, SlotStatus, Local, TypeOK
    <2>2. slots'[s] = "GONE"
      BY <2>1, GoneStays
    <2> QED
      BY <2>2 DEF Offers, OfferOf
  <1> QED
    BY <1>1, <1>2

LEMMA NextImplements ==
  Local /\ Local' /\ LockedSlotStaysOpen /\ LedgerConsistent /\ [Next]_vars
    => [Ledger!Next]_(Ledger!vars)
  <1> SUFFICES ASSUME Local, Local', LockedSlotStaysOpen, LedgerConsistent, [Next]_vars
               PROVE  Ledger!Next \/ UNCHANGED Ledger!vars
    OBVIOUS
  <1>1. CASE Next /\ staleCommit'
    <2>1. Ledger!Distrusted
      BY <1>1, AnyStep DEF Ledger!Distrusted
    <2> QED
      BY <2>1 DEF Ledger!Next
  <1>2. CASE Next /\ ~staleCommit'
    <2>1. ~staleCommit
      BY <1>2, StaleStays
    <2>2. CASE Ledger!Sale
      BY <1>2, <2>1, <2>2 DEF Ledger!Next
    <2>3. CASE Unmoved
      BY <1>2, <2>1, <2>3 DEF Unmoved, Ledger!vars
    <2> QED
      BY <1>2, <2>2, <2>3, CleanStep
  <1>3. CASE UNCHANGED vars
    <2>1. Unmoved
      BY <1>3, Stutter, SameActive DEF vars, Issued
    <2> QED
      BY <1>3, <2>1 DEF Unmoved, Ledger!vars, vars
  <1> QED
    BY <1>1, <1>2, <1>3

LEMMA InitImplements == Init => Ledger!Init
  <1> SUFFICES ASSUME Init PROVE Ledger!Init
    OBVIOUS
  <1>1. Issued = {} /\ Rows = {}
    BY DEF Init, Rows, Issued
  <1>2. Offers = [s \in Slots |-> "absent"]
    BY DEF Init, Offers, OfferOf
  <1>3. Owners = [s \in Slots |-> None]
    BY <1>1 DEF Owners, OwnerOf, ActiveOn, RowsOn
  <1>4. (~staleCommit) = TRUE
    BY DEF Init
  <1> QED
    BY <1>1, <1>2, <1>3, <1>4 DEF Ledger!Init

\* Until a request commits from a stale row, the API is a ledger that sells an
\* open slot to one new booking at a time, in single steps; afterwards, what was
\* deleted and what was issued stay so.
THEOREM RequestsImplementLedger == Spec => ImplementsLedger
  <1>1. Init => LedgerConsistent
    BY DEF Init, LedgerConsistent, ActiveOn, RowsOn, Rows, Issued, AtMostOne
  <1> QED
    BY <1>1, InitLock, InitLocal, NextLocal, NextLock, NextLedger, InitImplements,
       NextImplements, PTL DEF Spec, ImplementsLedger, Ledger!Spec

----------------------------------------------------------------------------
(* The limit of active bookings *)

LEMMA FiniteCounts ==
  ASSUME NEW u
  PROVE  IsFiniteSet(ActiveOf(u)) /\ IsFiniteSet(Counted(u))
  <1>1. ActiveOf(u) \subseteq Bookings /\ Counted(u) \subseteq Workers
    BY DEF ActiveOf, Rows, Issued, Counted
  <1> QED
    BY <1>1, FS_Subset, FiniteInstance

\* The sum of two cardinalities does not grow when the sets do not.
LEMMA SumShrinks ==
  ASSUME NEW A, IsFiniteSet(A), NEW B \in SUBSET A, NEW C, IsFiniteSet(C), NEW D \in SUBSET C
  PROVE  /\ Cardinality(A) \in Nat /\ Cardinality(B) \in Nat
         /\ Cardinality(C) \in Nat /\ Cardinality(D) \in Nat
         /\ Cardinality(B) + Cardinality(D) <= Cardinality(A) + Cardinality(C)
  <1>1. Cardinality(A) \in Nat /\ Cardinality(C) \in Nat
    BY FS_CardinalityType
  <1>2. Cardinality(B) <= Cardinality(A) /\ Cardinality(D) <= Cardinality(C)
    BY FS_Subset
  <1>3. Cardinality(B) \in Nat /\ Cardinality(D) \in Nat
    BY FS_Subset, FS_CardinalityType
  <1> QED
    BY <1>1, <1>2, <1>3

\* Only CheckPolicy adds to the requests that have counted.
LEMMA CountedFollows ==
  ASSUME Local, [Next]_vars, ~\E w \in Workers : CheckPolicy(w), NEW u \in Users
  PROVE  Counted(u)' \subseteq Counted(u)
  <1>1. ASSUME NEW w \in Workers, NEW r, r.pc # "insert", req' = [req EXCEPT ![w] = r]
        PROVE  Counted(u)' \subseteq Counted(u) \ {w}
    BY <1>1 DEF Counted, Local, TypeOK
  <1>2. ASSUME NEW w \in Workers, Finish(w) PROVE Counted(u)' \subseteq Counted(u)
    BY <1>1, <1>2 DEF Finish, Idle
  <1>3. ASSUME NEW w \in Workers, NEW pc, pc # "insert", Goto(w, pc)
        PROVE  Counted(u)' \subseteq Counted(u)
    BY <1>3 DEF Goto, Counted, Local, TypeOK, Request
  <1>4. ASSUME NEW w \in Workers, Call(w) PROVE Counted(u)' \subseteq Counted(u)
    BY <1>4, <1>1 DEF Call, Start, BlockRead, UnblockRead, HoldRead, ReleaseRead, CreateLookup,
                CancelRead, ApproveRead, RejectRead, HostRead, Idle
  <1>5. ASSUME NEW w \in Workers, CancelSlot(w) \/ RejectSlot(w)
        PROVE  Counted(u)' \subseteq Counted(u)
    BY <1>2, <1>5 DEF CancelSlot, RejectSlot, Counted, Local, TypeOK, Request
  <1>6. ASSUME NEW w \in Workers, Continue(w), ~CheckPolicy(w)
        PROVE  Counted(u)' \subseteq Counted(u)
    BY <1>2, <1>3, <1>5, <1>6 DEF Continue, BlockCommit, UnblockCommit, WriteSlot, HoldExists,
       HoldSet, ReleaseDel, VerifyHold, LockSlot, InsertBooking, DropHold, CancelCommit,
       RejectCommit, CloseBooking, ApproveCommit
  <1>7. UNCHANGED req => Counted(u)' \subseteq Counted(u)
    BY DEF Counted
  <1> QED
    BY <1>2, <1>4, <1>6, <1>7 DEF Next, Crash, ExpireHold, Tick, GenerateSlots, ClearSlots,
       DeletePage, vars

\* Without a stale commit only an insert adds to the active bookings of a user.
LEMMA ActiveFollows ==
  ASSUME Local, LockedSlotStaysOpen, Next, ~staleCommit', NEW u \in Users,
         ~\E w \in Workers, b \in Bookings \ Issued : Inserts(w, b)
  PROVE  ActiveOf(u)' \subseteq ActiveOf(u)
  <1>1. CASE bookings' = bookings
    BY <1>1, RowsShrink DEF ActiveOf
  <1>2. ASSUME NEW w \in Workers, Closes(w) \/ Approves(w)
        PROVE  ActiveOf(u)' \subseteq ActiveOf(u)
    <2>1. ~BookingMoved(w)
      BY <1>2 DEF Closes, CloseBooking, Approves, ApproveCommit, Local, TypeOK
    <2>2. PICK b \in Rows : b = req[w].booking
      BY <1>2, StatusStep
    <2>3. bookings[b].status \in Active
      BY <1>2, <2>1, <2>2 DEF BookingMoved, Closes, Approves, ApproveCommit, Local, RequestsOK,
         RequestOK, Active
    <2>4. /\ Rows' = Rows
          /\ \A x \in Rows : /\ x # b => bookings'[x] = bookings[x]
                             /\ bookings'[x].user = bookings[x].user
      <3>1. PICK st \in BookingStatus :
              bookings' = [bookings EXCEPT ![b] = [bookings[b] EXCEPT !.status = st]]
        BY <1>2, <2>2, StatusStep
      <3>2. \A x \in Issued : /\ x # b => bookings'[x] = bookings[x]
                              /\ bookings'[x] = [bookings[x] EXCEPT !.status = bookings'[x].status]
                              /\ bookings[x] \in Row
        <4>1. b \in Issued
          BY DEF Rows
        <4> QED
          BY <3>1, <4>1, AfterStatus
      <3>3. \A x \in Issued : bookings'[x].user = bookings[x].user
        BY <3>2 DEF Row
      <3> QED
        BY <1>2, <3>2, <3>3, RowsAfterStatus DEF Rows
    <2> QED
      BY <2>3, <2>4 DEF ActiveOf
  <1> QED
    BY <1>1, <1>2, BookingSteps

LEMMA CountedIsLocal ==
  ASSUME Local, NEW w \in Workers, NEW pc \in Points, Goto(w, pc), NEW u \in Users
  PROVE  /\ pc # "insert" => Counted(u)' = Counted(u) \ {w}
         /\ req[w].user # u => Counted(u)' = Counted(u)
         /\ Counted(u)' \subseteq Workers
  BY DEF Counted, Goto, Local, TypeOK, Request

LEMMA InsertKeepsSum ==
  ASSUME Local, LockedSlotStaysOpen,
         NEW w \in Workers, NEW b \in Bookings \ Issued, Inserts(w, b), NEW u \in Users
  PROVE  Cardinality(ActiveOf(u)') + Cardinality(Counted(u)')
           = Cardinality(ActiveOf(u)) + Cardinality(Counted(u))
  <1>1. NewRow(req[w]).user = req[w].user /\ NewRow(req[w]).status \in Active
    BY DEF NewRow, Active
  <1>2. /\ bookings'[b].user = req[w].user /\ bookings'[b].status \in Active
        /\ Rows' = Rows \cup {b} /\ \A x \in Rows : bookings'[x] = bookings[x]
    BY <1>1, RowsAfterInsert
  <1>3. Goto(w, "drop_hold") /\ "drop_hold" \in Points
    BY DEF Inserts, Points
  <1>4. CASE u # req[w].user
    <2>1. ActiveOf(u)' = ActiveOf(u)
      BY <1>2, <1>4 DEF ActiveOf
    <2>2. Counted(u)' = Counted(u)
      BY <1>3, <1>4, CountedIsLocal
    <2> QED
      BY <2>1, <2>2
  <1>5. CASE u = req[w].user
    <2>1. ActiveOf(u)' = ActiveOf(u) \cup {b} /\ b \notin ActiveOf(u)
      BY <1>2, <1>5 DEF ActiveOf, Rows
    <2>2. Counted(u)' = Counted(u) \ {w} /\ w \in Counted(u)
      BY <1>3, <1>5, CountedIsLocal DEF Counted, Inserts
    <2>3. Cardinality(ActiveOf(u)') = Cardinality(ActiveOf(u)) + 1
      BY <2>1, FiniteCounts, FS_AddElement
    <2>4. Cardinality(Counted(u)') = Cardinality(Counted(u)) - 1
      BY <2>2, FiniteCounts, FS_RemoveElement
    <2>5. Cardinality(ActiveOf(u)) \in Nat /\ Cardinality(Counted(u)) \in Nat
      BY FiniteCounts, FS_CardinalityType
    <2> QED
      BY <2>3, <2>4, <2>5
  <1> QED
    BY <1>4, <1>5

LEMMA NextOverrun ==
  Local /\ LockedSlotStaysOpen /\ OverrunBounded /\ [Next]_vars => OverrunBounded'
  <1> SUFFICES ASSUME Local, LockedSlotStaysOpen, OverrunBounded, [Next]_vars, ~staleCommit', NEW u \in Users
               PROVE  \E s \in Slots : Cardinality(ActiveOf(u)') + Cardinality(Counted(u)')
                                         < MaxActive[s] + Cardinality(Workers)
    BY DEF OverrunBounded
  <1> DEFINE Sum == Cardinality(ActiveOf(u)) + Cardinality(Counted(u))
  <1>1. ~staleCommit
    BY StaleStays DEF vars
  <1>2. PICK s \in Slots : Sum < MaxActive[s] + Cardinality(Workers)
    BY <1>1 DEF OverrunBounded
  <1>3. Cardinality(Workers) \in Nat /\ \A x \in Slots : MaxActive[x] \in Nat
    BY FS_CardinalityType, FiniteInstance, ConstantsOK
  <1>4. Sum \in Nat
    BY FiniteCounts, FS_CardinalityType
  <1>5. ASSUME ActiveOf(u)' \subseteq ActiveOf(u), Counted(u)' \subseteq Counted(u)
        PROVE  Cardinality(ActiveOf(u)') + Cardinality(Counted(u)') < MaxActive[s] + Cardinality(Workers)
    <2>1. /\ Cardinality(ActiveOf(u)') + Cardinality(Counted(u)') <= Sum
          /\ Cardinality(ActiveOf(u)') \in Nat /\ Cardinality(Counted(u)') \in Nat
      BY <1>5, FiniteCounts, SumShrinks
    <2> QED
      BY <2>1, <1>2, <1>3, <1>4
  <1>6. ASSUME NEW w \in Workers, CheckPolicy(w)
        PROVE  \E x \in Slots : Cardinality(ActiveOf(u)') + Cardinality(Counted(u)')
                                  < MaxActive[x] + Cardinality(Workers)
    <2>1. ActiveOf(u)' = ActiveOf(u)
      BY <1>6 DEF CheckPolicy, ActiveOf, Rows, Issued
    <2>2. CASE Goto(w, "insert") /\ BelowLimit(req[w].user, req[w].slot) /\ u = req[w].user
      <3>1. PICK x \in Slots : x = req[w].slot
        BY <1>6 DEF CheckPolicy, Local, RequestsOK, RequestOK
      <3>2. Cardinality(ActiveOf(u)) < MaxActive[x]
        BY <2>2, <3>1 DEF BelowLimit
      <3>3. Counted(u)' \subseteq Workers
        BY DEF Counted
      <3>4. Cardinality(Counted(u)') <= Cardinality(Workers) /\ Cardinality(Counted(u)') \in Nat
        BY <3>3, FS_Subset, FS_CardinalityType, FiniteInstance
      <3>5. Cardinality(ActiveOf(u)) \in Nat
        BY FiniteCounts, FS_CardinalityType
      <3> QED
        BY <1>3, <2>1, <3>2, <3>4, <3>5
    <2>3. CASE Goto(w, "insert") /\ u # req[w].user
      <3>1. Counted(u)' = Counted(u)
        BY <2>3, CountedIsLocal DEF Points
      <3> QED
        BY <1>5, <2>1, <3>1
    <2>4. CASE Goto(w, "drop_hold")
      <3>1. Counted(u)' \subseteq Counted(u)
        BY <2>4, CountedIsLocal DEF Points
      <3> QED
        BY <1>5, <2>1, <3>1
    <2> QED
      BY <1>6, <2>2, <2>3, <2>4 DEF CheckPolicy
  <1>7. ASSUME NEW w \in Workers, NEW b \in Bookings \ Issued, Inserts(w, b)
        PROVE  Cardinality(ActiveOf(u)') + Cardinality(Counted(u)') < MaxActive[s] + Cardinality(Workers)
    BY <1>2, <1>7, InsertKeepsSum
  <1>8. CASE Next /\ ~(\E w \in Workers : CheckPolicy(w))
                  /\ ~(\E w \in Workers, b \in Bookings \ Issued : Inserts(w, b))
    BY <1>5, <1>8, CountedFollows, ActiveFollows
  <1>9. CASE UNCHANGED vars
    BY <1>5, <1>9 DEF vars, ActiveOf, Rows, Issued, Counted
  <1> QED
    BY <1>6, <1>7, <1>8, <1>9

\* However many requests of a user race, the active bookings exceed the limit
\* of some page by less than the number of requests in flight.
THEOREM OverrunIsBounded == Spec => []OverrunBounded
  <1>1. ASSUME Init PROVE OverrunBounded
    <2>1. ASSUME NEW u \in Users PROVE ActiveOf(u) = {} /\ Counted(u) = {}
      BY <1>1 DEF Init, ActiveOf, Rows, Issued, Counted, Idle
    <2>2. Cardinality({}) = 0
      BY FS_EmptySet
    <2>3. Cardinality(Workers) \in Nat \ {0}
      BY FS_CardinalityType, FS_EmptySet, FiniteInstance
    <2>4. \E s \in Slots : MaxActive[s] \in Nat
      BY ConstantsOK, FiniteInstance
    <2>5. \E s \in Slots : 0 + 0 < MaxActive[s] + Cardinality(Workers)
      BY <2>3, <2>4
    <2> QED
      BY <2>1, <2>2, <2>5 DEF OverrunBounded
  <1> QED
    BY <1>1, InitLock, InitLocal, NextLocal, NextLock, NextOverrun, PTL DEF Spec
=============================================================================
