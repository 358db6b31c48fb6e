---------------------------- MODULE Reservation ----------------------------
(***************************************************************************)
(* Slots, bookings and temporary holds as the API requests change them.    *)
(*                                                                         *)
(* Every request runs in a worker.  It is cut where the code awaits        *)
(* PostgreSQL or Redis, so requests interleave between those points.  The  *)
(* database runs at READ COMMITTED: a SELECT sees the rows committed when  *)
(* it runs, SELECT ... FOR UPDATE and UPDATE wait for the row lock, and    *)
(* the ORM writes the attributes it changed by primary key, whatever       *)
(* happened to the row since it was read.  A path of the code that answers *)
(* without having changed anything and without parking the request is a    *)
(* stuttering step and is not written down.                                *)
(***************************************************************************)
EXTENDS Naturals, FiniteSets

CONSTANTS
  Users,      \* people who book
  Slots,      \* slot ids (a UUID each, never reused)
  Pages,      \* booking pages: the set of slots of each
  Keys,       \* values of the Idempotency-Key header
  Bookings,   \* booking ids; how many there are bounds a run
  Tokens,     \* hold tokens (secrets.token_urlsafe)
  Workers,    \* requests in flight at the same time
  None,       \* no value
  Ops,        \* the operations that clients call in this instance
  AutoSlots,  \* slots of pages whose approval_type is AUTO
  MaxActive,  \* MaxActive[s]: max_active_bookings_per_user of the page of s
  OpensAt,    \* OpensAt[s]: when s comes within booking_open_days_ahead
  CloseAt,    \* CloseAt[s]: start of s less booking_close_minutes_before
  CancelAt,   \* CancelAt[s]: start of s less cancel_deadline_minutes_before
  MaxTime     \* bound of the clock

Operations == {"hold", "release", "create", "cancel", "approve", "reject",
               "block", "unblock", "clear", "delete_page"}

Active   == {"PENDING", "CONFIRMED"}
Terminal == {"REJECTED", "CANCELLED"}
BookingStatus == Active \cup Terminal
SlotStatus == {"NONE", "OPEN", "BOOKED", "BLOCKED", "GONE"}

Row  == [user: Users, key: Keys, slot: Slots, status: BookingStatus]
Hold == [user: Users, token: Tokens]

ASSUME ConstantsOK ==
  /\ None \notin Users \cup Slots \cup Keys \cup Bookings \cup Tokens \cup Workers
  /\ None \notin BookingStatus \cup SlotStatus \cup Row \cup Hold
  /\ Pages \subseteq SUBSET Slots
  /\ Ops \subseteq Operations
  /\ AutoSlots \subseteq Slots
  /\ MaxActive \in [Slots -> Nat]
  /\ OpensAt \in [Slots -> Nat]
  /\ CloseAt \in [Slots -> Nat]
  /\ CancelAt \in [Slots -> Nat]
  /\ MaxTime \in Nat

ASSUME FiniteInstance ==
  /\ IsFiniteSet(Bookings) /\ IsFiniteSet(Workers)
  /\ Slots # {} /\ Workers # {}

VARIABLES
  slots,       \* slots[s]: "NONE" not generated yet, "GONE" deleted, or the status
  bookings,    \* bookings[b]: None, or the row b as it was last committed
  holds,       \* holds[s]: the value of binjari:hold:<s> in Redis, or None
  req,         \* req[w]: the request worker w is serving
  clock,       \* the time that deadlines are compared with
  staleCommit  \* history: a commit was made from a row that had changed since

vars == <<slots, bookings, holds, req, clock, staleCommit>>

\* Where a request can be parked: named for the statement it is about to run.
Points == {"idle", "hold_exists", "hold_set", "release_del",
           "verify", "lock", "policy", "insert", "drop_hold",
           "cancel_slot", "cancel_commit", "approve_commit",
           "reject_slot", "reject_commit", "block_commit", "unblock_commit"}

Request == [pc: Points, user: Users \cup {None}, slot: Slots \cup {None},
            key: Keys \cup {None}, token: Tokens \cup {None},
            booking: Bookings \cup {None},
            bst: BookingStatus \cup {None},   \* status of the booking as read
            sst: SlotStatus \cup {None}]      \* status of the slot as read

Idle == [pc |-> "idle", user |-> None, slot |-> None, key |-> None,
         token |-> None, booking |-> None, bst |-> None, sst |-> None]

TypeOK ==
  /\ slots \in [Slots -> SlotStatus]
  /\ bookings \in [Bookings -> Row \cup {None}]
  /\ holds \in [Slots -> Hold \cup {None}]
  /\ req \in [Workers -> Request]
  /\ clock \in 0..MaxTime
  /\ staleCommit \in BOOLEAN

Init ==
  /\ slots = [s \in Slots |-> "NONE"]
  /\ bookings = [b \in Bookings |-> None]
  /\ holds = [s \in Slots |-> None]
  /\ req = [w \in Workers |-> Idle]
  /\ clock = 0
  /\ staleCommit = FALSE

----------------------------------------------------------------------------
(* What the database answers. *)

Exists(s) == slots[s] \in {"OPEN", "BOOKED", "BLOCKED"}
Issued == {b \in Bookings : bookings[b] # None}
Rows == {b \in Issued : slots[bookings[b].slot] # "GONE"}  \* the others were deleted with their page
RowsOn(s) == {b \in Rows : bookings[b].slot = s}
ActiveOn(s) == {b \in RowsOn(s) : bookings[b].status \in Active}
ActiveOf(u) == {b \in Rows : bookings[b].user = u /\ bookings[b].status \in Active}
WithKey(u, k) == {b \in Rows : bookings[b].user = u /\ bookings[b].key = k}

\* The workers whose transaction has locked the row of s.
Lockers(s) == {w \in Workers : req[w].pc \in {"policy", "insert"} /\ req[w].slot = s}
RowLocked(s) == Lockers(s) # {}

\* Steps of a request.
Start(w, r) == req[w] = Idle /\ req' = [req EXCEPT ![w] = r]
Goto(w, pc) == req' = [req EXCEPT ![w].pc = pc]
Finish(w) == req' = [req EXCEPT ![w] = Idle]

\* A commit of w, which read booking status bst and slot status sst: is a row
\* it read no longer what it was?
BookingMoved(w) == bookings[req[w].booking].status # req[w].bst
SlotMoved(w) == slots[req[w].slot] # req[w].sst

SetStatus(b, st) == bookings' = [bookings EXCEPT ![b].status = st]

----------------------------------------------------------------------------
(* The host's slots. *)

\* Slots that do not exist yet are inserted OPEN; existing ones are skipped.
GenerateSlots(S) ==
  /\ S # {}
  /\ \A s \in S : slots[s] = "NONE"
  /\ slots' = [s \in Slots |-> IF s \in S THEN "OPEN" ELSE slots[s]]
  /\ UNCHANGED <<bookings, holds, req, clock, staleCommit>>

\* Mutant: the NOT EXISTS (booking) condition is forgotten.
ClearableWithHistory(S) == {s \in S : slots[s] \in {"OPEN", "BLOCKED"}}

\* Of the slots in the range, the OPEN and BLOCKED ones that no booking, past
\* or present, refers to.
Clearable(S) == {s \in S : slots[s] \in {"OPEN", "BLOCKED"} /\ RowsOn(s) = {}}

\* The DELETE waits for row locks and looks at the status again.
ClearSlots(S) ==
  /\ "clear" \in Ops
  /\ Clearable(S) # {}
  /\ \A s \in Clearable(S) : ~RowLocked(s)
  /\ slots' = [s \in Slots |-> IF s \in Clearable(S) THEN "GONE" ELSE slots[s]]
  /\ UNCHANGED <<bookings, holds, req, clock, staleCommit>>

\* delete_host_setting: the bookings of the page are deleted, then the page, and
\* its slots with it; a booking inserted in between rolls it all back.  The
\* cascade waits for the locked rows of the slots.
DeletePage(P) ==
  /\ "delete_page" \in Ops
  /\ \A s \in P : ~RowLocked(s)
  /\ slots' = [s \in Slots |-> IF s \in P THEN "GONE" ELSE slots[s]]
  /\ UNCHANGED <<bookings, holds, req, clock, staleCommit>>

\* block_slot and unblock_slot read the row without a lock ...
BlockRead(w, s) ==
  /\ "block" \in Ops
  /\ slots[s] = "OPEN"      \* BOOKED is refused; BLOCKED would change nothing
  /\ Start(w, [Idle EXCEPT !.pc = "block_commit", !.slot = s, !.sst = slots[s]])
  /\ UNCHANGED <<slots, bookings, holds, clock, staleCommit>>

UnblockRead(w, s) ==
  /\ "unblock" \in Ops
  /\ slots[s] = "BLOCKED"
  /\ Start(w, [Idle EXCEPT !.pc = "unblock_commit", !.slot = s, !.sst = slots[s]])
  /\ UNCHANGED <<slots, bookings, holds, clock, staleCommit>>

\* Mutant: the UPDATE does not wait for the row lock of create_booking.
WriteSlotWithoutWaiting(w, st) ==
  LET s == req[w].slot IN
  /\ slots' = [slots EXCEPT ![s] = st]
  /\ staleCommit' = (staleCommit \/ SlotMoved(w))
  /\ Finish(w)
  /\ UNCHANGED <<bookings, holds, clock>>

\* ... and UPDATE it by id.  A row deleted meanwhile makes the flush fail.
WriteSlot(w, st) ==
  LET s == req[w].slot IN
  /\ ~RowLocked(s)
  /\ IF Exists(s)
     THEN /\ slots' = [slots EXCEPT ![s] = st]
          /\ staleCommit' = (staleCommit \/ SlotMoved(w))
     ELSE UNCHANGED <<slots, staleCommit>>
  /\ Finish(w)
  /\ UNCHANGED <<bookings, holds, clock>>

BlockCommit(w)   == req[w].pc = "block_commit" /\ WriteSlot(w, "BLOCKED")
UnblockCommit(w) == req[w].pc = "unblock_commit" /\ WriteSlot(w, "OPEN")

----------------------------------------------------------------------------
(* Temporary holds in Redis. *)

\* A slot row is read, then EXISTS, then SETEX: three round trips.
HoldRead(w, u, s) ==
  /\ "hold" \in Ops
  /\ slots[s] = "OPEN"
  /\ Start(w, [Idle EXCEPT !.pc = "hold_exists", !.user = u, !.slot = s])
  /\ UNCHANGED <<slots, bookings, holds, clock, staleCommit>>

HoldExists(w) ==
  /\ req[w].pc = "hold_exists"
  /\ IF holds[req[w].slot] = None THEN Goto(w, "hold_set") ELSE Finish(w)
  /\ UNCHANGED <<slots, bookings, holds, clock, staleCommit>>

TokensInUse == {holds[s].token : s \in {x \in Slots : holds[x] # None}}
               \cup {req[w].token : w \in Workers}

HoldSet(w) ==
  /\ req[w].pc = "hold_set"
  /\ \E t \in Tokens \ TokensInUse :
       holds' = [holds EXCEPT ![req[w].slot] = [user |-> req[w].user, token |-> t]]
  /\ Finish(w)
  /\ UNCHANGED <<slots, bookings, clock, staleCommit>>

\* The caller's own hold is compared in the application, then deleted by key.
ReleaseRead(w, u, s, t) ==
  /\ "release" \in Ops
  /\ holds[s] = [user |-> u, token |-> t]
  /\ Start(w, [Idle EXCEPT !.pc = "release_del", !.user = u, !.slot = s])
  /\ UNCHANGED <<slots, bookings, holds, clock, staleCommit>>

ReleaseDel(w) ==
  /\ req[w].pc = "release_del"
  /\ holds' = [holds EXCEPT ![req[w].slot] = None]
  /\ Finish(w)
  /\ UNCHANGED <<slots, bookings, clock, staleCommit>>

\* The TTL runs out (or Redis restarts without its data).
ExpireHold(s) ==
  /\ holds[s] # None
  /\ holds' = [holds EXCEPT ![s] = None]
  /\ UNCHANGED <<slots, bookings, req, clock, staleCommit>>

----------------------------------------------------------------------------
(* create_booking *)

\* Bound: no more requests create bookings than there are booking ids left.
Creating == {w \in Workers : req[w].pc \in {"verify", "lock", "policy", "insert"}}
IdsLeft == Cardinality(Bookings \ Issued) > Cardinality(Creating)

\* The lookup of the idempotency key.  A booking of the same slot is returned
\* as it stands; the key of another slot is an error, which drops the hold.
CreateLookup(w, u, k, s, t) ==
  /\ "create" \in Ops
  /\ IdsLeft
  /\ slots[s] # "NONE"
  /\ \A b \in WithKey(u, k) : bookings[b].slot # s
  /\ Start(w, [Idle EXCEPT
                 !.pc = IF WithKey(u, k) = {} THEN "verify" ELSE "drop_hold",
                 !.user = u, !.key = k, !.slot = s, !.token = t])
  /\ UNCHANGED <<slots, bookings, holds, clock, staleCommit>>

VerifyHold(w) ==
  LET r == req[w] IN
  /\ r.pc = "verify"
  /\ Goto(w, IF holds[r.slot] = [user |-> r.user, token |-> r.token]
             THEN "lock" ELSE "drop_hold")
  /\ UNCHANGED <<slots, bookings, holds, clock, staleCommit>>

\* Mutant: a plain SELECT, which does not wait for the other transaction.
ReadSlotWithoutLock(w) ==
  /\ req[w].pc = "lock"
  /\ Goto(w, IF slots[req[w].slot] = "OPEN" THEN "policy" ELSE "drop_hold")
  /\ UNCHANGED <<slots, bookings, holds, clock, staleCommit>>

\* Mutant: a request that finds the slot taken waits for it to open again.
LockOpenSlot(w) ==
  /\ req[w].pc = "lock"
  /\ ~RowLocked(req[w].slot)
  /\ slots[req[w].slot] = "OPEN"
  /\ Goto(w, "policy")
  /\ UNCHANGED <<slots, bookings, holds, clock, staleCommit>>

\* SELECT ... FOR UPDATE; an error rolls back, which gives the lock up.
LockSlot(w) ==
  /\ req[w].pc = "lock"
  /\ ~RowLocked(req[w].slot)
  /\ Goto(w, IF slots[req[w].slot] = "OPEN" THEN "policy" ELSE "drop_hold")
  /\ UNCHANGED <<slots, bookings, holds, clock, staleCommit>>

Bookable(s) == OpensAt[s] <= clock /\ clock <= CloseAt[s]
BelowLimit(u, s) == Cardinality(ActiveOf(u)) < MaxActive[s]

\* Mutant: the count of active bookings is not compared.
CheckDeadlinesOnly(w) ==
  /\ req[w].pc = "policy"
  /\ Goto(w, IF Bookable(req[w].slot) THEN "insert" ELSE "drop_hold")
  /\ UNCHANGED <<slots, bookings, holds, clock, staleCommit>>

\* Deadlines, then the count of the user's active bookings, under the lock of
\* this slot only.
CheckPolicy(w) ==
  LET r == req[w] IN
  /\ r.pc = "policy"
  /\ Goto(w, IF Bookable(r.slot) /\ BelowLimit(r.user, r.slot)
             THEN "insert" ELSE "drop_hold")
  /\ UNCHANGED <<slots, bookings, holds, clock, staleCommit>>

\* Mutant: the status is only set on the AUTO branch.
NewRowWithoutStatus(r) == [user |-> r.user, key |-> r.key, slot |-> r.slot,
                           status |-> IF r.slot \in AutoSlots THEN "CONFIRMED" ELSE None]

NewRow(r) == [user |-> r.user, key |-> r.key, slot |-> r.slot,
              status |-> IF r.slot \in AutoSlots THEN "CONFIRMED" ELSE "PENDING"]

\* Mutant: the table has no unique constraint on booker and key.
InsertWithoutConstraint(w) ==
  /\ req[w].pc = "insert"
  /\ \E b \in Bookings \ Issued : bookings' = [bookings EXCEPT ![b] = NewRow(req[w])]
  /\ slots' = [slots EXCEPT ![req[w].slot] = "BOOKED"]
  /\ Goto(w, "drop_hold")
  /\ UNCHANGED <<holds, clock, staleCommit>>

\* INSERT and UPDATE are flushed and committed, or the unique constraint on
\* (booker_id, idempotency_key) rolls both back.
InsertBooking(w) ==
  LET r == req[w] IN
  /\ r.pc = "insert"
  /\ IF WithKey(r.user, r.key) = {}
     THEN /\ \E b \in Bookings \ Issued : bookings' = [bookings EXCEPT ![b] = NewRow(r)]
          /\ slots' = [slots EXCEPT ![r.slot] = "BOOKED"]
     ELSE UNCHANGED <<bookings, slots>>
  /\ Goto(w, "drop_hold")
  /\ UNCHANGED <<holds, clock, staleCommit>>

\* After the commit and after every error: delete the key of the slot,
\* whoever holds it.
DropHold(w) ==
  /\ req[w].pc = "drop_hold"
  /\ holds' = [holds EXCEPT ![req[w].slot] = None]
  /\ Finish(w)
  /\ UNCHANGED <<slots, bookings, clock, staleCommit>>

----------------------------------------------------------------------------
(* cancel, approve, reject: the booking is read, then the slot, then both *)
(* are written, with no lock in between.                                  *)

CancelRead(w, u, b) ==
  /\ "cancel" \in Ops
  /\ b \in ActiveOf(u)
  /\ Start(w, [Idle EXCEPT !.pc = "cancel_slot", !.user = u, !.booking = b,
                           !.slot = bookings[b].slot, !.bst = bookings[b].status])
  /\ UNCHANGED <<slots, bookings, holds, clock, staleCommit>>

CancelSlot(w) ==
  LET s == req[w].slot IN
  /\ req[w].pc = "cancel_slot"
  /\ IF clock > CancelAt[s]
     THEN Finish(w)
     ELSE req' = [req EXCEPT ![w].pc = "cancel_commit", ![w].sst = slots[s]]
  /\ UNCHANGED <<slots, bookings, holds, clock, staleCommit>>

\* Mutant: the slot is not given back.
CloseBookingOnly(w, st) ==
  /\ SetStatus(req[w].booking, st)
  /\ staleCommit' = (staleCommit \/ BookingMoved(w) \/ SlotMoved(w))
  /\ Finish(w)
  /\ UNCHANGED <<slots, holds, clock>>

\* The booking becomes st and its slot OPEN.  The ORM sends no UPDATE for a
\* slot it had read as OPEN; the UPDATE of a row deleted meanwhile fails.
CloseBooking(w, st) ==
  LET r == req[w] IN
  /\ r.sst = "OPEN" \/ ~RowLocked(r.slot)
  /\ IF r.booking \in Rows
     THEN /\ SetStatus(r.booking, st)
          /\ slots' = IF r.sst = "OPEN" THEN slots ELSE [slots EXCEPT ![r.slot] = "OPEN"]
          /\ staleCommit' = (staleCommit \/ BookingMoved(w) \/ SlotMoved(w))
     ELSE UNCHANGED <<slots, bookings, staleCommit>>
  /\ Finish(w)
  /\ UNCHANGED <<holds, clock>>

CancelCommit(w) == req[w].pc = "cancel_commit" /\ CloseBooking(w, "CANCELLED")

\* Mutant: the host may decide a booking in any state.
HostReadAnyStatus(w, b, pc) ==
  /\ b \in Rows
  /\ Start(w, [Idle EXCEPT !.pc = pc, !.booking = b, !.slot = bookings[b].slot,
                           !.bst = bookings[b].status])
  /\ UNCHANGED <<slots, bookings, holds, clock, staleCommit>>

\* The booking as the host's approve or reject read it.
HostRead(w, b, pc) ==
  /\ b \in Rows
  /\ bookings[b].status = "PENDING"
  /\ Start(w, [Idle EXCEPT !.pc = pc, !.booking = b, !.slot = bookings[b].slot,
                           !.bst = bookings[b].status])
  /\ UNCHANGED <<slots, bookings, holds, clock, staleCommit>>

ApproveRead(w, b) == "approve" \in Ops /\ HostRead(w, b, "approve_commit")
RejectRead(w, b)  == "reject" \in Ops /\ HostRead(w, b, "reject_slot")

\* approve_booking leaves the slot alone.
ApproveCommit(w) ==
  /\ req[w].pc = "approve_commit"
  /\ IF req[w].booking \in Rows
     THEN /\ SetStatus(req[w].booking, "CONFIRMED")
          /\ staleCommit' = (staleCommit \/ BookingMoved(w))
     ELSE UNCHANGED <<bookings, staleCommit>>
  /\ Finish(w)
  /\ UNCHANGED <<slots, holds, clock>>

RejectSlot(w) ==
  /\ req[w].pc = "reject_slot"
  /\ req' = [req EXCEPT ![w].pc = "reject_commit", ![w].sst = slots[req[w].slot]]
  /\ UNCHANGED <<slots, bookings, holds, clock, staleCommit>>

RejectCommit(w) == req[w].pc = "reject_commit" /\ CloseBooking(w, "REJECTED")

----------------------------------------------------------------------------

\* The process serving w dies or the client goes away: its transaction rolls
\* back and nothing after the last await happens.
Crash(w) ==
  /\ req[w] # Idle
  /\ Finish(w)
  /\ UNCHANGED <<slots, bookings, holds, clock, staleCommit>>

Tick ==
  /\ clock < MaxTime
  /\ clock' = clock + 1
  /\ UNCHANGED <<slots, bookings, holds, req, staleCommit>>

\* A client calls an operation.
Call(w) ==
  \/ \E s \in Slots : BlockRead(w, s) \/ UnblockRead(w, s)
  \/ \E u \in Users, s \in Slots :
       \/ HoldRead(w, u, s)
       \/ \E t \in Tokens : ReleaseRead(w, u, s, t)
       \/ \E k \in Keys, t \in Tokens : CreateLookup(w, u, k, s, t)
  \/ \E b \in Bookings : ApproveRead(w, b) \/ RejectRead(w, b)
  \/ \E u \in Users, b \in Bookings : CancelRead(w, u, b)

\* The request that w serves takes its next step.
Continue(w) ==
  \/ BlockCommit(w) \/ UnblockCommit(w)
  \/ HoldExists(w) \/ HoldSet(w) \/ ReleaseDel(w)
  \/ VerifyHold(w) \/ LockSlot(w) \/ CheckPolicy(w) \/ InsertBooking(w) \/ DropHold(w)
  \/ CancelSlot(w) \/ CancelCommit(w)
  \/ ApproveCommit(w) \/ RejectSlot(w) \/ RejectCommit(w)

Next ==
  \/ \E S \in SUBSET Slots : GenerateSlots(S) \/ ClearSlots(S)
  \/ \E P \in Pages : DeletePage(P)
  \/ \E w \in Workers : Call(w) \/ Continue(w) \/ Crash(w)
  \/ \E s \in Slots : ExpireHold(s)
  \/ Tick

Spec == Init /\ [][Next]_vars

\* A parked request is resumed by the event loop; PostgreSQL queues the waiters
\* of a row lock, so a wait for a lock that is released again and again ends.
Fairness == \A w \in Workers : SF_vars(Continue(w))

FairSpec == Spec /\ Fairness

----------------------------------------------------------------------------
(* Properties *)

\* What a parked request has in its local variables, by the point where it is
\* parked: the arguments its later statements use were read before, and of the
\* rows it has read it remembers what allowed it to go on.
RequestOK(r) ==
  /\ r.pc # "idle" => r.slot \in Slots
  /\ r.pc \in {"hold_exists", "hold_set", "verify", "lock", "policy", "insert"}
       => r.user \in Users
  /\ r.pc \in {"verify", "lock", "policy", "insert"} => r.key \in Keys
  /\ r.pc \in {"cancel_slot", "cancel_commit", "approve_commit", "reject_slot", "reject_commit"}
       => r.booking \in Issued /\ bookings[r.booking].slot = r.slot
  /\ r.pc \in {"cancel_slot", "cancel_commit"} => r.bst \in Active
  /\ r.pc \in {"approve_commit", "reject_slot", "reject_commit"} => r.bst = "PENDING"
  /\ r.pc \in {"cancel_commit", "reject_commit"} => r.sst \in SlotStatus
  /\ r.pc = "block_commit" => r.sst = "OPEN"
  /\ r.pc = "unblock_commit" => r.sst = "BLOCKED"

RequestsOK == \A w \in Workers : RequestOK(req[w])

AtMostOne(S) == \A x, y \in S : x = y

\* At most one PENDING or CONFIRMED booking per slot, whatever the requests do
\* (docs/usecase.md:275).  The code does not keep this: see LedgerConsistent.
OneActiveBookingPerSlot == \A s \in Slots : AtMostOne(ActiveOn(s))

\* Until some request commits from a row that had changed since it read it, a
\* slot is BOOKED exactly while one booking of it is active, and only then:
\* create_booking's row lock is enough to keep two requests off one slot.
LedgerConsistent ==
  ~staleCommit => \A s \in Slots :
                    /\ AtMostOne(ActiveOn(s))
                    /\ (slots[s] = "BOOKED") <=> (ActiveOn(s) # {})

\* SELECT ... FOR UPDATE: from the status check of create_booking to its commit
\* no other request is in that window of the same slot, and the slot is still
\* OPEN, stale commits of cancel, reject, block and unblock included.
LockedSlotStaysOpen ==
  \A s \in Slots : /\ AtMostOne(Lockers(s))
                   /\ RowLocked(s) => slots[s] = "OPEN"

\* However a user's requests with one Idempotency-Key interleave, at most one
\* booking comes of them: the lookup races, the constraint decides.
OneBookingPerKey ==
  \A u \in Users, k \in Keys : AtMostOne(WithKey(u, k))

\* The active bookings of a user exceed the limit of some page (so the largest)
\* by less than the number of requests in flight, those past the count included:
\* the count is taken before the commit, under the lock of one slot only.  A
\* stale approval that revives a booking is the one other way past the limit.
Counted(u) == {w \in Workers : req[w].pc = "insert" /\ req[w].user = u}
OverrunBounded ==
  ~staleCommit => \A u \in Users : \E s \in Slots :
     Cardinality(ActiveOf(u)) + Cardinality(Counted(u)) < MaxActive[s] + Cardinality(Workers)

\* A user never has more active bookings than the page allows (docs/PRD.md:74).
\* The code does not keep this: see OverrunBounded.
ActiveWithinLimit ==
  \A u \in Users : \A b \in ActiveOf(u) :
     Cardinality(ActiveOf(u)) <= MaxActive[bookings[b].slot]

\* A decided booking stays decided: only a commit from a stale read can move it
\* out of CANCELLED or REJECTED, or from one of them to the other.
DecidedOnlyMovedByStaleCommit ==
  [][\A b \in Rows : bookings[b].status \in Terminal /\ bookings'[b] # bookings[b]
                       => staleCommit']_vars

\* Booking history is kept: a row keeps its booker, key and slot, and clearing a
\* range never deletes a slot with history, not even under a concurrent
\* create_booking (clear_slots_in_range's docstring).  A row goes only together
\* with every slot of its page.
HistoryKept ==
  [][\A b \in Rows :
        \/ /\ b \in Rows'
           /\ bookings'[b] = [bookings[b] EXCEPT !.status = bookings'[b].status]
        \/ \E P \in Pages : /\ bookings[b].slot \in P
                            /\ \A s \in P : slots'[s] = "GONE"]_vars

\* A page that has bookings is not deleted (docs/api_usecase.md:94).  The code
\* deletes the bookings first.
BookedPageKept == [][\A b \in Rows : b \in Rows']_vars

\* The hold of a user is not replaced by the hold of somebody else while it
\* lasts (docs/usecase.md, the alternate flow of simultaneous clicks).
HoldNotTakenOver ==
  [][\A s \in Slots : holds[s] # None /\ holds'[s] # None
                        => holds'[s].user = holds[s].user]_vars

\* Every request is answered: nobody waits for a row lock for ever.
RequestsFinish == \A w \in Workers : req[w] # Idle ~> req[w] = Idle

----------------------------------------------------------------------------
(* The requests implement BookingLedger. *)

OfferOf == [NONE |-> "absent", OPEN |-> "open", BOOKED |-> "taken",
            BLOCKED |-> "blocked", GONE |-> "withdrawn"]

OneOf(S) == CHOOSE x \in S : TRUE
OwnerOf(s) == IF ActiveOn(s) = {} THEN None ELSE OneOf(ActiveOn(s))

Offers == [s \in Slots |-> OfferOf[slots[s]]]
Owners == [s \in Slots |-> OwnerOf(s)]

Ledger == INSTANCE BookingLedger WITH
  NoBooking <- None, offer <- Offers, owner <- Owners, issued <- Issued,
  trusted <- ~staleCommit

\* Until a request commits from a row that had changed, every step of the API is
\* one step of the ledger, or none.  Afterwards a slot or a page that was
\* deleted still does not come back, and no booking id is given twice.
ImplementsLedger == Ledger!Spec
=============================================================================
