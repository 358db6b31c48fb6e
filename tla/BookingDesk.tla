---------------------------- MODULE BookingDesk ----------------------------
(***************************************************************************)
(* The booking API as a browser sees it.  The handlers of one user's       *)
(* requests are cut where they await Redis or the database, as in          *)
(* Reservation; what the host and other users do to the same slots is the  *)
(* environment, cut at the same places.                                    *)
(*                                                                         *)
(* A request is awaited by the function act of the browser, or lost: its   *)
(* answer will reach nobody, but the server may still serve it.            *)
(***************************************************************************)
EXTENDS Naturals, FiniteSets

CONSTANTS
  Slots,     \* slots of one booking page
  Tokens,    \* hold tokens of the user, reused once forgotten
  Ids,       \* bookings; how many there are bounds a run
  Initial,   \* the status of a new booking, by the page's approval_type
  Busy,      \* slots that the host and others use in this instance
  MaxWork,   \* bound: requests under way at once that no page of the user awaits
  None       \* no value

Someone == "someone else"

ASSUME DeskConstantsOK == /\ None \notin Slots \cup Tokens \cup Ids
                          /\ Busy \subseteq Slots /\ MaxWork \in Nat
                          /\ Someone \notin Tokens \cup {None}
                          /\ Initial \in {"PENDING", "CONFIRMED"}

VARIABLES
  slot,      \* slot[s]: its status; GONE once the page has been deleted
  hold,      \* hold[s]: the token in Redis, Someone's, or None
  booking,   \* booking[b]: its row, or None
  act,       \* the request of the page's running function, or None
  lost,      \* requests nobody awaits any more
  work,      \* requests of the host and of others under way
  had,       \* history: had[b]: the statuses that booking b has had
  adrift     \* history: tokens about which page and server were not told the same

deskVars == <<slot, hold, booking, work, had, adrift>>

Active == {"PENDING", "CONFIRMED"}
Statuses == Active \cup {"CLOSED"}

\* Where a handler awaits: see the actions that go on from there.
Stages == {"asks", "sets", "deletes", "locks", "drops", "undoes", "slot", "frees", "keeps", "refreshes"}

Request == [op: {"open", "confirm", "release", "cancel"},
            on: Slots \cup Ids \cup {None},      \* its slot, or the booking to cancel
            token: Tokens \cup {None},           \* the hold token it carries
            pc: {"sent", "ok", "error"} \cup Stages,
            got: Tokens \cup Statuses \cup {None}]  \* what the answer brings

BookingRow == [slot: Slots, mine: BOOLEAN, status: Statuses]

Work == [op: {"approve", "close"}, on: Ids, pc: {"slot", "frees", "keeps"}]
        \cup [op: {"block", "unblock", "hold", "book"}, on: Slots, pc: {"commits"}]

ASSUME NoneIsNoRecord == None \notin Request \cup BookingRow

DeskTypeOK ==
  /\ slot \in [Slots -> {"OPEN", "BLOCKED", "BOOKED", "GONE"}]
  /\ hold \in [Slots -> Tokens \cup {Someone, None}]
  /\ booking \in [Ids -> BookingRow \cup {None}]
  /\ lost \subseteq Request
  /\ work \subseteq Work
  /\ had \in [Ids -> SUBSET Statuses]
  /\ adrift \subseteq Tokens

DeskInit ==
  /\ slot = [s \in Slots |-> "OPEN"]
  /\ hold = [s \in Slots |-> None]
  /\ booking = [b \in Ids |-> None]
  /\ lost = {} /\ work = {}
  /\ had = [b \in Ids |-> {}] /\ adrift = {}

----------------------------------------------------------------------------
(* The database. *)

ActiveOn(s) == {b \in Ids : booking[b] # None /\ booking[b].slot = s /\ booking[b].status \in Active}

SetStatus(b, status) ==
  /\ booking' = [booking EXCEPT ![b] = [@ EXCEPT !.status = status]]
  /\ had' = [had EXCEPT ![b] = @ \cup {status}]

\* create_booking from its row lock to its commit, under a new id: the lock keeps
\* every other write of the slot out.
InsertBooking(s, mine) ==
  \E b \in {x \in Ids : had[x] = {}} :
    /\ booking' = [booking EXCEPT ![b] = [slot |-> s, mine |-> mine, status |-> Initial]]
    /\ had' = [had EXCEPT ![b] = {Initial}]
    /\ slot' = [slot EXCEPT ![s] = "BOOKED"]

\* cancel_my_booking and reject_booking read the slot; their ORM writes OPEN
\* unless that is what they read ...
Frees(b) == booking[b] # None /\ slot[booking[b].slot] # "OPEN"
\* ... and at their commit the booking ends and the slot follows.
CloseBooking(b, frees) ==
  /\ SetStatus(b, "CLOSED")
  /\ slot' = IF frees THEN [slot EXCEPT ![booking[b].slot] = "OPEN"] ELSE slot

\* Redis forgets the hold of slot s, and nobody has told the page that shows it,
\* unless it is the one with token k.
Forget(s, k) == /\ hold' = [hold EXCEPT ![s] = None]
                /\ adrift' = adrift \cup ({hold[s]} \cap (Tokens \ {k}))

----------------------------------------------------------------------------
(* The user's requests. *)

Room == Cardinality(lost) + Cardinality(work) < MaxWork

Unanswered(r) == r.pc \notin {"ok", "error"}
Requests == lost \cup (IF act = None THEN {} ELSE {r \in {act} : Unanswered(r)})

\* The handler of r awaits at its next place ...
Goto(r, pc) ==
  IF r \in lost
  THEN lost' = (lost \ {r}) \cup {[r EXCEPT !.pc = pc]} /\ UNCHANGED act
  ELSE act' = [act EXCEPT !.pc = pc] /\ UNCHANGED lost

\* ... or returns; the answer to a lost request vanishes.
Return(r, pc, got) ==
  IF r \in lost
  THEN lost' = lost \ {r} /\ UNCHANGED act
  ELSE act' = [act EXCEPT !.pc = pc, !.got = got] /\ UNCHANGED lost

\* POST /slots/{id}/hold (create_hold): the slot, EXISTS, SETEX, which replaces
\* whatever is there by now; forgotten: tokens nobody remembers.
OpenReads(r) ==
  /\ r.op = "open" /\ r.pc = "sent"
  /\ IF slot[r.on] = "OPEN" THEN Goto(r, "asks") ELSE Return(r, "error", None)
  /\ UNCHANGED deskVars
OpenAsks(r) ==
  /\ r.pc = "asks"
  /\ IF hold[r.on] = None THEN Goto(r, "sets") ELSE Return(r, "error", None)
  /\ UNCHANGED deskVars
OpenSets(r, forgotten) ==
  /\ r.pc = "sets"
  /\ \E k \in forgotten :
       /\ hold' = [hold EXCEPT ![r.on] = k]
       /\ adrift' = ((adrift \ {k}) \cup ({hold[r.on]} \cap Tokens)) \cup (IF r \in lost THEN {k} ELSE {})
       /\ Return(r, "ok", k)
  /\ UNCHANGED <<slot, booking, work, had>>

\* DELETE /slots/{id}/hold (release_my_hold): no key is no error; the DEL goes
\* by the key, whatever is there by now.
ReleaseReads(r) ==
  /\ r.op = "release" /\ r.pc = "sent"
  /\ \/ hold[r.on] = None /\ Return(r, "ok", None)
     \/ hold[r.on] = r.token /\ Goto(r, "deletes")
     \/ hold[r.on] \notin {None, r.token} /\ Return(r, "error", None)
  /\ UNCHANGED deskVars
ReleaseDeletes(r) ==
  /\ r.pc = "deletes"
  /\ Forget(r.on, r.token) /\ Return(r, "ok", None)
  /\ UNCHANGED <<slot, booking, work, had>>

\* POST /bookings (create_booking) under a new Idempotency-Key: verify_hold, the
\* transaction, which limits and deadlines may refuse too, release_hold.  Every
\* error deletes the slot's hold, whoever has it.
ConfirmReads(r) ==
  /\ r.op = "confirm" /\ r.pc = "sent"
  /\ Goto(r, IF hold[r.on] = r.token THEN "locks" ELSE "undoes")
  /\ UNCHANGED deskVars
ConfirmCommits(r) ==
  /\ r.pc = "locks" /\ slot[r.on] = "OPEN"
  /\ InsertBooking(r.on, TRUE) /\ Goto(r, "drops")
  /\ UNCHANGED <<hold, work, adrift>>
ConfirmRefused(r) == r.pc = "locks" /\ Goto(r, "undoes") /\ UNCHANGED deskVars
ConfirmDrops(r) ==
  /\ r.pc = "drops"
  /\ Forget(r.on, r.token) /\ Return(r, "ok", None)
  /\ UNCHANGED <<slot, booking, work, had>>
ConfirmUndoes(r) ==
  /\ r.pc = "undoes"
  /\ Forget(r.on, None) /\ Return(r, "error", None)
  /\ UNCHANGED <<slot, booking, work, had>>

\* POST /me/bookings/{id}/cancel (cancel_my_booking): the booking, its slot, which
\* may be past its deadline, the commit, and the row read again for the answer.
CancelReads(r) ==
  /\ r.op = "cancel" /\ r.pc = "sent"
  /\ IF booking[r.on] # None /\ booking[r.on].status \in Active THEN Goto(r, "slot") ELSE Return(r, "error", None)
  /\ UNCHANGED deskVars
CancelSlot(r) ==
  /\ r.pc = "slot"
  /\ Goto(r, IF Frees(r.on) THEN "frees" ELSE "keeps") \/ Return(r, "error", None)
  /\ UNCHANGED deskVars
CancelCommits(r) ==
  /\ r.pc \in {"frees", "keeps"} /\ booking[r.on] # None
  /\ CloseBooking(r.on, r.pc = "frees") /\ Goto(r, "refreshes")
  /\ UNCHANGED <<hold, work, adrift>>
CancelAnswers(r) ==
  /\ r.pc = "refreshes" /\ booking[r.on] # None
  /\ Return(r, "ok", booking[r.on].status)
  /\ UNCHANGED deskVars

\* The worker dies, or a statement fails, as on a row that is no longer there.
Crash(r) == Return(r, "error", None) /\ UNCHANGED deskVars

ServeHold(r, forgotten) == \/ OpenReads(r) \/ OpenAsks(r) \/ OpenSets(r, forgotten)
                           \/ ReleaseReads(r) \/ ReleaseDeletes(r)
ServeBooking(r) == \/ ConfirmReads(r) \/ ConfirmCommits(r) \/ ConfirmRefused(r) \/ ConfirmDrops(r) \/ ConfirmUndoes(r)
                   \/ CancelReads(r) \/ CancelSlot(r) \/ CancelCommits(r) \/ CancelAnswers(r)
Serve(forgotten) == \E r \in Requests : ServeHold(r, forgotten) \/ ServeBooking(r) \/ Crash(r)

----------------------------------------------------------------------------
(* The environment: the host and other users.  A request of theirs, of those in *)
(* jobs, reads ... *)

Begins(op, on, pc) ==
  /\ Room /\ work' = work \cup {[op |-> op, on |-> on, pc |-> pc]}
  /\ UNCHANGED <<slot, hold, booking, had, adrift>>

\* create_hold past EXISTS; create_booking past verify_hold; block_slot;
\* unblock_slot.
SlotRead(s, jobs) ==
  \/ "hold" \in jobs /\ slot[s] = "OPEN" /\ hold[s] = None /\ Begins("hold", s, "commits")
  \/ "book" \in jobs /\ hold[s] = Someone /\ Begins("book", s, "commits")
  \/ "block" \in jobs /\ slot[s] = "OPEN" /\ Begins("block", s, "commits")
  \/ "unblock" \in jobs /\ slot[s] = "BLOCKED" /\ Begins("unblock", s, "commits")

\* approve_booking; reject_booking, or cancel_my_booking of another booker.
BookingRead(b, jobs) ==
  /\ booking[b] # None /\ booking[b].slot \in Busy /\ booking[b].status \in Active
  /\ \/ "approve" \in jobs /\ booking[b].status = "PENDING" /\ Begins("approve", b, "slot")
     \/ "close" \in jobs /\ (booking[b].status = "PENDING" \/ ~booking[b].mine) /\ Begins("close", b, "slot")

\* ... and writes later what it has decided then, by id or by key.
Ended(w) == work' = work \ {w}

ReadsSlot(w) ==
  /\ w.op = "close" /\ w.pc = "slot"
  /\ work' = (work \ {w}) \cup {[w EXCEPT !.pc = IF Frees(w.on) THEN "frees" ELSE "keeps"]}
  /\ UNCHANGED <<slot, hold, booking, had, adrift>>
Closes(w) ==
  /\ w.pc \in {"frees", "keeps"} /\ booking[w.on] # None
  /\ CloseBooking(w.on, w.pc = "frees") /\ Ended(w)
  /\ UNCHANGED <<hold, adrift>>
Approves(w) ==
  /\ w.op = "approve" /\ booking[w.on] # None
  /\ SetStatus(w.on, "CONFIRMED") /\ Ended(w)
  /\ UNCHANGED <<slot, hold, adrift>>
Toggles(w) ==
  /\ w.op \in {"block", "unblock"} /\ slot[w.on] # "GONE"
  /\ slot' = [slot EXCEPT ![w.on] = IF w.op = "block" THEN "BLOCKED" ELSE "OPEN"] /\ Ended(w)
  /\ UNCHANGED <<hold, booking, had, adrift>>
Holds(w) ==
  /\ w.op = "hold"
  /\ hold' = [hold EXCEPT ![w.on] = Someone] /\ adrift' = adrift \cup ({hold[w.on]} \cap Tokens)
  /\ Ended(w) /\ UNCHANGED <<slot, booking, had>>
\* release_hold, after a booking or after an error, may be any HoldEnds.
Books(w) ==
  /\ w.op = "book" /\ slot[w.on] = "OPEN"
  /\ InsertBooking(w.on, FALSE) /\ Ended(w)
  /\ UNCHANGED <<hold, adrift>>
\* A worker dies, or the row has gone.
Dies(w) == Ended(w) /\ UNCHANGED <<slot, hold, booking, had, adrift>>

\* The TTL of a hold, its release by the user who has it, or the DEL of a
\* create_booking that ends.
HoldEnds(s) ==
  /\ hold[s] # None /\ Forget(s, None)
  /\ UNCHANGED <<slot, booking, work, had>>

\* delete_host_setting: the bookings and the slots go with their page.
DeletePage ==
  /\ \E s \in Busy : slot[s] # "GONE"
  /\ slot' = [s \in Slots |-> "GONE"] /\ booking' = [b \in Ids |-> None]
  /\ UNCHANGED <<hold, work, had, adrift>>

Others(jobs) ==
  \/ \E s \in Slots : HoldEnds(s)
  \/ \E s \in Busy : SlotRead(s, jobs)
  \/ \E b \in Ids : BookingRead(b, jobs)
  \/ \E w \in work : ReadsSlot(w) \/ Closes(w) \/ Approves(w) \/ Toggles(w) \/ Holds(w) \/ Books(w) \/ Dies(w)
  \/ "delete" \in jobs /\ DeletePage
=============================================================================
