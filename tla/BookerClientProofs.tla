------------------------- MODULE BookerClientProofs -------------------------
(***************************************************************************)
(* Proofs about the booker's pages, for any number of slots, months,       *)
(* bookings, hold tokens, links, searches and requests under way.          *)
(*                                                                         *)
(* Local is the inductive invariant of the layer: variables have their     *)
(* types, requests and answers are those of what they were asked for, and  *)
(* what a page knows of a booking is not ahead of the server.  The busy    *)
(* flags, the search and the owner's calendar come on top of it.           *)
(***************************************************************************)
EXTENDS BookerClient, TLAPS

\* The server's data; a row's status is one that its booking has had.
DataOK ==
  /\ slot \in [Slots -> {"OPEN", "BLOCKED", "BOOKED", "GONE"}]
  /\ hold \in [Slots -> Tokens \cup {Someone, None}]
  /\ booking \in [Ids -> BookingRow \cup {None}]
  /\ work \subseteq Work
  /\ had \in [Ids -> SUBSET Statuses]
  /\ adrift \subseteq Tokens
  /\ \A b \in Ids : booking[b] # None => booking[b].status \in had[b]

DeskShape == DataOK /\ lost \subseteq Request

\* Where the handler of an operation awaits.
At(op) ==
  CASE op = "open"    -> {"asks", "sets"}
    [] op = "release" -> {"deletes"}
    [] op = "confirm" -> {"locks", "drops", "undoes"}
    [] op = "cancel"  -> {"slot", "frees", "keeps", "refreshes"}

\* What request r names exists, or existed, and what it has been answered fits.
Fits(r) ==
  /\ r.op # "cancel" => r.on \in Slots
  /\ r.op = "cancel" => r.on \in Ids /\ had[r.on] # {}
  /\ Unanswered(r) => r.pc \in {"sent"} \cup At(r.op)
  /\ r.pc # "ok" => r.got = None
  /\ r.op = "open" /\ r.pc = "ok" => r.got \in Tokens
  /\ r.op = "cancel" /\ r.pc = "ok" => r.got \in Statuses /\ Behind(r.got, r.on)

LostFit == \A r \in lost : Fits(r) /\ Unanswered(r)

ActFits == act # None => act \in Request /\ Fits(act)

PlaceOK ==
  /\ page \in {"elsewhere", "console", "landing", "login", "book", "bookings", "detail"}
  /\ who \in {"guest"} \cup Roles
  /\ from # None => /\ page = "login" /\ from \in [page: {"book", "bookings"}, month: Months \cup {None}]
                    /\ from.page = "book" => from.month \in Months

\* The details d are those of booking b, which is no less far.
About(d, b) == d.id = b /\ Behind(d.status, b)
ListBehind(items) == \A b \in DOMAIN items : Behind(items[b], b)

\* What the pages of the user's bookings show, and what they have been answered.
Seen ==
  /\ page = "bookings" =>
       /\ view.modal # None \/ act # None => view.items # None
       /\ view.items # None => ListBehind(view.items)
       /\ view.detail # None => /\ Behind(view.detail.status, view.detail.id)
                                /\ view.detail.can => view.detail.id = view.modal
       /\ load # None /\ load.data # None => ListBehind(load.data)
       /\ aux # None /\ aux.data # None => About(aux.data, view.modal)
  /\ page = "detail" =>
       /\ view.detail # None => About(view.detail, view.id)
       /\ load # None /\ load.data # None => About(load.data, view.id)
       /\ act # None => act.on = view.id

Local == DeskShape /\ LostFit /\ ActFits /\ PlaceOK /\ PageOK /\ ActOK /\ Seen

----------------------------------------------------------------------------
(* Busy flags *)

\* Beyond BusyMeansWorking: one guarded function at a time, and the owner of a
\* page books nothing on it.
Guarded ==
  /\ BusyMeansWorking
  /\ page = "book" =>
       /\ act # None => ~(aux # None /\ aux.kind = "days")
       /\ who = "owner" => /\ view.sel = None /\ view.modal = None /\ act = None
                           /\ aux # None => aux.kind = "owned"

----------------------------------------------------------------------------
(* The owner's calendar *)

\* What has been read of slot s is what it is.
Fresh(s) ==
  /\ s \in DOMAIN view.days => view.days[s] = slot[s]
  /\ load # None /\ load.data # None /\ s \in DOMAIN load.data => load.data[s] = slot[s]
  /\ view.owned # None => (s \in DOMAIN view.owned <=> ActiveOn(s) # {})
  /\ aux # None /\ aux.data # None => (s \in DOMAIN aux.data <=> ActiveOn(s) # {})

FreshUnlessMoved ==
  page = "book" /\ who = "owner" =>
    /\ ~view.loaded => view.days = Nothing /\ view.owned = None /\ aux = None
    /\ \A s \in Slots \ moved : Fresh(s)

\* A cancellation that has read the slot of b as OPEN, and will leave it as it is.
Keeping(b) == \E x \in work \cup Requests : x.on = b /\ x.pc = "keeps"

\* A BOOKED slot has a booking that will not end without it, and what awaits a
\* booking's end is about one that was made.
Held ==
  /\ \A s \in Slots : slot[s] = "BOOKED" => \E b \in ActiveOn(s) : ~Keeping(b)
  /\ \A w \in work : w.op \in {"approve", "close"} => had[w.on] # {}

----------------------------------------------------------------------------
(* What booking has had *)

\* No status that a booking has had is forgotten.
Advances == \A b \in Ids : had[b] \subseteq had'[b]

LEMMA RowFacts ==
  ASSUME NEW f \in [Ids -> BookingRow \cup {None}], NEW b \in Ids, f[b] # None
  PROVE  f[b] \in BookingRow /\ f[b].slot \in Slots /\ f[b].status \in Statuses
  BY DEF BookingRow, Statuses

LEMMA StatusBehindKept ==
  ASSUME Advances, NEW x, NEW b \in Ids, Behind(x, b)
  PROVE  Behind(x, b)'
  BY DEF Advances, Behind

LEMMA ListBehindKept ==
  ASSUME Advances, NEW items \in Items, ListBehind(items)
  PROVE  ListBehind(items)'
  <1>1. DOMAIN items \subseteq Ids
    BY DEF Items
  <1> QED
    BY <1>1, StatusBehindKept DEF ListBehind

LEMMA AboutKept ==
  ASSUME Advances, NEW d \in Details, NEW b, About(d, b)
  PROVE  About(d, b)'
  <1>1. b \in Ids
    BY DEF Details, About
  <1> QED
    BY <1>1, StatusBehindKept DEF About

LEMMA FitsKept ==
  ASSUME Advances, NEW r, Fits(r)
  PROVE  Fits(r)'
  <1>1. ASSUME r.op = "cancel" PROVE had'[r.on] # {}
    BY <1>1 DEF Fits, Advances
  <1>2. ASSUME r.op = "cancel", r.pc = "ok" PROVE Behind(r.got, r.on)'
    BY <1>2, StatusBehindKept DEF Fits
  <1> QED
    BY <1>1, <1>2 DEF Fits, Unanswered, At

LEMMA StandingStill ==
  ASSUME UNCHANGED had
  PROVE  Advances
  BY DEF Advances

----------------------------------------------------------------------------
(* The server *)

\* The running function is the same one, if any; only its place and its answer
\* may be new.
SameAct ==
  /\ act = None <=> act' = None
  /\ act # None => act'.op = act.op /\ act'.on = act.on

\* What may be answered to r.
Suits(r, pc, got) ==
  /\ pc \in {"ok", "error"} /\ got \in Tokens \cup Statuses \cup {None}
  /\ pc = "error" => got = None
  /\ r.op = "open" /\ pc = "ok" => got \in Tokens
  /\ r.op = "cancel" /\ pc = "ok" => got \in Statuses /\ Behind(got, r.on)'

\* The handler of r goes on to its next place, or returns.
Proceeds(r) ==
  \/ \E pc \in At(r.op) : Goto(r, pc)
  \/ \E pc, got : Return(r, pc, got) /\ Suits(r, pc, got)

LEMMA StageFacts ==
  /\ \A op : \A pc \in At(op) : op \in {"open", "release", "confirm", "cancel"} => pc \in Stages
  /\ \A pc \in Stages : pc \notin {"sent", "ok", "error"}
  BY DEF At, Stages

LEMMA ServedOnes ==
  ASSUME Local, NEW r \in Requests
  PROVE  r \in Request /\ Fits(r) /\ Unanswered(r) /\ (r \notin lost => act = r /\ act # None)
  <1>1. CASE r \in lost
    BY <1>1 DEF Local, DeskShape, LostFit
  <1>2. CASE r \notin lost
    <2>1. act # None /\ r \in {act} /\ Unanswered(r)
      BY <1>2 DEF Requests
    <2> QED
      BY <1>2, <2>1 DEF Local, ActFits
  <1> QED
    BY <1>1, <1>2

\* What the requests not served keep.
LEMMA LostKept ==
  ASSUME Local, Advances, \A q \in lost' : q \in lost \/ (q \in Request /\ Fits(q)' /\ Unanswered(q))
  PROVE  lost' \subseteq Request /\ LostFit'
  <1>1. \A q \in lost : q \in Request /\ Fits(q)' /\ Unanswered(q)
    BY FitsKept DEF Local, DeskShape, LostFit
  <1>2. \A q \in lost' : q \in Request /\ Fits(q)' /\ Unanswered(q)
    BY <1>1
  <1> QED
    BY <1>2 DEF LostFit, Unanswered

LEMMA ActKept ==
  ASSUME Local, Advances, act' = act
  PROVE  ActFits' /\ SameAct
  <1>1. SUFFICES ASSUME act # None PROVE act' \in Request /\ Fits(act)'
    BY DEF ActFits, SameAct
  <1>2. PICK q : q = act
    OBVIOUS
  <1>3. q \in Request /\ Fits(q)'
    BY <1>1, <1>2, FitsKept DEF Local, ActFits
  <1> QED
    BY <1>2, <1>3 DEF Fits, Behind, Unanswered

LEMMA ProceedsOK ==
  ASSUME Local, NEW r \in Requests, Proceeds(r), Advances
  PROVE  lost' \subseteq Request /\ LostFit' /\ ActFits' /\ SameAct
  <1>1. r \in Request /\ Fits(r) /\ Unanswered(r) /\ (r \notin lost => act = r /\ act # None)
    BY ServedOnes
  <1>2. r.op \in {"open", "confirm", "release", "cancel"} /\ r.got = None
    BY <1>1 DEF Request, Fits, Unanswered
  <1>3. ASSUME NEW q, act' = q, q \in Request, Fits(q)', q.op = r.op, q.on = r.on, r \notin lost, lost' = lost
        PROVE  lost' \subseteq Request /\ LostFit' /\ ActFits' /\ SameAct
    <2>1. ActFits'
      BY <1>3 DEF ActFits, Fits, Behind, Unanswered
    <2>2. SameAct
      BY <1>1, <1>3, NoneIsNoRecord DEF SameAct
    <2> QED
      BY <1>3, <2>1, <2>2, LostKept
  <1>4. ASSUME NEW pc \in At(r.op), Goto(r, pc) PROVE lost' \subseteq Request /\ LostFit' /\ ActFits' /\ SameAct
    <2>1. pc \in Stages /\ pc \notin {"sent", "ok", "error"}
      BY <1>2, <1>4, StageFacts
    <2>2. PICK q : q = [r EXCEPT !.pc = pc]
      OBVIOUS
    <2>3. q \in Request /\ q.op = r.op /\ q.on = r.on /\ q.pc = pc /\ q.got = None
      BY <1>1, <1>2, <2>1, <2>2 DEF Request
    <2>4. Fits(q) /\ Unanswered(q)
      BY <1>1, <1>2, <1>4, <2>1, <2>3 DEF Fits, Unanswered
    <2>5. CASE r \in lost
      <3>1. lost' = (lost \ {r}) \cup {q} /\ act' = act
        BY <1>4, <2>2, <2>5 DEF Goto
      <3>2. Fits(q)'
        BY <2>4, FitsKept
      <3>3. \A x \in lost' : x \in lost \/ (x \in Request /\ Fits(x)' /\ Unanswered(x))
        BY <2>3, <2>4, <3>1, <3>2
      <3>4. lost' \subseteq Request /\ LostFit'
        BY <3>3, LostKept
      <3> QED
        BY <3>1, <3>4, ActKept
    <2>6. CASE r \notin lost
      <3>1. act' = q /\ lost' = lost
        BY <1>1, <1>4, <2>2, <2>6 DEF Goto
      <3> QED
        BY <1>3, <2>3, <2>4, <2>6, <3>1, FitsKept
    <2> QED
      BY <2>5, <2>6
  <1>5. ASSUME NEW pc, NEW got, Return(r, pc, got), Suits(r, pc, got)
        PROVE  lost' \subseteq Request /\ LostFit' /\ ActFits' /\ SameAct
    <2>1. CASE r \in lost
      <3>1. lost' = lost \ {r} /\ act' = act
        BY <1>5, <2>1 DEF Return
      <3>2. lost' \subseteq Request /\ LostFit'
        BY <3>1, LostKept
      <3> QED
        BY <3>1, <3>2, ActKept
    <2>2. CASE r \notin lost
      <3>1. PICK q : q = [r EXCEPT !.pc = pc, !.got = got]
        OBVIOUS
      <3>2. q \in Request /\ q.op = r.op /\ q.on = r.on /\ q.pc = pc /\ q.got = got
        BY <1>1, <1>5, <3>1 DEF Request, Suits
      <3>3. Fits(r)'
        BY <1>1, FitsKept
      <3>4. Fits(q)'
        BY <1>5, <3>2, <3>3 DEF Fits, Suits, Unanswered
      <3>5. act' = q /\ lost' = lost
        BY <1>1, <1>5, <2>2, <3>1 DEF Return
      <3> QED
        BY <1>3, <2>2, <3>2, <3>4, <3>5
    <2> QED
      BY <2>1, <2>2
  <1> QED
    BY <1>4, <1>5 DEF Proceeds

\* What a step of the server gives every other layer.
DeskStep ==
  DeskShape' /\ Advances /\ LostFit' /\ ActFits' /\ SameAct

LEMMA DataStill ==
  ASSUME DataOK, UNCHANGED deskVars
  PROVE  DataOK' /\ Advances
  BY DEF DataOK, deskVars, Advances

LEMMA ProceedsStep ==
  ASSUME Local, NEW r \in Requests, Proceeds(r), DataOK', Advances
  PROVE  DeskStep
  BY ProceedsOK DEF DeskStep, DeskShape

\* An error suits every request, and so does "ok" without more, but for the two
\* whose answers bring something.
LEMMA PlainAnswers ==
  ASSUME NEW r
  PROVE  Suits(r, "error", None) /\ (r.op \notin {"open", "cancel"} => Suits(r, "ok", None))
  BY DEF Suits

\* The operation of a request is known by where its handler awaits.
LEMMA KnownByPlace ==
  ASSUME NEW r \in Request, Fits(r)
  PROVE  /\ r.pc \in {"asks", "sets"} => r.op = "open" /\ r.on \in Slots
         /\ r.pc = "deletes" => r.op = "release" /\ r.on \in Slots
         /\ r.pc \in {"locks", "drops", "undoes"} => r.op = "confirm" /\ r.on \in Slots
         /\ r.pc \in {"slot", "frees", "keeps", "refreshes"} => r.op = "cancel" /\ r.on \in Ids /\ had[r.on] # {}
         /\ r.op \in {"open", "release", "confirm"} => r.on \in Slots
  <1>1. r.op \in {"open", "confirm", "release", "cancel"}
    BY DEF Request
  <1>2. r.pc \notin {"sent", "ok", "error"} => r.pc \in At(r.op)
    BY DEF Fits, Unanswered
  <1>3. r.op # "cancel" => r.on \in Slots
    BY DEF Fits
  <1>4. r.op = "cancel" => r.on \in Ids /\ had[r.on] # {}
    BY DEF Fits
  <1> QED
    BY <1>1, <1>2, <1>3, <1>4 DEF At

LEMMA ForgetOK ==
  ASSUME DataOK, NEW s \in Slots, NEW k, Forget(s, k), UNCHANGED <<slot, booking, had>>, work' \subseteq Work
  PROVE  DataOK' /\ Advances
  BY DEF DataOK, Forget, Advances

LEMMA ServeHoldStep ==
  ASSUME Local, NEW r \in Requests, NEW forgotten \in SUBSET Tokens, ServeHold(r, forgotten)
  PROVE  DeskStep
  <1>1. r \in Request /\ Fits(r) /\ DataOK
    BY ServedOnes DEF Local, DeskShape
  <1>2. ASSUME UNCHANGED deskVars, Proceeds(r) PROVE DeskStep
    BY <1>1, <1>2, DataStill, ProceedsStep
  <1>3. CASE OpenReads(r)
    BY <1>2, <1>3, PlainAnswers DEF OpenReads, Proceeds, At
  <1>4. CASE OpenAsks(r)
    <2>1. r.op = "open"
      BY <1>1, <1>4, KnownByPlace DEF OpenAsks
    <2> QED
      BY <1>2, <1>4, <2>1, PlainAnswers DEF OpenAsks, Proceeds, At
  <1>5. CASE OpenSets(r, forgotten)
    <2>1. r.op = "open" /\ r.on \in Slots
      BY <1>1, <1>5, KnownByPlace DEF OpenSets
    <2>2. PICK k \in forgotten :
            /\ hold' = [hold EXCEPT ![r.on] = k]
            /\ adrift' = ((adrift \ {k}) \cup ({hold[r.on]} \cap Tokens)) \cup (IF r \in lost THEN {k} ELSE {})
            /\ Return(r, "ok", k)
      BY <1>5 DEF OpenSets
    <2>3. DataOK' /\ Advances
      BY <1>1, <1>5, <2>1, <2>2 DEF OpenSets, DataOK, Advances
    <2>4. Suits(r, "ok", k)
      BY <2>1 DEF Suits
    <2> QED
      BY <2>2, <2>3, <2>4, ProceedsStep DEF Proceeds
  <1>6. CASE ReleaseReads(r)
    BY <1>2, <1>6, PlainAnswers DEF ReleaseReads, Proceeds, At
  <1>7. CASE ReleaseDeletes(r)
    <2>1. r.op = "release" /\ r.on \in Slots
      BY <1>1, <1>7, KnownByPlace DEF ReleaseDeletes
    <2>2. DataOK' /\ Advances
      BY <1>1, <1>7, <2>1, ForgetOK DEF ReleaseDeletes, DataOK
    <2> QED
      BY <1>7, <2>1, <2>2, PlainAnswers, ProceedsStep DEF ReleaseDeletes, Proceeds
  <1> QED
    BY <1>3, <1>4, <1>5, <1>6, <1>7 DEF ServeHold

LEMMA SetStatusOK ==
  ASSUME DataOK, NEW b \in Ids, booking[b] # None, NEW status \in Statuses, SetStatus(b, status)
  PROVE  /\ booking' \in [Ids -> BookingRow \cup {None}] /\ had' \in [Ids -> SUBSET Statuses] /\ Advances
         /\ booking'[b] # None /\ booking'[b].slot = booking[b].slot /\ booking'[b].status = status
         /\ \A c \in Ids \ {b} : booking'[c] = booking[c]
         /\ \A c \in Ids : booking'[c] # None => booking'[c].status \in had'[c]
  <1>1. PICK row : row = [booking[b] EXCEPT !.status = status]
    OBVIOUS
  <1>2. booking[b] \in BookingRow
    BY RowFacts DEF DataOK
  <1>3. row \in BookingRow /\ row # None /\ row.slot = booking[b].slot /\ row.status = status
    BY <1>1, <1>2, NoneIsNoRecord DEF BookingRow
  <1>4. booking' = [booking EXCEPT ![b] = row] /\ had' = [had EXCEPT ![b] = @ \cup {status}]
    BY <1>1 DEF SetStatus
  <1>5. booking' \in [Ids -> BookingRow \cup {None}] /\ booking'[b] = row /\ \A c \in Ids \ {b} : booking'[c] = booking[c]
    BY <1>3, <1>4 DEF DataOK
  <1>6. had' \in [Ids -> SUBSET Statuses] /\ status \in had'[b] /\ \A c \in Ids : had[c] \subseteq had'[c]
    BY <1>4 DEF DataOK
  <1>7. \A c \in Ids : booking'[c] # None => booking'[c].status \in had'[c]
    BY <1>3, <1>5, <1>6 DEF DataOK
  <1> QED
    BY <1>3, <1>5, <1>6, <1>7 DEF Advances

LEMMA InsertOK ==
  ASSUME DataOK, NEW s \in Slots, NEW mine \in BOOLEAN, InsertBooking(s, mine)
  PROVE  \E b \in Ids :
           /\ booking' \in [Ids -> BookingRow \cup {None}] /\ had' \in [Ids -> SUBSET Statuses] /\ Advances
           /\ slot' \in [Slots -> {"OPEN", "BLOCKED", "BOOKED", "GONE"}]
           /\ slot'[s] = "BOOKED" /\ \A x \in Slots \ {s} : slot'[x] = slot[x]
           /\ had[b] = {} /\ booking'[b] # None /\ booking'[b].slot = s /\ booking'[b].status \in Active
           /\ \A c \in Ids \ {b} : booking'[c] = booking[c]
           /\ \A c \in Ids : booking'[c] # None => booking'[c].status \in had'[c]
  <1>1. PICK b \in Ids : /\ had[b] = {} /\ booking' = [booking EXCEPT ![b] = [slot |-> s, mine |-> mine, status |-> Initial]]
                         /\ had' = [had EXCEPT ![b] = {Initial}]
                         /\ slot' = [slot EXCEPT ![s] = "BOOKED"]
    BY DEF InsertBooking
  <1>2. Initial \in Active /\ Initial \in Statuses
    BY DeskConstantsOK DEF Active, Statuses
  <1>3. PICK row : row = [slot |-> s, mine |-> mine, status |-> Initial]
    OBVIOUS
  <1>4. row \in BookingRow /\ row.slot = s /\ row.status = Initial /\ row # None
    BY <1>2, <1>3, NoneIsNoRecord DEF BookingRow
  <1>5. booking' \in [Ids -> BookingRow \cup {None}] /\ booking'[b] = row /\ \A c \in Ids \ {b} : booking'[c] = booking[c]
    BY <1>1, <1>3, <1>4 DEF DataOK
  <1>6. had' \in [Ids -> SUBSET Statuses] /\ Initial \in had'[b] /\ \A c \in Ids : had[c] \subseteq had'[c]
    BY <1>1, <1>2 DEF DataOK
  <1>7. \A c \in Ids : booking'[c] # None => booking'[c].status \in had'[c]
    BY <1>4, <1>5, <1>6 DEF DataOK
  <1>8. /\ slot' \in [Slots -> {"OPEN", "BLOCKED", "BOOKED", "GONE"}]
        /\ slot'[s] = "BOOKED" /\ \A x \in Slots \ {s} : slot'[x] = slot[x]
    BY <1>1 DEF DataOK
  <1>9. Advances
    BY <1>6 DEF Advances
  <1> QED
    BY <1>1, <1>2, <1>4, <1>5, <1>6, <1>7, <1>8, <1>9

LEMMA CloseOK ==
  ASSUME DataOK, NEW b \in Ids, booking[b] # None, NEW frees \in BOOLEAN, CloseBooking(b, frees)
  PROVE  /\ slot' \in [Slots -> {"OPEN", "BLOCKED", "BOOKED", "GONE"}]
         /\ \A x \in Slots : slot'[x] = slot[x] \/ slot'[x] = "OPEN"
         /\ frees => slot'[booking[b].slot] = "OPEN"
         /\ SetStatus(b, "CLOSED") /\ "CLOSED" \in Statuses
  <1>1. booking[b].slot \in Slots
    BY RowFacts DEF DataOK
  <1> QED
    BY <1>1 DEF CloseBooking, DataOK, Statuses

LEMMA ServeBookingStep ==
  ASSUME Local, NEW r \in Requests, ServeBooking(r)
  PROVE  DeskStep
  <1>1. r \in Request /\ Fits(r) /\ DataOK
    BY ServedOnes DEF Local, DeskShape
  <1>2. ASSUME UNCHANGED deskVars, Proceeds(r) PROVE DeskStep
    BY <1>1, <1>2, DataStill, ProceedsStep
  <1>3. CASE ConfirmReads(r)
    BY <1>2, <1>3 DEF ConfirmReads, Proceeds, At
  <1>4. CASE ConfirmCommits(r)
    <2>1. r.op = "confirm" /\ r.on \in Slots
      BY <1>1, <1>4, KnownByPlace DEF ConfirmCommits
    <2>2. DataOK' /\ Advances
      BY <1>1, <1>4, <2>1, InsertOK DEF ConfirmCommits, DataOK
    <2> QED
      BY <1>4, <2>1, <2>2, ProceedsStep DEF ConfirmCommits, Proceeds, At
  <1>5. CASE ConfirmRefused(r)
    <2>1. r.op = "confirm"
      BY <1>1, <1>5, KnownByPlace DEF ConfirmRefused
    <2> QED
      BY <1>2, <1>5, <2>1 DEF ConfirmRefused, Proceeds, At
  <1>6. CASE ConfirmDrops(r) \/ ConfirmUndoes(r)
    <2>1. r.op = "confirm" /\ r.on \in Slots
      BY <1>1, <1>6, KnownByPlace DEF ConfirmDrops, ConfirmUndoes
    <2>2. DataOK' /\ Advances
      BY <1>1, <1>6, <2>1, ForgetOK DEF ConfirmDrops, ConfirmUndoes, DataOK
    <2> QED
      BY <1>6, <2>1, <2>2, PlainAnswers, ProceedsStep DEF ConfirmDrops, ConfirmUndoes, Proceeds
  <1>7. CASE CancelReads(r)
    BY <1>2, <1>7, PlainAnswers DEF CancelReads, Proceeds, At
  <1>8. CASE CancelSlot(r)
    <2>1. r.op = "cancel"
      BY <1>1, <1>8, KnownByPlace DEF CancelSlot
    <2> QED
      BY <1>2, <1>8, <2>1, PlainAnswers DEF CancelSlot, Proceeds, At
  <1>9. CASE CancelCommits(r)
    <2>1. r.op = "cancel" /\ r.on \in Ids /\ booking[r.on] # None
      BY <1>1, <1>9, KnownByPlace DEF CancelCommits
    <2>2. PICK frees \in BOOLEAN : CloseBooking(r.on, frees)
      BY <1>9 DEF CancelCommits
    <2>3. DataOK' /\ Advances
      BY <1>1, <1>9, <2>1, <2>2, CloseOK, SetStatusOK DEF CancelCommits, DataOK
    <2> QED
      BY <1>9, <2>1, <2>3, ProceedsStep DEF CancelCommits, Proceeds, At
  <1>10. CASE CancelAnswers(r)
    <2>1. r.op = "cancel" /\ r.on \in Ids /\ booking[r.on] # None
      BY <1>1, <1>10, KnownByPlace DEF CancelAnswers
    <2>2. booking[r.on].status \in Statuses /\ booking[r.on].status \in had'[r.on]
      BY <1>1, <1>10, <2>1, RowFacts DEF CancelAnswers, DataOK, deskVars
    <2>3. PICK got : got = booking[r.on].status
      OBVIOUS
    <2>4. Suits(r, "ok", got)
      BY <2>1, <2>2, <2>3 DEF Suits, Behind
    <2> QED
      BY <1>2, <1>10, <2>3, <2>4 DEF CancelAnswers, Proceeds
  <1> QED
    BY <1>3, <1>4, <1>5, <1>6, <1>7, <1>8, <1>9, <1>10 DEF ServeBooking

LEMMA CrashStep ==
  ASSUME Local, NEW r \in Requests, Crash(r)
  PROVE  DeskStep
  <1>1. DataOK' /\ Advances
    BY DataStill DEF Crash, Local, DeskShape
  <1> QED
    BY <1>1, PlainAnswers, ProceedsStep DEF Crash, Proceeds

LEMMA UnaskedStep ==
  ASSUME Local, DataOK', Advances, UNCHANGED <<act, lost>>
  PROVE  DeskStep
  <1>1. lost' \subseteq Request /\ LostFit'
    BY LostKept
  <1>2. ActFits' /\ SameAct
    BY ActKept
  <1> QED
    BY <1>1, <1>2 DEF DeskStep, DeskShape

\* The work that is under way.
LEMMA WorkFacts ==
  ASSUME NEW w \in Work
  PROVE  /\ w.op \in {"approve", "close"} => w.on \in Ids /\ w.pc \in {"slot", "frees", "keeps"}
         /\ w.op \in {"block", "unblock", "hold", "book"} => w.on \in Slots /\ w.pc = "commits"
         /\ w.op \in {"approve", "close", "block", "unblock", "hold", "book"}
  BY DEF Work

LEMMA WorkersStep ==
  ASSUME DataOK, NEW w \in work,
         ReadsSlot(w) \/ Closes(w) \/ Approves(w) \/ Toggles(w) \/ Holds(w) \/ Books(w) \/ Dies(w)
  PROVE  DataOK' /\ Advances
  <1>0. w \in Work /\ w.op \in {"approve", "close", "block", "unblock", "hold", "book"}
    BY WorkFacts DEF DataOK
  <1>1. CASE ReadsSlot(w)
    <2>1. PICK pc \in {"frees", "keeps"} : work' = (work \ {w}) \cup {[w EXCEPT !.pc = pc]}
      BY <1>1 DEF ReadsSlot
    <2>2. PICK v : v = [w EXCEPT !.pc = pc]
      OBVIOUS
    <2>3. v \in Work
      BY <1>0, <1>1, <2>2 DEF ReadsSlot, Work
    <2> QED
      BY <1>1, <2>1, <2>2, <2>3 DEF ReadsSlot, DataOK, Advances
  <1>2. CASE Closes(w)
    <2>1. w.on \in Ids /\ booking[w.on] # None
      BY <1>0, <1>2, WorkFacts DEF Closes
    <2>2. PICK frees \in BOOLEAN : CloseBooking(w.on, frees)
      BY <1>2 DEF Closes
    <2> QED
      BY <1>2, <2>1, <2>2, CloseOK, SetStatusOK DEF Closes, Ended, DataOK
  <1>3. CASE Approves(w)
    <2>1. w.on \in Ids /\ booking[w.on] # None /\ "CONFIRMED" \in Statuses
      BY <1>0, <1>3, WorkFacts DEF Approves, Statuses, Active
    <2> QED
      BY <1>3, <2>1, SetStatusOK DEF Approves, Ended, DataOK
  <1>4. CASE Toggles(w)
    BY <1>0, <1>4, WorkFacts DEF Toggles, Ended, DataOK, Advances
  <1>5. CASE Holds(w)
    BY <1>0, <1>5, WorkFacts DEF Holds, Ended, DataOK, Advances
  <1>6. CASE Books(w)
    <2>1. w.on \in Slots
      BY <1>0, <1>6, WorkFacts DEF Books
    <2> QED
      BY <1>6, <2>1, InsertOK DEF Books, Ended, DataOK
  <1>7. CASE Dies(w)
    BY <1>7 DEF Dies, Ended, DataOK, Advances
  <1> QED
    BY <1>1, <1>2, <1>3, <1>4, <1>5, <1>6, <1>7

LEMMA BeginsOK ==
  ASSUME DataOK, NEW op, NEW on, NEW pc, Begins(op, on, pc),
         \/ op \in {"approve", "close"} /\ on \in Ids /\ pc = "slot"
         \/ op \in {"block", "unblock", "hold", "book"} /\ on \in Slots /\ pc = "commits"
  PROVE  DataOK' /\ Advances
  <1>1. [op |-> op, on |-> on, pc |-> pc] \in Work
    BY DEF Work
  <1> QED
    BY <1>1 DEF Begins, DataOK, Advances

LEMMA OthersStep ==
  ASSUME Local, NEW jobs, Others(jobs), UNCHANGED <<act, lost>>
  PROVE  DeskStep
  <1>0. DataOK
    BY DEF Local, DeskShape
  <1>1. ASSUME NEW s \in Slots, HoldEnds(s) PROVE DataOK' /\ Advances
    BY <1>0, <1>1, ForgetOK DEF HoldEnds, DataOK
  <1>2. ASSUME NEW s \in Slots, SlotRead(s, jobs) PROVE DataOK' /\ Advances
    BY <1>0, <1>2, BeginsOK DEF SlotRead
  <1>3. ASSUME NEW b \in Ids, BookingRead(b, jobs) PROVE DataOK' /\ Advances
    BY <1>0, <1>3, BeginsOK DEF BookingRead
  <1>4. ASSUME DeletePage PROVE DataOK' /\ Advances
    BY <1>0, <1>4 DEF DeletePage, DataOK, Advances
  <1>5. DataOK' /\ Advances
    BY <1>0, <1>1, <1>2, <1>3, <1>4, WorkersStep, DeskConstantsOK DEF Others
  <1> QED
    BY <1>5, UnaskedStep

\* The page knows of the new state what it knew of the old one.
LEMMA PageKept ==
  ASSUME Local, DeskStep, UNCHANGED <<page, who, view, from, load, aux>>
  PROVE  Local'
  <1>0. Advances /\ SameAct
    BY DEF DeskStep
  <1>1. PlaceOK' /\ PageOK'
    BY DEF Local, PlaceOK, PageOK
  <1>2. ActOK'
    BY <1>0 DEF Local, ActOK, SameAct
  <1>3. ASSUME page = "bookings" PROVE Seen'
    <2>1. view \in MineState /\ (load = None \/ load \in Reads("items", {None}, Items))
          /\ (aux = None \/ aux \in Reads("details", {view.modal} \cap Ids, Details))
      BY <1>3 DEF Local, PageOK
    <2>2. ASSUME view.items # None PROVE ListBehind(view.items)'
      <3>1. PICK items \in Items : items = view.items
        BY <2>1, <2>2 DEF MineState
      <3>2. ListBehind(items)'
        BY <1>0, <1>3, <2>2, <3>1, ListBehindKept DEF Local, Seen
      <3> QED
        BY <3>1, <3>2 DEF ListBehind, Behind
    <2>3. ASSUME view.detail # None PROVE Behind(view.detail.status, view.detail.id)'
      <3>1. PICK d \in Details : d = view.detail
        BY <2>1, <2>3 DEF MineState
      <3>2. Behind(d.status, d.id)'
        BY <1>0, <1>3, <2>3, <3>1, StatusBehindKept DEF Local, Seen, Details
      <3> QED
        BY <3>1, <3>2 DEF Behind
    <2>4. ASSUME load # None, load.data # None PROVE ListBehind(load.data)'
      <3>1. PICK items \in Items : items = load.data
        BY <2>1, <2>4 DEF Reads
      <3>2. ListBehind(items)'
        BY <1>0, <1>3, <2>4, <3>1, ListBehindKept DEF Local, Seen
      <3> QED
        BY <3>1, <3>2 DEF ListBehind, Behind
    <2>5. ASSUME aux # None, aux.data # None PROVE About(aux.data, view.modal)'
      <3>1. PICK d \in Details, b \in {view.modal} : d = aux.data
        BY <2>1, <2>5 DEF Reads
      <3>2. About(d, b)'
        BY <1>0, <1>3, <2>5, <3>1, AboutKept DEF Local, Seen
      <3> QED
        BY <3>1, <3>2 DEF About, Behind
    <2> QED
      BY <1>0, <1>3, <2>2, <2>3, <2>4, <2>5 DEF Local, Seen, SameAct, ListBehind, About, Behind
  <1>4. ASSUME page = "detail" PROVE Seen'
    <2>1. view \in DetailState /\ (load = None \/ load \in Reads("details", {view.id}, Details))
      BY <1>4 DEF Local, PageOK
    <2>2. ASSUME view.detail # None PROVE About(view.detail, view.id)'
      <3>1. PICK d \in Details, b \in {view.id} : d = view.detail
        BY <2>1, <2>2 DEF DetailState
      <3>2. About(d, b)'
        BY <1>0, <1>4, <2>2, <3>1, AboutKept DEF Local, Seen
      <3> QED
        BY <3>1, <3>2 DEF About, Behind
    <2>3. ASSUME load # None, load.data # None PROVE About(load.data, view.id)'
      <3>1. PICK d \in Details, b \in {view.id} : d = load.data
        BY <2>1, <2>3 DEF Reads
      <3>2. About(d, b)'
        BY <1>0, <1>4, <2>3, <3>1, AboutKept DEF Local, Seen
      <3> QED
        BY <3>1, <3>2 DEF About, Behind
    <2> QED
      BY <1>0, <1>4, <2>2, <2>3 DEF Local, Seen, SameAct, About, Behind
  <1>5. ASSUME page \notin {"bookings", "detail"} PROVE Seen'
    BY <1>5 DEF Seen
  <1> QED
    BY <1>1, <1>2, <1>3, <1>4, <1>5 DEF Local, DeskStep

LEMMA ServerDesk ==
  ASSUME Local, Server
  PROVE  DeskStep /\ UNCHANGED <<page, who, view, from, load, aux>>
  <1>1. ASSUME Serve(Tokens \ (Known \cup {hold[s] : s \in Slots})) PROVE DeskStep
    <2>1. PICK forgotten \in SUBSET Tokens : Serve(forgotten)
      BY <1>1
    <2> QED
      BY <2>1, ServeHoldStep, ServeBookingStep, CrashStep DEF Serve
  <1>2. ASSUME Others(Jobs[<<who, page>>]), UNCHANGED <<act, lost>> PROVE DeskStep
    BY <1>2, OthersStep
  <1> QED
    BY <1>1, <1>2 DEF Server

LEMMA ServerLocal ==
  ASSUME Local, Server
  PROVE  Local'
  BY ServerDesk, PageKept

----------------------------------------------------------------------------
(* The pages *)

\* Steps of the page that touch no request, as DeskStep asks for.
LEMMA DeskStill ==
  ASSUME Local, UNCHANGED <<deskVars, act, lost>>
  PROVE  DeskStep
  <1>1. DataOK' /\ Advances
    BY DataStill DEF Local, DeskShape
  <1> QED
    BY <1>1, UnaskedStep

\* Seen is about the pages of the user's bookings only.
LEMMA SeenElsewhere ==
  ASSUME page' \notin {"bookings", "detail"}
  PROVE  Seen'
  BY DEF Seen

\* Behind, in a step that leaves the bookings alone.
LEMMA BehindStays ==
  ASSUME UNCHANGED had
  PROVE  /\ \A x, b : Behind(x, b) => Behind(x, b)'
         /\ \A items : ListBehind(items) => ListBehind(items)'
         /\ \A d, b : About(d, b) => About(d, b)'
  BY DEF Behind, ListBehind, About

\* A step that stays on the page and leaves everything else alone.
LEMMA StayOnPage ==
  ASSUME Local, UNCHANGED <<deskVars, act, lost, page, who, from>>, PageOK', Seen'
  PROVE  Local'
  <1>1. DeskStep
    BY DeskStill
  <1>2. PlaceOK' /\ ActOK'
    BY DEF Local, PlaceOK, ActOK
  <1> QED
    BY <1>1, <1>2 DEF Local, DeskStep

LEMMA DaysAnswer ==
  ASSUME DataOK, NEW m \in Months,
         NEW d \in {days \in {[s \in SlotsIn(m) |-> slot[s]]} : \A s \in DOMAIN days : days[s] # "GONE"}
  PROVE  d \in Days /\ d = [s \in SlotsIn(m) |-> slot[s]]
  <1>1. d = [s \in SlotsIn(m) |-> slot[s]] /\ \A s \in SlotsIn(m) : d[s] # "GONE"
    OBVIOUS
  <1>2. \A s \in SlotsIn(m) : slot[s] \in {"OPEN", "BLOCKED", "BOOKED"}
    BY <1>1 DEF DataOK, SlotsIn
  <1>3. d \in [SlotsIn(m) -> {"OPEN", "BLOCKED", "BOOKED"}]
    BY <1>1, <1>2
  <1>4. SlotsIn(m) \in {{}} \cup {SlotsIn(n) : n \in Months}
    OBVIOUS
  <1> QED
    BY <1>1, <1>3, <1>4 DEF Days

LEMMA OwnedAnswer ==
  ASSUME DataOK, NEW f \in OwnedBookings
  PROVE  f \in Owned /\ \A s \in Slots : s \in DOMAIN f <=> ActiveOn(s) # {}
  <1> DEFINE Booked == {x \in Slots : ActiveOn(x) # {}}
  <1>1. f \in [Booked -> Active] /\ Booked \in SUBSET Slots
    BY DEF OwnedBookings
  <1>2. f \in Owned
    BY <1>1 DEF Owned
  <1> QED
    BY <1>1, <1>2

LEMMA ItemsAnswer ==
  ASSUME DataOK, NEW items, items = [b \in {x \in Ids : Own(x)} |-> booking[b].status]
  PROVE  items \in Items /\ ListBehind(items)
  <1>1. \A b \in Ids : Own(b) => booking[b].status \in Statuses /\ booking[b].status \in had[b]
    BY RowFacts DEF DataOK, Own
  <1>2. items \in [{x \in Ids : Own(x)} -> Statuses] /\ {x \in Ids : Own(x)} \in SUBSET Ids
    BY <1>1
  <1> QED
    BY <1>1, <1>2 DEF Items, ListBehind, Behind

LEMMA DetailsAnswer ==
  ASSUME DataOK, NEW b \in Ids, Own(b), NEW d \in DetailsOf(b)
  PROVE  d \in Details /\ About(d, b)
  <1>1. booking[b].status \in Statuses /\ booking[b].status \in had[b]
    BY RowFacts DEF DataOK, Own
  <1>2. PICK c \in BOOLEAN : d = [id |-> b, status |-> booking[b].status, can |-> c]
    BY DEF DetailsOf
  <1>3. d \in Details
    BY <1>1, <1>2 DEF Details
  <1>4. About(d, b)
    BY <1>1, <1>2 DEF About, Behind
  <1> QED
    BY <1>3, <1>4

LEMMA ServeLoadLocal ==
  ASSUME Local, ServeLoad
  PROVE  Local'
  <1>0. /\ load # None /\ load.data = None
        /\ UNCHANGED <<deskVars, act, lost, page, who, view, from, aux>> /\ UNCHANGED had
    BY DEF ServeLoad, deskVars
  <1>1. PICK d \in Answers(load) : load' = [load EXCEPT !.data = d]
    BY DEF ServeLoad
  <1>2. CASE page = "landing"
    <2>1. load \in Reads("search", {view.query}, {view.query})
      BY <1>0, <1>2 DEF Local, PageOK
    <2>2. d = view.query
      BY <1>1, <2>1 DEF Answers, Reads
    <2>3. load' \in Reads("search", {view.query}, {view.query})
      BY <1>1, <2>1, <2>2 DEF Reads
    <2>4. PageOK'
      BY <1>0, <1>2, <2>3 DEF Local, PageOK
    <2> QED
      BY <1>0, <1>2, <2>4, SeenElsewhere, StayOnPage
  <1>3. CASE page = "book"
    <2>1. load \in Reads("days", {view.month}, Days) /\ view.month \in Months
      BY <1>0, <1>3 DEF Local, PageOK, BookState
    <2>2. d \in {days \in {[s \in SlotsIn(view.month) |-> slot[s]]} : \A s \in DOMAIN days : days[s] # "GONE"}
      BY <1>1, <2>1 DEF Answers, Reads
    <2>3. d \in Days
      BY <2>1, <2>2, DaysAnswer DEF Local, DeskShape
    <2>4. load' \in Reads("days", {view.month}, Days)
      BY <1>1, <2>1, <2>3 DEF Reads
    <2>5. PageOK'
      BY <1>0, <1>3, <2>4 DEF Local, PageOK
    <2> QED
      BY <1>0, <1>3, <2>5, SeenElsewhere, StayOnPage
  <1>4. CASE page = "bookings"
    <2>1. load \in Reads("items", {None}, Items)
      BY <1>0, <1>4 DEF Local, PageOK
    <2>2. d = [b \in {x \in Ids : Own(x)} |-> booking[b].status]
      BY <1>1, <2>1 DEF Answers, Reads
    <2>3. d \in Items /\ ListBehind(d)
      BY <2>2, ItemsAnswer DEF Local, DeskShape
    <2>4. load' \in Reads("items", {None}, Items) /\ load'.data = d
      BY <1>1, <2>1, <2>3 DEF Reads
    <2>5. PageOK'
      BY <1>0, <1>4, <2>4 DEF Local, PageOK
    <2>6. ListBehind(d)'
      BY <1>0, <2>3, BehindStays
    <2>7. Seen'
      BY <1>0, <1>4, <2>4, <2>6, BehindStays DEF Local, Seen, ListBehind, About, Behind
    <2> QED
      BY <1>0, <2>5, <2>7, StayOnPage
  <1>5. CASE page = "detail"
    <2>1. load \in Reads("details", {view.id}, Details) /\ view.id \in Ids
      BY <1>0, <1>5 DEF Local, PageOK, DetailState
    <2>2. Own(view.id) /\ d \in DetailsOf(view.id)
      BY <1>1, <2>1 DEF Answers, Reads
    <2>3. d \in Details /\ About(d, view.id)
      BY <2>1, <2>2, DetailsAnswer DEF Local, DeskShape
    <2>4. load' \in Reads("details", {view.id}, Details) /\ load'.data = d
      BY <1>1, <2>1, <2>3 DEF Reads
    <2>5. PageOK'
      BY <1>0, <1>5, <2>4 DEF Local, PageOK
    <2>6. About(d, view.id)'
      BY <1>0, <2>3 DEF About, Behind
    <2>7. Seen'
      BY <1>0, <1>5, <2>4, <2>6 DEF Local, Seen, About, Behind
    <2> QED
      BY <1>0, <2>5, <2>7, StayOnPage
  <1>6. CASE page \in {"elsewhere", "console", "login"}
    BY <1>0, <1>6 DEF Local, PageOK
  <1> QED
    BY <1>2, <1>3, <1>4, <1>5, <1>6 DEF Local, PlaceOK

LEMMA ServeAuxLocal ==
  ASSUME Local, ServeAux
  PROVE  Local'
  <1>0. /\ aux # None /\ aux.data = None
        /\ UNCHANGED <<deskVars, act, lost, page, who, view, from, load>> /\ UNCHANGED had
    BY DEF ServeAux, deskVars
  <1>1. PICK d \in Answers(aux) : aux' = [aux EXCEPT !.data = d]
    BY DEF ServeAux
  <1>2. CASE page = "book"
    <2>1. CASE aux \in Reads("days", Months, Days)
      <3>1. d \in Days
        <4>1. aux.kind = "days" /\ aux.of \in Months
          BY <2>1 DEF Reads
        <4>2. d \in {days \in {[s \in SlotsIn(aux.of) |-> slot[s]]} : \A s \in DOMAIN days : days[s] # "GONE"}
          BY <1>1, <4>1 DEF Answers
        <4> QED
          BY <4>1, <4>2, DaysAnswer DEF Local, DeskShape
      <3>2. aux' \in Reads("days", Months, Days)
        BY <1>1, <2>1, <3>1 DEF Reads
      <3>3. PageOK'
        BY <1>0, <1>2, <3>2 DEF Local, PageOK
      <3> QED
        BY <1>0, <1>2, <3>3, SeenElsewhere, StayOnPage
    <2>2. CASE aux \in Reads("owned", {None}, Owned)
      <3>1. d \in Owned
        BY <1>1, <2>2, OwnedAnswer DEF Answers, Reads, Local, DeskShape
      <3>2. aux' \in Reads("owned", {None}, Owned)
        BY <1>1, <2>2, <3>1 DEF Reads
      <3>3. PageOK'
        BY <1>0, <1>2, <3>2 DEF Local, PageOK
      <3> QED
        BY <1>0, <1>2, <3>3, SeenElsewhere, StayOnPage
    <2> QED
      BY <1>0, <1>2, <2>1, <2>2 DEF Local, PageOK
  <1>3. CASE page = "bookings"
    <2>1. aux \in Reads("details", {view.modal} \cap Ids, Details) /\ view.modal \in Ids
      BY <1>0, <1>3 DEF Local, PageOK, Reads
    <2>2. Own(view.modal) /\ d \in DetailsOf(view.modal)
      BY <1>1, <2>1 DEF Answers, Reads
    <2>3. d \in Details /\ About(d, view.modal)
      BY <2>1, <2>2, DetailsAnswer DEF Local, DeskShape
    <2>4. aux' \in Reads("details", {view.modal} \cap Ids, Details) /\ aux'.data = d
      BY <1>1, <2>1, <2>3 DEF Reads
    <2>5. PageOK'
      BY <1>0, <1>3, <2>4 DEF Local, PageOK
    <2>6. About(d, view.modal)'
      BY <1>0, <2>3 DEF About, Behind
    <2>7. Seen'
      BY <1>0, <1>3, <2>4, <2>6 DEF Local, Seen, ListBehind, About, Behind
    <2> QED
      BY <1>0, <2>5, <2>7, StayOnPage
  <1>4. CASE page \notin {"book", "bookings"}
    BY <1>0, <1>4 DEF Local, PageOK, PlaceOK
  <1> QED
    BY <1>2, <1>3, <1>4

\* Settled changes the selection only, and leaves an owner none.
LEMMA SettledOK ==
  ASSUME NEW v \in BookState
  PROVE  /\ Settled(v) \in BookState
         /\ Settled(v) = [v EXCEPT !.sel = Settled(v).sel]
         /\ Settled(v).month = v.month /\ Settled(v).days = v.days /\ Settled(v).loaded = v.loaded
         /\ Settled(v).owned = v.owned /\ Settled(v).modal = v.modal /\ Settled(v).token = v.token
         /\ Settled(v).busy = v.busy
         /\ who = "owner" => Settled(v).sel = None
  <1>1. PICK x : x = IF who # "owner" /\ v.sel \in OpenSlots(v) THEN v.sel ELSE None
    OBVIOUS
  <1>2. x \in Slots \cup {None} /\ (who = "owner" => x = None)
    BY <1>1 DEF BookState
  <1>3. Settled(v) = [v EXCEPT !.sel = x]
    BY <1>1 DEF Settled
  <1> QED
    BY <1>2, <1>3 DEF BookState

LEMMA LoadArrivesLocal ==
  ASSUME Local, LoadArrives
  PROVE  Local'
  <1>0. /\ load # None /\ load.data # None /\ load' = None
        /\ UNCHANGED <<deskVars, act, lost, page, who, from>> /\ UNCHANGED had
    BY DEF LoadArrives, deskVars
  <1>1. CASE page = "landing"
    <2>1. load \in Reads("search", {view.query}, {view.query}) /\ view \in ExploreState /\ aux' = None
      BY <1>0, <1>1 DEF Local, PageOK, LoadArrives
    <2>2. view' = [view EXCEPT !.items = view.query, !.loading = FALSE]
      BY <1>0, <2>1 DEF LoadArrives, Reads
    <2>3. view' \in ExploreState
      BY <2>1, <2>2 DEF ExploreState
    <2>4. PageOK'
      BY <1>0, <1>1, <2>1, <2>3 DEF PageOK
    <2> QED
      BY <1>0, <1>1, <2>4, SeenElsewhere, StayOnPage
  <1>2. CASE page = "book"
    <2>1. load \in Reads("days", {view.month}, Days) /\ view \in BookState
      BY <1>0, <1>2 DEF Local, PageOK
    <2>2. PICK v : v = [view EXCEPT !.days = load.data, !.loaded = TRUE]
      OBVIOUS
    <2>3. v \in BookState /\ view' = Settled(v)
      BY <1>0, <2>1, <2>2 DEF LoadArrives, Reads, BookState
    <2>4. view' \in BookState
      BY <2>3, SettledOK
    <2>5. aux' \in {Effect("owned", None), aux}
      BY DEF LoadArrives
    <2>6. Effect("owned", None) \in Reads("owned", {None}, Owned)
      BY DEF Effect, Reads
    <2>7. PageOK'
      BY <1>0, <1>2, <2>4, <2>5, <2>6 DEF Local, PageOK
    <2> QED
      BY <1>0, <1>2, <2>7, SeenElsewhere, StayOnPage
  <1>3. CASE page = "bookings"
    <2>1. load \in Reads("items", {None}, Items) /\ view \in MineState /\ aux' = aux
      BY <1>0, <1>3 DEF Local, PageOK, LoadArrives
    <2>2. view' = [view EXCEPT !.items = load.data] /\ load.data \in Items
      BY <1>0, <2>1 DEF LoadArrives, Reads
    <2>3. /\ view' \in MineState /\ view'.items = load.data /\ view'.modal = view.modal
          /\ view'.detail = view.detail
      BY <2>1, <2>2 DEF MineState
    <2>4. PageOK'
      BY <1>0, <1>3, <2>1, <2>3 DEF Local, PageOK
    <2>5. Seen'
      BY <1>0, <1>3, <2>1, <2>3 DEF Local, Seen, ListBehind, About, Behind
    <2> QED
      BY <1>0, <2>4, <2>5, StayOnPage
  <1>4. CASE page = "detail"
    <2>1. load \in Reads("details", {view.id}, Details) /\ view \in DetailState /\ aux' = None
      BY <1>0, <1>4 DEF Local, PageOK, LoadArrives
    <2>2. view' = [view EXCEPT !.detail = load.data] /\ load.data \in Details
      BY <1>0, <2>1 DEF LoadArrives, Reads
    <2>3. view' \in DetailState /\ view'.detail = load.data /\ view'.id = view.id
      BY <2>1, <2>2 DEF DetailState
    <2>4. PageOK'
      BY <1>0, <1>4, <2>1, <2>3 DEF Local, PageOK
    <2>5. Seen'
      BY <1>0, <1>4, <2>1, <2>3 DEF Local, Seen, About, Behind
    <2> QED
      BY <1>0, <2>4, <2>5, StayOnPage
  <1>5. CASE page \in {"elsewhere", "console", "login"}
    BY <1>0, <1>5 DEF Local, PageOK
  <1> QED
    BY <1>1, <1>2, <1>3, <1>4, <1>5 DEF Local, PlaceOK

LEMMA LoadFailsLocal ==
  ASSUME Local, LoadFails
  PROVE  Local'
  <1>0. /\ load' = None /\ UNCHANGED <<deskVars, act, lost, page, who, from>> /\ UNCHANGED <<aux, had>>
    BY DEF LoadFails, deskVars
  <1>1. CASE page = "landing"
    <2>1. view' = [view EXCEPT !.items = None, !.error = TRUE, !.loading = FALSE] /\ view \in ExploreState
      BY <1>1 DEF LoadFails, Local, PageOK
    <2>2. view' \in ExploreState
      BY <2>1 DEF ExploreState
    <2>3. PageOK'
      BY <1>0, <1>1, <2>2 DEF Local, PageOK
    <2> QED
      BY <1>0, <1>1, <2>3, SeenElsewhere, StayOnPage
  <1>2. CASE page # "landing"
    <2>1. view' = view
      BY <1>2 DEF LoadFails
    <2>2. PageOK' /\ Seen'
      BY <1>0, <1>2, <2>1 DEF Local, PageOK, Seen, ListBehind, About, Behind
    <2> QED
      BY <1>0, <2>2, StayOnPage
  <1> QED
    BY <1>1, <1>2

LEMMA AuxEndsLocal ==
  ASSUME Local, AuxArrives \/ AuxFails
  PROVE  Local'
  <1>0. /\ aux # None /\ aux' = None
        /\ UNCHANGED <<deskVars, act, lost, page, who, from>> /\ UNCHANGED <<load, had>>
    BY DEF AuxArrives, AuxFails, deskVars
  <1>1. CASE page = "book"
    <2>1. view \in BookState
      BY <1>1 DEF Local, PageOK
    <2>2. CASE aux \in Reads("days", Months, Days)
      <3>1. ASSUME AuxArrives PROVE view' \in BookState /\ view'.month = view.month
        <4>1. PICK v : v = [view EXCEPT !.days = aux.data, !.busy = FALSE]
          OBVIOUS
        <4>2. v \in BookState /\ v.month = view.month /\ view' = Settled(v)
          BY <2>1, <2>2, <3>1, <4>1 DEF AuxArrives, Reads, BookState
        <4> QED
          BY <4>2, SettledOK
      <3>2. ASSUME AuxFails PROVE view' \in BookState /\ view'.month = view.month
        <4>1. view' = [view EXCEPT !.busy = FALSE]
          BY <2>2, <3>2 DEF AuxFails, Reads
        <4> QED
          BY <2>1, <4>1 DEF BookState
      <3>3. PageOK'
        BY <1>0, <1>1, <3>1, <3>2 DEF Local, PageOK
      <3> QED
        BY <1>0, <1>1, <3>3, SeenElsewhere, StayOnPage
    <2>3. CASE aux \in Reads("owned", {None}, Owned)
      <3>1. view' = [view EXCEPT !.owned = aux.data] \/ view' = view
        BY <2>3 DEF AuxArrives, AuxFails, Reads
      <3>2. view' \in BookState /\ view'.month = view.month
        BY <2>1, <2>3, <3>1 DEF BookState, Reads
      <3>3. PageOK'
        BY <1>0, <1>1, <3>2 DEF Local, PageOK
      <3> QED
        BY <1>0, <1>1, <3>3, SeenElsewhere, StayOnPage
    <2> QED
      BY <1>0, <1>1, <2>2, <2>3 DEF Local, PageOK
  <1>2. CASE page = "bookings"
    <2>1. view \in MineState /\ aux \in Reads("details", {view.modal} \cap Ids, Details)
      BY <1>0, <1>2 DEF Local, PageOK
    <2>2. \/ aux.data # None /\ view' = [view EXCEPT !.detail = aux.data, !.loading = FALSE]
          \/ view' = [view EXCEPT !.loading = FALSE]
      BY <2>1 DEF AuxArrives, AuxFails, Reads
    <2>3. /\ view' \in MineState /\ view'.items = view.items /\ view'.modal = view.modal
          /\ view'.detail = view.detail \/ (view'.detail = aux.data /\ aux.data # None)
      BY <2>1, <2>2 DEF MineState, Reads
    <2>4. PageOK'
      BY <1>0, <1>2, <2>3 DEF Local, PageOK
    <2>5. Seen'
      BY <1>0, <1>2, <2>3 DEF Local, Seen, ListBehind, About, Behind
    <2> QED
      BY <1>0, <2>4, <2>5, StayOnPage
  <1>3. CASE page \notin {"book", "bookings"}
    BY <1>0, <1>3 DEF Local, PageOK, PlaceOK
  <1> QED
    BY <1>1, <1>2, <1>3

LEMMA LandingLocal ==
  ASSUME Local, Landing
  PROVE  Local'
  <1>0. page = "landing" /\ UNCHANGED <<deskVars, act, lost, page, who, from, aux>>
    BY DEF Landing, TypeText, PickCategory, Debounce
  <1>1. view \in ExploreState /\ aux = None
    BY <1>0 DEF Local, PageOK
  <1>2. SUFFICES view' \in ExploreState /\ (load' = None \/ load' \in Reads("search", {view'.query}, {view'.query}))
    <2>1. PageOK'
      BY <1>0, <1>1, <1>2 DEF PageOK
    <2> QED
      BY <1>0, <2>1, SeenElsewhere, StayOnPage
  <1>3. ASSUME NEW q \in Queries \cup {None}, TypeText(q)
        PROVE  view' \in ExploreState /\ (load' = None \/ load' \in Reads("search", {view'.query}, {view'.query}))
    <2>1. view' \in ExploreState /\ view'.query = view.query
      BY <1>1, <1>3 DEF TypeText, ExploreState
    <2> QED
      BY <1>0, <1>3, <2>1 DEF TypeText, Local, PageOK
  <1>4. ASSUME NEW v \in ExploreState, Search(v)
        PROVE  view' \in ExploreState /\ (load' = None \/ load' \in Reads("search", {view'.query}, {view'.query}))
    <2>1. view' \in ExploreState /\ view'.query = v.query
      BY <1>4 DEF Search, ExploreState
    <2> QED
      BY <1>4, <2>1 DEF Search, Effect, Reads
  <1>5. view.query \in Query /\ view.typed \in Queries \cup {None}
    BY <1>1 DEF ExploreState
  <1>6. ASSUME Debounce
        PROVE  view' \in ExploreState /\ (load' = None \/ load' \in Reads("search", {view'.query}, {view'.query}))
    <2>1. PICK q : q = [view.query EXCEPT !.text = view.typed]
      OBVIOUS
    <2>2. q \in Query
      BY <1>5, <2>1 DEF Query
    <2>3. PICK v : v = [view EXCEPT !.query = q]
      OBVIOUS
    <2>4. v \in ExploreState
      BY <1>1, <2>2, <2>3 DEF ExploreState
    <2> QED
      BY <1>4, <1>6, <2>1, <2>3, <2>4 DEF Debounce
  <1>7. ASSUME NEW c \in Queries \cup {None}, PickCategory(c)
        PROVE  view' \in ExploreState /\ (load' = None \/ load' \in Reads("search", {view'.query}, {view'.query}))
    <2>1. PICK q : q = [view.query EXCEPT !.category = c]
      OBVIOUS
    <2>2. q \in Query
      BY <1>5, <2>1 DEF Query
    <2>3. PICK v : v = [view EXCEPT !.query = q]
      OBVIOUS
    <2>4. v \in ExploreState
      BY <1>1, <2>2, <2>3 DEF ExploreState
    <2> QED
      BY <1>4, <1>7, <2>1, <2>3, <2>4 DEF PickCategory
  <1> QED
    BY <1>3, <1>6, <1>7 DEF Landing

\* A step of the page that starts or ends its function.
LEMMA StayAndAct ==
  ASSUME Local, DeskShape', UNCHANGED <<had, lost, page, who, from>>, PageOK', Seen', ActOK', ActFits'
  PROVE  Local'
  <1>1. Advances
    BY StandingStill
  <1>2. LostFit'
    BY <1>1, LostKept
  <1>3. PlaceOK'
    BY DEF Local, PlaceOK
  <1> QED
    BY <1>2, <1>3 DEF Local

LEMMA DeskShapeStays ==
  ASSUME Local, UNCHANGED <<deskVars, lost>>
  PROVE  DeskShape' /\ UNCHANGED had
  BY DataStill DEF Local, DeskShape, deskVars

\* A request as it is sent.
LEMMA AskOK ==
  ASSUME NEW op \in {"open", "confirm", "release", "cancel"}, NEW on, NEW token \in Tokens \cup {None},
         Ask(op, on, token),
         op # "cancel" => on \in Slots,
         op = "cancel" => on \in Ids /\ had'[on] # {}
  PROVE  /\ ActFits' /\ act'.op = op /\ act'.on = on /\ act'.token = token
         /\ act'.pc = "sent" /\ act'.got = None /\ act' # None
  <1>1. PICK r : r = [op |-> op, on |-> on, token |-> token, pc |-> "sent", got |-> None]
    OBVIOUS
  <1>2. r \in Request
    BY <1>1 DEF Request
  <1>3. Fits(r)'
    BY <1>1 DEF Fits, Unanswered
  <1>4. act' = r
    BY <1>1 DEF Ask
  <1> QED
    BY <1>1, <1>2, <1>3, <1>4, NoneIsNoRecord DEF ActFits, Fits, Behind, Unanswered

LEMMA CalendarLocal ==
  ASSUME Local, (\E m \in Months : TurnMonth(m)) \/ SelectDay \/ (\E s \in Slots : SelectSlot(s))
  PROVE  Local'
  <1>0. page = "book" /\ view \in BookState /\ UNCHANGED <<deskVars, act, lost, page, who, from, aux>>
    BY DEF TurnMonth, SelectDay, SelectSlot, OnCalendar, Local, PageOK
  <1>1. SUFFICES view' \in BookState /\ (load' = None \/ load' \in Reads("days", {view'.month}, Days))
    <2>1. PageOK'
      BY <1>0, <1>1 DEF Local, PageOK
    <2> QED
      BY <1>0, <2>1, SeenElsewhere, StayOnPage
  <1>2. ASSUME NEW m \in Months, TurnMonth(m)
        PROVE  view' \in BookState /\ (load' = None \/ load' \in Reads("days", {view'.month}, Days))
    <2>1. PICK v : v = [view EXCEPT !.month = m]
      OBVIOUS
    <2>2. v \in BookState /\ v.month = m /\ view' = Settled(v)
      BY <1>0, <1>2, <2>1 DEF TurnMonth, BookState
    <2>3. view' \in BookState /\ view'.month = m
      BY <2>2, SettledOK
    <2> QED
      BY <1>2, <2>3 DEF TurnMonth, Effect, Reads
  <1>3. ASSUME SelectDay \/ \E s \in Slots : SelectSlot(s)
        PROVE  view' \in BookState /\ (load' = None \/ load' \in Reads("days", {view'.month}, Days))
    <2>1. PICK x \in Slots \cup {None} : view' = [view EXCEPT !.sel = x]
      BY <1>3 DEF SelectDay, SelectSlot
    <2>2. view' \in BookState /\ view'.month = view.month
      BY <1>0, <2>1 DEF BookState
    <2>3. load' = load
      BY <1>3 DEF SelectDay, SelectSlot
    <2> QED
      BY <1>0, <2>2, <2>3 DEF Local, PageOK
  <1> QED
    BY <1>2, <1>3

LEMMA ModalLocal ==
  ASSUME Local, Confirm \/ CancelModal \/ (OpenBook /\ who # "guest")
  PROVE  Local'
  <1>0. /\ page = "book" /\ view \in BookState
        /\ UNCHANGED <<deskVars, lost, page, who, from, load, aux>> /\ UNCHANGED had
    BY DEF Confirm, CancelModal, OpenBook, OnCalendar, Local, PageOK, deskVars
  <1>1. /\ view' \in BookState /\ view'.month = view.month
        /\ ActFits' /\ act' # None /\ act'.op \in {"open", "confirm", "release"} /\ act'.on \in Slots
    <2>1. ASSUME Confirm \/ CancelModal
          PROVE  /\ view' \in BookState /\ view'.month = view.month
                 /\ ActFits' /\ act' # None /\ act'.op \in {"open", "confirm", "release"} /\ act'.on \in Slots
      <3>1. view.modal \in Slots /\ view.token \in Tokens /\ view' = [view EXCEPT !.busy = TRUE]
        BY <1>0, <2>1 DEF Confirm, CancelModal, ModalShown, BookState
      <3>2. Ask("confirm", view.modal, view.token) \/ Ask("release", view.modal, view.token)
        BY <2>1 DEF Confirm, CancelModal
      <3>3. view' \in BookState /\ view'.month = view.month
        BY <1>0, <3>1 DEF BookState
      <3> QED
        BY <3>1, <3>2, <3>3, AskOK
    <2>2. ASSUME OpenBook, who # "guest"
          PROVE  /\ view' \in BookState /\ view'.month = view.month
                 /\ ActFits' /\ act' # None /\ act'.op \in {"open", "confirm", "release"} /\ act'.on \in Slots
      <3>1. /\ view.sel \in Slots /\ Ask("open", view.sel, None)
            /\ view' = [view EXCEPT !.modal = view.sel, !.token = None, !.busy = TRUE]
        BY <1>0, <2>2 DEF OpenBook, BookState
      <3>2. view' \in BookState /\ view'.month = view.month
        BY <1>0, <3>1 DEF BookState
      <3> QED
        BY <3>1, <3>2, AskOK
    <2> QED
      BY <2>1, <2>2
  <1>2. PageOK' /\ ActOK'
    BY <1>0, <1>1 DEF Local, PageOK, ActOK
  <1> QED
    BY <1>0, <1>1, <1>2, SeenElsewhere, DeskShapeStays, StayAndAct

LEMMA BookingsLocal ==
  ASSUME Local, (\E b \in Ids : OpenDetail(b)) \/ CloseDetail
  PROVE  Local'
  <1>0. /\ page = "bookings" /\ view \in MineState
        /\ UNCHANGED <<deskVars, act, lost, page, who, from>> /\ UNCHANGED <<load, had>>
    BY DEF OpenDetail, CloseDetail, Local, PageOK, deskVars
  <1>1. ASSUME NEW b \in Ids, OpenDetail(b) PROVE Local'
    <2>1. view' = [view EXCEPT !.modal = b, !.detail = None, !.loading = TRUE] /\ aux' = Effect("details", b)
          /\ view.items # None
      BY <1>1 DEF OpenDetail
    <2>2. /\ view' \in MineState /\ view'.modal = b /\ view'.detail = None /\ view'.items = view.items
          /\ aux' \in Reads("details", {view'.modal} \cap Ids, Details) /\ aux'.data = None
      BY <1>0, <2>1 DEF MineState, Effect, Reads
    <2>3. PageOK'
      BY <1>0, <2>2 DEF Local, PageOK
    <2>4. Seen'
      BY <1>0, <2>1, <2>2 DEF Local, Seen, ListBehind, About, Behind
    <2> QED
      BY <1>0, <2>3, <2>4, StayOnPage
  <1>2. ASSUME CloseDetail PROVE Local'
    <2>1. view' = [view EXCEPT !.modal = None, !.detail = None, !.loading = FALSE] /\ aux' = None
      BY <1>2 DEF CloseDetail
    <2>2. view' \in MineState /\ view'.modal = None /\ view'.detail = None /\ view'.items = view.items
      BY <1>0, <2>1 DEF MineState
    <2>3. PageOK'
      BY <1>0, <2>1, <2>2 DEF Local, PageOK
    <2>4. Seen'
      BY <1>0, <2>1, <2>2 DEF Local, Seen, ListBehind, About, Behind
    <2> QED
      BY <1>0, <2>3, <2>4, StayOnPage
  <1> QED
    BY <1>1, <1>2

LEMMA CancelBookingLocal ==
  ASSUME Local, CancelBooking
  PROVE  Local'
  <1>0. /\ view.detail # None /\ view.detail.can /\ page \in {"bookings", "detail"}
        /\ UNCHANGED <<deskVars, lost, page, who, from, load, aux>> /\ UNCHANGED had
        /\ view' = [view EXCEPT !.busy = TRUE]
    BY DEF CancelBooking, deskVars
  <1>1. CASE page = "bookings"
    <2>1. view \in MineState
      BY <1>1 DEF Local, PageOK
    <2>2. view.modal \in Ids /\ had[view.modal] # {}
      BY <1>0, <1>1, <2>1 DEF Local, Seen, Behind, MineState, Details
    <2>3. Ask("cancel", view.modal, None)
      BY <1>1 DEF CancelBooking
    <2>4. ActFits' /\ act' # None /\ act'.op = "cancel" /\ act'.on = view.modal
      BY <1>0, <2>2, <2>3, AskOK
    <2>5. view' \in MineState /\ view'.modal = view.modal /\ view'.detail = view.detail /\ view'.items = view.items
      BY <1>0, <2>1 DEF MineState
    <2>6. PageOK' /\ ActOK'
      BY <1>0, <1>1, <2>2, <2>4, <2>5 DEF Local, PageOK, ActOK
    <2>7. Seen'
      BY <1>0, <1>1, <2>2, <2>5, DeskConstantsOK DEF Local, Seen, ListBehind, About, Behind
    <2> QED
      BY <1>0, <2>4, <2>6, <2>7, DeskShapeStays, StayAndAct
  <1>2. CASE page = "detail"
    <2>1. view \in DetailState
      BY <1>2 DEF Local, PageOK
    <2>2. view.id \in Ids /\ had[view.id] # {}
      BY <1>0, <1>2, <2>1 DEF Local, Seen, About, Behind, DetailState
    <2>3. Ask("cancel", view.id, None)
      BY <1>2 DEF CancelBooking
    <2>4. ActFits' /\ act' # None /\ act'.op = "cancel" /\ act'.on = view.id
      BY <1>0, <2>2, <2>3, AskOK
    <2>5. view' \in DetailState /\ view'.id = view.id /\ view'.detail = view.detail
      BY <1>0, <2>1 DEF DetailState
    <2>6. PageOK' /\ ActOK'
      BY <1>0, <1>2, <2>2, <2>4, <2>5 DEF Local, PageOK, ActOK
    <2>7. Seen'
      BY <1>0, <1>2, <2>4, <2>5 DEF Local, Seen, About, Behind
    <2> QED
      BY <1>0, <2>4, <2>6, <2>7, DeskShapeStays, StayAndAct
  <1> QED
    BY <1>0, <1>1, <1>2

----------------------------------------------------------------------------
(* Answers to what the user has clicked *)

LEMMA ForsakeOK ==
  ASSUME Local, NEW ks, Forsake(ks)
  PROVE  adrift' \subseteq Tokens
  BY DEF Forsake, Local, DeskShape, DataOK

LEMMA AbandonOK ==
  ASSUME Local, Abandon, UNCHANGED had
  PROVE  lost' \subseteq Request /\ LostFit'
  <1>1. Advances
    BY StandingStill
  <1>2. \A q \in lost' : q \in lost \/ (act # None /\ q = act /\ Unanswered(act))
    BY DEF Abandon
  <1>3. PICK a : a = act
    OBVIOUS
  <1>4. act # None /\ Unanswered(act) => a \in Request /\ Fits(a)' /\ Unanswered(a)
    BY <1>1, <1>3, FitsKept DEF Local, ActFits
  <1>5. \A q \in lost' : q \in lost \/ (q \in Request /\ Fits(q)' /\ Unanswered(q))
    BY <1>2, <1>3, <1>4
  <1> QED
    BY <1>1, <1>5, LostKept

\* The function of the page ends.
LEMMA ActEnds ==
  ASSUME Local, act' = None, UNCHANGED <<slot, hold, booking, work, had, page, who, from>>,
         UNCHANGED lost \/ Abandon,
         adrift' \subseteq Tokens, PageOK', Seen'
  PROVE  Local'
  <1>1. Abandon
    BY DEF Abandon
  <1>2. lost' \subseteq Request /\ LostFit'
    BY <1>1, AbandonOK
  <1>3. DeskShape'
    BY <1>2 DEF Local, DeskShape, DataOK
  <1>4. ActFits' /\ ActOK' /\ PlaceOK'
    BY DEF ActFits, ActOK, PlaceOK, Local
  <1> QED
    BY <1>2, <1>3, <1>4 DEF Local

LEMMA BookActArrives ==
  ASSUME Local, ActArrives, page = "book"
  PROVE  PageOK' /\ Seen'
  <1>1. /\ view \in BookState /\ act \in Request /\ act.op \in {"open", "confirm", "release"}
        /\ act.op = "open" => act.got \in Tokens
    BY DEF Local, PageOK, ActOK, ActFits, Fits, ActArrives
  <1>2. view' \in BookState /\ view'.month = view.month
    <2>1. CASE act.op = "open"
      <3>1. view' = [view EXCEPT !.token = act.got, !.busy = FALSE]
        BY <2>1 DEF ActArrives, Opened
      <3> QED
        BY <1>1, <2>1, <3>1 DEF BookState
    <2>2. CASE act.op = "confirm"
      <3>1. view' = [view EXCEPT !.modal = None, !.token = None, !.sel = None]
        BY <2>2 DEF ActArrives, Confirmed
      <3> QED
        BY <1>1, <3>1 DEF BookState
    <2>3. CASE act.op = "release"
      <3>1. view' = [view EXCEPT !.modal = None, !.token = None, !.busy = FALSE]
        BY <2>3 DEF ActArrives, Released
      <3> QED
        BY <1>1, <3>1 DEF BookState
    <2> QED
      BY <1>1, <2>1, <2>2, <2>3
  <1>3. Effect("days", view.month) \in Reads("days", Months, Days)
    BY <1>1 DEF Effect, Reads, BookState
  <1>4. page' = page /\ load' = load /\ aux' \in {Effect("days", view.month), aux}
    BY DEF ActArrives
  <1> QED
    BY <1>2, <1>3, <1>4, SeenElsewhere DEF Local, PageOK

LEMMA MineActArrives ==
  ASSUME Local, ActArrives, page \in {"bookings", "detail"}
  PROVE  PageOK' /\ Seen'
  <1>1. /\ act # None /\ act.op = "cancel" /\ act.pc = "ok" /\ act.on \in Ids
        /\ act.got \in Statuses /\ Behind(act.got, act.on)
    BY DEF Local, ActOK, ActFits, Fits, ActArrives
  <1>2. page' = page /\ load' = load /\ aux' = aux /\ had' = had /\ act' = None
    BY <1>1 DEF ActArrives
  <1>3. PICK b \in Ids, got \in Statuses : b = act.on /\ got = act.got
    BY <1>1
  <1>4. PICK d : d = [id |-> b, status |-> got, can |-> FALSE]
    OBVIOUS
  <1>5. d \in Details /\ About(d, b) /\ About(d, b)' /\ ~d.can
    BY <1>1, <1>2, <1>3, <1>4 DEF Details, About, Behind
  <1>6. PICK v : v = [view EXCEPT !.detail = d, !.busy = FALSE]
    OBVIOUS
  <1>7. view' = Cancelled
    BY <1>1 DEF ActArrives
  <1>8. CASE page = "detail"
    <2>1. view' = v
      BY <1>1, <1>3, <1>4, <1>6, <1>7, <1>8 DEF Cancelled
    <2>2. view \in DetailState /\ act.on = view.id
      BY <1>1, <1>8 DEF Local, PageOK, Seen
    <2>3. view' \in DetailState /\ view'.id = view.id /\ view'.detail = d
      BY <1>5, <1>6, <2>1, <2>2 DEF DetailState
    <2>4. PageOK'
      BY <1>2, <1>8, <2>3 DEF Local, PageOK
    <2>5. Seen'
      BY <1>2, <1>3, <1>5, <1>8, <2>2, <2>3 DEF Local, Seen, About, Behind
    <2> QED
      BY <2>4, <2>5
  <1>9. CASE page = "bookings"
    <2>1. view \in MineState /\ view.items \in Items
      BY <1>1, <1>9 DEF Local, PageOK, Seen, MineState
    <2>2. PICK items : items = [x \in DOMAIN view.items |-> IF x = b THEN got ELSE view.items[x]]
      OBVIOUS
    <2>3. v \in MineState /\ v.items = view.items /\ v.modal = view.modal /\ v.detail = d
      BY <1>5, <1>6, <2>1 DEF MineState
    <2>4. view' = [v EXCEPT !.items = items]
      BY <1>1, <1>3, <1>4, <1>6, <1>7, <1>9, <2>2, <2>3 DEF Cancelled
    <2>5. items \in Items
      BY <2>1, <2>2 DEF Items
    <2>6. view' \in MineState /\ view'.items = items /\ view'.modal = view.modal /\ view'.detail = d
      BY <2>3, <2>4, <2>5 DEF MineState
    <2>7. ListBehind(items)'
      <3>1. ListBehind(view.items)
        BY <1>1, <1>9 DEF Local, Seen
      <3> QED
        BY <1>1, <1>2, <1>3, <2>2, <3>1 DEF ListBehind, Behind
    <2>8. items # None
      BY <2>5, NoneIsNoAnswer
    <2>9. PageOK'
      BY <1>2, <1>9, <2>6 DEF Local, PageOK
    <2>10. Seen'
      BY <1>2, <1>5, <1>9, <2>6, <2>7, <2>8 DEF Local, Seen, ListBehind, About, Behind
    <2> QED
      BY <2>9, <2>10
  <1> QED
    BY <1>8, <1>9

LEMMA ActArrivesLocal ==
  ASSUME Local, ActArrives
  PROVE  Local'
  <1>1. PageOK' /\ Seen'
    BY BookActArrives, MineActArrives DEF Local, ActOK, ActArrives
  <1>2. adrift' \subseteq Tokens
    BY ForsakeOK DEF ActArrives
  <1> QED
    BY <1>1, <1>2, ActEnds DEF ActArrives

LEMMA FailedPage ==
  ASSUME Local, act # None, Failed, UNCHANGED <<had, page, load, aux>>, act' = None
  PROVE  PageOK' /\ Seen'
  <1>1. CASE page = "book"
    <2>1. view \in BookState
      BY <1>1 DEF Local, PageOK
    <2>2. view' = [view EXCEPT !.modal = None, !.busy = FALSE] \/ view' = [view EXCEPT !.busy = FALSE]
      BY DEF Failed, NotOpened, Complained
    <2>3. view' \in BookState /\ view'.month = view.month
      BY <2>1, <2>2 DEF BookState
    <2> QED
      BY <1>1, <2>3, SeenElsewhere DEF Local, PageOK
  <1>2. CASE page = "bookings"
    <2>1. view \in MineState /\ act.op = "cancel"
      BY <1>2 DEF Local, PageOK, ActOK
    <2>2. view' = [view EXCEPT !.busy = FALSE]
      BY <2>1 DEF Failed, Complained
    <2>3. view' \in MineState /\ view'.items = view.items /\ view'.modal = view.modal /\ view'.detail = view.detail
      BY <2>1, <2>2 DEF MineState
    <2>4. PageOK'
      BY <1>2, <2>3 DEF Local, PageOK
    <2>5. Seen'
      BY <1>2, <2>3 DEF Local, Seen, ListBehind, About, Behind
    <2> QED
      BY <2>4, <2>5
  <1>3. CASE page = "detail"
    <2>1. view \in DetailState /\ act.op = "cancel"
      BY <1>3 DEF Local, PageOK, ActOK
    <2>2. view' = [view EXCEPT !.busy = FALSE]
      BY <2>1 DEF Failed, Complained
    <2>3. view' \in DetailState /\ view'.id = view.id /\ view'.detail = view.detail
      BY <2>1, <2>2 DEF DetailState
    <2>4. PageOK'
      BY <1>3, <2>3 DEF Local, PageOK
    <2>5. Seen'
      BY <1>3, <2>3 DEF Local, Seen, About, Behind
    <2> QED
      BY <2>4, <2>5
  <1> QED
    BY <1>1, <1>2, <1>3 DEF Local, ActOK

LEMMA ActFailsLocal ==
  ASSUME Local, ActRefused \/ ActFails
  PROVE  Local'
  <1>1. /\ act # None /\ Failed /\ act' = None
        /\ UNCHANGED <<slot, hold, booking, work, had, page, who, from, load, aux>>
        /\ UNCHANGED lost \/ Abandon
    BY DEF ActRefused, ActFails, deskVars
  <1>2. adrift' \subseteq Tokens
    BY <1>1 DEF ActRefused, ActFails, deskVars, Local, DeskShape, DataOK
  <1>3. PageOK' /\ Seen'
    BY <1>1, FailedPage
  <1> QED
    BY <1>1, <1>2, <1>3, ActEnds

----------------------------------------------------------------------------
(* Navigation *)

\* The pages as they are mounted.
Opens(p, v, ld) ==
  \/ p = "landing" /\ v = Explore /\ ld = Effect("search", Explore.query)
  \/ p = "book" /\ \E m \in Months : v = Book(m) /\ ld = Effect("days", m)
  \/ p = "bookings" /\ v = Mine /\ ld = Effect("items", None)
  \/ p = "detail" /\ \E b \in Ids : v = Detail(b) /\ ld = Effect("details", b)
  \/ p \in {"login", "console"} /\ v = None /\ ld = None

LEMMA OpensOK ==
  ASSUME NEW p, NEW v, NEW ld, Opens(p, v, ld), Mount(p, v, ld)
  PROVE  PageOK' /\ Seen'
  <1>1. page' = p /\ view' = v /\ load' = ld /\ aux' = None /\ act' = None
    BY DEF Mount
  <1>2. CASE p = "landing" /\ v = Explore /\ ld = Effect("search", Explore.query)
    <2>1. v \in ExploreState /\ ld \in Reads("search", {v.query}, {v.query})
      BY <1>2 DEF Explore, ExploreState, Query, Effect, Reads
    <2> QED
      BY <1>1, <1>2, <2>1, SeenElsewhere DEF PageOK
  <1>3. ASSUME p = "book", NEW m \in Months, v = Book(m), ld = Effect("days", m) PROVE PageOK' /\ Seen'
    <2>1. Nothing \in Days
      <3>1. Nothing \in [{} -> {"OPEN", "BLOCKED", "BOOKED"}]
        BY DEF Nothing
      <3> QED
        BY <3>1 DEF Days
    <2>2. v \in BookState /\ v.month = m
      BY <1>3, <2>1 DEF Book, BookState
    <2>3. ld \in Reads("days", {v.month}, Days)
      BY <1>3, <2>2 DEF Effect, Reads
    <2> QED
      BY <1>1, <1>3, <2>2, <2>3, SeenElsewhere DEF PageOK
  <1>4. CASE p = "bookings" /\ v = Mine /\ ld = Effect("items", None)
    <2>1. v \in MineState /\ v.items = None /\ v.modal = None /\ v.detail = None
      BY <1>4 DEF Mine, MineState
    <2>2. ld \in Reads("items", {None}, Items) /\ ld.data = None
      BY <1>4 DEF Effect, Reads
    <2>3. PageOK'
      BY <1>1, <1>4, <2>1, <2>2 DEF PageOK
    <2> QED
      BY <1>1, <1>4, <2>1, <2>2, <2>3 DEF Seen
  <1>5. ASSUME p = "detail", NEW b \in Ids, v = Detail(b), ld = Effect("details", b) PROVE PageOK' /\ Seen'
    <2>1. v \in DetailState /\ v.id = b /\ v.detail = None
      BY <1>5 DEF Detail, DetailState
    <2>2. ld \in Reads("details", {b}, Details) /\ ld.data = None
      BY <1>5 DEF Effect, Reads
    <2>3. PageOK'
      BY <1>1, <1>5, <2>1, <2>2 DEF PageOK
    <2> QED
      BY <1>1, <1>5, <2>1, <2>2, <2>3 DEF Seen
  <1>6. CASE p \in {"login", "console"} /\ v = None /\ ld = None
    BY <1>1, <1>6, SeenElsewhere DEF PageOK
  <1> QED
    BY <1>2, <1>3, <1>4, <1>5, <1>6 DEF Opens

LEMMA MountLocal ==
  ASSUME Local, NEW p, NEW v, NEW ld, Opens(p, v, ld), Mount(p, v, ld), PlaceOK'
  PROVE  Local'
  <1>1. act' = None /\ Abandon /\ Forsake(Known) /\ UNCHANGED <<slot, hold, booking, work, had>>
    BY DEF Mount
  <1>2. lost' \subseteq Request /\ LostFit'
    BY <1>1, AbandonOK
  <1>3. DeskShape'
    BY <1>1, <1>2, ForsakeOK DEF Local, DeskShape, DataOK
  <1>4. ActFits' /\ ActOK'
    BY <1>1 DEF ActFits, ActOK
  <1> QED
    BY <1>2, <1>3, <1>4, OpensOK DEF Local

\* How a page is mounted: by a link, by the guard, or after signing in.
Navigation ==
  \/ \E p \in {q[2] : q \in Links} : Follow(p)
  \/ \E r \in Roles : SignIn(r)
  \/ OpenBook /\ who = "guest"

LEMMA GoesSomewhere ==
  ASSUME Local, Navigation
  PROVE  PlaceOK' /\ \E p, v, ld : Opens(p, v, ld) /\ Mount(p, v, ld)
  <1> DEFINE Arrives == PlaceOK' /\ \E p, v, ld : Opens(p, v, ld) /\ Mount(p, v, ld)
  <1>1. ASSUME NEW p, NEW v, NEW ld, Opens(p, v, ld), Mount(p, v, ld), from' = None,
               who' \in {"guest"} \cup Roles
        PROVE  Arrives
    <2>1. p \in {"elsewhere", "console", "landing", "login", "book", "bookings", "detail"} /\ page' = p
      BY <1>1 DEF Opens, Mount
    <2> QED
      BY <1>1, <2>1 DEF PlaceOK
  <1>2. ASSUME NEW f, OpenLogin(f), who' \in {"guest"} \cup Roles,
               f # None => /\ f \in [page: {"book", "bookings"}, month: Months \cup {None}]
                           /\ f.page = "book" => f.month \in Months
        PROVE  Arrives
    <2>1. Opens("login", None, None) /\ Mount("login", None, None) /\ from' = f
      BY <1>2 DEF Opens, OpenLogin
    <2>2. page' = "login"
      BY <2>1 DEF Mount
    <2> QED
      BY <1>2, <2>1, <2>2 DEF PlaceOK
  <1>3. who \in {"guest"} \cup Roles
    BY DEF Local, PlaceOK
  <1>4. ASSUME NEW p, NEW v, NEW kind, NEW of, OpenGuarded(p, v, kind, of), UNCHANGED who,
               Opens(p, v, Effect(kind, of))
        PROVE  Arrives
    <2>1. CASE who = "guest"
      <3>1. PICK f : f = [page |-> "bookings", month |-> None]
        OBVIOUS
      <3> QED
        BY <1>2, <1>3, <1>4, <2>1, <3>1 DEF OpenGuarded
    <2>2. CASE who # "guest"
      BY <1>1, <1>3, <1>4, <2>2 DEF OpenGuarded
    <2> QED
      BY <2>1, <2>2
  <1>5. ASSUME NEW p, Follow(p) PROVE Arrives
    <2>1. UNCHANGED who
      BY <1>5 DEF Follow
    <2>2. CASE p = "landing" /\ Mount(p, Explore, Effect("search", Explore.query)) /\ from' = None
      BY <1>1, <1>3, <2>1, <2>2 DEF Opens
    <2>3. CASE p = "book" /\ OpenBookPage(1)
      BY <1>1, <1>3, <2>1, <2>3, MonthsOK DEF Opens, OpenBookPage
    <2>4. CASE p = "bookings" /\ OpenBookings
      BY <1>4, <2>1, <2>4 DEF Opens, OpenBookings
    <2>5. ASSUME p = "detail", NEW b \in Ids, OpenDetailPage(b) PROVE Arrives
      BY <1>4, <2>1, <2>5 DEF Opens, OpenDetailPage
    <2>6. CASE p = "login" /\ OpenLogin(None)
      BY <1>2, <1>3, <2>1, <2>6
    <2> QED
      BY <1>5, <2>2, <2>3, <2>4, <2>5, <2>6 DEF Follow
  <1>6. ASSUME NEW r \in Roles, SignIn(r) PROVE Arrives
    <2>1. who' \in {"guest"} \cup Roles /\ from' = None
      BY <1>6 DEF SignIn
    <2>2. CASE Mount("console", None, None)
      BY <1>1, <2>1, <2>2 DEF Opens
    <2>3. CASE /\ from # None /\ from.page = "book"
               /\ Mount("book", Book(from.month), Effect("days", from.month))
      BY <1>1, <2>1, <2>3 DEF Opens, Local, PlaceOK
    <2>4. CASE Mount("bookings", Mine, Effect("items", None))
      BY <1>1, <2>1, <2>4 DEF Opens
    <2>5. \/ Mount("console", None, None) \/ Mount("bookings", Mine, Effect("items", None))
          \/ (from # None /\ from.page = "book" /\ Mount("book", Book(from.month), Effect("days", from.month)))
      BY <1>6 DEF SignIn
    <2> QED
      BY <2>2, <2>3, <2>4, <2>5
  <1>7. ASSUME OpenBook, who = "guest" PROVE Arrives
    <2>1. UNCHANGED who /\ OpenLogin([page |-> "book", month |-> view.month]) /\ page = "book"
      BY <1>7 DEF OpenBook, OnCalendar
    <2>2. view.month \in Months
      BY <2>1 DEF Local, PageOK, BookState
    <2>3. PICK f : f = [page |-> "book", month |-> view.month]
      OBVIOUS
    <2> QED
      BY <1>2, <1>3, <2>1, <2>2, <2>3
  <1> QED
    BY <1>5, <1>6, <1>7 DEF Navigation

LEMMA NavigationLocal ==
  ASSUME Local, Navigation
  PROVE  Local'
  BY GoesSomewhere, MountLocal

----------------------------------------------------------------------------
(* The layer's invariant *)

LEMMA InitLocal == Init => Local
  <1> SUFFICES ASSUME Init PROVE Local
    OBVIOUS
  <1>1. DeskShape
    BY DEF Init, DeskInit, DeskShape, DataOK
  <1>2. LostFit /\ ActFits /\ PlaceOK /\ PageOK /\ ActOK /\ Seen
    BY DEF Init, DeskInit, LostFit, ActFits, PlaceOK, PageOK, ActOK, Seen
  <1> QED
    BY <1>1, <1>2 DEF Local

\* The steps of the tab that stay on the page.
LEMMA StepKinds ==
  ASSUME Step
  PROVE  \/ Server \/ ServeLoad \/ ServeAux \/ LoadArrives \/ LoadFails \/ AuxArrives \/ AuxFails
         \/ ActArrives \/ ActRefused \/ ActFails \/ Landing
         \/ (\E m \in Months : TurnMonth(m)) \/ SelectDay \/ (\E s \in Slots : SelectSlot(s))
         \/ Confirm \/ CancelModal \/ (OpenBook /\ who # "guest")
         \/ (\E b \in Ids : OpenDetail(b)) \/ CloseDetail \/ CancelBooking
         \/ Navigation
  BY DEF Step, Effects, Booking, Bookings, Navigation

LEMMA NextLocal == Local /\ [Next]_vars => Local'
  <1> SUFFICES ASSUME Local, [Next]_vars PROVE Local'
    OBVIOUS
  <1>1. CASE UNCHANGED vars
    BY <1>1, DeskStill, PageKept DEF vars, client, deskVars
  <1>2. CASE Step
    BY <1>2, StepKinds, ServerLocal, ServeLoadLocal, ServeAuxLocal, LoadArrivesLocal, LoadFailsLocal,
       AuxEndsLocal, ActArrivesLocal, ActFailsLocal, LandingLocal, CalendarLocal, ModalLocal,
       BookingsLocal, CancelBookingLocal, NavigationLocal
  <1> QED
    BY <1>1, <1>2 DEF Next

\* Requests, answers and pages keep their shape, and what the pages of the user's
\* bookings know of a booking is what it is or was, in every execution of the tab
\* against the booking API.
THEOREM LocalInvariant == Spec => []Local
  BY InitLocal, NextLocal, PTL DEF Spec

\* MyBookingsPage offers to cancel only the booking of its modal, whichever
\* cancellation or details were answered before; MyBookingDetailPage shows the
\* booking of its address.
THEOREM CancelNamesTheBooking == Spec => []CancelNamesShownBooking
  <1>1. Local => CancelNamesShownBooking
    BY DEF Local, Seen, About, CancelNamesShownBooking
  <1> QED
    BY <1>1, LocalInvariant, PTL

\* The list and the details of a booking never run ahead of the server: the status
\* they show is the booking's, or an earlier one.
THEOREM PagesNeverAhead == Spec => []NeverAhead
  <1>1. Local => NeverAhead
    BY DEF Local, Seen, ListBehind, About, NeverAhead
  <1> QED
    BY <1>1, LocalInvariant, PTL

----------------------------------------------------------------------------
(* Busy flags *)

BusyPages == {"book", "bookings", "detail"}
ReadsDays == aux # None /\ aux.kind = "days"

LEMMA EffectFacts ==
  ASSUME NEW m \in Months
  PROVE  Effect("days", m) # None /\ Effect("days", m).kind = "days"
  BY NoneIsNoAnswer DEF Effect, Readings

LEMMA BusyTypes ==
  ASSUME PageOK, page \in BusyPages
  PROVE  view.busy \in BOOLEAN
  BY DEF PageOK, BusyPages, BookState, MineState, DetailState

LEMMA GuardKept ==
  ASSUME Local, Guarded, UNCHANGED <<page, who>>, act = None <=> act' = None,
         page \in BusyPages => view'.busy = view.busy,
         page = "book" => ReadsDays' = ReadsDays,
         page = "book" /\ who = "owner" =>
           /\ view'.sel = None /\ view'.modal = view.modal
           /\ aux' # None => aux'.kind = "owned"
  PROVE  Guarded'
  BY DEF Guarded, BusyMeansWorking, ReadsDays, BusyPages

\* The running function starts: it is asked for by the user of a page that is not busy.
LEMMA GuardTaken ==
  ASSUME Local, Guarded, UNCHANGED <<page, who, aux>>, page \in BusyPages, ~view.busy,
         view'.busy = TRUE, act' # None, page = "book" => who # "owner"
  PROVE  Guarded'
  <1>1. page = "book" => ~ReadsDays
    BY BusyTypes DEF Local, Guarded, BusyMeansWorking, ReadsDays, BusyPages
  <1> QED
    BY <1>1 DEF Guarded, BusyMeansWorking, ReadsDays, BusyPages

\* It ends.
LEMMA GuardFreed ==
  ASSUME Local, Guarded, UNCHANGED <<page, who, aux>>, page \in BusyPages, act # None,
         view'.busy = FALSE, act' = None
  PROVE  Guarded'
  BY DEF Guarded, BusyMeansWorking, ReadsDays, BusyPages

LEMMA ServeAuxBook ==
  ASSUME Local, ServeAux, page = "book"
  PROVE  aux'.kind = aux.kind /\ ReadsDays' = ReadsDays
  <1>1. PICK d \in Answers(aux) : aux' = [aux EXCEPT !.data = d]
    BY DEF ServeAux
  <1>2. aux # None /\ aux \in Reads("days", Months, Days) \cup Reads("owned", {None}, Owned)
    BY DEF ServeAux, Local, PageOK
  <1>3. aux'.kind = aux.kind
    BY <1>1, <1>2 DEF Reads
  <1>4. ASSUME aux.kind = "days" PROVE aux' # None
    <2>1. aux \in Reads("days", Months, Days)
      BY <1>2, <1>4 DEF Reads
    <2>2. d \in Days
      <3>1. aux.of \in Months
        BY <2>1 DEF Reads
      <3>2. d \in {days \in {[s \in SlotsIn(aux.of) |-> slot[s]]} : \A s \in DOMAIN days : days[s] # "GONE"}
        BY <1>1, <1>4 DEF Answers
      <3> QED
        BY <3>1, <3>2, DaysAnswer DEF Local, DeskShape
    <2>3. aux' \in Readings
      BY <1>1, <2>1, <2>2 DEF Reads, Readings
    <2> QED
      BY <2>3, NoneIsNoAnswer
  <1> QED
    BY <1>2, <1>3, <1>4 DEF ReadsDays

LEMMA EffectsGuarded ==
  ASSUME Local, Guarded, ServeLoad \/ ServeAux \/ LoadArrives \/ LoadFails \/ AuxArrives \/ AuxFails
  PROVE  Guarded'
  <1>1. UNCHANGED <<page, who, act>>
    BY DEF ServeLoad, ServeAux, LoadArrives, LoadFails, AuxArrives, AuxFails
  <1>2. page \in {"landing", "book", "bookings", "detail"}
    BY DEF ServeLoad, ServeAux, LoadArrives, LoadFails, AuxArrives, AuxFails, Local, PlaceOK, PageOK
  <1>3. CASE page = "landing"
    BY <1>1, <1>3 DEF Guarded, BusyMeansWorking
  <1>4. CASE page \in BusyPages /\ (ServeLoad \/ LoadFails)
    BY <1>1, <1>4, GuardKept DEF ServeLoad, LoadFails, Guarded, BusyPages, ReadsDays
  <1>5. CASE page \in BusyPages /\ ServeAux
    BY <1>1, <1>5, ServeAuxBook, GuardKept DEF ServeAux, Guarded
  <1>6. CASE page = "book" /\ LoadArrives
    <2>1. PICK v : v = [view EXCEPT !.days = load.data, !.loaded = TRUE]
      OBVIOUS
    <2>2. /\ view \in BookState /\ load.data \in Days /\ load.kind = "days"
      BY <1>6 DEF LoadArrives, Local, PageOK, Reads
    <2>3. v \in BookState /\ v.busy = view.busy /\ v.modal = view.modal
      BY <2>1, <2>2 DEF BookState
    <2>4. view' = Settled(v)
      BY <1>6, <2>1, <2>2 DEF LoadArrives
    <2>5. view'.busy = view.busy /\ view'.modal = view.modal /\ (who = "owner" => view'.sel = None)
      BY <2>3, <2>4, SettledOK
    <2>6. aux' = IF who = "owner" /\ ~view.loaded THEN Effect("owned", None) ELSE aux
      BY <1>6 DEF LoadArrives
    <2>7. /\ ReadsDays' = ReadsDays
          /\ who = "owner" /\ aux' # None => aux'.kind = "owned"
      BY <1>6, <2>6 DEF Effect, ReadsDays, Guarded
    <2> QED
      BY <1>1, <1>6, <2>5, <2>7, GuardKept
  <1>7. CASE page = "bookings" /\ LoadArrives
    <2>1. view \in MineState /\ view' = [view EXCEPT !.items = load.data] /\ aux' = aux
      BY <1>7 DEF LoadArrives, Local, PageOK, Reads
    <2>2. view'.busy = view.busy
      BY <2>1 DEF MineState
    <2> QED
      BY <1>1, <1>7, <2>2, GuardKept
  <1>8. CASE page = "detail" /\ LoadArrives
    <2>1. view \in DetailState /\ view' = [view EXCEPT !.detail = load.data] /\ aux' = aux
      BY <1>8 DEF LoadArrives, Local, PageOK, Reads
    <2>2. view'.busy = view.busy
      BY <2>1 DEF DetailState
    <2> QED
      BY <1>1, <1>8, <2>2, GuardKept
  <1>9. CASE page = "book" /\ (AuxArrives \/ AuxFails)
    <2>1. view \in BookState /\ aux' = None /\ aux # None
          /\ aux \in Reads("days", Months, Days) \cup Reads("owned", {None}, Owned)
      BY <1>9 DEF AuxArrives, AuxFails, Local, PageOK
    <2>2. CASE aux.kind = "owned"
      <3>1. view' = view \/ view' = [view EXCEPT !.owned = aux.data]
        BY <1>9, <2>2 DEF AuxArrives, AuxFails
      <3>2. view'.busy = view.busy /\ view'.sel = view.sel /\ view'.modal = view.modal
        BY <2>1, <3>1 DEF BookState
      <3> QED
        BY <1>1, <1>9, <2>1, <2>2, <3>2, GuardKept DEF ReadsDays, Guarded
    <2>3. CASE aux.kind = "days"
      <3>1. who # "owner" /\ act = None
        BY <1>9, <2>1, <2>3 DEF Guarded
      <3>2. CASE AuxFails
        <4>1. view' = [view EXCEPT !.busy = FALSE]
          BY <2>3, <3>2 DEF AuxFails
        <4>2. view'.busy = FALSE
          BY <2>1, <4>1 DEF BookState
        <4> QED
          BY <1>1, <1>9, <2>1, <3>1, <4>2 DEF Guarded, BusyMeansWorking
      <3>3. CASE AuxArrives
        <4>1. PICK v : v = [view EXCEPT !.days = aux.data, !.busy = FALSE]
          OBVIOUS
        <4>2. aux.data \in Days
          BY <2>1, <2>3, <3>3 DEF AuxArrives, Reads
        <4>3. v \in BookState /\ v.busy = FALSE
          BY <2>1, <4>1, <4>2 DEF BookState
        <4>4. view' = Settled(v)
          BY <2>3, <3>3, <4>1 DEF AuxArrives
        <4>5. view'.busy = FALSE
          BY <4>3, <4>4, SettledOK
        <4> QED
          BY <1>1, <1>9, <2>1, <3>1, <4>5 DEF Guarded, BusyMeansWorking
      <3> QED
        BY <1>9, <3>2, <3>3
    <2> QED
      BY <2>1, <2>2, <2>3 DEF Reads
  <1>10. CASE page = "bookings" /\ (AuxArrives \/ AuxFails)
    <2>1. view \in MineState /\ aux.kind = "details"
      BY <1>10 DEF AuxArrives, AuxFails, Local, PageOK, Reads
    <2>2. view' = [view EXCEPT !.detail = aux.data, !.loading = FALSE] \/ view' = [view EXCEPT !.loading = FALSE]
      BY <1>10, <2>1 DEF AuxArrives, AuxFails
    <2>3. view'.busy = view.busy
      BY <2>1, <2>2 DEF MineState
    <2> QED
      BY <1>1, <1>10, <2>3, GuardKept
  <1>11. page = "detail" => ~(AuxArrives \/ AuxFails)
    BY DEF AuxArrives, AuxFails, Local, PageOK
  <1> QED
    BY <1>2, <1>3, <1>4, <1>5, <1>6, <1>7, <1>8, <1>9, <1>10, <1>11 DEF BusyPages

LEMMA CalendarGuarded ==
  ASSUME Local, Guarded, (\E m \in Months : TurnMonth(m)) \/ SelectDay \/ (\E s \in Slots : SelectSlot(s))
  PROVE  Guarded'
  <1>0. page = "book" /\ view \in BookState /\ UNCHANGED <<act, page, who, aux>>
    BY DEF TurnMonth, SelectDay, SelectSlot, OnCalendar, Local, PageOK
  <1>1. /\ view'.busy = view.busy /\ view'.modal = view.modal
        /\ who = "owner" => view'.sel = None
    <2>1. ASSUME NEW m \in Months, TurnMonth(m)
          PROVE  view'.busy = view.busy /\ view'.modal = view.modal /\ (who = "owner" => view'.sel = None)
      <3>1. PICK v : v = [view EXCEPT !.month = m]
        OBVIOUS
      <3>2. v \in BookState /\ v.busy = view.busy /\ v.modal = view.modal /\ view' = Settled(v)
        BY <1>0, <2>1, <3>1 DEF TurnMonth, BookState
      <3> QED
        BY <3>2, SettledOK
    <2>2. CASE SelectDay
      BY <1>0, <2>2 DEF SelectDay, BookState
    <2>3. ASSUME NEW s \in Slots, SelectSlot(s)
          PROVE  view'.busy = view.busy /\ view'.modal = view.modal /\ (who = "owner" => view'.sel = None)
      BY <1>0, <2>3 DEF SelectSlot, BookState
    <2> QED
      BY <2>1, <2>2, <2>3
  <1> QED
    BY <1>0, <1>1, GuardKept DEF ReadsDays, Guarded

\* What the user asks for on PublicBookPage is about the modal that is shown from then on.
LEMMA BookAsks ==
  ASSUME Local, Confirm \/ CancelModal \/ (OpenBook /\ who # "guest")
  PROVE  /\ page = "book" /\ ~view.busy /\ UNCHANGED <<deskVars, lost, page, who, from, load, aux>>
         /\ act' # None /\ act'.pc = "sent" /\ act'.got = None
         /\ view'.busy = TRUE /\ view'.modal = act'.on /\ view'.token = act'.token /\ act'.on \in Slots
         /\ act'.op = "open" => act'.token = None /\ ~ModalShown /\ view.sel # None
         /\ act'.op # "open" => act'.token \in Tokens /\ view.modal = act'.on /\ view.token = act'.token
  <1>0. page = "book" /\ view \in BookState /\ ~view.busy /\ UNCHANGED <<deskVars, lost, page, who, from, load, aux>>
    BY DEF Confirm, CancelModal, OpenBook, OnCalendar, Local, PageOK
  <1>1. ASSUME NEW op \in {"confirm", "release"}, Ask(op, view.modal, view.token), ModalShown,
               view' = [view EXCEPT !.busy = TRUE]
        PROVE  /\ act' # None /\ act'.pc = "sent" /\ act'.got = None /\ act'.op # "open"
               /\ view'.busy = TRUE /\ view'.modal = act'.on /\ view'.token = act'.token /\ act'.on \in Slots
               /\ act'.token \in Tokens /\ view.modal = act'.on /\ view.token = act'.token
    <2>1. view.modal \in Slots /\ view.token \in Tokens
      BY <1>0, <1>1 DEF ModalShown, BookState
    <2>2. view'.busy = TRUE /\ view'.modal = view.modal /\ view'.token = view.token
      BY <1>0, <1>1 DEF BookState
    <2> QED
      BY <1>1, <2>1, <2>2, AskOK
  <1>2. ASSUME OpenBook, who # "guest"
        PROVE  /\ act' # None /\ act'.pc = "sent" /\ act'.got = None /\ act'.op = "open"
               /\ view'.busy = TRUE /\ view'.modal = act'.on /\ view'.token = act'.token /\ act'.on \in Slots
               /\ act'.token = None /\ ~ModalShown /\ view.sel # None
    <2>1. /\ view.sel \in Slots /\ Ask("open", view.sel, None) /\ ~ModalShown
          /\ view' = [view EXCEPT !.modal = view.sel, !.token = None, !.busy = TRUE]
      BY <1>0, <1>2, DeskConstantsOK DEF OpenBook, BookState, OnCalendar
    <2>2. view'.busy = TRUE /\ view'.modal = view.sel /\ view'.token = None
      BY <1>0, <2>1 DEF BookState
    <2> QED
      BY <2>1, <2>2, AskOK, DeskConstantsOK
  <1> QED
    BY <1>0, <1>1, <1>2 DEF Confirm, CancelModal

LEMMA AsksGuarded ==
  ASSUME Local, Guarded, Confirm \/ CancelModal \/ (OpenBook /\ who # "guest") \/ CancelBooking
  PROVE  Guarded'
  <1>1. ASSUME Confirm \/ CancelModal \/ (OpenBook /\ who # "guest") PROVE Guarded'
    <2>1. who # "owner"
      BY <1>1, BookAsks, DeskConstantsOK DEF Guarded
    <2> QED
      BY <1>1, <2>1, BookAsks, GuardTaken DEF BusyPages
  <1>2. ASSUME CancelBooking PROVE Guarded'
    <2>1. /\ page \in {"bookings", "detail"} /\ ~view.busy /\ view' = [view EXCEPT !.busy = TRUE]
          /\ UNCHANGED <<deskVars, lost, page, who, aux>>
      BY <1>2 DEF CancelBooking
    <2>2. view'.busy = TRUE
      BY <2>1 DEF Local, PageOK, MineState, DetailState
    <2>3. act' # None
      <3>1. PICK on : Ask("cancel", on, None)
        BY <1>2 DEF CancelBooking
      <3>2. page' \in {"bookings", "detail"} /\ Local'
        BY <1>2, <2>1, CancelBookingLocal
      <3>3. act' = [op |-> "cancel", on |-> on, token |-> None, pc |-> "sent", got |-> None]
        BY <3>1 DEF Ask
      <3>4. on \in Ids
        <4>1. page = "detail" => view.id \in Ids
          BY DEF Local, PageOK, DetailState
        <4>2. page = "bookings" => view.modal \in Ids
          BY <1>2, <2>1 DEF CancelBooking, Local, Seen, Behind, PageOK, MineState, Details
        <4>3. on = IF page = "bookings" THEN view.modal ELSE view.id
          BY <1>2, <3>3 DEF CancelBooking, Ask
        <4> QED
          BY <2>1, <4>1, <4>2, <4>3
      <3>5. act' \in Request
        BY <3>3, <3>4 DEF Request
      <3> QED
        BY <3>5, NoneIsNoRecord
    <2> QED
      BY <2>1, <2>2, <2>3, GuardTaken DEF BusyPages
  <1> QED
    BY <1>1, <1>2

LEMMA BookingsGuarded ==
  ASSUME Local, Guarded, (\E b \in Ids : OpenDetail(b)) \/ CloseDetail
  PROVE  Guarded'
  <1>1. page = "bookings" /\ view \in MineState /\ UNCHANGED <<act, page, who>>
    BY DEF OpenDetail, CloseDetail, Local, PageOK
  <1>2. view'.busy = view.busy
    BY <1>1 DEF OpenDetail, CloseDetail, MineState
  <1> QED
    BY <1>1, <1>2, GuardKept

LEMMA EndsGuarded ==
  ASSUME Local, Guarded, ActArrives \/ ActRefused \/ ActFails
  PROVE  Guarded'
  <1>0. act # None /\ act' = None /\ page \in BusyPages /\ UNCHANGED <<page, who>>
    BY DEF ActArrives, ActRefused, ActFails, Local, PlaceOK, ActOK, BusyPages
  <1>1. page = "book" => view \in BookState /\ act.op \in {"open", "confirm", "release"}
    BY <1>0 DEF Local, PageOK, ActOK
  <1>2. page = "bookings" => view \in MineState /\ act.op = "cancel"
    BY <1>0 DEF Local, PageOK, ActOK
  <1>3. page = "detail" => view \in DetailState /\ act.op = "cancel"
    BY <1>0 DEF Local, PageOK, ActOK
  <1>4. CASE ActArrives /\ act.op = "confirm"
    <2>1. page = "book" /\ view' = [view EXCEPT !.modal = None, !.token = None, !.sel = None]
          /\ aux' = Effect("days", view.month)
      BY <1>0, <1>2, <1>3, <1>4 DEF ActArrives, Confirmed, BusyPages
    <2>2. view'.busy = view.busy /\ view.busy = TRUE /\ view.month \in Months
      BY <1>0, <1>1, <2>1 DEF BookState, Guarded, BusyMeansWorking
    <2>3. who # "owner"
      BY <1>0, <2>1 DEF Guarded
    <2> QED
      BY <1>0, <2>1, <2>2, <2>3, EffectFacts DEF Guarded, BusyMeansWorking
  <1>5. CASE ActArrives /\ act.op # "confirm"
    <2>1. aux' = aux
      BY <1>5 DEF ActArrives
    <2>2. CASE page = "book"
      <3>1. \/ view' = [view EXCEPT !.token = act.got, !.busy = FALSE]
            \/ view' = [view EXCEPT !.modal = None, !.token = None, !.busy = FALSE]
        BY <1>1, <1>5, <2>2 DEF ActArrives, Opened, Released
      <3>2. view'.busy = FALSE
        BY <1>1, <2>2, <3>1 DEF BookState
      <3> QED
        BY <1>0, <2>1, <3>2, GuardFreed
    <2>3. CASE page \in {"bookings", "detail"}
      <3>1. PICK d : d = [id |-> act.on, status |-> act.got, can |-> FALSE]
        OBVIOUS
      <3>2. PICK v : v = [view EXCEPT !.detail = d, !.busy = FALSE]
        OBVIOUS
      <3>3. v.busy = FALSE /\ (page = "bookings" => \A items : [v EXCEPT !.items = items].busy = FALSE)
        BY <1>2, <1>3, <2>3, <3>2 DEF MineState, DetailState
      <3>4. view' = Cancelled
        BY <1>2, <1>3, <1>5, <2>3 DEF ActArrives
      <3>5. view' = v \/ (page = "bookings" /\ \E items : view' = [v EXCEPT !.items = items])
        BY <2>3, <3>1, <3>2, <3>4 DEF Cancelled
      <3>6. view'.busy = FALSE
        BY <3>3, <3>5
      <3> QED
        BY <1>0, <2>1, <3>6, GuardFreed
    <2> QED
      BY <1>0, <2>2, <2>3 DEF BusyPages
  <1>6. CASE ActRefused \/ ActFails
    <2>1. Failed /\ aux' = aux
      BY <1>6 DEF ActRefused, ActFails
    <2>2. \/ page = "book" /\ view' = [view EXCEPT !.modal = None, !.busy = FALSE]
          \/ view' = [view EXCEPT !.busy = FALSE]
      BY <1>0, <1>1, <1>2, <1>3, <2>1 DEF Failed, NotOpened, Complained, BusyPages
    <2>3. view'.busy = FALSE
      BY <1>0, <1>1, <1>2, <1>3, <2>2 DEF BusyPages, BookState, MineState, DetailState
    <2> QED
      BY <1>0, <2>1, <2>3, GuardFreed
  <1> QED
    BY <1>4, <1>5, <1>6

LEMMA NavigationGuarded ==
  ASSUME Local, Navigation
  PROVE  Guarded'
  <1>1. PICK p, v, ld : Opens(p, v, ld) /\ Mount(p, v, ld)
    BY GoesSomewhere
  <1>2. page' = p /\ view' = v /\ act' = None /\ aux' = None
    BY <1>1 DEF Mount
  <1>3. p = "book" => v.sel = None /\ v.modal = None
    BY <1>1 DEF Opens, Book
  <1>4. p \in BusyPages => v.busy = FALSE
    BY <1>1 DEF Opens, BusyPages, Book, Mine, Detail
  <1> QED
    BY <1>2, <1>3, <1>4 DEF Guarded, BusyMeansWorking, BusyPages

LEMMA NextGuarded == Local /\ Guarded /\ [Next]_vars => Guarded'
  <1> SUFFICES ASSUME Local, Guarded, [Next]_vars PROVE Guarded'
    OBVIOUS
  <1>1. CASE UNCHANGED vars
    BY <1>1 DEF vars, client, Guarded, BusyMeansWorking
  <1>2. ASSUME Server PROVE Guarded'
    BY <1>2, ServerDesk, GuardKept DEF DeskStep, SameAct, ReadsDays, Guarded
  <1>3. ASSUME Landing PROVE Guarded'
    BY <1>3 DEF Landing, TypeText, PickCategory, Debounce, Search, Guarded, BusyMeansWorking
  <1>4. CASE Step
    BY <1>2, <1>3, <1>4, StepKinds, EffectsGuarded, CalendarGuarded, AsksGuarded, BookingsGuarded,
       EndsGuarded, NavigationGuarded
  <1> QED
    BY <1>1, <1>4 DEF Next

LEMMA GuardedInvariant == Spec => [](Local /\ Guarded)
  <1>1. Init => Guarded
    BY DEF Init, Guarded, BusyMeansWorking
  <1> QED
    BY <1>1, InitLocal, NextLocal, NextGuarded, PTL DEF Spec

\* No error leaves a page's buttons disabled, and none enables them while the
\* function that they guard still runs, on any page and in any order of answers.
THEOREM BusyFlags == Spec => []BusyMeansWorking
  <1>1. Guarded => BusyMeansWorking
    BY DEF Guarded
  <1> QED
    BY <1>1, GuardedInvariant, PTL

----------------------------------------------------------------------------
(* The search *)

LEMMA NextResults == Local /\ ResultsMatchQuery /\ [Next]_vars => ResultsMatchQuery'
  <1> SUFFICES ASSUME Local, ResultsMatchQuery, [Next]_vars, page' = "landing" PROVE ResultsMatchQuery'
    BY DEF ResultsMatchQuery
  <1>1. CASE UNCHANGED <<page, view>>
    BY <1>1 DEF ResultsMatchQuery
  <1>2. ASSUME LoadArrives PROVE ResultsMatchQuery'
    <2>1. view \in ExploreState /\ load.kind = "search" /\ load.data = view.query
      BY <1>2 DEF LoadArrives, Local, PageOK, Reads
    <2>2. view' = [view EXCEPT !.items = load.data, !.loading = FALSE]
      BY <1>2, <2>1 DEF LoadArrives
    <2> QED
      BY <2>1, <2>2 DEF ExploreState, ResultsMatchQuery
  <1>3. ASSUME LoadFails PROVE ResultsMatchQuery'
    <2>1. view \in ExploreState /\ view' = [view EXCEPT !.items = None, !.error = TRUE, !.loading = FALSE]
      BY <1>3 DEF LoadFails, Local, PageOK
    <2> QED
      BY <2>1 DEF ExploreState, ResultsMatchQuery
  <1>4. ASSUME NEW q, TypeText(q) PROVE ResultsMatchQuery'
    <2>1. page = "landing" /\ view \in ExploreState /\ view' = [view EXCEPT !.typed = q]
      BY <1>4 DEF TypeText, Local, PageOK
    <2> QED
      BY <2>1 DEF ExploreState, ResultsMatchQuery
  <1>5. ASSUME NEW v \in ExploreState, Search(v) PROVE ResultsMatchQuery'
    BY <1>5 DEF Search, ExploreState, ResultsMatchQuery
  <1>6. ASSUME NEW q \in Queries \cup {None}, PickCategory(q) PROVE ResultsMatchQuery'
    <2>1. view \in ExploreState /\ Search([view EXCEPT !.query.category = q])
      BY <1>6 DEF PickCategory, Local, PageOK
    <2> QED
      BY <1>5, <2>1 DEF ExploreState, Query
  <1>7. ASSUME Debounce PROVE ResultsMatchQuery'
    <2>1. view \in ExploreState /\ Search([view EXCEPT !.query.text = view.typed])
      BY <1>7 DEF Debounce, Local, PageOK
    <2> QED
      BY <1>5, <2>1 DEF ExploreState, Query
  <1>8. ASSUME Landing PROVE ResultsMatchQuery'
    BY <1>4, <1>6, <1>7, <1>8 DEF Landing
  <1>9. ASSUME Navigation PROVE ResultsMatchQuery'
    <2>1. PICK p, v, ld : Opens(p, v, ld) /\ Mount(p, v, ld)
      BY <1>9, GoesSomewhere
    <2>2. view' = Explore
      BY <2>1 DEF Mount, Opens
    <2> QED
      BY <2>2 DEF Explore, ResultsMatchQuery
  <1>10. ASSUME AuxArrives \/ AuxFails PROVE FALSE
    BY <1>10 DEF AuxArrives, AuxFails, Local, PageOK
  <1>11. ASSUME ActArrives \/ ActRefused \/ ActFails PROVE FALSE
    BY <1>11 DEF ActArrives, ActRefused, ActFails, Local, ActOK
  <1>12. ASSUME \/ (\E m \in Months : TurnMonth(m)) \/ SelectDay \/ (\E s \in Slots : SelectSlot(s))
                \/ Confirm \/ CancelModal \/ (OpenBook /\ who # "guest")
                \/ (\E b \in Ids : OpenDetail(b)) \/ CloseDetail \/ CancelBooking
         PROVE  FALSE
    BY <1>12 DEF TurnMonth, SelectDay, SelectSlot, OnCalendar, Confirm, CancelModal, OpenBook,
                 OpenDetail, CloseDetail, CancelBooking
  <1>13. CASE Step
    BY <1>1, <1>2, <1>3, <1>8, <1>9, <1>10, <1>11, <1>12, <1>13, StepKinds DEF Server, ServeLoad, ServeAux
  <1>14. CASE UNCHANGED vars
    BY <1>1, <1>14 DEF vars, client
  <1> QED
    BY <1>13, <1>14 DEF Next

\* The landing page shows the results of the query it was last given, whatever
\* was typed or picked while earlier searches were under way.
THEOREM SearchShowsItsQuery == Spec => []ResultsMatchQuery
  <1>1. Init => ResultsMatchQuery
    BY DEF Init, ResultsMatchQuery
  <1> QED
    BY <1>1, InitLocal, NextLocal, NextResults, PTL DEF Spec

----------------------------------------------------------------------------
(* The owner's calendar *)

\* No request leaves a slot as it is that did not do so before, but for those
\* about the bookings B; and what awaits bookings is about bookings made.
KeepersKept(B) ==
  /\ \A x \in work' \cup Requests' : x.pc = "keeps" => x \in work \cup Requests \/ x.on \in B
  /\ \A w \in work' : w \in work \/ (w.op \in {"approve", "close"} => had[w.on] # {})

LEMMA KeepingLess ==
  ASSUME NEW B, KeepersKept(B), NEW b, b \notin B, ~Keeping(b)
  PROVE  ~Keeping(b)'
  BY DEF KeepersKept, Keeping

LEMMA WorkKnown ==
  ASSUME DataOK, Held, Advances, NEW B, KeepersKept(B), work' \subseteq Work
  PROVE  \A w \in work' : w.op \in {"approve", "close"} => had'[w.on] # {}
  <1> SUFFICES ASSUME NEW w \in work', w.op \in {"approve", "close"} PROVE had'[w.on] # {}
    OBVIOUS
  <1>1. w.on \in Ids
    BY WorkFacts
  <1>2. had[w.on] # {}
    BY DEF KeepersKept, Held
  <1> QED
    BY <1>1, <1>2 DEF Advances

\* What is read and written without ending a booking.
LEMMA HeldKept ==
  ASSUME DataOK, Held, Advances, work' \subseteq Work, NEW B, \A b \in B : ~Frees(b), KeepersKept(B),
         \A s \in Slots : slot'[s] = "BOOKED" => slot[s] = "BOOKED",
         \A s \in Slots : ActiveOn(s) \subseteq ActiveOn(s)'
  PROVE  Held'
  <1>1. ASSUME NEW s \in Slots, slot'[s] = "BOOKED" PROVE \E b \in ActiveOn(s)' : ~Keeping(b)'
    <2>1. slot[s] = "BOOKED"
      BY <1>1
    <2>2. PICK b \in ActiveOn(s) : ~Keeping(b)
      BY <2>1 DEF Held
    <2>3. b \notin B
      BY <2>1, <2>2 DEF Frees, ActiveOn
    <2> QED
      BY <2>2, <2>3, KeepingLess
  <1> QED
    BY <1>1, WorkKnown DEF Held

LEMMA KeepersKnown ==
  ASSUME Local, Held, NEW b, Keeping(b)
  PROVE  b \in Ids /\ had[b] # {}
  <1>1. PICK x \in work \cup Requests : x.on = b /\ x.pc = "keeps"
    BY DEF Keeping
  <1>2. CASE x \in work
    <2>1. x \in Work /\ x.op \in {"approve", "close"}
      BY <1>1, <1>2, WorkFacts DEF Local, DeskShape, DataOK
    <2> QED
      BY <1>1, <1>2, <2>1, WorkFacts DEF Held
  <1>3. CASE x \in Requests
    BY <1>1, <1>3, ServedOnes, KnownByPlace
  <1> QED
    BY <1>2, <1>3

\* A new booking holds its slot.
LEMMA HeldInsert ==
  ASSUME Local, Held, DataOK', NEW s \in Slots, NEW mine \in BOOLEAN, InsertBooking(s, mine), KeepersKept({})
  PROVE  Held'
  <1>0. DataOK
    BY DEF Local, DeskShape
  <1>1. PICK b \in Ids :
          /\ Advances /\ \A x \in Slots \ {s} : slot'[x] = slot[x]
          /\ had[b] = {} /\ booking'[b] # None /\ booking'[b].slot = s /\ booking'[b].status \in Active
          /\ \A c \in Ids \ {b} : booking'[c] = booking[c]
    BY <1>0, InsertOK
  <1>2. b \in ActiveOn(s)' /\ ~Keeping(b)'
    <2>1. ~Keeping(b)
      BY <1>1, KeepersKnown
    <2> QED
      BY <1>1, <2>1, KeepingLess DEF ActiveOn
  <1>3. ASSUME NEW x \in Slots \ {s}, slot'[x] = "BOOKED" PROVE \E c \in ActiveOn(x)' : ~Keeping(c)'
    <2>1. PICK c \in ActiveOn(x) : ~Keeping(c)
      BY <1>1, <1>3 DEF Held
    <2>2. c \in Ids /\ c # b
      BY <1>0, <1>1, <2>1 DEF ActiveOn, DataOK
    <2>3. c \in ActiveOn(x)'
      BY <1>1, <2>1, <2>2 DEF ActiveOn
    <2> QED
      BY <2>1, <2>3, KeepingLess
  <1>4. \A w \in work' : w.op \in {"approve", "close"} => had'[w.on] # {}
    BY <1>0, <1>1, WorkKnown DEF DataOK
  <1> QED
    BY <1>2, <1>3, <1>4 DEF Held

\* A booking that ends without its slot did not hold it alone.
LEMMA HeldClose ==
  ASSUME DataOK, Held, DataOK', NEW b \in Ids, booking[b] # None, NEW frees \in BOOLEAN, CloseBooking(b, frees),
         ~frees => Keeping(b), KeepersKept({})
  PROVE  Held'
  <1>1. /\ Advances /\ \A c \in Ids \ {b} : booking'[c] = booking[c]
        /\ \A x \in Slots : slot'[x] = slot[x] \/ slot'[x] = "OPEN"
        /\ frees => slot'[booking[b].slot] = "OPEN"
    BY CloseOK, SetStatusOK
  <1>2. ASSUME NEW s \in Slots, slot'[s] = "BOOKED" PROVE \E c \in ActiveOn(s)' : ~Keeping(c)'
    <2>1. slot[s] = "BOOKED"
      BY <1>1, <1>2
    <2>2. PICK c \in ActiveOn(s) : ~Keeping(c)
      BY <2>1 DEF Held
    <2>3. c \in Ids /\ c # b
      BY <1>1, <1>2, <2>2 DEF ActiveOn
    <2>4. c \in ActiveOn(s)'
      BY <1>1, <2>2, <2>3 DEF ActiveOn
    <2> QED
      BY <2>2, <2>4, KeepingLess
  <1>3. \A w \in work' : w.op \in {"approve", "close"} => had'[w.on] # {}
    BY <1>1, WorkKnown DEF DataOK
  <1> QED
    BY <1>2, <1>3 DEF Held

\* What goes on elsewhere than in the database.
LEMMA HeldStill ==
  ASSUME Local, Held, UNCHANGED <<slot, booking, work, had>>,
         \A x \in Requests' : x.pc = "keeps" => x \in Requests
  PROVE  Held'
  <1>1. KeepersKept({})
    BY DEF KeepersKept
  <1>2. \A s \in Slots : ActiveOn(s) = ActiveOn(s)'
    BY DEF ActiveOn
  <1> QED
    BY <1>1, <1>2, HeldKept, StandingStill DEF Local, DeskShape, DataOK

\* The request that is served is the only one to change.
LEMMA RequestsKept ==
  ASSUME Local, NEW r \in Requests, NEW pc, Goto(r, pc) \/ \E got : Return(r, pc, got)
  PROVE  \A x \in Requests' : x.pc = "keeps" => x \in Requests \/ (pc = "keeps" /\ x.on = r.on)
  <1>1. r \in Request /\ (r \notin lost => act = r /\ act # None)
    BY ServedOnes
  <1>2. PICK q : q.pc = pc /\ q.on = r.on /\ lost' \subseteq lost \cup {q} /\ act' \in {act, q}
    <2>1. CASE Goto(r, pc)
      <3>1. PICK q : q = [r EXCEPT !.pc = pc]
        OBVIOUS
      <3>2. q.pc = pc /\ q.on = r.on
        BY <1>1, <3>1 DEF Request
      <3>3. lost' \subseteq lost \cup {q} /\ act' \in {act, q}
        BY <1>1, <2>1, <3>1 DEF Goto
      <3> QED
        BY <3>2, <3>3
    <2>2. CASE \E got : Return(r, pc, got)
      <3>1. PICK got : Return(r, pc, got)
        BY <2>2
      <3>2. PICK q : q = [r EXCEPT !.pc = pc, !.got = got]
        OBVIOUS
      <3>3. q.pc = pc /\ q.on = r.on
        BY <1>1, <3>2 DEF Request
      <3>4. lost' \subseteq lost \cup {q} /\ act' \in {act, q}
        BY <1>1, <3>1, <3>2 DEF Return
      <3> QED
        BY <3>3, <3>4
    <2> QED
      BY <2>1, <2>2
  <1> QED
    BY <1>2 DEF Requests, Unanswered

LEMMA RequestHeld ==
  ASSUME Local, Held, NEW r \in Requests, NEW forgotten \in SUBSET Tokens,
         ServeHold(r, forgotten) \/ ServeBooking(r) \/ Crash(r)
  PROVE  Held'
  <1>0. DataOK /\ r \in Request /\ Fits(r)
    BY ServedOnes DEF Local, DeskShape
  <1>1. DataOK' /\ Advances
    BY ServeHoldStep, ServeBookingStep, CrashStep DEF DeskStep, DeskShape
  <1>2. ASSUME UNCHANGED <<slot, booking, work, had>>, NEW pc, pc # "keeps", Goto(r, pc) \/ \E got : Return(r, pc, got)
        PROVE  Held'
    <2>1. \A x \in Requests' : x.pc = "keeps" => x \in Requests \/ (pc = "keeps" /\ x.on = r.on)
      BY <1>2, RequestsKept
    <2>2. \A x \in Requests' : x.pc = "keeps" => x \in Requests
      BY <1>2, <2>1
    <2> QED
      BY <1>2, <2>2, HeldStill
  <1>3. CASE ServeHold(r, forgotten) \/ Crash(r)
    BY <1>2, <1>3 DEF ServeHold, OpenReads, OpenAsks, OpenSets, ReleaseReads, ReleaseDeletes, Forget, Crash, deskVars
  <1>4. CASE ConfirmReads(r) \/ ConfirmRefused(r) \/ ConfirmDrops(r) \/ ConfirmUndoes(r)
    BY <1>2, <1>4 DEF ConfirmReads, ConfirmRefused, ConfirmDrops, ConfirmUndoes, Forget, deskVars
  <1>5. CASE CancelReads(r) \/ CancelAnswers(r)
    BY <1>2, <1>5 DEF CancelReads, CancelAnswers, deskVars
  <1>6. CASE ConfirmCommits(r)
    <2>1. r.on \in Slots /\ InsertBooking(r.on, TRUE) /\ Goto(r, "drops") /\ UNCHANGED work
      BY <1>0, <1>6, KnownByPlace DEF ConfirmCommits
    <2>2. KeepersKept({})
      BY <2>1, RequestsKept DEF KeepersKept
    <2> QED
      BY <1>1, <2>1, <2>2, HeldInsert
  <1>7. CASE CancelCommits(r)
    <2>1. r.on \in Ids /\ booking[r.on] # None /\ Goto(r, "refreshes") /\ UNCHANGED work
      BY <1>0, <1>7, KnownByPlace DEF CancelCommits
    <2>2. KeepersKept({})
      BY <2>1, RequestsKept DEF KeepersKept
    <2>3. r.pc = "keeps" => Keeping(r.on)
      BY DEF Keeping
    <2>4. PICK frees \in BOOLEAN : CloseBooking(r.on, frees) /\ (~frees => r.pc = "keeps")
      BY <1>7 DEF CancelCommits
    <2> QED
      BY <1>0, <1>1, <2>1, <2>2, <2>3, <2>4, HeldClose
  <1>8. CASE CancelSlot(r)
    <2>1. UNCHANGED <<slot, booking, work, had>>
      BY <1>8 DEF CancelSlot, deskVars
    <2>2. CASE ~Frees(r.on) /\ Goto(r, "keeps")
      <3>1. KeepersKept({r.on})
        BY <2>1, <2>2, RequestsKept DEF KeepersKept
      <3>2. \A s \in Slots : ActiveOn(s) = ActiveOn(s)'
        BY <2>1 DEF ActiveOn
      <3> QED
        BY <1>0, <1>1, <2>1, <2>2, <3>1, <3>2, HeldKept DEF DataOK
    <2> QED
      BY <1>2, <1>8, <2>1, <2>2 DEF CancelSlot
  <1> QED
    BY <1>3, <1>4, <1>5, <1>6, <1>7, <1>8 DEF ServeBooking

LEMMA WorkersHeld ==
  ASSUME Local, Held, UNCHANGED <<act, lost>>, NEW w \in work,
         ReadsSlot(w) \/ Closes(w) \/ Approves(w) \/ Toggles(w) \/ Holds(w) \/ Books(w) \/ Dies(w)
  PROVE  Held'
  <1>0. DataOK /\ w \in Work /\ Requests' = Requests
    BY DEF Local, DeskShape, DataOK, Requests
  <1>1. DataOK' /\ Advances /\ work' \subseteq Work
    BY <1>0, WorkersStep DEF DataOK
  <1>2. ASSUME Ended(w) PROVE KeepersKept({})
    BY <1>0, <1>2 DEF Ended, KeepersKept
  <1>3. ASSUME Ended(w), UNCHANGED booking, \A s \in Slots : slot'[s] = "BOOKED" => slot[s] = "BOOKED" PROVE Held'
    <2>1. \A s \in Slots : ActiveOn(s) = ActiveOn(s)'
      BY <1>3 DEF ActiveOn
    <2> QED
      BY <1>0, <1>1, <1>2, <1>3, <2>1, HeldKept
  <1>4. CASE ReadsSlot(w)
    <2>1. w.op = "close" /\ w.on \in Ids /\ had[w.on] # {} /\ UNCHANGED <<slot, booking>>
      BY <1>0, <1>4, WorkFacts DEF ReadsSlot, Held
    <2>2. PICK pc : pc = IF Frees(w.on) THEN "frees" ELSE "keeps"
      OBVIOUS
    <2>3. PICK v : v = [w EXCEPT !.pc = pc]
      OBVIOUS
    <2>4. v.pc = pc /\ v.on = w.on /\ v.op = w.op
      BY <1>0, <2>1, <2>3 DEF Work
    <2>5. work' = (work \ {w}) \cup {v}
      BY <1>4, <2>2, <2>3 DEF ReadsSlot
    <2>6. PICK B : B = IF Frees(w.on) THEN {} ELSE {w.on}
      OBVIOUS
    <2>7. KeepersKept(B) /\ \A b \in B : ~Frees(b)
      BY <1>0, <2>1, <2>2, <2>4, <2>5, <2>6 DEF KeepersKept
    <2>8. \A s \in Slots : ActiveOn(s) = ActiveOn(s)'
      BY <2>1 DEF ActiveOn
    <2> QED
      BY <1>0, <1>1, <2>1, <2>7, <2>8, HeldKept
  <1>5. CASE Closes(w)
    <2>1. w.on \in Ids /\ booking[w.on] # None /\ Ended(w)
      BY <1>0, <1>5, WorkFacts DEF Closes
    <2>2. PICK frees \in BOOLEAN : CloseBooking(w.on, frees) /\ (~frees => w.pc = "keeps")
      BY <1>5 DEF Closes
    <2>3. w.pc = "keeps" => Keeping(w.on)
      BY DEF Keeping
    <2> QED
      BY <1>0, <1>1, <1>2, <2>1, <2>2, <2>3, HeldClose
  <1>6. CASE Approves(w)
    <2>1. w.on \in Ids /\ booking[w.on] # None /\ "CONFIRMED" \in Statuses /\ SetStatus(w.on, "CONFIRMED")
          /\ Ended(w) /\ UNCHANGED slot
      BY <1>0, <1>6, WorkFacts DEF Approves, Statuses, Active
    <2>2. /\ booking'[w.on] # None /\ booking'[w.on].slot = booking[w.on].slot /\ booking'[w.on].status = "CONFIRMED"
          /\ \A c \in Ids \ {w.on} : booking'[c] = booking[c]
      BY <1>0, <2>1, SetStatusOK
    <2>3. \A s \in Slots : ActiveOn(s) \subseteq ActiveOn(s)'
      BY <2>2 DEF ActiveOn, Active
    <2> QED
      BY <1>0, <1>1, <1>2, <2>1, <2>3, HeldKept
  <1>7. CASE Toggles(w)
    <2>1. w.on \in Slots /\ Ended(w) /\ UNCHANGED booking
      BY <1>0, <1>7, WorkFacts DEF Toggles
    <2>2. \A s \in Slots : slot'[s] = "BOOKED" => slot[s] = "BOOKED"
      BY <1>0, <1>7, <2>1 DEF Toggles, DataOK
    <2> QED
      BY <1>3, <2>1, <2>2
  <1>8. CASE Holds(w) \/ Dies(w)
    BY <1>3, <1>8 DEF Holds, Dies
  <1>9. CASE Books(w)
    <2>1. w.on \in Slots /\ InsertBooking(w.on, FALSE) /\ Ended(w)
      BY <1>0, <1>9, WorkFacts DEF Books
    <2> QED
      BY <1>1, <1>2, <2>1, HeldInsert
  <1> QED
    BY <1>4, <1>5, <1>6, <1>7, <1>8, <1>9

LEMMA BeginsHeld ==
  ASSUME Local, Held, UNCHANGED <<act, lost>>, DataOK', NEW op, NEW on, NEW pc, Begins(op, on, pc), pc # "keeps",
         op \in {"approve", "close"} => had[on] # {}
  PROVE  Held'
  <1>1. work' = work \cup {[op |-> op, on |-> on, pc |-> pc]} /\ UNCHANGED <<slot, booking, had>> /\ Requests' = Requests
    BY DEF Begins, Requests
  <1>2. KeepersKept({})
    BY <1>1 DEF KeepersKept
  <1>3. \A s \in Slots : ActiveOn(s) = ActiveOn(s)'
    BY <1>1 DEF ActiveOn
  <1> QED
    BY <1>1, <1>2, <1>3, HeldKept, StandingStill DEF Local, DeskShape, DataOK

LEMMA OthersHeld ==
  ASSUME Local, Held, NEW jobs, Others(jobs), UNCHANGED <<act, lost>>
  PROVE  Held'
  <1>0. DataOK /\ DataOK' /\ Requests' = Requests
    BY OthersStep DEF Local, DeskShape, DeskStep, Requests
  <1>1. ASSUME NEW s \in Slots, HoldEnds(s) PROVE Held'
    BY <1>0, <1>1, HeldStill DEF HoldEnds
  <1>2. ASSUME NEW s \in Slots, SlotRead(s, jobs) PROVE Held'
    BY <1>0, <1>2, BeginsHeld DEF SlotRead
  <1>3. ASSUME NEW b \in Ids, BookingRead(b, jobs) PROVE Held'
    <2>1. had[b] # {}
      BY <1>0, <1>3 DEF BookingRead, DataOK
    <2> QED
      BY <1>0, <1>3, <2>1, BeginsHeld DEF BookingRead
  <1>4. ASSUME DeletePage PROVE Held'
    BY <1>4 DEF DeletePage, Held
  <1> QED
    BY <1>1, <1>2, <1>3, <1>4, WorkersHeld, DeskConstantsOK DEF Others

LEMMA NextHeld == Local /\ Held /\ [Next]_vars => Held'
  <1> SUFFICES ASSUME Local, Held, [Next]_vars PROVE Held'
    OBVIOUS
  <1>1. ASSUME Server PROVE Held'
    <2>1. ASSUME Serve(Tokens \ (Known \cup {hold[s] : s \in Slots})) PROVE Held'
      <3>1. PICK forgotten \in SUBSET Tokens : Serve(forgotten)
        BY <2>1
      <3> QED
        BY <3>1, RequestHeld DEF Serve
    <2> QED
      BY <1>1, <2>1, OthersHeld DEF Server
  <1>2. ASSUME UNCHANGED <<deskVars, act, lost>> PROVE Held'
    BY <1>2, HeldStill DEF deskVars, Requests
  <1>3. CASE UNCHANGED vars
    BY <1>2, <1>3 DEF vars
  <1>4. ASSUME ServeLoad \/ ServeAux \/ LoadArrives \/ LoadFails \/ AuxArrives \/ AuxFails \/ Landing PROVE Held'
    BY <1>2, <1>4 DEF ServeLoad, ServeAux, LoadArrives, LoadFails, AuxArrives, AuxFails, Landing,
                      TypeText, PickCategory, Debounce
  <1>5. ASSUME \/ (\E m \in Months : TurnMonth(m)) \/ SelectDay \/ (\E s \in Slots : SelectSlot(s))
               \/ (\E b \in Ids : OpenDetail(b)) \/ CloseDetail
        PROVE  Held'
    BY <1>2, <1>5 DEF TurnMonth, SelectDay, SelectSlot, OpenDetail, CloseDetail
  <1>6. ASSUME UNCHANGED <<slot, booking, work, had>>, act' = None, UNCHANGED lost \/ Abandon PROVE Held'
    <2>1. \A x \in Requests' : x \in Requests
      BY <1>6 DEF Abandon, Requests
    <2> QED
      BY <1>6, <2>1, HeldStill
  <1>7. ASSUME ActArrives \/ ActRefused \/ ActFails PROVE Held'
    BY <1>6, <1>7 DEF ActArrives, ActRefused, ActFails, deskVars
  <1>8. ASSUME Navigation PROVE Held'
    <2>1. PICK p, v, ld : Opens(p, v, ld) /\ Mount(p, v, ld)
      BY <1>8, GoesSomewhere
    <2> QED
      BY <1>6, <2>1 DEF Mount
  <1>9. ASSUME Confirm \/ CancelModal \/ (OpenBook /\ who # "guest") \/ CancelBooking PROVE Held'
    <2>1. UNCHANGED <<deskVars, lost>> /\ \E op, on, token : Ask(op, on, token)
      BY <1>9 DEF Confirm, CancelModal, OpenBook, CancelBooking
    <2>2. PICK on, op, token : act' = [op |-> op, on |-> on, token |-> token, pc |-> "sent", got |-> None]
      BY <2>1 DEF Ask
    <2>3. act'.pc # "keeps"
      BY <2>2
    <2>4. \A x \in Requests' : x.pc = "keeps" => x \in Requests
      BY <2>1, <2>3 DEF Requests
    <2> QED
      BY <2>1, <2>4, HeldStill DEF deskVars
  <1>10. CASE Step
    BY <1>1, <1>4, <1>5, <1>7, <1>8, <1>9, <1>10, StepKinds
  <1> QED
    BY <1>3, <1>10 DEF Next

LEMMA HeldInvariant == Spec => []Held
  <1>1. Init => Held
    BY DEF Init, DeskInit, Held
  <1> QED
    BY <1>1, InitLocal, NextLocal, NextHeld, PTL DEF Spec

\* The page has read nothing yet.
Blank == /\ view.days = Nothing /\ view.owned = None /\ aux = None
         /\ load = None \/ load.data = None

LEMMA BlankFresh ==
  ASSUME Blank, NEW s
  PROVE  Fresh(s)
  BY DEF Blank, Fresh, Nothing

LEMMA FreshServed ==
  ASSUME Local, Guarded, FreshUnlessMoved, page = "book", who = "owner", Watch,
         UNCHANGED <<page, who, view, load, aux>>
  PROVE  FreshUnlessMoved'
  <1>1. CASE HasRead
    <2>1. \A s \in Slots \ moved' : s \in Slots \ moved /\ slot'[s] = slot[s] /\ ActiveOn(s)' = ActiveOn(s)
      BY <1>1 DEF Watch, Changed
    <2>2. \A s \in Slots \ moved' : Fresh(s)'
      BY <2>1 DEF FreshUnlessMoved, Fresh
    <2> QED
      BY <2>2 DEF FreshUnlessMoved
  <1>2. CASE ~HasRead
    <2>1. Blank'
      BY <1>2 DEF HasRead, FreshUnlessMoved, Blank
    <2>2. \A s : Fresh(s)'
      BY <2>1 DEF Blank, Fresh, Nothing
    <2> QED
      BY <2>2 DEF FreshUnlessMoved
  <1> QED
    BY <1>1, <1>2

\* The page of its owner takes a step, and what it knows it has read.
LEMMA FreshPage ==
  ASSUME FreshUnlessMoved, page = "book", who = "owner", Watch, UNCHANGED <<slot, booking>>,
         ~view'.loaded => view'.days = Nothing /\ view'.owned = None /\ aux' = None,
         \A s \in Slots : (HasRead => Fresh(s)) => Fresh(s)'
  PROVE  FreshUnlessMoved'
  <1>1. CASE HasRead
    <2>1. moved' = moved
      <3>1. Changed = {}
        BY DEF Changed, ActiveOn
      <3> QED
        BY <1>1, <3>1 DEF Watch
    <2> QED
      BY <1>1, <2>1 DEF FreshUnlessMoved
  <1>2. CASE ~HasRead
    BY <1>2 DEF FreshUnlessMoved
  <1> QED
    BY <1>1, <1>2

LEMMA FreshEffects ==
  ASSUME Local, Guarded, FreshUnlessMoved, page = "book", who = "owner", Watch,
         ServeLoad \/ ServeAux \/ LoadArrives \/ LoadFails \/ AuxArrives \/ AuxFails
  PROVE  FreshUnlessMoved'
  <1>0. UNCHANGED <<slot, booking>> /\ UNCHANGED <<page, who>> /\ \A s : ActiveOn(s)' = ActiveOn(s)
    BY DEF ActiveOn, ServeLoad, ServeAux, LoadArrives, LoadFails, AuxArrives, AuxFails, deskVars
  <1>1. /\ view \in BookState
        /\ load = None \/ load \in Reads("days", {view.month}, Days)
        /\ aux # None => aux \in Reads("owned", {None}, Owned)
    BY DEF Local, PageOK, Guarded, Reads
  <1>2. ~HasRead => Blank
    BY DEF HasRead, FreshUnlessMoved, Blank
  <1>3. \A s \in Slots : (HasRead => Fresh(s)) => Fresh(s)
    BY <1>2, BlankFresh
  <1>4. CASE ServeLoad
    <2>1. PICK d \in Answers(load) : load' = [load EXCEPT !.data = d]
      BY <1>4 DEF ServeLoad
    <2>2. load \in Reads("days", {view.month}, Days) /\ UNCHANGED <<view, aux>>
      BY <1>1, <1>4 DEF ServeLoad
    <2>3. d = [s \in SlotsIn(load.of) |-> slot[s]]
      BY <2>1, <2>2 DEF Answers, Reads
    <2>4. load'.data = d
      BY <2>1, <2>2 DEF Reads
    <2>5. \A s \in Slots : Fresh(s) => Fresh(s)'
      BY <1>0, <2>2, <2>3, <2>4 DEF Fresh
    <2> QED
      BY <1>0, <1>3, <2>2, <2>5, FreshPage DEF FreshUnlessMoved
  <1>5. CASE ServeAux
    <2>1. PICK d \in Answers(aux) : aux' = [aux EXCEPT !.data = d]
      BY <1>5 DEF ServeAux
    <2>2. aux \in Reads("owned", {None}, Owned) /\ aux # None /\ UNCHANGED <<view, load>>
      BY <1>1, <1>5 DEF ServeAux
    <2>3. d \in OwnedBookings
      BY <2>1, <2>2 DEF Answers, Reads
    <2>4. aux'.data = d
      BY <2>1, <2>2 DEF Reads
    <2>5. \A s \in Slots : Fresh(s) => Fresh(s)'
      BY <1>0, <2>2, <2>3, <2>4, OwnedAnswer DEF Fresh, Local, DeskShape
    <2> QED
      BY <1>0, <1>3, <2>2, <2>5, FreshPage DEF FreshUnlessMoved
  <1>6. CASE LoadArrives
    <2>1. load \in Reads("days", {view.month}, Days) /\ load # None /\ load.data # None /\ load' = None
      BY <1>1, <1>6 DEF LoadArrives
    <2>2. PICK v : v = [view EXCEPT !.days = load.data, !.loaded = TRUE]
      OBVIOUS
    <2>3. v \in BookState /\ v.days = load.data /\ v.loaded = TRUE /\ v.owned = view.owned
      BY <1>1, <2>1, <2>2 DEF BookState, Reads
    <2>4. view' = Settled(v)
      BY <1>6, <2>1, <2>2 DEF LoadArrives, Reads
    <2>5. view'.days = load.data /\ view'.loaded = TRUE /\ view'.owned = view.owned
      BY <2>3, <2>4, SettledOK
    <2>6. aux' = aux \/ aux'.data = None
      BY <1>6, DeskConstantsOK DEF LoadArrives, Effect
    <2>7. \A s \in Slots : Fresh(s) => Fresh(s)'
      BY <1>0, <2>1, <2>5, <2>6 DEF Fresh
    <2> QED
      BY <1>0, <1>3, <2>5, <2>7, FreshPage
  <1>7. CASE LoadFails
    <2>1. load' = None /\ UNCHANGED <<view, aux>>
      BY <1>7 DEF LoadFails
    <2>2. \A s \in Slots : Fresh(s) => Fresh(s)'
      BY <1>0, <2>1 DEF Fresh
    <2> QED
      BY <1>0, <1>3, <2>1, <2>2, FreshPage DEF FreshUnlessMoved
  <1>8. CASE AuxArrives
    <2>1. aux # None /\ aux.data # None /\ aux' = None /\ load' = load /\ aux.kind = "owned"
          /\ view' = [view EXCEPT !.owned = aux.data]
      BY <1>1, <1>8 DEF AuxArrives, Reads
    <2>2. view'.owned = aux.data /\ view'.days = view.days /\ view'.loaded = view.loaded
      BY <1>1, <2>1 DEF BookState
    <2>3. view.loaded
      BY <2>1 DEF FreshUnlessMoved
    <2>4. \A s \in Slots : Fresh(s) => Fresh(s)'
      BY <1>0, <2>1, <2>2 DEF Fresh
    <2> QED
      BY <1>0, <1>3, <2>2, <2>3, <2>4, FreshPage
  <1>9. CASE AuxFails
    <2>1. aux' = None /\ UNCHANGED <<view, load>>
      BY <1>1, <1>9 DEF AuxFails, Reads
    <2>2. \A s \in Slots : Fresh(s) => Fresh(s)'
      BY <1>0, <2>1 DEF Fresh
    <2> QED
      BY <1>0, <1>3, <2>1, <2>2, FreshPage DEF FreshUnlessMoved
  <1> QED
    BY <1>4, <1>5, <1>6, <1>7, <1>8, <1>9

LEMMA FreshCalendar ==
  ASSUME Local, Guarded, FreshUnlessMoved, page = "book", who = "owner", Watch,
         (\E m \in Months : TurnMonth(m)) \/ SelectDay \/ (\E s \in Slots : SelectSlot(s))
  PROVE  FreshUnlessMoved'
  <1>0. view \in BookState /\ UNCHANGED <<slot, booking, page, who, aux>> /\ \A s : ActiveOn(s)' = ActiveOn(s)
    BY DEF ActiveOn, TurnMonth, SelectDay, SelectSlot, Local, PageOK, deskVars
  <1>1. /\ view'.days = view.days /\ view'.loaded = view.loaded /\ view'.owned = view.owned
        /\ load' = load \/ load'.data = None
    <2>1. PICK m \in Months : TurnMonth(m)
      BY DEF Guarded, SelectDay, SelectSlot
    <2>2. PICK v : v = [view EXCEPT !.month = m]
      OBVIOUS
    <2>3. v \in BookState /\ v.days = view.days /\ v.loaded = view.loaded /\ v.owned = view.owned
          /\ view' = Settled(v)
      BY <1>0, <2>1, <2>2 DEF TurnMonth, BookState
    <2>4. load'.data = None
      BY <2>1 DEF TurnMonth, Effect
    <2> QED
      BY <2>3, <2>4, SettledOK
  <1>2. ~HasRead => Blank
    BY DEF HasRead, FreshUnlessMoved, Blank
  <1>3. \A s \in Slots : (HasRead => Fresh(s)) => Fresh(s)
    BY <1>2, BlankFresh
  <1>4. \A s \in Slots : Fresh(s) => Fresh(s)'
    BY <1>0, <1>1 DEF Fresh
  <1> QED
    BY <1>0, <1>1, <1>3, <1>4, FreshPage DEF FreshUnlessMoved

LEMMA NextFresh == Local /\ Guarded /\ FreshUnlessMoved /\ [Next]_vars => FreshUnlessMoved'
  <1> SUFFICES ASSUME Local, Guarded, FreshUnlessMoved, [Next]_vars, page' = "book", who' = "owner"
               PROVE  FreshUnlessMoved'
    BY DEF FreshUnlessMoved
  <1>1. CASE UNCHANGED vars
    BY <1>1 DEF vars, client, deskVars, FreshUnlessMoved, Fresh, ActiveOn
  <1>2. ASSUME Navigation PROVE FreshUnlessMoved'
    <2>1. PICK p, v, ld : Opens(p, v, ld) /\ Mount(p, v, ld)
      BY <1>2, GoesSomewhere
    <2>2. PICK m \in Months : view' = Book(m) /\ load' = Effect("days", m) /\ aux' = None
      BY <2>1 DEF Mount, Opens
    <2>3. Blank'
      BY <2>2 DEF Blank, Book, Effect
    <2>4. \A s : Fresh(s)'
      BY <2>3 DEF Blank, Fresh, Nothing
    <2> QED
      BY <2>3, <2>4 DEF FreshUnlessMoved, Blank
  <1>3. ASSUME ~Navigation, Step PROVE page = "book" /\ who = "owner"
    BY <1>3, StepKinds, BookAsks
       DEF Server, ServeLoad, ServeAux, LoadArrives, LoadFails, AuxArrives, AuxFails, ActArrives,
           ActRefused, ActFails, Landing, TypeText, PickCategory, Debounce, TurnMonth, SelectDay,
           SelectSlot, OpenDetail, CloseDetail, CancelBooking
  <1>4. ASSUME Server, Watch, page = "book", who = "owner" PROVE FreshUnlessMoved'
    BY <1>4, FreshServed DEF Server
  <1>5. ASSUME Landing, page = "book" PROVE FALSE
    BY <1>5 DEF Landing, TypeText, PickCategory, Debounce
  <1>6. ASSUME ActArrives \/ ActRefused \/ ActFails, page = "book", who = "owner" PROVE FALSE
    BY <1>6 DEF ActArrives, ActRefused, ActFails, Guarded
  <1>7. ASSUME Confirm \/ CancelModal \/ (OpenBook /\ who # "guest"), who = "owner" PROVE FALSE
    BY <1>7, BookAsks, DeskConstantsOK DEF Guarded
  <1>8. ASSUME (\E b \in Ids : OpenDetail(b)) \/ CloseDetail \/ CancelBooking, page = "book" PROVE FALSE
    BY <1>8 DEF OpenDetail, CloseDetail, CancelBooking
  <1>9. CASE Step /\ Watch
    BY <1>2, <1>3, <1>4, <1>5, <1>6, <1>7, <1>8, <1>9, StepKinds, FreshEffects, FreshCalendar
  <1> QED
    BY <1>1, <1>9 DEF Next

LEMMA FreshMatches ==
  ASSUME Local, Held, FreshUnlessMoved
  PROVE  OrphanMeansMoved
  <1> SUFFICES ASSUME page = "book", who = "owner", view.owned # None, NEW s \in Shown(view), s \notin moved
               PROVE  Classify(view, s) # "orphan"
    BY DEF OrphanMeansMoved
  <1>1. s \in Slots /\ view.days[s] \in {"OPEN", "BLOCKED", "BOOKED"} /\ s \in DOMAIN view.days
    BY DEF Shown, Local, PageOK, BookState, Days, SlotsIn
  <1>2. view.days[s] = slot[s] /\ (s \in DOMAIN view.owned <=> ActiveOn(s) # {})
    BY <1>1 DEF FreshUnlessMoved, Fresh
  <1>3. view.days[s] = "BOOKED" => s \in DOMAIN view.owned
    BY <1>1, <1>2 DEF Held
  <1> QED
    BY <1>1, <1>3 DEF Classify

\* The owner's calendar shows a slot as booked by nobody only when the slot
\* changed between its two reads: the join itself never loses a booking.
THEOREM OrphansHaveMoved == Spec => []OrphanMeansMoved
  <1>1. Init => FreshUnlessMoved
    BY DEF Init, FreshUnlessMoved
  <1>2. Spec => []FreshUnlessMoved
    BY <1>1, GuardedInvariant, NextFresh, PTL DEF Spec
  <1> QED
    BY <1>2, LocalInvariant, HeldInvariant, FreshMatches, PTL

----------------------------------------------------------------------------
(* Types *)

\* The variables of the booker's pages and of the booking API keep their types.
THEOREM BookerTypes == Spec => []TypeOK
  <1>1. Local => TypeOK
    BY DEF Local, DeskShape, DataOK, DeskTypeOK, PlaceOK, ActFits, TypeOK
  <1> QED
    BY <1>1, LocalInvariant, PTL
=============================================================================
