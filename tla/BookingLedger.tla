--------------------------- MODULE BookingLedger ---------------------------
(***************************************************************************)
(* What the booking service promises its users: a ledger in which a slot   *)
(* that is on offer is sold to one booking at a time, in single steps, for *)
(* as long as nobody acts on outdated information.  Holds, locks and       *)
(* requests are not visible here.                                          *)
(***************************************************************************)
CONSTANTS Slots, Pages, Bookings, NoBooking

VARIABLES
  offer,   \* offer[s]: "absent", "open", "taken", "blocked" or "withdrawn"
  owner,   \* owner[s]: the booking that has s, or NoBooking
  issued,  \* the bookings that have ever been accepted
  trusted  \* nobody has acted on outdated information yet

vars == <<offer, owner, issued, trusted>>

TypeOK ==
  /\ offer \in [Slots -> {"absent", "open", "taken", "blocked", "withdrawn"}]
  /\ owner \in [Slots -> Bookings \cup {NoBooking}]
  /\ issued \subseteq Bookings
  /\ trusted \in BOOLEAN

Init ==
  /\ offer = [s \in Slots |-> "absent"]
  /\ owner = [s \in Slots |-> NoBooking]
  /\ issued = {}
  /\ trusted = TRUE

\* The host's slots move together from one of the states in from to to.
Move(S, from, to) ==
  /\ \A s \in S : offer[s] \in from
  /\ offer' = [s \in Slots |-> IF s \in S THEN to ELSE offer[s]]
  /\ UNCHANGED <<owner, issued>>

Publish(S)  == Move(S, {"absent"}, "open")
Withdraw(S) == Move(S, {"open", "blocked"}, "withdrawn")
Block(s)    == Move({s}, {"open"}, "blocked")
Unblock(s)  == Move({s}, {"blocked"}, "open")

\* The host gives up a page: its slots, and the bookings that have them.
Discontinue(P) ==
  /\ offer' = [s \in Slots |-> IF s \in P THEN "withdrawn" ELSE offer[s]]
  /\ owner' = [s \in Slots |-> IF s \in P THEN NoBooking ELSE owner[s]]
  /\ UNCHANGED issued

\* A new booking takes an open slot.
Take(s, b) ==
  /\ offer[s] = "open"
  /\ b \notin issued
  /\ offer' = [offer EXCEPT ![s] = "taken"]
  /\ owner' = [owner EXCEPT ![s] = b]
  /\ issued' = issued \cup {b}

\* The booking that has the slot gives it back.
GiveBack(s) ==
  /\ offer[s] = "taken"
  /\ offer' = [offer EXCEPT ![s] = "open"]
  /\ owner' = [owner EXCEPT ![s] = NoBooking]
  /\ UNCHANGED issued

Sale ==
  \/ \E S \in SUBSET Slots : Publish(S) \/ Withdraw(S)
  \/ \E P \in Pages : Discontinue(P)
  \/ \E s \in Slots : \/ Block(s) \/ Unblock(s) \/ GiveBack(s)
                      \/ \E b \in Bookings : Take(s, b)

\* Once somebody has acted on outdated information, offers and owners are no
\* longer to be relied on.  What is withdrawn stays withdrawn all the same, and
\* no booking is forgotten.
Distrusted ==
  /\ ~trusted'
  /\ issued \subseteq issued'
  /\ \A s \in Slots : offer[s] = "withdrawn" => offer'[s] = "withdrawn"

Next == (trusted /\ trusted' /\ Sale) \/ Distrusted

Spec == Init /\ [][Next]_vars
=============================================================================
