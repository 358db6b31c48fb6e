--------------------------- MODULE MCReservation ---------------------------
(* Instances of Reservation for TLC: values of its function constants and *)
(* the symmetries of its sets of model values.                            *)
EXTENDS Reservation, TLC

Always0 == [s \in Slots |-> 0]
Always1 == [s \in Slots |-> 1]
Always2 == [s \in Slots |-> 2]

SymAll == Permutations(Users) \cup Permutations(Keys) \cup Permutations(Bookings)
          \cup Permutations(Tokens) \cup Permutations(Workers) \cup Permutations(Slots)
\* Fewer permutations to try per state when there are many slots and bookings.
SymLimit == Permutations(Slots) \cup Permutations(Bookings) \cup Permutations(Workers)
            \cup Permutations(Tokens)
=============================================================================
