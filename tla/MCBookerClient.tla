--------------------------- MODULE MCBookerClient ---------------------------
(* An instance of BookerClient for TLC: one slot, in the first of two months, *)
(* and what else goes on while each page is shown.                            *)
EXTENDS BookerClient, TLC
CONSTANTS s1
MCMonthOf == s1 :> 1
MCLinks == {<<"elsewhere", "landing">>, <<"landing", "book">>, <<"elsewhere", "book">>,
            <<"elsewhere", "bookings">>, <<"book", "bookings">>, <<"bookings", "detail">>,
            <<"detail", "bookings">>, <<"console", "bookings">>}

OnBookPage == {"hold", "block", "unblock", "approve", "close", "delete"}
MCJobs ==
  [at \in ({"guest"} \cup Roles) \X {"elsewhere", "console", "login", "landing", "book", "bookings", "detail"} |->
     CASE at = <<"owner", "book">> -> OnBookPage \cup {"book"}
       [] at[1] # "guest" /\ at[2] = "book" -> OnBookPage
       [] at[2] \in {"bookings", "detail"} -> {"approve", "close", "delete"}
       [] OTHER -> {}]
Sym == Permutations(Tokens) \cup Permutations(Ids)
=============================================================================
