--------------------------- MODULE SessionProofs ---------------------------
(***************************************************************************)
(* Theorems about Session, for any number of tabs, requests and tokens.    *)
(***************************************************************************)
EXTENDS Session, TLAPS

Requests == {"sign_in", "refresh"} \cup SignOuts

\* CallOK(r), of the given redis and started.
Fits(r, kept, begun) ==
  /\ r.pc = "del" => r.sent \in Tokens /\ r.of \in begun /\ kept[r.sent] \in {r.of, None}
  /\ r.pc = "store" /\ r.op = "refresh" => r.of \in begun
  /\ r.pc \in {"del", "get"} => r.op = "refresh"
  /\ r.pc \in Answered => r.tab \in Tabs

----------------------------------------------------------------------------
(* Types *)

LEMMA IdleIsCall == Idle \in Call
  BY DEF Idle, Call

LEMMA NewCallType ==
  ASSUME TypeOK, NEW t \in Tabs, NEW o \in Requests
  PROVE  /\ NewCall(o, t) \in Call
         /\ NewCall(o, t).op = o /\ NewCall(o, t).tab = t
         /\ NewCall(o, t).pc = FirstStep[o]
         /\ NewCall(o, t).pc \in {"store", "get", "logout"}
         /\ NewCall(o, t).pc = "store" => o = "sign_in"
         /\ NewCall(o, t).pc = "get" => o = "refresh"
  <1>1. NewCall(o, t) = [op |-> o, pc |-> FirstStep[o], tab |-> t, sent |-> cookie,
                         of |-> None, minted |-> None]
    BY DEF NewCall
  <1>2. /\ FirstStep[o] \in {"store", "get", "logout"}
        /\ FirstStep[o] = "store" => o = "sign_in"
        /\ FirstStep[o] = "get" => o = "refresh"
    BY DEF FirstStep, Requests, SignOuts
  <1>3. cookie \in Tokens \cup {None}
    BY DEF TypeOK
  <1> QED
    BY <1>1, <1>2, <1>3 DEF Call, Served, Requests

\* Sending leaves every call as cs has it, or makes it a new one.
LEMMA Sent ==
  ASSUME NEW t \in Tabs, NEW ops \in SUBSET Requests, NEW cs, Send(t, ops, cs),
         NEW c \in Calls
  PROVE  \/ call'[c] = cs[c]
         \/ \E o \in ops : call'[c] = NewCall(o, t) /\ call[c] = Idle
  <1>1. PICK at \in [ops -> {x \in Calls : call[x] = Idle}] :
          call' = [x \in Calls |-> IF \E o \in ops : at[o] = x
                                   THEN NewCall(CHOOSE o \in ops : at[o] = x, t)
                                   ELSE cs[x]]
    BY DEF Send
  <1>2. CASE \E o \in ops : at[o] = c
    <2> DEFINE o == CHOOSE o \in ops : at[o] = c
    <2>1. o \in ops /\ at[o] = c
      BY <1>2
    <2>2. call[c] = Idle
      BY <2>1
    <2>3. call'[c] = NewCall(o, t)
      BY <1>1, <1>2
    <2> QED
      BY <2>1, <2>2, <2>3
  <1>3. CASE ~\E o \in ops : at[o] = c
    BY <1>1, <1>3
  <1> QED
    BY <1>2, <1>3

LEMMA SentType ==
  ASSUME TypeOK, NEW t \in Tabs, NEW ops \in SUBSET Requests, NEW cs \in [Calls -> Call],
         Send(t, ops, cs), \A c \in Calls : CallOK(cs[c]),
         redis' = redis, started' = started
  PROVE  call' \in [Calls -> Call] /\ \A c \in Calls : CallOK(call[c])'
  <1>1. DOMAIN call' = Calls /\ call' = [c \in Calls |-> call'[c]]
    BY DEF Send
  <1>2. ASSUME NEW c \in Calls PROVE call'[c] \in Call /\ CallOK(call[c])'
    <2>1. CASE call'[c] = cs[c]
      BY <2>1 DEF CallOK
    <2>2. ASSUME NEW o \in ops, call'[c] = NewCall(o, t) PROVE call'[c] \in Call /\ CallOK(call[c])'
      BY <2>2, NewCallType DEF CallOK, Answered
    <2> QED
      BY <2>1, <2>2, Sent
  <1> QED
    BY <1>1, <1>2

\* What a page load leaves of the calls of its tab.
LEMMA OrphansType ==
  ASSUME TypeOK, NEW t \in Tabs
  PROVE  Orphans(t) \in [Calls -> Call] /\ \A c \in Calls : CallOK(Orphans(t)[c])
  <1>1. ASSUME NEW c \in Calls PROVE Orphans(t)[c] \in Call /\ CallOK(Orphans(t)[c])
    <2>1. call[c] \in Call /\ CallOK(call[c])
      BY DEF TypeOK
    <2>2. CASE call[c].tab # t
      BY <2>1, <2>2 DEF Orphans
    <2>3. CASE call[c].tab = t /\ call[c].pc \in Answered
      BY <2>3, IdleIsCall DEF Orphans, CallOK, Idle, Answered
    <2>4. CASE call[c].tab = t /\ call[c].pc \notin Answered
      <3>1. Orphans(t)[c] = [call[c] EXCEPT !.tab = None]
        BY <2>4 DEF Orphans
      <3> QED
        BY <2>1, <2>4, <3>1 DEF CallOK, Call
    <2> QED
      BY <2>2, <2>3, <2>4
  <1> QED
    BY <1>1 DEF Orphans

LEMMA FitsIsCallOK ==
  ASSUME NEW c \in Calls
  PROVE  /\ CallOK(call[c]) <=> Fits(call[c], redis, started)
         /\ CallOK(call[c])' <=> Fits(call'[c], redis', started')
  BY DEF CallOK, Fits

\* A step that changes one call only: Redis gives up tokens, or gets a new one.
LEMMA OneCallType ==
  ASSUME TypeOK, NEW c \in Calls, NEW x \in Call,
         call' = [call EXCEPT ![c] = x], Fits(x, redis', started'),
         started \subseteq started',
         \A m \in Tokens : redis'[m] # redis[m] => redis'[m] = None \/ m \notin TokensInUse
  PROVE  call' \in [Calls -> Call] /\ \A y \in Calls : CallOK(call[y])'
  <1>1. call' \in [Calls -> Call] /\ call'[c] = x
    BY DEF TypeOK
  <1>2. ASSUME NEW y \in Calls, y # c PROVE Fits(call'[y], redis', started')
    <2>1. call'[y] = call[y] /\ Fits(call[y], redis, started)
      BY <1>2, FitsIsCallOK DEF TypeOK
    <2>2. call[y].sent \in TokensInUse
      BY DEF TokensInUse
    <2> QED
      BY <2>1, <2>2 DEF Fits
  <1> QED
    BY <1>1, <1>2, FitsIsCallOK

LEMMA IdleFits ==
  ASSUME NEW kept, NEW begun
  PROVE  Fits(Idle, kept, begun)
  BY DEF Fits, Idle, Answered

\* The handler's next state, or Idle when nobody awaits its answer.
LEMMA ReplyType ==
  ASSUME TypeOK, NEW c \in Calls, NEW r \in Call, r.pc \in Answered, Reply(c, r)
  PROVE  \E x \in Call : /\ call' = [call EXCEPT ![c] = x]
                         /\ x = Idle \/ x = r
                         /\ \A kept, begun : Fits(x, kept, begun)
  <1>1. CASE r.tab = None
    BY <1>1, IdleIsCall, IdleFits DEF Reply
  <1>2. CASE r.tab # None
    <2>1. r.tab \in Tabs
      BY <1>2 DEF Call
    <2>2. \A kept, begun : Fits(r, kept, begun)
      BY <2>1 DEF Fits, Answered
    <2> QED
      BY <1>2, <2>2 DEF Reply
  <1> QED
    BY <1>1, <1>2

\* A call that is served, and what it becomes.
LEMMA CallFields ==
  ASSUME NEW r \in Call, NEW pc \in {"idle"} \cup Served \cup Answered
  PROVE  /\ [r EXCEPT !.pc = pc] \in Call
         /\ [r EXCEPT !.pc = pc].pc = pc
         /\ \A n \in Tokens : /\ [r EXCEPT !.pc = pc, !.minted = n] \in Call
                             /\ [r EXCEPT !.pc = pc, !.minted = n].pc = pc
         /\ \A f \in SignIns : /\ [r EXCEPT !.pc = pc, !.of = f] \in Call
                              /\ [r EXCEPT !.pc = pc, !.of = f].pc = pc
  BY DEF Call

LEMMA AnswerFields ==
  ASSUME NEW r \in Call
  PROVE  /\ [r EXCEPT !.pc = "answer"] \in Call
         /\ [r EXCEPT !.pc = "answer"].pc \in Answered
         /\ [r EXCEPT !.pc = "refused"] \in Call
         /\ [r EXCEPT !.pc = "refused"].pc \in Answered
         /\ \A n \in Tokens : /\ [r EXCEPT !.pc = "answer", !.minted = n] \in Call
                             /\ [r EXCEPT !.pc = "answer", !.minted = n].pc \in Answered
  BY DEF Answered, Call

\* What Serve's steps do to the calls: one of them is answered, or goes on.
LEMMA AnswerType ==
  ASSUME TypeOK, NEW c \in Calls, NEW r \in Call, r.pc \in Answered, Reply(c, r),
         started \subseteq started',
         \A m \in Tokens : redis'[m] # redis[m] => redis'[m] = None \/ m \notin TokensInUse
  PROVE  call' \in [Calls -> Call] /\ \A y \in Calls : CallOK(call[y])'
  <1>1. PICK x \in Call : /\ call' = [call EXCEPT ![c] = x]
                          /\ \A kept, begun : Fits(x, kept, begun)
    BY ReplyType
  <1>2. Fits(x, redis', started')
    BY <1>1
  <1> QED
    BY <1>1, <1>2, OneCallType

LEMMA ServeType ==
  ASSUME TypeOK, NEW c \in Calls, Serve(c)
  PROVE  TypeOK'
  <1>0. /\ call[c] \in Call /\ Fits(call[c], redis, started)
        /\ redis \in [Tokens -> started \cup {None}]
    BY FitsIsCallOK DEF TypeOK
  <1>1. CASE SignInStore(c)
    <2>1. PICK n \in Tokens \ TokensInUse, f \in SignIns \ started :
            /\ redis' = [redis EXCEPT ![n] = f]
            /\ started' = started \cup {f}
            /\ Reply(c, [call[c] EXCEPT !.pc = "answer", !.minted = n])
      BY <1>1 DEF SignInStore
    <2>2. /\ [call[c] EXCEPT !.pc = "answer", !.minted = n] \in Call
          /\ [call[c] EXCEPT !.pc = "answer", !.minted = n].pc \in Answered
      BY <1>0, AnswerFields
    <2>3. \A m \in Tokens : redis'[m] # redis[m] => redis'[m] = None \/ m \notin TokensInUse
      BY <1>0, <2>1
    <2>4. call' \in [Calls -> Call] /\ \A y \in Calls : CallOK(call[y])'
      BY <2>1, <2>2, <2>3, AnswerType
    <2> QED
      BY <1>1, <2>1, <2>4 DEF SignInStore, TypeOK
  <1>2. CASE RefreshGet(c)
    <2>1. CASE call[c].sent # None /\ redis[call[c].sent] # None
      <3>1. call[c].sent \in Tokens /\ redis[call[c].sent] \in started /\ started \subseteq SignIns
        BY <1>0, <2>1 DEF Call, TypeOK
      <3>2. PICK x : x = [call[c] EXCEPT !.pc = "del", !.of = redis[call[c].sent]]
        OBVIOUS
      <3>3. call' = [call EXCEPT ![c] = x]
        BY <1>0, <1>2, <2>1, <3>2 DEF RefreshGet, TypeOK
      <3>4. x \in Call /\ x.pc = "del"
        BY <1>0, <3>1, <3>2, CallFields DEF Served
      <3>5. x.sent = call[c].sent /\ x.op = call[c].op /\ x.of = redis[call[c].sent]
        BY <1>0, <3>2 DEF Call
      <3>6. call[c].op = "refresh"
        BY <1>0, <1>2 DEF RefreshGet, Fits
      <3>7. Fits(x, redis', started')
        BY <1>2, <3>1, <3>4, <3>5, <3>6 DEF Fits, RefreshGet, Answered
      <3>8. call' \in [Calls -> Call] /\ \A y \in Calls : CallOK(call[y])'
        BY <1>2, <3>3, <3>4, <3>7, OneCallType DEF RefreshGet
      <3> QED
        BY <1>2, <3>8 DEF RefreshGet, TypeOK
    <2>2. CASE ~(call[c].sent # None /\ redis[call[c].sent] # None)
      <3>1. Reply(c, [call[c] EXCEPT !.pc = "refused"])
        BY <1>2, <2>2 DEF RefreshGet
      <3>2. /\ [call[c] EXCEPT !.pc = "refused"] \in Call
            /\ [call[c] EXCEPT !.pc = "refused"].pc \in Answered
        BY <1>0, AnswerFields
      <3>3. call' \in [Calls -> Call] /\ \A y \in Calls : CallOK(call[y])'
        BY <1>2, <3>1, <3>2, AnswerType DEF RefreshGet
      <3> QED
        BY <1>2, <3>3 DEF RefreshGet, TypeOK
    <2> QED
      BY <2>1, <2>2
  <1>3. CASE RefreshDel(c)
    <2>1. redis' = [redis EXCEPT ![call[c].sent] = None] /\ call[c].pc = "del"
      BY <1>3 DEF RefreshDel
    <2>2. PICK x : x = [call[c] EXCEPT !.pc = "store"]
      OBVIOUS
    <2>3. call' = [call EXCEPT ![c] = x]
      BY <1>3, <2>2 DEF RefreshDel
    <2>4. x \in Call /\ x.pc = "store" /\ x.of = call[c].of
      BY <1>0, <2>2, CallFields DEF Served, Call
    <2>5. Fits(x, redis', started')
      BY <1>0, <1>3, <2>1, <2>4 DEF Fits, RefreshDel, Answered
    <2>6. \A m \in Tokens : redis'[m] # redis[m] => redis'[m] = None
      BY <1>0, <2>1
    <2>7. call' \in [Calls -> Call] /\ \A y \in Calls : CallOK(call[y])'
      BY <1>3, <2>3, <2>4, <2>5, <2>6, OneCallType DEF RefreshDel
    <2> QED
      BY <1>3, <2>7 DEF RefreshDel, TypeOK
  <1>4. CASE RefreshStore(c)
    <2>1. PICK n \in Tokens \ TokensInUse :
            /\ redis' = [redis EXCEPT ![n] = call[c].of]
            /\ Reply(c, [call[c] EXCEPT !.pc = "answer", !.minted = n])
      BY <1>4 DEF RefreshStore
    <2>2. /\ [call[c] EXCEPT !.pc = "answer", !.minted = n] \in Call
          /\ [call[c] EXCEPT !.pc = "answer", !.minted = n].pc \in Answered
      BY <1>0, AnswerFields
    <2>3. \A m \in Tokens : redis'[m] # redis[m] => redis'[m] = None \/ m \notin TokensInUse
      BY <1>0, <2>1
    <2>4. call' \in [Calls -> Call] /\ \A y \in Calls : CallOK(call[y])'
      BY <1>4, <2>1, <2>2, <2>3, AnswerType DEF RefreshStore
    <2>5. call[c].of \in started
      BY <1>0, <1>4 DEF RefreshStore, Fits
    <2> QED
      BY <1>4, <2>1, <2>4, <2>5 DEF RefreshStore, TypeOK
  <1>5. CASE LogoutDel(c)
    <2>1. Reply(c, [call[c] EXCEPT !.pc = "answer"])
      BY <1>5 DEF LogoutDel
    <2>2. /\ [call[c] EXCEPT !.pc = "answer"] \in Call
          /\ [call[c] EXCEPT !.pc = "answer"].pc \in Answered
      BY <1>0, AnswerFields
    <2>3. \A m \in Tokens : redis'[m] # redis[m] => redis'[m] = None
      BY <1>5 DEF LogoutDel
    <2>4. call' \in [Calls -> Call] /\ \A y \in Calls : CallOK(call[y])'
      BY <1>5, <2>1, <2>2, <2>3, AnswerType DEF LogoutDel
    <2> QED
      BY <1>5, <2>4 DEF LogoutDel, TypeOK
  <1> QED
    BY <1>1, <1>2, <1>3, <1>4, <1>5 DEF Serve

\* Steps that leave the calls as they are, but for a token Redis forgets.
LEMMA SameCallsType ==
  ASSUME TypeOK, call' = call, started' = started,
         \A m \in Tokens : redis'[m] # redis[m] => redis'[m] = None
  PROVE  call' \in [Calls -> Call] /\ \A y \in Calls : CallOK(call[y])'
  BY FitsIsCallOK DEF TypeOK, Fits

LEMMA FailuresType ==
  ASSUME TypeOK, \/ \E c \in Calls : Crash(c)
                 \/ \E n \in Tokens : ExpireRefresh(n)
                 \/ \E a \in Access : ExpireAccess(a)
  PROVE  TypeOK'
  <1>1. CASE \E c \in Calls : Crash(c)
    <2>1. PICK c \in Calls : Crash(c)
      BY <1>1
    <2>2. call[c] \in Call /\ Reply(c, [call[c] EXCEPT !.pc = "refused"])
      BY <2>1 DEF Crash, TypeOK
    <2>3. call' \in [Calls -> Call] /\ \A y \in Calls : CallOK(call[y])'
      BY <2>1, <2>2, AnswerFields, AnswerType DEF Crash
    <2> QED
      BY <2>1, <2>3 DEF Crash, TypeOK
  <1>2. CASE \E n \in Tokens : ExpireRefresh(n)
    <2>1. PICK n \in Tokens : ExpireRefresh(n)
      BY <1>2
    <2>2. \A m \in Tokens : redis'[m] # redis[m] => redis'[m] = None
      BY <2>1 DEF ExpireRefresh, TypeOK
    <2>3. call' \in [Calls -> Call] /\ \A y \in Calls : CallOK(call[y])'
      BY <2>1, <2>2, SameCallsType DEF ExpireRefresh
    <2> QED
      BY <2>1, <2>3 DEF ExpireRefresh, TypeOK
  <1>3. CASE \E a \in Access : ExpireAccess(a)
    <2>1. PICK a \in Access : ExpireAccess(a)
      BY <1>3
    <2>2. call' \in [Calls -> Call] /\ \A y \in Calls : CallOK(call[y])'
      BY <2>1, SameCallsType DEF ExpireAccess
    <2> QED
      BY <2>1, <2>2 DEF ExpireAccess, TypeOK
  <1> QED
    BY <1>1, <1>2, <1>3

\* The script's end of a call: the tab and the access token afterwards.
LEMMA ScriptType ==
  ASSUME TypeOK, NEW t \in Tabs,
         \/ SignedOut(t) \/ RefreshFailed(t)
         \/ \E a \in Access : /\ access' = a
                              /\ \/ tab' = [tab EXCEPT ![t].seen = a,
                                               ![t].page = IF @ = "leaving" THEN @ ELSE "protected"]
                                 \/ tab' = [tab EXCEPT ![t].seen = a, ![t].mount = FALSE,
                                               ![t].api = IF @ = "waiting" THEN "idle" ELSE @]
  PROVE  access' \in Access \cup {None} /\ tab' \in [Tabs -> TabState]
  <1>1. access \in Access \cup {None} /\ tab \in [Tabs -> TabState]
    BY DEF TypeOK
  <1>2. tab[t] \in TabState
    BY <1>1
  <1>3. CASE SignedOut(t)
    BY <1>1, <1>2, <1>3 DEF SignedOut, TabState, Pages
  <1>4. CASE RefreshFailed(t)
    <2>0. /\ tab[t].page \in Pages /\ tab[t].seen \in Access \cup {None}
          /\ tab[t].api \in {"idle", "sent", "waiting"}
      BY <1>2 DEF TabState
    <2>1. CASE tab[t].api = "waiting"
      <3>1. /\ access' = None
            /\ tab' = [tab EXCEPT ![t] =
                 [page |-> IF tab[t].page = "login" THEN "login" ELSE "leaving",
                  seen |-> None, api |-> "idle", mount |-> FALSE]]
        BY <1>4, <2>1 DEF RefreshFailed
      <3> QED
        BY <1>1, <3>1 DEF TabState, Pages
    <2>2. CASE tab[t].api # "waiting" /\ tab[t].mount
      <3>1. /\ access' = None
            /\ tab' = [tab EXCEPT ![t] = [page |-> Unguarded(tab[t].page), seen |-> None,
                                         api |-> tab[t].api, mount |-> FALSE]]
        BY <1>4, <2>2, Zenon DEF RefreshFailed
      <3>2. Unguarded(tab[t].page) \in Pages
        BY <2>0 DEF Unguarded, Pages
      <3> QED
        BY <1>1, <2>0, <3>1, <3>2 DEF TabState
    <2>3. CASE tab[t].api # "waiting" /\ ~tab[t].mount
      <3>1. access' = access /\ tab' = [tab EXCEPT ![t].mount = FALSE]
        BY <1>4, <2>3, Zenon DEF RefreshFailed
      <3> QED
        BY <1>1, <1>2, <3>1 DEF TabState
    <2> QED
      BY <2>1, <2>2, <2>3
  <1>5. ASSUME NEW a \in Access,
               tab' = [tab EXCEPT ![t].seen = a,
                                  ![t].page = IF @ = "leaving" THEN @ ELSE "protected"]
        PROVE  tab' \in [Tabs -> TabState]
    BY <1>1, <1>2, <1>5 DEF TabState, Pages
  <1>6. ASSUME NEW a \in Access,
               tab' = [tab EXCEPT ![t].seen = a, ![t].mount = FALSE,
                                  ![t].api = IF @ = "waiting" THEN "idle" ELSE @]
        PROVE  tab' \in [Tabs -> TabState]
    BY <1>1, <1>2, <1>6 DEF TabState, Pages
  <1> QED
    BY <1>3, <1>4, <1>5, <1>6

LEMMA FailedType ==
  ASSUME TypeOK, NEW c \in Calls, call[c].tab \in Tabs, Failed(c)
  PROVE  access' \in Access \cup {None} /\ tab' \in [Tabs -> TabState]
  <1>1. CASE call[c].op = "refresh"
    BY <1>1, ScriptType DEF Failed
  <1>2. CASE call[c].op \in SignOuts
    <2>1. SignedOut(call[c].tab)
      BY <1>2 DEF Failed, SignOuts
    <2> QED
      BY <2>1, ScriptType
  <1>3. CASE call[c].op \notin {"refresh"} \cup SignOuts
    <2>1. access' = access /\ tab' = tab
      BY <1>3 DEF Failed
    <2> QED
      BY <2>1 DEF TypeOK
  <1> QED
    BY <1>1, <1>2, <1>3

LEMMA FreedType ==
  ASSUME TypeOK, NEW c \in Calls, call' = [call EXCEPT ![c] = Idle],
         redis' = redis, started' = started
  PROVE  call' \in [Calls -> Call] /\ \A y \in Calls : CallOK(call[y])'
  BY IdleIsCall, IdleFits, OneCallType

LEMMA DeliverType ==
  ASSUME TypeOK, NEW c \in Calls, Deliver(c) \/ Lose(c)
  PROVE  TypeOK'
  <1>0. call[c] \in Call /\ Fits(call[c], redis, started)
    BY FitsIsCallOK DEF TypeOK
  <1>00. call[c].pc \in Answered => call[c].tab \in Tabs
    BY <1>0 DEF Fits
  <1>1. CASE Arrive(c)
    <2>1. PICK x : x = [call[c] EXCEPT !.pc = "json"]
      OBVIOUS
    <2>2. call' = [call EXCEPT ![c] = x]
      BY <1>1, <2>1 DEF Arrive
    <2>3. x \in Call /\ x.pc = "json" /\ x.tab = call[c].tab /\ call[c].tab \in Tabs
      BY <1>0, <1>00, <1>1, <2>1 DEF Arrive, Call, Answered
    <2>4. Fits(x, redis', started')
      BY <2>3 DEF Fits, Answered
    <2>5. call' \in [Calls -> Call] /\ \A y \in Calls : CallOK(call[y])'
      BY <1>1, <2>2, <2>3, <2>4, OneCallType DEF Arrive
    <2>6. cookie' \in Tokens \cup {None}
      BY <1>0, <1>1 DEF Arrive, Call
    <2> QED
      BY <1>1, <2>5, <2>6 DEF Arrive, TypeOK
  <1>2. CASE SignedIn(c) \/ Refreshed(c) \/ LogoutDone(c)
    <2>1. call[c].tab \in Tabs
      BY <1>00, <1>2 DEF SignedIn, Refreshed, LogoutDone, Answered
    <2>2. access' \in Access \cup {None} /\ tab' \in [Tabs -> TabState]
      BY <1>2, <2>1, ScriptType DEF SignedIn, Refreshed, LogoutDone, NewAccess
    <2>3. call' = [call EXCEPT ![c] = Idle] /\ UNCHANGED <<redis, cookie, started, staleDelete>>
      BY <1>2 DEF SignedIn, Refreshed, LogoutDone
    <2>4. call' \in [Calls -> Call] /\ \A y \in Calls : CallOK(call[y])'
      BY <2>3, FreedType
    <2>5. expired' \subseteq Access
      BY <1>2 DEF SignedIn, Refreshed, LogoutDone, NewAccess, TypeOK
    <2> QED
      BY <2>2, <2>3, <2>4, <2>5 DEF TypeOK
  <1>3. CASE Refused(c)
    <2>1. call[c].tab \in Tabs
      BY <1>00, <1>3 DEF Refused, Answered
    <2>2. access' \in Access \cup {None} /\ tab' \in [Tabs -> TabState]
      BY <1>3, <2>1, FailedType DEF Refused
    <2>3. UNCHANGED <<redis, cookie, expired, started, staleDelete>>
      BY <1>3 DEF Refused, Failed
    <2>4. call' \in [Calls -> Call] /\ \A y \in Calls : CallOK(call[y])'
      BY <1>3, <2>3, FreedType DEF Refused
    <2> QED
      BY <2>2, <2>3, <2>4 DEF TypeOK
  <1>4. CASE Lose(c)
    <2>1. call[c].tab \in Tabs
      BY <1>0, <1>4 DEF Lose, Call
    <2>2. access' \in Access \cup {None} /\ tab' \in [Tabs -> TabState]
      BY <1>4, <2>1, FailedType DEF Lose
    <2>3. UNCHANGED <<redis, cookie, expired, started, staleDelete>>
      BY <1>4 DEF Lose, Failed
    <2>4. call' \in [Calls -> Call] /\ \A y \in Calls : CallOK(call[y])'
      <3>1. CASE call[c].pc \in Served
        <4>1. PICK x : x = [call[c] EXCEPT !.tab = None]
          OBVIOUS
        <4>2. call' = [call EXCEPT ![c] = x]
          BY <1>4, <3>1, <4>1 DEF Lose, TypeOK
        <4>3. /\ x \in Call /\ x.pc = call[c].pc /\ x.op = call[c].op
              /\ x.of = call[c].of /\ x.sent = call[c].sent
          BY <1>0, <4>1 DEF Call
        <4>4. Fits(x, redis', started')
          BY <1>0, <2>3, <3>1, <4>3 DEF Fits, Served, Answered
        <4> QED
          BY <2>3, <4>2, <4>3, <4>4, OneCallType
      <3>2. CASE call[c].pc \notin Served
        <4>1. call' = [call EXCEPT ![c] = Idle]
          BY <1>4, <3>2 DEF Lose, TypeOK
        <4> QED
          BY <2>3, <4>1, FreedType
      <3> QED
        BY <3>1, <3>2
    <2> QED
      BY <2>2, <2>3, <2>4 DEF TypeOK
  <1> QED
    BY <1>1, <1>2, <1>3, <1>4 DEF Deliver

LEMMA LoadType ==
  ASSUME TypeOK, NEW t \in Tabs, NEW page \in Pages, Load(t, page)
  PROVE  TypeOK'
  <1> DEFINE guarded == page = "protected" /\ ~Fresh(access)
             ops == (IF guarded /\ access # None THEN {"guard_sign_out"} ELSE {})
                    \cup (IF Fresh(access) THEN {} ELSE {"refresh"})
  <1>1. Send(t, ops, Orphans(t)) /\ UNCHANGED <<redis, cookie, access, expired, started, staleDelete>>
    BY DEF Load
  <1>2. ops \in SUBSET Requests
    BY DEF Requests, SignOuts
  <1>3. call' \in [Calls -> Call] /\ \A y \in Calls : CallOK(call[y])'
    BY <1>1, <1>2, OrphansType, SentType
  <1>4. tab' = [tab EXCEPT ![t] =
                 [page |-> IF guarded THEN "login" ELSE page, seen |-> access, api |-> "idle",
                  mount |-> access \in expired]]
    BY DEF Load
  <1>5. tab' \in [Tabs -> TabState]
    BY <1>4 DEF TabState, Pages, TypeOK
  <1> QED
    BY <1>1, <1>3, <1>5 DEF TypeOK

LEMMA UserType ==
  ASSUME TypeOK, NEW t \in Tabs, User(t) \/ Script(t)
  PROVE  TypeOK'
  <1>0. /\ call \in [Calls -> Call] /\ \A c \in Calls : CallOK(call[c])
        /\ tab \in [Tabs -> TabState] /\ tab[t] \in TabState
    BY DEF TypeOK
  <1>1. ASSUME NEW page \in Pages, Open(t, page) \/ (page = "login" /\ Redirected(t))
        PROVE  TypeOK'
    BY <1>1, LoadType DEF Open, Redirected
  <1>2. ASSUME NEW page \in Pages, Visit(t, page) PROVE TypeOK'
    <2> DEFINE refused == page = "protected" /\ ~Fresh(tab[t].seen)
    <2>1. /\ Send(t, IF refused /\ tab[t].seen # None THEN {"guard_sign_out"} ELSE {}, call)
          /\ tab' = [tab EXCEPT ![t].page = IF refused THEN "login" ELSE page]
          /\ UNCHANGED <<redis, cookie, access, expired, started, staleDelete>>
      BY <1>2, Zenon DEF Visit
    <2>2. call' \in [Calls -> Call] /\ \A y \in Calls : CallOK(call[y])'
      BY <1>0, <2>1, SentType DEF Requests, SignOuts
    <2>3. tab' \in [Tabs -> TabState]
      BY <1>0, <2>1 DEF TabState, Pages
    <2> QED
      BY <2>1, <2>2, <2>3 DEF TypeOK
  <1>3. CASE SignIn(t) \/ SignOut(t)
    <2>1. (Send(t, {"sign_in"}, call) \/ Send(t, {"sign_out"}, call))
          /\ UNCHANGED <<redis, cookie, access, expired, tab, started, staleDelete>>
      BY <1>3 DEF SignIn, SignOut
    <2>2. call' \in [Calls -> Call] /\ \A y \in Calls : CallOK(call[y])'
      BY <1>0, <2>1, SentType DEF Requests, SignOuts
    <2> QED
      BY <2>1, <2>2 DEF TypeOK
  <1>4. CASE ApiSend(t)
    <2>1. call' \in [Calls -> Call] /\ \A y \in Calls : CallOK(call[y])'
      BY <1>4, SameCallsType DEF ApiSend
    <2>2. tab' \in [Tabs -> TabState]
      BY <1>0, <1>4 DEF ApiSend, TabState
    <2> QED
      BY <1>4, <2>1, <2>2 DEF ApiSend, TypeOK
  <1>5. CASE ApiRefused(t)
    <2>1. Send(t, IF Refreshing(t) THEN {} ELSE {"refresh"}, call)
      BY <1>5 DEF ApiRefused
    <2>2. call' \in [Calls -> Call] /\ \A y \in Calls : CallOK(call[y])'
      BY <1>0, <1>5, <2>1, SentType DEF ApiRefused, Requests
    <2>3. tab' \in [Tabs -> TabState]
      BY <1>0, <1>5 DEF ApiRefused, TabState
    <2> QED
      BY <1>5, <2>2, <2>3 DEF ApiRefused, TypeOK
  <1> QED
    BY <1>1, <1>2, <1>3, <1>4, <1>5 DEF User, Script, Pages

LEMMA InitType == ASSUME Init PROVE TypeOK
  <1>1. \A c \in Calls : CallOK(call[c])
    BY IdleFits, FitsIsCallOK DEF Init
  <1>2. call \in [Calls -> Call]
    BY IdleIsCall DEF Init
  <1>3. tab \in [Tabs -> TabState]
    BY DEF Init, TabState, Pages
  <1> QED
    BY <1>1, <1>2, <1>3 DEF Init, TypeOK

LEMMA NextType == TypeOK /\ [Next]_vars => TypeOK'
  <1> SUFFICES ASSUME TypeOK, [Next]_vars PROVE TypeOK'
    OBVIOUS
  <1>1. ASSUME NEW c \in Calls, Serve(c) \/ Deliver(c) \/ Crash(c) \/ Lose(c) PROVE TypeOK'
    BY <1>1, ServeType, DeliverType, FailuresType
  <1>2. ASSUME NEW t \in Tabs, User(t) \/ Script(t) PROVE TypeOK'
    BY <1>2, UserType
  <1>3. CASE \/ \E a \in Access : ExpireAccess(a)
             \/ \E n \in Tokens : ExpireRefresh(n)
    BY <1>3, FailuresType
  <1>4. CASE UNCHANGED vars
    BY <1>4 DEF vars, TypeOK, CallOK
  <1> QED
    BY <1>1, <1>2, <1>3, <1>4 DEF Next

\* Every call, every tab and every token is what the model takes it for: a
\* refresh that has read its token (consume_refresh) acts for that token's user.
THEOREM SessionTypeOK == Spec => []TypeOK
  <1>1. Init => TypeOK
    BY InitType
  <1> QED
    BY <1>1, NextType, PTL DEF Spec

----------------------------------------------------------------------------
(* Rotation *)

NoNewToken == \A n \in Tokens : redis'[n] \in {redis[n], None}

Rotating(r) == r.op = "refresh" /\ r.pc = "store"

NoNewRotation ==
  \A c \in Calls : Rotating(call'[c]) => Rotating(call[c]) /\ call'[c].of = call[c].of

LEMMA OneCallRotation ==
  ASSUME TypeOK, NEW c \in Calls, NEW x, call' = [call EXCEPT ![c] = x],
         Rotating(x) => Rotating(call[c]) /\ x.of = call[c].of
  PROVE  NoNewRotation
  BY DEF NoNewRotation, TypeOK

LEMMA ReplyRotation ==
  ASSUME TypeOK, NEW c \in Calls, NEW r, Reply(c, r), r.pc # "store"
  PROVE  NoNewRotation
  <1>1. ~Rotating(r) /\ ~Rotating(Idle)
    BY DEF Rotating, Idle
  <1> QED
    BY <1>1, OneCallRotation DEF Reply

LEMMA SentRotation ==
  ASSUME TypeOK, NEW t \in Tabs, NEW ops \in SUBSET Requests, NEW cs, Send(t, ops, cs),
         \A c \in Calls : Rotating(cs[c]) => Rotating(call[c]) /\ cs[c].of = call[c].of
  PROVE  NoNewRotation
  <1>1. ASSUME NEW c \in Calls, NEW o \in ops, call'[c] = NewCall(o, t)
        PROVE  ~Rotating(call'[c])
    BY <1>1, NewCallType DEF Rotating
  <1> QED
    BY <1>1, Sent DEF NoNewRotation

\* Only a sign-in or a refresh can give a session what keeps it alive.
LEMMA StepKinds ==
  ASSUME TypeOK, [Next]_vars
  PROVE  \/ \E c \in Calls : SignInStore(c) \/ RefreshDel(c) \/ RefreshStore(c)
         \/ NoNewToken /\ NoNewRotation /\ staleDelete' = staleDelete
  <1>0. redis \in [Tokens -> started \cup {None}] /\ call \in [Calls -> Call]
    BY DEF TypeOK
  <1>1. ASSUME NEW c \in Calls, RefreshGet(c)
        PROVE  NoNewToken /\ NoNewRotation /\ staleDelete' = staleDelete
    <2>1. CASE call[c].sent # None /\ redis[call[c].sent] # None
      <3>1. PICK x : x = [call[c] EXCEPT !.pc = "del", !.of = redis[call[c].sent]]
        OBVIOUS
      <3>2. call' = [call EXCEPT ![c] = x] /\ x.pc = "del"
        BY <1>0, <1>1, <2>1, <3>1 DEF RefreshGet, Call
      <3> QED
        BY <1>1, <3>2, OneCallRotation DEF RefreshGet, NoNewToken, Rotating
    <2>2. CASE ~(call[c].sent # None /\ redis[call[c].sent] # None)
      <3>1. Reply(c, [call[c] EXCEPT !.pc = "refused"])
        BY <1>1, <2>2 DEF RefreshGet
      <3>2. [call[c] EXCEPT !.pc = "refused"].pc # "store"
        BY <1>0, AnswerFields DEF Answered
      <3> QED
        BY <1>1, <3>1, <3>2, ReplyRotation DEF RefreshGet, NoNewToken
    <2> QED
      BY <2>1, <2>2
  <1>2. ASSUME NEW c \in Calls, LogoutDel(c) \/ Crash(c)
        PROVE  NoNewToken /\ NoNewRotation /\ staleDelete' = staleDelete
    <2>1. /\ NoNewToken /\ staleDelete' = staleDelete
          /\ \/ Reply(c, [call[c] EXCEPT !.pc = "answer"])
             \/ Reply(c, [call[c] EXCEPT !.pc = "refused"])
      BY <1>2 DEF LogoutDel, Crash, NoNewToken
    <2>2. /\ [call[c] EXCEPT !.pc = "answer"].pc # "store"
          /\ [call[c] EXCEPT !.pc = "refused"].pc # "store"
      BY <1>0, AnswerFields DEF Answered
    <2> QED
      BY <2>1, <2>2, ReplyRotation
  <1>3. ASSUME NEW c \in Calls, Deliver(c) \/ Lose(c)
        PROVE  NoNewToken /\ NoNewRotation /\ staleDelete' = staleDelete
    <2>1. UNCHANGED <<redis, staleDelete>>
      BY <1>3 DEF Deliver, Arrive, SignedIn, Refreshed, LogoutDone, Refused, Lose, Failed
    <2>2. \/ call' = [call EXCEPT ![c] = [call[c] EXCEPT !.pc = "json"]]
          \/ call' = [call EXCEPT ![c] = [call[c] EXCEPT !.tab = None]]
          \/ call' = [call EXCEPT ![c] = Idle]
      BY <1>0, <1>3 DEF Deliver, Arrive, SignedIn, Refreshed, LogoutDone, Refused, Lose
    <2>3. /\ ~Rotating([call[c] EXCEPT !.pc = "json"]) /\ ~Rotating(Idle)
          /\ Rotating([call[c] EXCEPT !.tab = None]) <=> Rotating(call[c])
          /\ [call[c] EXCEPT !.tab = None].of = call[c].of
      BY <1>0 DEF Rotating, Idle, Call
    <2> QED
      BY <2>1, <2>2, <2>3, OneCallRotation DEF NoNewToken
  <1>4. ASSUME NEW t \in Tabs, User(t) \/ Script(t)
        PROVE  NoNewToken /\ NoNewRotation /\ staleDelete' = staleDelete
    <2>1. ASSUME NEW page, Load(t, page)
          PROVE  NoNewToken /\ NoNewRotation /\ staleDelete' = staleDelete
      <3>1. ASSUME NEW c \in Calls
            PROVE  Rotating(Orphans(t)[c]) => Rotating(call[c]) /\ Orphans(t)[c].of = call[c].of
        BY <1>0 DEF Orphans, Rotating, Idle, Call
      <3>2. \E ops \in SUBSET Requests : Send(t, ops, Orphans(t))
        BY <2>1 DEF Load, Requests, SignOuts
      <3> QED
        BY <2>1, <3>1, <3>2, SentRotation DEF Load, NoNewToken
    <2>2. ASSUME NEW page, Visit(t, page) \/ SignIn(t) \/ SignOut(t) \/ ApiRefused(t)
          PROVE  NoNewToken /\ NoNewRotation /\ staleDelete' = staleDelete
      <3>1. \E ops \in SUBSET Requests : Send(t, ops, call)
        BY <2>2 DEF Visit, SignIn, SignOut, ApiRefused, Requests, SignOuts
      <3>2. UNCHANGED <<redis, staleDelete>>
        BY <2>2 DEF Visit, SignIn, SignOut, ApiRefused
      <3> QED
        BY <3>1, <3>2, SentRotation DEF NoNewToken
    <2>3. CASE ApiSend(t)
      BY <2>3 DEF ApiSend, NoNewToken, NoNewRotation
    <2> QED
      BY <1>4, <2>1, <2>2, <2>3 DEF User, Script, Open, Redirected
  <1>5. CASE (\E a \in Access : ExpireAccess(a)) \/ UNCHANGED vars
    BY <1>5 DEF ExpireAccess, vars, NoNewToken, NoNewRotation
  <1>6. CASE \E n \in Tokens : ExpireRefresh(n)
    BY <1>0, <1>6 DEF ExpireRefresh, NoNewToken, NoNewRotation
  <1> QED
    BY <1>1, <1>2, <1>3, <1>4, <1>5, <1>6 DEF Next, Serve

\* The two sets of OneTokenPerSession and what they hold.
LEMMA AliveSets ==
  ASSUME NEW f
  PROVE  /\ \A n : n \in LiveTokens(f) <=> n \in Tokens /\ redis[n] = f
         /\ \A n : n \in LiveTokens(f)' <=> n \in Tokens /\ redis'[n] = f
         /\ \A c : c \in Rotations(f) <=> c \in Calls /\ Rotating(call[c]) /\ call[c].of = f
         /\ \A c : c \in Rotations(f)' <=> c \in Calls /\ Rotating(call'[c]) /\ call'[c].of = f
  BY DEF LiveTokens, Rotations, Rotating

\* The steps of StepKinds on what keeps session f alive.
LEMMA SignInStoreEffect ==
  ASSUME TypeOK, NEW c \in Calls, SignInStore(c), NEW f \in SignIns
  PROVE  /\ staleDelete' = staleDelete
         /\ Rotations(f)' \subseteq Rotations(f)
         /\ \/ LiveTokens(f)' \subseteq LiveTokens(f)
            \/ /\ f \notin started /\ LiveTokens(f) = {} /\ Rotations(f) = {}
               /\ AtMostOne(LiveTokens(f)')
  <1>1. /\ redis \in [Tokens -> started \cup {None}] /\ call[c] \in Call /\ None \notin SignIns
        /\ \A x \in Calls : Rotating(call[x]) => call[x].of \in started
    BY ConstantsOK DEF TypeOK, CallOK, Rotating
  <1>2. PICK n \in Tokens \ TokensInUse, g \in SignIns \ started :
          /\ redis' = [redis EXCEPT ![n] = g]
          /\ Reply(c, [call[c] EXCEPT !.pc = "answer", !.minted = n])
    BY DEF SignInStore
  <1>3. [call[c] EXCEPT !.pc = "answer", !.minted = n].pc # "store"
    BY <1>1, AnswerFields DEF Answered
  <1>4. NoNewRotation
    BY <1>2, <1>3, ReplyRotation
  <1>5. Rotations(f)' \subseteq Rotations(f)
    BY <1>4, AliveSets DEF NoNewRotation
  <1>6. CASE f = g
    <2>1. LiveTokens(f) = {} /\ Rotations(f) = {}
      BY <1>1, <1>6, AliveSets
    <2>2. AtMostOne(LiveTokens(f)')
      BY <1>1, <1>2, <1>6, AliveSets DEF AtMostOne
    <2> QED
      BY <1>5, <1>6, <2>1, <2>2 DEF SignInStore
  <1>7. CASE f # g
    <2>1. LiveTokens(f)' \subseteq LiveTokens(f)
      BY <1>1, <1>2, <1>7, AliveSets
    <2> QED
      BY <1>5, <2>1 DEF SignInStore
  <1> QED
    BY <1>6, <1>7

LEMMA RefreshDelEffect ==
  ASSUME TypeOK, NEW c \in Calls, RefreshDel(c), ~staleDelete', NEW f \in SignIns
  PROVE  /\ ~staleDelete
         /\ LiveTokens(f)' = LiveTokens(f) \ {call[c].sent}
         /\ Rotations(f)' \subseteq Rotations(f) \cup {c}
         /\ c \in Rotations(f)' => call[c].sent \in LiveTokens(f)
  <1>1. /\ redis \in [Tokens -> started \cup {None}] /\ call \in [Calls -> Call]
        /\ None \notin SignIns
    BY ConstantsOK DEF TypeOK
  <1>2. /\ call[c].sent \in Tokens /\ redis[call[c].sent] = call[c].of
        /\ ~staleDelete /\ redis' = [redis EXCEPT ![call[c].sent] = None]
    BY DEF TypeOK, CallOK, RefreshDel
  <1>3. LiveTokens(f)' = LiveTokens(f) \ {call[c].sent}
    BY <1>1, <1>2, AliveSets
  <1>4. \A x \in Calls : IF x = c THEN call'[x].of = call[c].of ELSE call'[x] = call[x]
    BY <1>1 DEF RefreshDel, Call
  <1> QED
    BY <1>1, <1>2, <1>3, <1>4, AliveSets

LEMMA RefreshStoreEffect ==
  ASSUME TypeOK, NEW c \in Calls, RefreshStore(c), NEW f \in SignIns
  PROVE  /\ staleDelete' = staleDelete
         /\ Rotations(f)' \subseteq Rotations(f) \ {c}
         /\ \/ LiveTokens(f)' \subseteq LiveTokens(f)
            \/ c \in Rotations(f) /\ \E n : LiveTokens(f)' \subseteq LiveTokens(f) \cup {n}
  <1>1. /\ redis \in [Tokens -> started \cup {None}] /\ call[c] \in Call /\ None \notin SignIns
        /\ Rotating(call[c])
    BY ConstantsOK DEF TypeOK, RefreshStore, Rotating
  <1>2. PICK n \in Tokens \ TokensInUse :
          /\ redis' = [redis EXCEPT ![n] = call[c].of]
          /\ Reply(c, [call[c] EXCEPT !.pc = "answer", !.minted = n])
    BY DEF RefreshStore
  <1>3. [call[c] EXCEPT !.pc = "answer", !.minted = n].pc # "store"
    BY <1>1, AnswerFields DEF Answered
  <1>4. NoNewRotation
    BY <1>2, <1>3, ReplyRotation
  <1>5. ~Rotating(call'[c])
    BY <1>2, <1>3 DEF Reply, TypeOK, Rotating, Idle
  <1>6. Rotations(f)' \subseteq Rotations(f) \ {c}
    BY <1>4, <1>5, AliveSets DEF NoNewRotation
  <1>7. LiveTokens(f)' \subseteq LiveTokens(f) \cup {n}
    BY <1>1, <1>2, AliveSets
  <1>8. call[c].of # f => LiveTokens(f)' \subseteq LiveTokens(f)
    BY <1>1, <1>2, AliveSets
  <1>9. call[c].of = f => c \in Rotations(f)
    BY <1>1, AliveSets
  <1> QED
    BY <1>6, <1>7, <1>8, <1>9 DEF RefreshStore

LEMMA QuietEffect ==
  ASSUME TypeOK, NoNewToken, NoNewRotation, NEW f \in SignIns
  PROVE  LiveTokens(f)' \subseteq LiveTokens(f) /\ Rotations(f)' \subseteq Rotations(f)
  <1>1. None # f
    BY ConstantsOK
  <1> QED
    BY <1>1, AliveSets DEF NoNewToken, NoNewRotation

LEMMA NextRotation == TypeOK /\ OneTokenPerSession /\ [Next]_vars => OneTokenPerSession'
  <1> SUFFICES ASSUME TypeOK, OneTokenPerSession, [Next]_vars, ~staleDelete', NEW f \in SignIns
               PROVE  /\ AtMostOne(LiveTokens(f)') /\ AtMostOne(Rotations(f)')
                      /\ LiveTokens(f)' = {} \/ Rotations(f)' = {}
    BY DEF OneTokenPerSession, AtMostOne
  <1>0. ~staleDelete => /\ AtMostOne(LiveTokens(f)) /\ AtMostOne(Rotations(f))
                        /\ LiveTokens(f) = {} \/ Rotations(f) = {}
    BY DEF OneTokenPerSession
  <1>1. ASSUME NEW c \in Calls, SignInStore(c)
        PROVE  /\ AtMostOne(LiveTokens(f)') /\ AtMostOne(Rotations(f)')
               /\ LiveTokens(f)' = {} \/ Rotations(f)' = {}
    BY <1>0, <1>1, SignInStoreEffect DEF AtMostOne
  <1>2. ASSUME NEW c \in Calls, RefreshDel(c)
        PROVE  /\ AtMostOne(LiveTokens(f)') /\ AtMostOne(Rotations(f)')
               /\ LiveTokens(f)' = {} \/ Rotations(f)' = {}
    <2>1. /\ ~staleDelete
          /\ LiveTokens(f)' = LiveTokens(f) \ {call[c].sent}
          /\ Rotations(f)' \subseteq Rotations(f) \cup {c}
          /\ c \in Rotations(f)' => call[c].sent \in LiveTokens(f)
      BY <1>2, RefreshDelEffect
    <2>2. CASE c \in Rotations(f)'
      BY <1>0, <2>1, <2>2 DEF AtMostOne
    <2>3. CASE c \notin Rotations(f)'
      BY <1>0, <2>1, <2>3 DEF AtMostOne
    <2> QED
      BY <2>2, <2>3
  <1>3. ASSUME NEW c \in Calls, RefreshStore(c)
        PROVE  /\ AtMostOne(LiveTokens(f)') /\ AtMostOne(Rotations(f)')
               /\ LiveTokens(f)' = {} \/ Rotations(f)' = {}
    BY <1>0, <1>3, RefreshStoreEffect DEF AtMostOne
  <1>4. CASE NoNewToken /\ NoNewRotation /\ staleDelete' = staleDelete
    BY <1>0, <1>4, QuietEffect DEF AtMostOne
  <1> QED
    BY <1>1, <1>2, <1>3, <1>4, StepKinds

\* Rotation, for any number of tabs and requests: a session has one refresh token
\* or one refresh about to store it (consume_refresh and store_refresh), unless
\* two requests have spent the same token.
THEOREM RotationHolds == Spec => []OneTokenPerSession
  <1>1. Init => OneTokenPerSession
    <2> SUFFICES ASSUME Init, NEW f \in SignIns PROVE LiveTokens(f) = {} /\ Rotations(f) = {}
      BY DEF OneTokenPerSession, AtMostOne
    <2>1. None # f /\ Idle.pc # "store"
      BY ConstantsOK DEF Idle
    <2> QED
      BY <2>1, AliveSets DEF Init, Rotating
  <1> QED
    BY <1>1, InitType, NextType, NextRotation, PTL DEF Spec

\* Logout, expiry and a crash of a refresh end a session for good: no request
\* that is still under way brings it back (refresh_access finds its token gone).
THEOREM EndedSessionsStayEnded == Spec => SessionEndsForGood
  <1>1. ASSUME TypeOK, [Next]_vars
        PROVE  [\A f \in started : ~Alive(f) /\ ~staleDelete' => ~Alive(f)']_vars
    <2> SUFFICES ASSUME NEW f \in started, LiveTokens(f) = {}, Rotations(f) = {}, ~staleDelete'
                 PROVE  LiveTokens(f)' = {} /\ Rotations(f)' = {}
      BY DEF Alive
    <2>0. f \in SignIns
      BY <1>1 DEF TypeOK
    <2>1. ASSUME NEW c \in Calls, SignInStore(c) PROVE LiveTokens(f)' = {} /\ Rotations(f)' = {}
      BY <1>1, <2>0, <2>1, SignInStoreEffect
    <2>2. ASSUME NEW c \in Calls, RefreshDel(c) PROVE LiveTokens(f)' = {} /\ Rotations(f)' = {}
      BY <1>1, <2>0, <2>2, RefreshDelEffect
    <2>3. ASSUME NEW c \in Calls, RefreshStore(c) PROVE LiveTokens(f)' = {} /\ Rotations(f)' = {}
      BY <1>1, <2>0, <2>3, RefreshStoreEffect
    <2>4. CASE NoNewToken /\ NoNewRotation
      BY <1>1, <2>0, <2>4, QuietEffect
    <2> QED
      BY <1>1, <2>1, <2>2, <2>3, <2>4, StepKinds
  <1> QED
    BY <1>1, InitType, NextType, PTL DEF Spec, SessionEndsForGood

\* Only LogoutDel answers a logout.
LEMMA LogoutAnswered ==
  ASSUME TypeOK, [Next]_vars, NEW c \in Calls,
         call[c].pc = "logout", call'[c].pc = "answer"
  PROVE  LogoutDel(c)
  <1>0. call \in [Calls -> Call] /\ Idle.pc = "idle"
    BY DEF TypeOK, Idle
  <1>1. ASSUME NEW x \in Calls, Serve(x) \/ Crash(x) PROVE x = c /\ LogoutDel(c)
    <2>1. x = c
      BY <1>0, <1>1 DEF Serve, Crash, SignInStore, RefreshGet, RefreshDel, RefreshStore,
                        LogoutDel, Reply
    <2>2. ~Crash(c)
      <3> SUFFICES ASSUME Crash(c) PROVE FALSE
        OBVIOUS
      <3>1. [call[c] EXCEPT !.pc = "refused"].pc = "refused"
        BY <1>0 DEF Call
      <3> QED
        BY <1>0, <3>1 DEF Crash, Reply
    <2> QED
      BY <1>1, <2>1, <2>2 DEF Serve, SignInStore, RefreshGet, RefreshDel, RefreshStore
  <1>2. ASSUME NEW x \in Calls, Deliver(x) \/ Lose(x) PROVE FALSE
    <2>1. \/ call' = [call EXCEPT ![x] = [call[x] EXCEPT !.pc = "json"]]
          \/ call' = [call EXCEPT ![x] = [call[x] EXCEPT !.tab = None]]
          \/ call' = [call EXCEPT ![x] = Idle]
      BY <1>0, <1>2 DEF Deliver, Arrive, SignedIn, Refreshed, LogoutDone, Refused, Lose
    <2>2. /\ [call[x] EXCEPT !.pc = "json"].pc = "json"
          /\ [call[x] EXCEPT !.tab = None].pc = call[x].pc
      BY <1>0 DEF Call
    <2> QED
      BY <1>0, <2>1, <2>2
  <1>3. ASSUME NEW t \in Tabs, User(t) \/ Script(t) PROVE FALSE
    <2>1. \/ call' = call
          \/ \E ops \in SUBSET Requests : Send(t, ops, call) \/ Send(t, ops, Orphans(t))
      <3>1. ASSUME NEW page, Load(t, page)
            PROVE  \E ops \in SUBSET Requests : Send(t, ops, Orphans(t))
        BY <3>1 DEF Load, Requests, SignOuts
      <3>2. ASSUME NEW page, Visit(t, page) \/ SignIn(t) \/ SignOut(t) \/ ApiRefused(t)
            PROVE  \E ops \in SUBSET Requests : Send(t, ops, call)
        BY <3>2 DEF Visit, SignIn, SignOut, ApiRefused, Requests, SignOuts
      <3>3. ApiSend(t) => call' = call
        BY DEF ApiSend
      <3> QED
        BY <1>3, <3>1, <3>2, <3>3 DEF User, Script, Open, Redirected
    <2>2. Orphans(t)[c].pc # "answer"
      BY <1>0 DEF Orphans, Call
    <2>3. call[c] # Idle
      BY <1>0
    <2>4. call'[c] = call[c] \/ call'[c] = Orphans(t)[c]
      BY <2>1, <2>3, Sent
    <2> QED
      BY <2>2, <2>4
  <1>4. CASE \/ (\E a \in Access : ExpireAccess(a)) \/ (\E n \in Tokens : ExpireRefresh(n))
             \/ UNCHANGED vars
    BY <1>4 DEF ExpireAccess, ExpireRefresh, vars
  <1> QED
    BY <1>1, <1>2, <1>3, <1>4 DEF Next

\* A logout (delete_refresh) whose token was live leaves nothing of its session:
\* no other token and no refresh about to store one, by RotationHolds.
THEOREM LogoutEnds == Spec => LogoutEndsLiveSession
  <1>1. ASSUME TypeOK, OneTokenPerSession, [Next]_vars
        PROVE  [\A c \in Calls, f \in SignIns :
                  /\ call[c].pc = "logout" /\ call'[c].pc = "answer"
                  /\ call[c].sent \in LiveTokens(f) /\ ~staleDelete'
                  => ~Alive(f)']_vars
    <2> SUFFICES ASSUME NEW c \in Calls, NEW f \in SignIns,
                        call[c].pc = "logout", call'[c].pc = "answer",
                        call[c].sent \in LiveTokens(f), ~staleDelete'
                 PROVE  LiveTokens(f)' = {} /\ Rotations(f)' = {}
      BY DEF Alive
    <2>1. LogoutDel(c) /\ None # f
      BY <1>1, LogoutAnswered, ConstantsOK
    <2>2. ~staleDelete /\ redis' = [n \in Tokens |-> IF n = call[c].sent THEN None ELSE redis[n]]
      BY <2>1 DEF LogoutDel
    <2>3. /\ AtMostOne(LiveTokens(f)) /\ AtMostOne(Rotations(f))
          /\ LiveTokens(f) = {} \/ Rotations(f) = {}
      BY <1>1, <2>2 DEF OneTokenPerSession
    <2>4. LiveTokens(f)' = {}
      BY <2>1, <2>2, <2>3, AliveSets DEF AtMostOne
    <2>5. NoNewRotation
      <3>1. Reply(c, [call[c] EXCEPT !.pc = "answer"]) /\ call[c] \in Call
        BY <1>1, <2>1 DEF LogoutDel, TypeOK
      <3>2. [call[c] EXCEPT !.pc = "answer"].pc # "store"
        BY <3>1, AnswerFields DEF Answered
      <3> QED
        BY <1>1, <3>1, <3>2, ReplyRotation
    <2> QED
      BY <2>3, <2>4, <2>5, AliveSets DEF NoNewRotation
  <1> QED
    BY <1>1, InitType, NextType, RotationHolds, SessionTypeOK, PTL DEF Spec, LogoutEndsLiveSession

----------------------------------------------------------------------------
(* The shared refresh *)

RefreshesOf(t) == {c \in Calls : call[c].op = "refresh" /\ call[c].tab = t}

\* SharedRefresh for one tab.
OneRefresh(t) == AtMostOne(RefreshesOf(t)) /\ (tab[t].api = "waiting" => RefreshesOf(t) # {})

LEMMA SharedRefreshIs == SharedRefresh <=> \A t \in Tabs : OneRefresh(t)
  BY DEF SharedRefresh, OneRefresh, RefreshesOf, Refreshing

LEMMA RefreshSets ==
  ASSUME NEW t
  PROVE  /\ \A c : c \in RefreshesOf(t) <=> c \in Calls /\ call[c].op = "refresh" /\ call[c].tab = t
         /\ \A c : c \in RefreshesOf(t)' <=> c \in Calls /\ call'[c].op = "refresh" /\ call'[c].tab = t
         /\ OneRefresh(t)' <=> /\ AtMostOne(RefreshesOf(t)')
                               /\ tab'[t].api = "waiting" => RefreshesOf(t)' # {}
  BY DEF RefreshesOf, OneRefresh

\* Where Send puts a new call: each of its own.
LEMMA SentAt ==
  ASSUME NEW t \in Tabs, NEW ops, NEW cs, Send(t, ops, cs)
  PROVE  \E at \in [ops -> Calls] :
           /\ \A o \in ops : call[at[o]] = Idle /\ call'[at[o]] = NewCall(o, t)
           /\ \A c \in Calls : call'[c] = cs[c] \/ \E o \in ops : at[o] = c
  <1>1. PICK at \in [ops -> {x \in Calls : call[x] = Idle}] :
          /\ \A o, p \in ops : at[o] = at[p] => o = p
          /\ call' = [x \in Calls |-> IF \E o \in ops : at[o] = x
                                     THEN NewCall(CHOOSE o \in ops : at[o] = x, t)
                                     ELSE cs[x]]
    BY DEF Send
  <1>2. ASSUME NEW o \in ops PROVE call[at[o]] = Idle /\ call'[at[o]] = NewCall(o, t)
    <2>1. (CHOOSE p \in ops : at[p] = at[o]) = o
      BY <1>1
    <2> QED
      BY <1>1, <2>1
  <1>3. ASSUME NEW c \in Calls PROVE call'[c] = cs[c] \/ \E o \in ops : at[o] = c
    BY <1>1
  <1>4. at \in [ops -> Calls]
    BY <1>1
  <1> QED
    BY <1>2, <1>3, <1>4

RefreshesIn(cs, x) == {c \in Calls : cs[c].op = "refresh" /\ cs[c].tab = x}

OneMore(S, T) == \E c : T = S \cup {c}

\* What Send does to the refreshes of tab x, the sender's or another's.
LEMMA SentRefreshes ==
  ASSUME TypeOK, NEW t \in Tabs, NEW ops \in SUBSET Requests, NEW cs, Send(t, ops, cs),
         \A c \in Calls : call[c] = Idle => cs[c] = Idle,
         NEW x \in Tabs
  PROVE  \/ RefreshesOf(x)' = RefreshesIn(cs, x) /\ (x # t \/ "refresh" \notin ops)
         \/ OneMore(RefreshesIn(cs, x), RefreshesOf(x)') /\ x = t /\ "refresh" \in ops
  <1>1. PICK at \in [ops -> Calls] :
           /\ \A o \in ops : call[at[o]] = Idle /\ call'[at[o]] = NewCall(o, t)
           /\ \A c \in Calls : call'[c] = cs[c] \/ \E o \in ops : at[o] = c
    BY SentAt
  <1>2. \A o \in ops : /\ NewCall(o, t).op = o /\ NewCall(o, t).tab = t
                       /\ at[o] \in Calls /\ cs[at[o]] = Idle
    BY <1>1, NewCallType
  <1>3. Idle.op # "refresh"
    BY DEF Idle
  <1>4. \A c \in Calls : c \in RefreshesOf(x)' <=>
          \/ c \in RefreshesIn(cs, x)
          \/ x = t /\ "refresh" \in ops /\ c = at["refresh"]
    BY <1>1, <1>2, <1>3, RefreshSets DEF RefreshesIn
  <1>5. RefreshesOf(x)' \subseteq Calls /\ RefreshesIn(cs, x) \subseteq Calls
    BY RefreshSets DEF RefreshesIn
  <1>6. CASE x = t /\ "refresh" \in ops
    <2>1. RefreshesOf(x)' = RefreshesIn(cs, x) \cup {at["refresh"]}
      BY <1>4, <1>5, <1>6
    <2> QED
      BY <1>6, <2>1 DEF OneMore
  <1>7. CASE x # t \/ "refresh" \notin ops
    BY <1>4, <1>5, <1>7
  <1> QED
    BY <1>6, <1>7

LEMMA UserRefreshes ==
  ASSUME TypeOK, SharedRefresh, NEW t \in Tabs, User(t) \/ Script(t), NEW x \in Tabs
  PROVE  OneRefresh(x)'
  <1>0. /\ call \in [Calls -> Call] /\ tab \in [Tabs -> TabState] /\ tab[t] \in TabState
        /\ OneRefresh(x) /\ RefreshesIn(call, x) = RefreshesOf(x) /\ Idle.tab = None /\ Idle.op # "refresh" /\ None \notin Tabs
    BY SharedRefreshIs, ConstantsOK DEF TypeOK, Idle, RefreshesIn, RefreshesOf
  <1>1. ASSUME NEW page, Load(t, page) PROVE OneRefresh(x)'
    <2>1. PICK ops \in SUBSET Requests : Send(t, ops, Orphans(t))
      BY <1>1 DEF Load, Requests, SignOuts
    <2>2. \A c \in Calls : call[c] = Idle => Orphans(t)[c] = Idle
      BY <1>0 DEF Orphans
    <2>3. RefreshesIn(Orphans(t), x) = IF x = t THEN {} ELSE RefreshesOf(x)
      BY <1>0, RefreshSets DEF Orphans, RefreshesIn, Call
    <2>4. IF x = t THEN AtMostOne(RefreshesOf(x)') ELSE RefreshesOf(x)' = RefreshesOf(x)
      <3>1. \/ RefreshesOf(x)' = RefreshesIn(Orphans(t), x)
            \/ x = t /\ OneMore(RefreshesIn(Orphans(t), x), RefreshesOf(x)')
        BY <2>1, <2>2, SentRefreshes
      <3> QED
        BY <2>3, <3>1 DEF AtMostOne, OneMore
    <2>5. tab'[x].api = IF x = t THEN "idle" ELSE tab[x].api
      BY <1>0, <1>1 DEF Load
    <2> QED
      BY <1>0, <2>4, <2>5, RefreshSets DEF OneRefresh
  <1>2. ASSUME NEW page, Visit(t, page) \/ SignIn(t) \/ SignOut(t) PROVE OneRefresh(x)'
    <2>1. \E ops \in SUBSET Requests : "refresh" \notin ops /\ Send(t, ops, call)
      BY <1>2 DEF Visit, SignIn, SignOut, Requests, SignOuts
    <2>2. RefreshesOf(x)' = RefreshesOf(x)
      BY <1>0, <2>1, SentRefreshes
    <2>3. tab'[x].api = tab[x].api
      BY <1>0, <1>2 DEF Visit, SignIn, SignOut, TabState
    <2> QED
      BY <1>0, <2>2, <2>3, RefreshSets DEF OneRefresh
  <1>3. CASE ApiSend(t)
    <2>1. tab'[x].api # "waiting" \/ tab'[x].api = tab[x].api
      BY <1>0, <1>3 DEF ApiSend, TabState
    <2>2. RefreshesOf(x)' = RefreshesOf(x)
      BY <1>3 DEF ApiSend, RefreshesOf
    <2> QED
      BY <1>0, <2>1, <2>2, RefreshSets DEF OneRefresh
  <1>4. CASE ApiRefused(t)
    <2>1. tab'[x].api = IF x = t THEN "waiting" ELSE tab[x].api
      BY <1>0, <1>4 DEF ApiRefused, TabState
    <2>2. PICK ops \in SUBSET Requests :
            Send(t, ops, call) /\ ("refresh" \in ops <=> RefreshesOf(t) = {})
      BY <1>4 DEF ApiRefused, Refreshing, RefreshesOf, Requests
    <2>3. \/ RefreshesOf(x)' = RefreshesOf(x) /\ (x # t \/ RefreshesOf(t) # {})
          \/ OneMore(RefreshesOf(x), RefreshesOf(x)') /\ x = t /\ RefreshesOf(t) = {}
      BY <1>0, <2>2, SentRefreshes
    <2>4. IF x = t /\ RefreshesOf(t) = {} THEN \E c : RefreshesOf(x)' = {c}
                                         ELSE RefreshesOf(x)' = RefreshesOf(x)
      BY <2>3 DEF OneMore
    <2> QED
      BY <1>0, <2>1, <2>4, RefreshSets DEF OneRefresh, AtMostOne
  <1> QED
    BY <1>1, <1>2, <1>3, <1>4 DEF User, Script, Open, Redirected

\* What the server does to the refreshes of a tab that awaits them: nothing.
LEMMA ServeRefreshes ==
  ASSUME TypeOK, NEW c \in Calls, Serve(c) \/ Crash(c), NEW x \in Tabs
  PROVE  RefreshesOf(x)' = RefreshesOf(x) /\ tab' = tab
  <1>0. call[c] \in Call /\ call \in [Calls -> Call] /\ Idle.op # "refresh" /\ None \notin Tabs
    BY ConstantsOK DEF TypeOK, Idle
  <1>1. ASSUME NEW r, Reply(c, r), r.op = call[c].op, r.tab = call[c].tab
        PROVE  RefreshesOf(x)' = RefreshesOf(x)
    BY <1>0, <1>1 DEF Reply, RefreshesOf
  <1>2. ASSUME NEW r, call' = [call EXCEPT ![c] = r], r.op = call[c].op, r.tab = call[c].tab
        PROVE  RefreshesOf(x)' = RefreshesOf(x)
    BY <1>0, <1>2 DEF RefreshesOf
  <1>3. \/ \E r : Reply(c, r) /\ r.op = call[c].op /\ r.tab = call[c].tab
        \/ \E r : call' = [call EXCEPT ![c] = r] /\ r.op = call[c].op /\ r.tab = call[c].tab
    <2>1. CASE SignInStore(c) \/ RefreshStore(c)
      <3>1. PICK n : Reply(c, [call[c] EXCEPT !.pc = "answer", !.minted = n])
        BY <2>1 DEF SignInStore, RefreshStore
      <3>2. /\ [call[c] EXCEPT !.pc = "answer", !.minted = n].op = call[c].op
            /\ [call[c] EXCEPT !.pc = "answer", !.minted = n].tab = call[c].tab
        BY <1>0 DEF Call
      <3> QED
        BY <3>1, <3>2
    <2>2. CASE LogoutDel(c) \/ Crash(c)
      <3>1. PICK pc : Reply(c, [call[c] EXCEPT !.pc = pc])
        BY <2>2 DEF LogoutDel, Crash
      <3>2. /\ [call[c] EXCEPT !.pc = pc].op = call[c].op
            /\ [call[c] EXCEPT !.pc = pc].tab = call[c].tab
        BY <1>0 DEF Call
      <3> QED
        BY <3>1, <3>2
    <2>3. CASE RefreshDel(c)
      <3>1. PICK r : r = [call[c] EXCEPT !.pc = "store"]
        OBVIOUS
      <3>2. call' = [call EXCEPT ![c] = r]
        BY <2>3, <3>1 DEF RefreshDel
      <3>3. r.op = call[c].op /\ r.tab = call[c].tab
        BY <1>0, <3>1 DEF Call
      <3> QED
        BY <3>2, <3>3
    <2>4. CASE RefreshGet(c)
      <3>1. CASE call[c].sent # None /\ redis[call[c].sent] # None
        <4>1. PICK r : r = [call[c] EXCEPT !.pc = "del", !.of = redis[call[c].sent]]
          OBVIOUS
        <4>2. call' = [call EXCEPT ![c] = r]
          BY <1>0, <2>4, <3>1, <4>1 DEF RefreshGet
        <4>3. r.op = call[c].op /\ r.tab = call[c].tab
          BY <1>0, <4>1 DEF Call
        <4> QED
          BY <4>2, <4>3
      <3>2. CASE ~(call[c].sent # None /\ redis[call[c].sent] # None)
        <4>1. Reply(c, [call[c] EXCEPT !.pc = "refused"])
          BY <2>4, <3>2 DEF RefreshGet
        <4>2. /\ [call[c] EXCEPT !.pc = "refused"].op = call[c].op
              /\ [call[c] EXCEPT !.pc = "refused"].tab = call[c].tab
          BY <1>0 DEF Call
        <4> QED
          BY <4>1, <4>2
      <3> QED
        BY <3>1, <3>2
    <2> QED
      BY <2>1, <2>2, <2>3, <2>4 DEF Serve
  <1>4. tab' = tab
    BY DEF Serve, Crash, SignInStore, RefreshGet, RefreshDel, RefreshStore, LogoutDel
  <1> QED
    BY <1>1, <1>2, <1>3, <1>4

\* After an answer, or the lack of one, no tab waits without a refresh.
LEMMA DeliverRefreshes ==
  ASSUME TypeOK, SharedRefresh, NEW c \in Calls, Deliver(c) \/ Lose(c), NEW x \in Tabs
  PROVE  OneRefresh(x)'
  <1> DEFINE t == call[c].tab
  <1>0. /\ call[c] \in Call /\ call \in [Calls -> Call] /\ Idle.op # "refresh"
        /\ OneRefresh(x) /\ tab \in [Tabs -> TabState] /\ None \notin Tabs
    BY SharedRefreshIs, ConstantsOK DEF TypeOK, Idle
  <1>1. t \in Tabs
    BY <1>0 DEF Deliver, Lose, Arrive, SignedIn, Refreshed, LogoutDone, Refused, TypeOK, CallOK,
                Answered, Call
  <1>2. tab[t] \in TabState
    BY <1>0, <1>1
  <1>3. CASE Arrive(c)
    <2>1. call' = [call EXCEPT ![c] = [call[c] EXCEPT !.pc = "json"]] /\ tab' = tab
      BY <1>3 DEF Arrive
    <2>2. RefreshesOf(x)' = RefreshesOf(x)
      BY <1>0, <2>1 DEF RefreshesOf, Call
    <2> QED
      BY <1>0, <2>1, <2>2, RefreshSets DEF OneRefresh
  <1>4. CASE call[c].op = "refresh" /\ (Refreshed(c) \/ Refused(c) \/ Lose(c))
    <2>1. RefreshesOf(x)' = IF x = t THEN RefreshesOf(x) \ {c} ELSE RefreshesOf(x)
      <3>1. \/ call' = [call EXCEPT ![c] = [call[c] EXCEPT !.tab = None]]
            \/ call' = [call EXCEPT ![c] = Idle]
        BY <1>0, <1>4 DEF Refreshed, Refused, Lose
      <3>2. [call[c] EXCEPT !.tab = None].tab = None
        BY <1>0 DEF Call
      <3>3. \A y \in Calls : IF y = c THEN call'[y].op # "refresh" \/ call'[y].tab = None
                                     ELSE call'[y] = call[y]
        BY <1>0, <3>1, <3>2
      <3>4. c \notin RefreshesOf(x)'
        BY <1>0, <3>3, RefreshSets
      <3>5. x # t => c \notin RefreshesOf(x)
        BY RefreshSets
      <3>6. \A y : y # c => (y \in RefreshesOf(x)' <=> y \in RefreshesOf(x))
        BY <3>3, RefreshSets
      <3> QED
        BY <3>4, <3>5, <3>6
    <2>2. tab'[t].api # "waiting" /\ \A y \in Tabs : y # t => tab'[y] = tab[y]
      <3>1. CASE Refreshed(c)
        <4>1. PICK a \in Access : tab' = [tab EXCEPT ![t].seen = a, ![t].mount = FALSE,
                                        ![t].api = IF @ = "waiting" THEN "idle" ELSE @]
          BY <3>1 DEF Refreshed
        <4> QED
          BY <1>0, <1>1, <1>2, <4>1 DEF TabState
      <3>2. CASE Refused(c) \/ Lose(c)
        <4>1. RefreshFailed(t)
          <5>1. Failed(c)
            BY <3>2 DEF Refused, Lose
          <5> QED
            BY <1>4, <5>1 DEF Failed, SignOuts
        <4>2. CASE tab[t].api = "waiting"
          <5>1. tab' = [tab EXCEPT ![t] =
                 [page |-> IF tab[t].page = "login" THEN "login" ELSE "leaving",
                  seen |-> None, api |-> "idle", mount |-> FALSE]]
            BY <4>1, <4>2 DEF RefreshFailed
          <5> QED
            BY <1>0, <1>1, <5>1
        <4>3. CASE tab[t].api # "waiting" /\ tab[t].mount
          <5>1. tab' = [tab EXCEPT ![t] = [page |-> Unguarded(tab[t].page), seen |-> None,
                                          api |-> tab[t].api, mount |-> FALSE]]
            BY <4>1, <4>3, Zenon DEF RefreshFailed
          <5> QED
            BY <1>0, <1>1, <4>3, <5>1
        <4>4. CASE tab[t].api # "waiting" /\ ~tab[t].mount
          <5>1. tab' = [tab EXCEPT ![t].mount = FALSE]
            BY <4>1, <4>4, Zenon DEF RefreshFailed
          <5> QED
            BY <1>0, <1>1, <1>2, <4>4, <5>1 DEF TabState
        <4> QED
          BY <4>2, <4>3, <4>4
      <3> QED
        BY <1>4, <3>1, <3>2
    <2> QED
      BY <1>0, <2>1, <2>2, RefreshSets DEF OneRefresh, AtMostOne
  <1>5. CASE call[c].op # "refresh" /\ ~Arrive(c)
    <2>1. RefreshesOf(x)' = RefreshesOf(x)
      <3>1. \/ call' = [call EXCEPT ![c] = [call[c] EXCEPT !.tab = None]]
            \/ call' = [call EXCEPT ![c] = Idle]
        BY <1>0, <1>5 DEF Deliver, SignedIn, Refreshed, LogoutDone, Refused, Lose
      <3>2. [call[c] EXCEPT !.tab = None].op = call[c].op
        BY <1>0 DEF Call
      <3>3. \A y \in Calls : IF y = c THEN call'[y].op # "refresh" ELSE call'[y] = call[y]
        BY <1>0, <1>5, <3>1, <3>2
      <3>4. \A y : y \in RefreshesOf(x)' <=> y \in RefreshesOf(x)
        BY <1>5, <3>3, RefreshSets
      <3> QED
        BY <3>4
    <2>2. tab'[x].api = tab[x].api
      <3>1. \/ SignedIn(c) \/ SignedOut(t) \/ tab' = tab
        BY <1>5 DEF Deliver, Refreshed, LogoutDone, Refused, Lose, Failed, SignOuts
      <3>2. CASE SignedIn(c)
        <4>1. PICK a \in Access : tab' = [tab EXCEPT ![t].seen = a,
                                        ![t].page = IF @ = "leaving" THEN @ ELSE "protected"]
          BY <3>2 DEF SignedIn
        <4> QED
          BY <1>0, <1>1, <1>2, <4>1 DEF TabState
      <3>3. CASE SignedOut(t)
        BY <1>0, <1>1, <1>2, <3>3 DEF SignedOut, TabState
      <3> QED
        BY <3>1, <3>2, <3>3
    <2> QED
      BY <1>0, <2>1, <2>2, RefreshSets DEF OneRefresh
  <1> QED
    BY <1>3, <1>4, <1>5 DEF Deliver, SignedIn, LogoutDone, SignOuts

\* A tab has one refresh in flight at most, and none of its requests waits for
\* one that is not there (api.ts, refreshInFlight), however its page is reloaded
\* and whatever becomes of the answer.
THEOREM SharedRefreshHolds == Spec => []SharedRefresh
  <1>1. Init => SharedRefresh
    <2> SUFFICES ASSUME Init, NEW t \in Tabs PROVE OneRefresh(t)
      BY SharedRefreshIs
    <2>1. RefreshesOf(t) = {} /\ tab[t].api = "idle"
      BY DEF Init, RefreshesOf, Idle
    <2> QED
      BY <2>1 DEF OneRefresh, AtMostOne
  <1>2. TypeOK /\ SharedRefresh /\ [Next]_vars => SharedRefresh'
    <2> SUFFICES ASSUME TypeOK, SharedRefresh, [Next]_vars, NEW x \in Tabs PROVE OneRefresh(x)'
      BY SharedRefreshIs DEF SharedRefresh, OneRefresh, RefreshesOf, Refreshing
    <2>0. OneRefresh(x)
      BY SharedRefreshIs
    <2>1. ASSUME NEW c \in Calls, Serve(c) \/ Crash(c) PROVE OneRefresh(x)'
      BY <2>0, <2>1, ServeRefreshes, RefreshSets DEF OneRefresh
    <2>2. ASSUME NEW c \in Calls, Deliver(c) \/ Lose(c) PROVE OneRefresh(x)'
      BY <2>2, DeliverRefreshes
    <2>3. ASSUME NEW t \in Tabs, User(t) \/ Script(t) PROVE OneRefresh(x)'
      BY <2>3, UserRefreshes
    <2>4. CASE \/ (\E a \in Access : ExpireAccess(a)) \/ (\E n \in Tokens : ExpireRefresh(n))
               \/ UNCHANGED vars
      BY <2>0, <2>4 DEF ExpireAccess, ExpireRefresh, vars, OneRefresh, RefreshesOf, AtMostOne
    <2> QED
      BY <2>1, <2>2, <2>3, <2>4 DEF Next
  <1> QED
    BY <1>1, <1>2, InitType, NextType, PTL DEF Spec

=============================================================================
