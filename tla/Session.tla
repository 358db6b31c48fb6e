------------------------------ MODULE Session ------------------------------
(***************************************************************************)
(* A browser's session: refresh tokens in Redis, the httpOnly cookie, the  *)
(* access token in localStorage, and the browser's tabs, each with its own *)
(* copy of the access token and its own shared refresh promise.            *)
(*                                                                         *)
(* A call is one HTTP request to /api/v1/auth.  The server serves it in    *)
(* steps, one per Redis command; then its answer travels to the browser,   *)
(* which stores the cookie before the page's script sees the answer.       *)
(***************************************************************************)
EXTENDS Naturals, FiniteSets

CONSTANTS
  Tabs,      \* tabs of one browser
  Calls,     \* auth requests in flight at the same time
  Tokens,    \* refresh tokens (secrets.token_urlsafe), reused once forgotten
  Access,    \* access tokens (JWT), reused once forgotten
  Actions,   \* what the user does in this instance
  SignIns,   \* sign-ins; how many there are bounds a run
  None       \* no value

ASSUME ConstantsOK == None \notin Tabs \cup Calls \cup Tokens \cup Access \cup SignIns

VARIABLES
  redis,       \* redis[n]: the sign-in whose user binjari:rt:<hash of n> names, or None
  cookie,      \* the browser's refresh_token cookie, or None
  access,      \* localStorage's binjari_access_token, or None
  expired,     \* the access tokens whose exp has passed
  tab,         \* tab[t]: the script state of tab t
  call,        \* call[c]: the request c and its answer
  started,     \* history: the sign-ins that have been given a refresh token
  staleDelete  \* history: a refresh deleted a token that was already gone

vars == <<redis, cookie, access, expired, tab, call, started, staleDelete>>

Pages == {"protected", "public", "login", "leaving"}

TabState == [page: Pages, seen: Access \cup {None},   \* AuthContext's accessToken
             api: {"idle", "sent", "waiting"},        \* a request that gets a 401
             mount: BOOLEAN]   \* AuthProvider, which saw the token expired, awaits a refresh

SignOuts == {"sign_out", "guard_sign_out"}  \* by the user, by a route guard

Served   == {"get", "del", "store", "logout"}
Answered == {"answer", "json", "refused"}

Call == [op: {"none", "sign_in", "refresh"} \cup SignOuts,
         pc: {"idle"} \cup Served \cup Answered,
         tab: Tabs \cup {None},        \* who awaits the answer
         sent: Tokens \cup {None},     \* the cookie it was sent with
         of: SignIns \cup {None},      \* the user it acts for
         minted: Tokens \cup {None}]   \* the cookie its answer sets

Idle == [op |-> "none", pc |-> "idle", tab |-> None, sent |-> None, of |-> None, minted |-> None]

\* What the server has found out about a call, from GET to SETEX.
CallOK(r) ==
  /\ r.pc = "del" => r.sent \in Tokens /\ r.of \in started /\ redis[r.sent] \in {r.of, None}
  /\ r.pc = "store" /\ r.op = "refresh" => r.of \in started
  /\ r.pc \in {"del", "get"} => r.op = "refresh"
  /\ r.pc \in Answered => r.tab \in Tabs

\* Types; and a refresh between GET and SETEX (refresh_access) acts for a sign-in
\* that has happened, the one its token named when it was read.
TypeOK ==
  /\ redis \in [Tokens -> started \cup {None}]
  /\ cookie \in Tokens \cup {None}
  /\ access \in Access \cup {None}
  /\ expired \subseteq Access
  /\ tab \in [Tabs -> TabState]
  /\ call \in [Calls -> Call]
  /\ started \subseteq SignIns
  /\ staleDelete \in BOOLEAN
  /\ \A c \in Calls : CallOK(call[c])

Init ==
  /\ redis = [n \in Tokens |-> None]
  /\ cookie = None /\ access = None /\ expired = {}
  /\ tab = [t \in Tabs |-> [page |-> "login", seen |-> None, api |-> "idle", mount |-> FALSE]]
  /\ call = [c \in Calls |-> Idle]
  /\ started = {} /\ staleDelete = FALSE

----------------------------------------------------------------------------
(* The server. *)

TokensInUse == {n \in Tokens : redis[n] # None} \cup {cookie}
               \cup {call[c].sent : c \in Calls} \cup {call[c].minted : c \in Calls}

\* The handler returns: an answer nobody awaits is lost.
Reply(c, r) == call' = [call EXCEPT ![c] = IF r.tab = None THEN Idle ELSE r]

\* signup and login: the password has been checked, the token is stored.
SignInStore(c) ==
  /\ call[c].pc = "store" /\ call[c].op = "sign_in"
  /\ \E n \in Tokens \ TokensInUse, f \in SignIns \ started :
       /\ redis' = [redis EXCEPT ![n] = f]
       /\ started' = started \cup {f}
       /\ Reply(c, [call[c] EXCEPT !.pc = "answer", !.minted = n])
  /\ UNCHANGED <<cookie, access, expired, tab, staleDelete>>

\* Mutant: the result of GET is not checked.
RefreshGetUnchecked(c) ==
  LET r == call[c] IN
  /\ r.pc = "get"
  /\ call' = [call EXCEPT ![c].pc = "del",
                          ![c].of = IF r.sent = None THEN None ELSE redis[r.sent]]
  /\ UNCHANGED <<redis, cookie, access, expired, tab, started, staleDelete>>

\* refresh_access: GET the old token's user ...
RefreshGet(c) ==
  LET r == call[c] IN
  /\ r.pc = "get"
  /\ IF r.sent # None /\ redis[r.sent] # None
     THEN call' = [call EXCEPT ![c].pc = "del", ![c].of = redis[r.sent]]
     ELSE Reply(c, [r EXCEPT !.pc = "refused"])
  /\ UNCHANGED <<redis, cookie, access, expired, tab, started, staleDelete>>

\* Mutant: the old token is not deleted.
RefreshKeep(c) ==
  /\ call[c].pc = "del"
  /\ call' = [call EXCEPT ![c].pc = "store"]
  /\ UNCHANGED <<redis, cookie, access, expired, tab, started, staleDelete>>

\* ... DEL the old token, whoever has deleted it in the meantime ...
RefreshDel(c) ==
  LET r == call[c] IN
  /\ r.pc = "del"
  /\ redis' = [redis EXCEPT ![r.sent] = None]
  /\ staleDelete' = (staleDelete \/ redis[r.sent] = None)
  /\ call' = [call EXCEPT ![c].pc = "store"]
  /\ UNCHANGED <<cookie, access, expired, tab, started>>

\* ... and SETEX the new one.
RefreshStore(c) ==
  /\ call[c].pc = "store" /\ call[c].op = "refresh"
  /\ \E n \in Tokens \ TokensInUse :
       /\ redis' = [redis EXCEPT ![n] = call[c].of]
       /\ Reply(c, [call[c] EXCEPT !.pc = "answer", !.minted = n])
  /\ UNCHANGED <<cookie, access, expired, tab, started, staleDelete>>

\* Mutant: logout only clears the cookie.
LogoutCookieOnly(c) ==
  /\ call[c].pc = "logout"
  /\ Reply(c, [call[c] EXCEPT !.pc = "answer"])
  /\ UNCHANGED <<redis, cookie, access, expired, tab, started, staleDelete>>

\* logout: DEL the token it was sent, if any.
LogoutDel(c) ==
  LET r == call[c] IN
  /\ r.pc = "logout"
  /\ redis' = [n \in Tokens |-> IF n = r.sent THEN None ELSE redis[n]]
  /\ Reply(c, [r EXCEPT !.pc = "answer"])
  /\ UNCHANGED <<cookie, access, expired, tab, started, staleDelete>>

\* The TTL of a refresh token runs out.
ExpireRefresh(n) ==
  /\ redis[n] # None
  /\ redis' = [redis EXCEPT ![n] = None]
  /\ UNCHANGED <<cookie, access, expired, tab, call, started, staleDelete>>

\* The process serving c dies, or Redis does not answer: an error goes back.
Crash(c) ==
  /\ call[c].pc \in Served
  /\ Reply(c, [call[c] EXCEPT !.pc = "refused"])
  /\ UNCHANGED <<redis, cookie, access, expired, tab, started, staleDelete>>

----------------------------------------------------------------------------
(* The browser. *)

Fresh(a) == a # None /\ a \notin expired

FirstStep == [sign_in |-> "store", refresh |-> "get",
              sign_out |-> "logout", guard_sign_out |-> "logout"]
NewCall(op, t) == [op |-> op, pc |-> FirstStep[op], tab |-> t, sent |-> cookie,
                   of |-> None, minted |-> None]

\* The calls cs afterwards, with a new one of tab t for each op of ops.
Send(t, ops, cs) ==
  \E at \in [ops -> {c \in Calls : call[c] = Idle}] :
    /\ \A o, p \in ops : at[o] = at[p] => o = p
    /\ call' = [c \in Calls |-> IF \E o \in ops : at[o] = c
                                THEN NewCall(CHOOSE o \in ops : at[o] = c, t)
                                ELSE cs[c]]

Refreshing(t) == \E c \in Calls : call[c].op = "refresh" /\ call[c].tab = t

\* A page that has lost the access token shows the login page, if it is guarded.
Unguarded(page) == IF page = "protected" THEN "login" ELSE page

\* A page is loaded: the scripts of the tab are gone, and what they awaited.
Orphans(t) == [c \in Calls |-> IF call[c].tab # t THEN call[c]
                               ELSE IF call[c].pc \in Answered THEN Idle
                               ELSE [call[c] EXCEPT !.tab = None]]

\* The first effects of a loaded page: the route guard signs out when the
\* access token has expired, and AuthProvider refreshes unless it is fresh.
Load(t, page) ==
  LET guarded == page = "protected" /\ ~Fresh(access) IN
  /\ Send(t, (IF guarded /\ access # None THEN {"guard_sign_out"} ELSE {})
             \cup (IF Fresh(access) THEN {} ELSE {"refresh"}), Orphans(t))
  /\ tab' = [tab EXCEPT ![t] =
       [page |-> IF guarded THEN "login" ELSE page, seen |-> access, api |-> "idle",
        mount |-> access \in expired]]
  /\ UNCHANGED <<redis, cookie, access, expired, started, staleDelete>>

Open(t, page)  == Load(t, page)
Redirected(t)  == tab[t].page = "leaving" /\ Load(t, "login")

\* In-app navigation: the guard looks at the tab's own copy of the token.
Visit(t, page) ==
  LET seen == tab[t].seen IN
  /\ tab[t].page # "leaving"
  /\ LET refused == page = "protected" /\ ~Fresh(seen) IN
     /\ Send(t, IF refused /\ seen # None THEN {"guard_sign_out"} ELSE {}, call)
     /\ tab' = [tab EXCEPT ![t].page = IF refused THEN "login" ELSE page]
  /\ UNCHANGED <<redis, cookie, access, expired, started, staleDelete>>

SignIn(t) ==
  /\ tab[t].page = "login"
  /\ \A c \in Calls : ~(call[c].op = "sign_in" /\ call[c].tab = t)
  /\ Send(t, {"sign_in"}, call)
  /\ UNCHANGED <<redis, cookie, access, expired, tab, started, staleDelete>>

SignOut(t) ==
  /\ tab[t].page # "leaving" /\ tab[t].seen # None
  /\ Send(t, {"sign_out"}, call)
  /\ UNCHANGED <<redis, cookie, access, expired, tab, started, staleDelete>>

\* A request of the page goes out with no access token, or an expired one ...
ApiSend(t) ==
  /\ tab[t].page \in {"protected", "public"} /\ tab[t].api = "idle"
  /\ ~Fresh(access)
  /\ tab' = [tab EXCEPT ![t].api = "sent"]
  /\ UNCHANGED <<redis, cookie, access, expired, call, started, staleDelete>>

\* ... and its 401 makes it join the tab's refresh, or begin one.
ApiRefused(t) ==
  /\ tab[t].api = "sent"
  /\ tab' = [tab EXCEPT ![t].api = "waiting"]
  /\ Send(t, IF Refreshing(t) THEN {} ELSE {"refresh"}, call)
  /\ UNCHANGED <<redis, cookie, access, expired, started, staleDelete>>

\* The answer arrives: the browser stores its cookie, then wakes the script.
Arrive(c) ==
  /\ call[c].pc = "answer"
  /\ cookie' = call[c].minted
  /\ call' = [call EXCEPT ![c].pc = "json"]
  /\ UNCHANGED <<redis, access, expired, tab, started, staleDelete>>

\* An access token that no other tab shows; the script of t stores it.
NewAccess(t, a) ==
  /\ a \in Access \ {tab[x].seen : x \in Tabs \ {t}}
  /\ access' = a /\ expired' = expired \ {a}

SignedIn(c) ==
  LET t == call[c].tab IN
  /\ call[c].pc = "json" /\ call[c].op = "sign_in"
  /\ \E a \in Access : /\ NewAccess(t, a)
                       /\ tab' = [tab EXCEPT ![t].seen = a,
                            ![t].page = IF @ = "leaving" THEN @ ELSE "protected"]
  /\ call' = [call EXCEPT ![c] = Idle]
  /\ UNCHANGED <<redis, cookie, started, staleDelete>>

\* The shared promise resolves to true: who waited for it goes on.
Refreshed(c) ==
  LET t == call[c].tab IN
  /\ call[c].pc = "json" /\ call[c].op = "refresh"
  /\ \E a \in Access : /\ NewAccess(t, a)
                       /\ tab' = [tab EXCEPT ![t].seen = a, ![t].mount = FALSE,
                            ![t].api = IF @ = "waiting" THEN "idle" ELSE @]
  /\ call' = [call EXCEPT ![c] = Idle]
  /\ UNCHANGED <<redis, cookie, started, staleDelete>>

\* signOut's continuation, whatever became of its request.
SignedOut(t) ==
  /\ access' = None
  /\ tab' = [tab EXCEPT ![t].seen = None, ![t].page = IF @ = "leaving" THEN @ ELSE "login"]

\* Mutant: a refresh that throws leaves the promise pending.
RefreshFailedPending(t) == tab' = [tab EXCEPT ![t].mount = FALSE] /\ UNCHANGED access

\* The shared promise resolves to false: a waiting request signs the tab out
\* and goes to the login page; AuthProvider drops a token it had seen expired.
RefreshFailed(t) ==
  LET s == tab[t] IN
  IF s.api = "waiting"
  THEN /\ access' = None
       /\ tab' = [tab EXCEPT ![t] = [page |-> IF s.page = "login" THEN "login" ELSE "leaving",
                                     seen |-> None, api |-> "idle", mount |-> FALSE]]
  ELSE IF s.mount
  THEN /\ access' = None
       /\ tab' = [tab EXCEPT ![t] = [page |-> Unguarded(s.page), seen |-> None,
                                     api |-> s.api, mount |-> FALSE]]
  ELSE tab' = [tab EXCEPT ![t].mount = FALSE] /\ UNCHANGED access

\* The script learns that c has failed.
Failed(c) ==
  LET r == call[c] IN
  /\ CASE r.op = "refresh"   -> RefreshFailed(r.tab)
       [] r.op \in SignOuts  -> SignedOut(r.tab)
       [] OTHER              -> UNCHANGED <<access, tab>>
  /\ UNCHANGED <<redis, cookie, expired, started, staleDelete>>

LogoutDone(c) ==
  /\ call[c].pc = "json" /\ call[c].op \in SignOuts
  /\ SignedOut(call[c].tab)
  /\ call' = [call EXCEPT ![c] = Idle]
  /\ UNCHANGED <<redis, cookie, expired, started, staleDelete>>

Refused(c) ==
  /\ call[c].pc = "refused"
  /\ call' = [call EXCEPT ![c] = Idle]
  /\ Failed(c)

\* The connection breaks: the script gives up, the server goes on.
Lose(c) ==
  /\ call[c].tab # None
  /\ call' = [call EXCEPT ![c] = IF @.pc \in Served THEN [@ EXCEPT !.tab = None] ELSE Idle]
  /\ Failed(c)

\* Thirty minutes pass.
ExpireAccess(a) ==
  /\ a \in ({access} \cup {tab[t].seen : t \in Tabs}) \ (expired \cup {None})
  /\ expired' = expired \cup {a}
  /\ UNCHANGED <<redis, cookie, access, tab, call, started, staleDelete>>

----------------------------------------------------------------------------

Serve(c) == SignInStore(c) \/ RefreshGet(c) \/ RefreshDel(c) \/ RefreshStore(c) \/ LogoutDel(c)

Deliver(c) == Arrive(c) \/ SignedIn(c) \/ Refreshed(c) \/ LogoutDone(c) \/ Refused(c)

User(t) == \/ \E page \in Pages \ {"leaving"} : \/ "open" \in Actions /\ Open(t, page)
                                                \/ "visit" \in Actions /\ Visit(t, page)
           \/ "sign_in" \in Actions /\ SignIn(t)
           \/ "sign_out" \in Actions /\ SignOut(t)
           \/ "request" \in Actions /\ ApiSend(t)

Script(t) == ApiRefused(t) \/ Redirected(t)

Next ==
  \/ \E c \in Calls : Serve(c) \/ Deliver(c) \/ Crash(c) \/ Lose(c)
  \/ \E t \in Tabs : User(t) \/ Script(t)
  \/ \E a \in Access : ExpireAccess(a)
  \/ \E n \in Tokens : ExpireRefresh(n)

Spec == Init /\ [][Next]_vars

----------------------------------------------------------------------------
(* Properties *)

AtMostOne(S) == \A x, y \in S : x = y

\* What keeps session f alive: a refresh token of it, or a refresh that has
\* spent one and is about to store the next.
LiveTokens(f) == {n \in Tokens : redis[n] = f}
Rotations(f) == {c \in Calls : call[c].op = "refresh" /\ call[c].pc = "store" /\ call[c].of = f}
Alive(f) == LiveTokens(f) \cup Rotations(f) # {}

\* Rotation (consume_refresh, store_refresh): a session has one refresh token, or
\* one refresh about to store it, and never both, however tabs, reloads, crashes
\* and lost answers interleave - until two requests spend one token.  The document
\* of the sessions promises that this ends the session; ReuseEndsSession below
\* states that promise, which the GET and DEL of consume_refresh do not keep.
OneTokenPerSession ==
  ~staleDelete => \A f \in SignIns :
     /\ AtMostOne(LiveTokens(f)) /\ AtMostOne(Rotations(f))
     /\ LiveTokens(f) = {} \/ Rotations(f) = {}

\* A session that has ended, by logout, by its TTL or by a crash between DEL and
\* SETEX, does not come back: no refresh that is still under way revives it,
\* unless it deletes a token that is already gone (the reuse of ReuseEndsSession,
\* which the code does not notice).
SessionEndsForGood ==
  [][\A f \in started : ~Alive(f) /\ ~staleDelete' => ~Alive(f)']_vars

\* Logout ends the session whose token it was sent (services/auth_service.py,
\* logout): if that token was still live, nothing of the session is left.
LogoutEndsLiveSession ==
  [][\A c \in Calls, f \in SignIns :
       /\ call[c].pc = "logout" /\ call'[c].pc = "answer"
       /\ call[c].sent \in LiveTokens(f) /\ ~staleDelete'
       => ~Alive(f)']_vars

\* The shared promise (api.ts, refreshInFlight): a tab has one refresh in flight
\* at most, and a request that waits for one always has one to wait for.
SharedRefresh ==
  \A t \in Tabs :
    /\ AtMostOne({c \in Calls : call[c].op = "refresh" /\ call[c].tab = t})
    /\ tab[t].api = "waiting" => Refreshing(t)

\* A refresh token that is used again after it was spent ends its session (docs,
\* sections 1.1 and 6): of two refreshes answered for one token, neither leaves
\* a live token.  The code does not keep this: both pass the GET of
\* consume_refresh, nobody looks at what the DEL found, and each stores a token.
Renewed(c) == call[c].op = "refresh" /\ call[c].pc \in {"answer", "json"}
ReuseEndsSession ==
  \A c, d \in Calls :
    c # d /\ Renewed(c) /\ Renewed(d) /\ call[c].sent = call[d].sent
      => redis[call[c].minted] = None /\ redis[call[d].minted] = None

\* An expired access token is renewed without a new sign-in (the purpose of the
\* refresh token, docs section 1.1): a route guard does not end a session that
\* could be refreshed.  The code does not keep this: the guards sign out.
GuardSparesLiveSession ==
  \A c \in Calls : call[c].op = "guard_sign_out" /\ call[c].pc = "logout" /\ call[c].sent # None
                     => redis[call[c].sent] = None
=============================================================================
