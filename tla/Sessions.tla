------------------------------- MODULE Sessions -------------------------------
(***************************************************************************)
(* A user's session: the tokens the server issues and exchanges            *)
(* (auth/router.py, auth/jwt.py, auth/middleware.py) and the browser that  *)
(* keeps them twice, in the store that renews them by a timer              *)
(* (frontend stores/authStore.js) and in localStorage, which the API       *)
(* client renews after a 401 (frontend api/client.js).                     *)
(*                                                                         *)
(* A token is named by the second it was issued in: claims and expiry are  *)
(* all it holds, so two tokens of one second are the same token.           *)
(***************************************************************************)
EXTENDS Integers, Sequences, FiniteSets

CONSTANTS
    Calls,         \* API calls of the dashboard
    AccessLife,    \* seconds an access token is good for
    MaxClock,      \* bound on the clock
    MaxOutages     \* bound: replies lost, restarts of the server

ASSUME LivesAssumption ==
    /\ AccessLife \in Nat \ {0} /\ MaxClock \in Nat /\ MaxOutages \in Nat
    /\ "store" \notin Calls /\ "user" \notin Calls

VARIABLES
    clock,
    blacklist,     \* _blacklisted_tokens, in the server's memory
    store,         \* the pair in the auth store
    local,         \* the pair in localStorage
    timer,         \* does the store's interval run?
    refreshing,    \* isRefreshing of the API client
    proc,          \* the store's refresh and each API call
    outages,
    ended,         \* history: signed out, and since then no login
    late,          \* history: a refresh was in flight when that happened
    used,          \* history: how often each refresh token was exchanged, in the server's life
    excused        \* history: tokens two requests had in hand at once, in the server's life

sessionVars == <<clock, blacklist, store, local, timer, refreshing, proc, outages, ended, late, used, excused>>
browserVars == <<store, local, timer, refreshing, ended, late>>
serverVars == <<blacklist, used, excused>>

None == -1
NoPair == [access |-> None, refresh |-> None]

\* create_access_token, create_refresh_token
Pair(second) == [access |-> second, refresh |-> second]

Calm == [at |-> "idle"]
Failed == [at |-> "refused"]
Procs == {"store"} \cup Calls
InFlight(p) == proc[p].at \in {"sent", "checked", "answered", "refused"}
AtServer(p) == proc[p].at \in {"sent", "checked"}

Sent(refresh, starting) == [at |-> "sent", refresh |-> refresh, starting |-> starting]

\* get_current_user and decode_token: a token that has not expired.
Accepted(access) == access # None /\ clock - access < AccessLife

SessionsInit ==
    /\ clock = 0 /\ blacklist = {} /\ store = NoPair /\ local = NoPair /\ timer = FALSE
    /\ refreshing = FALSE /\ proc = [p \in Procs |-> Calm] /\ outages = 0
    /\ ended = TRUE /\ late = FALSE /\ used = [s \in 0 .. MaxClock |-> 0] /\ excused = {}

Tick ==
    /\ clock < MaxClock /\ clock' = clock + 1
    /\ UNCHANGED <<serverVars, browserVars, proc, outages>>

----------------------------------------------------------------------------
(* The server                                                              *)

\* refresh_token up to the query for the user: the blacklist is read.
Check(p) ==
    /\ proc[p].at = "sent"
    /\ LET r == proc[p].refresh
       IN /\ proc' = [proc EXCEPT ![p] = IF r \in blacklist THEN Failed ELSE [@ EXCEPT !.at = "checked"]]
          /\ excused' = IF \E q \in Procs \ {p} : proc[q].at = "checked" /\ proc[q].refresh = r
                        THEN excused \cup {r} ELSE excused
    /\ UNCHANGED <<clock, blacklist, used, browserVars, outages>>

\* Slip: the old token stays good.
Slip_Exchange(p) ==
    /\ proc[p].at = "checked"
    /\ used' = [used EXCEPT ![proc[p].refresh] = @ + 1]
    /\ proc' = [proc EXCEPT ![p].at = "answered", ![p].refresh = clock]
    /\ UNCHANGED <<clock, blacklist, excused, browserVars, outages>>

\* refresh_token after the query: the token is blacklisted, a pair is issued.
Exchange(p) ==
    /\ proc[p].at = "checked"
    /\ blacklist' = blacklist \cup {proc[p].refresh}
    /\ used' = [used EXCEPT ![proc[p].refresh] = @ + 1]
    /\ proc' = [proc EXCEPT ![p].at = "answered", ![p].refresh = clock]
    /\ UNCHANGED <<clock, excused, browserVars, outages>>

\* The request or its reply is lost.
Lose(p) ==
    /\ proc[p].at \in {"sent", "answered"} /\ outages < MaxOutages /\ outages' = outages + 1
    /\ proc' = [proc EXCEPT ![p] = Failed]
    /\ UNCHANGED <<clock, serverVars, browserVars>>

\* The server forgets the blacklist, and the histories what it guarded; requests at it fail.
RestartServer ==
    /\ outages < MaxOutages /\ outages' = outages + 1
    /\ blacklist' = {} /\ used' = [s \in DOMAIN used |-> 0] /\ excused' = {}
    /\ proc' = [p \in Procs |-> IF AtServer(p) THEN Failed ELSE proc[p]]
    /\ UNCHANGED <<clock, browserVars>>

----------------------------------------------------------------------------
(* The store                                                               *)

\* login, register: the pair is kept twice and the interval started.
Login ==
    /\ store = NoPair /\ store' = Pair(clock) /\ local' = Pair(clock)
    /\ timer' = TRUE /\ ended' = FALSE /\ late' = FALSE
    /\ UNCHANGED <<clock, serverVars, refreshing, proc, outages>>

\* Slip: what is in localStorage is left there.
Slip_SignOut(p) ==
    /\ store' = NoPair /\ UNCHANGED local /\ timer' = FALSE /\ ended' = TRUE
    /\ late' = ((ended /\ late) \/ \E q \in Procs \ {p} : InFlight(q))

\* logout of the store, by p or by the user: it tells the server nothing.
SignOut(p) ==
    /\ store' = NoPair /\ local' = NoPair /\ timer' = FALSE /\ ended' = TRUE
    /\ late' = ((ended /\ late) \/ \E q \in Procs \ {p} : InFlight(q))

Logout ==
    /\ store # NoPair /\ SignOut("user")
    /\ UNCHANGED <<clock, serverVars, refreshing, proc, outages>>

\* The interval: refreshAccessToken with the pair the store has.
StoreRefresh ==
    /\ timer /\ proc["store"] = Calm /\ store # NoPair
    /\ proc' = [proc EXCEPT !["store"] = Sent(store.refresh, FALSE)]
    /\ UNCHANGED <<clock, serverVars, browserVars, outages>>

\* Its reply.  On the start of the page the user is fetched again, with the new token.
StoreLand ==
    /\ proc["store"].at = "answered"
    /\ LET pair == Pair(proc["store"].refresh)
       IN IF proc["store"].starting /\ ~Accepted(pair.access) THEN SignOut("store")
          ELSE /\ store' = pair /\ local' = pair
               /\ timer' = (timer \/ proc["store"].starting) /\ UNCHANGED <<ended, late>>
    /\ proc' = [proc EXCEPT !["store"] = Calm]
    /\ UNCHANGED <<clock, serverVars, refreshing, outages>>

StoreFail ==
    /\ proc["store"].at = "refused" /\ SignOut("store")
    /\ proc' = [proc EXCEPT !["store"] = Calm]
    /\ UNCHANGED <<clock, serverVars, refreshing, outages>>

\* The page is loaded again: localStorage is all that is left.  Requests at the server may
\* still take effect there.
ReloadPage ==
    /\ store' = local /\ timer' = FALSE /\ refreshing' = FALSE
    /\ LET refs == {proc[p].refresh : p \in {q \in Procs : AtServer(q)}} \ blacklist
       IN \E done \in SUBSET refs :
             /\ blacklist' = blacklist \cup done
             /\ used' = [s \in DOMAIN used |-> used[s] + IF s \in done THEN 1 ELSE 0]
             /\ excused' = excused \cup {r \in refs : Cardinality({p \in Procs : AtServer(p) /\ proc[p].refresh = r}) > 1}
    /\ proc' = [p \in Procs |-> IF p = "store" /\ local # NoPair THEN [at |-> "start"] ELSE Calm]
    /\ UNCHANGED <<clock, local, ended, late, outages>>

\* initAuth: GET /auth/me with the token that was found.
InitAuth ==
    /\ proc["store"].at = "start"
    /\ \/ /\ Accepted(store.access) /\ timer' = TRUE
          /\ proc' = [proc EXCEPT !["store"] = Calm] /\ UNCHANGED <<store, local, ended, late, outages>>
       \/ /\ ~Accepted(store.access)
          /\ IF store = NoPair THEN SignOut("store") /\ proc' = [proc EXCEPT !["store"] = Calm]
             ELSE proc' = [proc EXCEPT !["store"] = Sent(store.refresh, TRUE)]
                  /\ UNCHANGED <<store, local, timer, ended, late>>
          /\ UNCHANGED outages
       \/ /\ outages < MaxOutages /\ outages' = outages + 1     \* no connection
          /\ proc' = [proc EXCEPT !["store"] = Calm] /\ UNCHANGED <<store, local, timer, ended, late>>
    /\ UNCHANGED <<clock, serverVars, refreshing>>

----------------------------------------------------------------------------
(* The API client                                                          *)

Call(c) ==
    /\ proc[c] = Calm /\ local # NoPair
    /\ proc' = [proc EXCEPT ![c] = [at |-> "request", access |-> local.access]]
    /\ UNCHANGED <<clock, serverVars, browserVars, outages>>

\* The reply; after a 401 the first call refreshes and the others queue.
Reply(c) ==
    /\ proc[c].at = "request"
    /\ \/ /\ Accepted(proc[c].access) /\ proc' = [proc EXCEPT ![c] = Calm] /\ UNCHANGED refreshing
       \/ /\ ~Accepted(proc[c].access) /\ refreshing
          /\ proc' = [proc EXCEPT ![c] = [at |-> "waiting"]] /\ UNCHANGED refreshing
       \/ /\ ~Accepted(proc[c].access) /\ ~refreshing /\ refreshing' = TRUE
          /\ proc' = [proc EXCEPT ![c] = IF local.refresh = None THEN Failed
                                         ELSE Sent(local.refresh, FALSE)]
    /\ UNCHANGED <<clock, serverVars, store, local, timer, ended, late, outages>>

\* processQueue: those that wait go on with the new token, or fail.
Released(c) == [p \in Procs |-> IF p = c \/ proc[p].at = "waiting" THEN Calm ELSE proc[p]]

\* Only localStorage gets the new pair; the calls are repeated, once.
Land(c) ==
    /\ proc[c].at = "answered"
    /\ local' = Pair(proc[c].refresh) /\ refreshing' = FALSE /\ proc' = Released(c)
    /\ UNCHANGED <<clock, serverVars, store, timer, ended, late, outages>>

\* The session is cleared and auth:logout signs the store out.
Fail(c) ==
    /\ proc[c].at = "refused" /\ SignOut(c)
    /\ refreshing' = FALSE /\ proc' = Released(c)
    /\ UNCHANGED <<clock, serverVars, outages>>

SessionsNext ==
    \/ Tick \/ RestartServer \/ Login \/ Logout \/ StoreRefresh \/ StoreLand \/ StoreFail \/ ReloadPage \/ InitAuth
    \/ \E p \in Procs : Check(p) \/ Exchange(p) \/ Lose(p)
    \/ \E c \in Calls : Call(c) \/ Reply(c) \/ Land(c) \/ Fail(c)

----------------------------------------------------------------------------
\* "One-time use": in the life of a server process, which remembers the blacklist no
\* longer, a refresh token is exchanged once, unless two requests had it in hand between the
\* look at the blacklist and the entry in it.
ExchangedOnce == \A s \in DOMAIN used \ excused : used[s] <= 1

\* Who is signed out stays so, in the store and for the next load of the page, unless a
\* refresh was under way: its reply writes the tokens back.
SignedOutStays == (ended /\ ~late) => (local = NoPair /\ store = NoPair)

\* A call waits for a refresh only while one is under way.
WaitersServed == (\E c \in Calls : proc[c].at = "waiting") => (refreshing /\ \E c \in Calls : InFlight(c))
=============================================================================
