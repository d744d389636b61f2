----------------------------- MODULE McpClient -----------------------------
(***************************************************************************)
(* One NotionMCPClient (notion_mcp/client.py) shared by every coroutine    *)
(* that talks to Notion, and the MCP server behind it.  A coroutine runs   *)
(* without interruption up to its next await, so an action is the code     *)
(* between two awaits: from an answer, the end of a wait or a grant of the *)
(* lock to the next request, wait or return.                               *)
(*                                                                         *)
(* Time is kept as ages: the age of every remembered timestamp, capped at  *)
(* Window, and what is left of every sleep.                                *)
(***************************************************************************)
EXTENDS Integers, Sequences, FiniteSets

CONSTANTS
    Callers,       \* coroutines that use the client
    Tools,         \* tool names passed to call_tool
    Nobody,        \* the lock is free
    RequestLimit,  \* MAX_REQUESTS_PER_MIN
    SearchLimit,   \* MAX_SEARCHES_PER_MIN
    Window,        \* the length of the rate window, in ticks
    Attempts,      \* stop_after_attempt
    MaxSessions    \* bound: sessions the server opens

ASSUME CallersAssumption == Nobody \notin Callers
ASSUME LimitsAssumption == RequestLimit \in Nat \ {0} /\ SearchLimit \in Nat \ {0}
ASSUME WindowAssumption == Window \in Nat \ {0}
ASSUME AttemptsAssumption == Attempts \in Nat \ {0}
ASSUME SessionsAssumption == MaxSessions \in Nat \ {0}

NoSession == 0
Sessions == 1 .. MaxSessions

VARIABLES
    initialized, session,          \* _initialized, _session_id
    lock, waiting,                 \* _init_lock: its holder and its queue
    stamps, searchStamps,          \* _request_timestamps, _search_timestamps
    pc, stage, attempt, tool,      \* where each caller is, and in which try
    header, fresh,                 \* its request's session, live when sent?
    due,                           \* what is left of its sleep
    live, opened,                  \* the server's sessions
    passes, searches, overlap,     \* history: calls let through per window
    mayRun, mayOpen                \* history: executions and sessions excused

client  == <<initialized, session>>
locks   == <<lock, waiting>>
limiter == <<stamps, searchStamps, due, passes, searches, overlap>>
request == <<pc, stage, header, fresh>>
calls   == <<attempt, tool, mayRun>>
server  == <<live, opened, mayOpen>>
mcpVars == <<client, locks, limiter, request, calls, server>>

----------------------------------------------------------------------------
(* Rate limiter                                                            *)

\* The only name _rate_limit treats as a search.
IsSearch(t) == t = "notion-search"

\* The name under which the wrapper `search` calls the tool.
SearchToolName == "API-post-search"

\* Entries are appended as time goes by, so those the filter drops, at least
\* as old as the window, are the first ones.
Old(ages) == {i \in DOMAIN ages : ages[i] >= Window}
Young(ages) == SubSeq(ages, Cardinality(Old(ages)) + 1, Len(ages))

\* Slip: the limit is exceeded by one before anybody waits.
WaitLate(ages, limit) ==
    IF Len(ages) > limit THEN Window - Head(ages) ELSE 0

\* How long a caller sleeps that finds these entries.
Wait(ages, limit) ==
    IF Len(ages) >= limit THEN Window - Head(ages) ELSE 0

\* The request of caller c goes out under session id.
Post(c, to, in, id, sessions) ==
    /\ pc' = [pc EXCEPT ![c] = to]
    /\ stage' = [stage EXCEPT ![c] = in]
    /\ header' = [header EXCEPT ![c] = id]
    /\ fresh' = [fresh EXCEPT ![c] = id \in sessions]

\* Caller c has no request out.
Home(c, to) ==
    /\ pc' = [pc EXCEPT ![c] = to]
    /\ stage' = [stage EXCEPT ![c] = "first"]
    /\ header' = [header EXCEPT ![c] = NoSession]
    /\ fresh' = [fresh EXCEPT ![c] = FALSE]

\* The limiter lets caller c through: both lists record it, the call is sent.
Pass(c, kept, keptSearches) ==
    /\ stamps' = Append(kept, 0)
    /\ passes' = Append(passes, 0)
    /\ IF IsSearch(tool[c])
         THEN searchStamps' = Append(keptSearches, 0)
         ELSE searchStamps' = searchStamps
    /\ searches' = IF tool[c] \in {"notion-search", SearchToolName}
                     THEN Append(searches, 0) ELSE searches
    /\ Post(c, "call", "first", session, live)

\* _rate_limit up to its sleep, or through it when there is room.  The sleep
\* for searches follows the one for requests; both count from the same now.
EnterLimiter(c) ==
    LET kept == Young(stamps)
        keptSearches == IF IsSearch(tool[c]) THEN Young(searchStamps)
                                             ELSE searchStamps
        wait == Wait(kept, RequestLimit)
                  + (IF IsSearch(tool[c]) THEN Wait(keptSearches, SearchLimit) ELSE 0)
    IN  /\ overlap' = (overlap \/ \E d \in Callers \ {c} : pc[d] = "sleep")
        /\ \/ /\ wait = 0
              /\ Pass(c, kept, keptSearches)
              /\ UNCHANGED due
           \/ /\ wait > 0
              /\ stamps' = kept
              /\ searchStamps' = keptSearches
              /\ due' = [due EXCEPT ![c] = wait]
              /\ Home(c, "sleep")
              /\ UNCHANGED <<passes, searches>>

\* The sleep is over: nothing is checked again.
Wake(c) ==
    /\ pc[c] = "sleep"
    /\ due[c] = 0
    /\ Pass(c, stamps, searchStamps)
    /\ UNCHANGED <<client, locks, due, overlap, calls, server>>

Older(ages) == [i \in DOMAIN ages |-> IF ages[i] < Window THEN ages[i] + 1 ELSE Window]

Tick ==
    /\ stamps' = Older(stamps)
    /\ searchStamps' = Older(searchStamps)
    /\ passes' = Young(Older(passes))
    /\ searches' = Young(Older(searches))
    /\ due' = [c \in Callers |-> IF due[c] > 0 THEN due[c] - 1 ELSE 0]
    /\ UNCHANGED <<client, locks, overlap, request, calls, server>>

----------------------------------------------------------------------------
(* Sessions                                                                *)

\* A request `initialize` goes out, with whatever session id is still set.
Ask(c, in, id, sessions) == Post(c, "initialize", in, id, sessions)

\* Slip: a failed initialize leaves the lock taken.
LeaveKeeping(c) == lock' = lock

\* The end of `async with self._init_lock`, which exceptions reach too.
Leave(c) == lock' = IF lock = c THEN Nobody ELSE lock

\* call_tool ends with an exception, or tenacity tries the whole of it again.
Raise(c, again) ==
    /\ IF again /\ attempt[c] < Attempts
         THEN /\ Home(c, "ready")
              /\ attempt' = [attempt EXCEPT ![c] = @ + 1]
         ELSE /\ Home(c, "idle")
              /\ UNCHANGED attempt
    /\ UNCHANGED tool

\* call_tool is called.
Start(c, t) ==
    /\ pc[c] = "idle"
    /\ Home(c, "ready")
    /\ attempt' = [attempt EXCEPT ![c] = 1]
    /\ tool' = [tool EXCEPT ![c] = t]
    /\ mayRun' = [mayRun EXCEPT ![c] = 1]
    /\ UNCHANGED <<client, locks, limiter, server>>

\* A try starts: _ensure_initialized, whose lock is granted in turn.
Begin(c) ==
    /\ pc[c] = "ready"
    /\ \/ /\ initialized
          /\ EnterLimiter(c)
          /\ UNCHANGED locks
       \/ /\ ~initialized
          /\ lock = Nobody /\ waiting = <<>>
          /\ lock' = c
          /\ Ask(c, "lock", session, live)
          /\ UNCHANGED <<waiting, limiter>>
       \/ /\ ~initialized
          /\ lock # Nobody \/ waiting # <<>>
          /\ waiting' = Append(waiting, c)
          /\ Home(c, "wait")
          /\ UNCHANGED <<lock, limiter>>
    /\ UNCHANGED <<client, calls, server>>

\* Slip: the flag is not read again under the lock.
LockedBlindly(c) ==
    /\ pc[c] = "wait"
    /\ lock = Nobody
    /\ waiting # <<>> /\ Head(waiting) = c
    /\ waiting' = Tail(waiting)
    /\ lock' = c
    /\ Ask(c, "lock", session, live)
    /\ UNCHANGED <<client, limiter, calls, server>>

\* The lock is granted; the flag is read again under it.
Locked(c) ==
    /\ pc[c] = "wait"
    /\ lock = Nobody
    /\ waiting # <<>> /\ Head(waiting) = c
    /\ waiting' = Tail(waiting)
    /\ \/ /\ initialized
          /\ EnterLimiter(c)
          /\ UNCHANGED lock
       \/ /\ ~initialized
          /\ lock' = c
          /\ Ask(c, "lock", session, live)
          /\ UNCHANGED limiter
    /\ UNCHANGED <<client, calls, server>>

----------------------------------------------------------------------------
(* Answers                                                                 *)

\* What a 410 excuses: two more sessions, of those the bound leaves.
Excused == IF mayOpen + 2 < MaxSessions THEN mayOpen + 2 ELSE MaxSessions

\* The server executes the call of caller c.
Runs(c) == mayRun' = [mayRun EXCEPT ![c] = @ - 1]

\* The request was let in: it named no session, or one alive when it was sent.
Accepted(c) == header[c] = NoSession \/ fresh[c]

\* Slip: a 410 forgets the session and leaves the client initialized.
ForgetHalf ==
    /\ session' = NoSession
    /\ UNCHANGED initialized

\* _send_jsonrpc on a 410, whichever session the request had named.
Forget ==
    /\ session' = NoSession
    /\ initialized' = FALSE

\* A new session: its id is stored and the notification goes out under it.
InitializeOk(c) ==
    /\ pc[c] = "initialize"
    /\ Accepted(c)
    /\ opened < MaxSessions
    /\ opened' = opened + 1
    /\ live' = live \cup {opened + 1}
    /\ session' = opened + 1
    /\ initialized' = TRUE
    /\ Post(c, "notify", stage[c], opened + 1, live')
    /\ mayOpen' = mayOpen - 1
    /\ UNCHANGED <<locks, limiter, calls>>

\* 410: within _ensure_initialized, initialize is repeated outside the lock.
InitializeGone(c) ==
    /\ pc[c] = "initialize"
    /\ header[c] # NoSession /\ header[c] \notin live
    /\ Forget
    /\ mayOpen' = Excused
    /\ Leave(c)
    /\ \/ /\ stage[c] = "lock"
          /\ Ask(c, "pre", NoSession, live)
          /\ UNCHANGED calls
       \/ /\ stage[c] # "lock"
          /\ Raise(c, FALSE)
          /\ UNCHANGED mayRun
    /\ UNCHANGED <<waiting, limiter, live, opened>>

\* 429, an error of the server, or no answer: then the server may still have
\* opened a session nobody will use.
InitializeFails(c) ==
    /\ pc[c] = "initialize"
    /\ \/ \E again \in BOOLEAN :
            /\ Raise(c, again)
            /\ UNCHANGED server
       \/ /\ opened < MaxSessions
          /\ opened' = opened + 1
          /\ live' = live \cup {opened + 1}
          /\ Raise(c, TRUE)
          /\ UNCHANGED mayOpen
    /\ Leave(c)
    /\ UNCHANGED <<client, waiting, limiter, mayRun>>

\* notifications/initialized was answered, with whatever status.
Notified(c) ==
    /\ pc[c] = "notify"
    /\ Leave(c)
    /\ \/ /\ stage[c] \in {"lock", "pre"}
          /\ EnterLimiter(c)
       \/ /\ stage[c] = "post"
          /\ Post(c, "call", "again", session, live)
          /\ UNCHANGED limiter
    /\ UNCHANGED <<client, waiting, calls, server>>

NotifyFails(c) ==
    /\ pc[c] = "notify"
    /\ Leave(c)
    /\ Raise(c, TRUE)
    /\ UNCHANGED <<client, waiting, limiter, mayRun, server>>

\* The session id of an answered call is taken over when the server sends it.
Echo(c) == session' \in {session, header[c]}

CallOk(c) ==
    /\ pc[c] = "call"
    /\ header[c] # NoSession /\ fresh[c]
    /\ Echo(c)
    /\ Runs(c)
    /\ Home(c, "idle")
    /\ UNCHANGED <<initialized, locks, limiter, attempt, tool, server>>

\* 410: a new session and the call once more, past the limiter; then give up.
CallGone(c) ==
    /\ pc[c] = "call"
    /\ header[c] # NoSession /\ header[c] \notin live
    /\ Forget
    /\ mayOpen' = Excused
    /\ \/ /\ stage[c] = "first"
          /\ Ask(c, "post", NoSession, live)
          /\ UNCHANGED calls
       \/ /\ stage[c] = "again"
          /\ Raise(c, FALSE)
          /\ UNCHANGED mayRun
    /\ UNCHANGED <<locks, limiter, live, opened>>

\* 429: not executed, tried again.
CallLimited(c) ==
    /\ pc[c] = "call"
    /\ Raise(c, TRUE)
    /\ UNCHANGED <<client, locks, limiter, mayRun, server>>

\* No answer: executed or not, and tried again.
CallLost(c) ==
    /\ pc[c] = "call"
    /\ \/ header[c] # NoSession /\ fresh[c] /\ UNCHANGED mayRun
       \/ mayRun' = [mayRun EXCEPT ![c] = @ + 1]
    /\ Raise(c, TRUE)
    /\ UNCHANGED <<client, locks, limiter, server>>

\* Slip: an error of the server is retried like a lost answer.
CallErrorRetried(c) ==
    /\ pc[c] = "call"
    /\ \/ header[c] # NoSession /\ fresh[c] /\ Runs(c)
       \/ UNCHANGED mayRun
    /\ Raise(c, TRUE)
    /\ UNCHANGED <<client, locks, limiter, server>>

\* An error of the tool or of the server, perhaps after some of its work; a
\* request without a session is one.  An error in a 200 still carries the id.
CallError(c) ==
    /\ pc[c] = "call"
    /\ \/ /\ header[c] # NoSession /\ fresh[c]
          /\ Runs(c) \/ UNCHANGED mayRun
          /\ Echo(c)
       \/ UNCHANGED <<mayRun, session>>
    /\ Raise(c, FALSE)
    /\ UNCHANGED <<initialized, locks, limiter, server>>

\* The server drops a session.
Expire(s) ==
    /\ s \in live
    /\ live' = live \ {s}
    /\ UNCHANGED <<client, locks, limiter, request, calls, opened, mayOpen>>

----------------------------------------------------------------------------
\* The client after lifespan tried to open a session; it may have failed.
McpInit ==
    /\ initialized \in BOOLEAN
    /\ opened = IF initialized THEN 1 ELSE 0
    /\ session = opened
    /\ live = 1 .. opened
    /\ lock = Nobody /\ waiting = <<>>
    /\ stamps = <<>> /\ searchStamps = <<>> /\ passes = <<>> /\ searches = <<>>
    /\ overlap = FALSE
    /\ pc = [c \in Callers |-> "idle"]
    /\ stage = [c \in Callers |-> "first"]
    /\ attempt = [c \in Callers |-> 1]
    /\ tool \in [Callers -> Tools]
    /\ header = [c \in Callers |-> NoSession]
    /\ fresh = [c \in Callers |-> FALSE]
    /\ due = [c \in Callers |-> 0]
    /\ mayRun = [c \in Callers |-> 1]
    /\ mayOpen = 1 - opened

\* What the client and the server do for caller c once it has called.
Serve(c) ==
    \/ Begin(c) \/ Locked(c) \/ Wake(c)
    \/ InitializeOk(c) \/ InitializeGone(c) \/ InitializeFails(c)
    \/ Notified(c) \/ NotifyFails(c)
    \/ CallOk(c) \/ CallGone(c) \/ CallLimited(c) \/ CallLost(c) \/ CallError(c)

McpNext ==
    \/ \E c \in Callers : Serve(c)
    \/ \E c \in Callers : \E t \in Tools : Start(c, t)
    \/ \E s \in Sessions : Expire(s)
    \/ Tick

McpSpec == McpInit /\ [][McpNext]_mcpVars

----------------------------------------------------------------------------
Ages == 0 .. Window

ClientType == initialized \in BOOLEAN /\ session \in Sessions \cup {NoSession}
LocksType == lock \in Callers \cup {Nobody} /\ waiting \in Seq(Callers)
LimiterType ==
    /\ stamps \in Seq(Ages) /\ searchStamps \in Seq(Ages)
    /\ passes \in Seq(Ages) /\ searches \in Seq(Ages)
    /\ due \in [Callers -> Nat]
    /\ overlap \in BOOLEAN
RequestType ==
    /\ pc \in [Callers -> {"idle", "ready", "wait", "initialize", "notify", "sleep", "call"}]
    /\ stage \in [Callers -> {"lock", "pre", "post", "first", "again"}]
    /\ header \in [Callers -> Sessions \cup {NoSession}]
    /\ fresh \in [Callers -> BOOLEAN]
CallsType ==
    /\ attempt \in [Callers -> 1 .. Attempts]
    /\ tool \in [Callers -> Tools]
    /\ mayRun \in [Callers -> Int]
ServerType ==
    /\ live \in SUBSET Sessions
    /\ opened \in 0 .. MaxSessions
    /\ mayOpen \in Int

\* The types of the client's, the callers' and the server's state; no call is
\* tried more often than Attempts.
McpTypeOK ==
    /\ ClientType /\ LocksType /\ LimiterType
    /\ RequestType /\ CallsType /\ ServerType

\* An initialized client has a session id to send: no interleaving of answers,
\* late ones included, leaves the flag set and the id empty, from where no
\* caller would ever open a session again.
InitializedHasSession == initialized => session # NoSession

\* A tool runs more than once for one call only when an answer was lost on the
\* way: neither a 410, nor a 429, nor an error makes the client repeat work the
\* server has done.
RepeatsOnlyAfterLoss == \A c \in Callers : mayRun[c] >= 0

\* The limiter keeps its promise to callers that come one at a time: no window
\* holds more calls than the limit.  (The calls repeated after a 410 and the
\* requests that open sessions do not pass it.)
WindowHolds == overlap \/ Len(passes) <= RequestLimit

\* Callers that find no session at the same time share one: each further
\* session follows a 410, which may cost two (the caller that got it opens one
\* outside the lock), or an opening whose answer was lost.
SessionsShared == mayOpen >= 0

\* Searches stay within the limit the README announces for them.
SearchesWithinLimit == Len(searches) <= SearchLimit

\* Every call of a tool returns or raises, whatever the server answers: the
\* lock finds its next holder, a sleeper wakes, the tries come to an end.
McpFairness ==
    /\ \A c \in Callers : WF_mcpVars(Serve(c))
    /\ WF_mcpVars(Tick)
McpFairSpec == McpSpec /\ McpFairness
CallsEnd == \A c \in Callers : []<>(pc[c] = "idle")
=============================================================================
