------------------------------ MODULE Lifespan ------------------------------
(***************************************************************************)
(* The life of the process: lifespan of main.py, the loops it starts and   *)
(* stops (sync/command_center.py, the Notion watcher), the pipelines that  *)
(* handle_alert leaves running, and the probes of observability/health.py. *)
(***************************************************************************)
EXTENDS Integers, FiniteSets

CONSTANTS
    Jobs,          \* agent pipelines
    Probes,        \* requests for the health or the readiness
    MaxChanges     \* bound: outside services that go or come back

ASSUME ChangesAssumption == MaxChanges \in Nat

VARIABLES
    phase,         \* of lifespan: what it does next, or "serving" or "ended"
    well,          \* are the outside services, is the disk not full?
    attached,      \* app.state.db_engine and app.state.redis
    http, ready,   \* NotionMCPClient: _http and _initialized
    mounted,       \* does the build have the dashboard, at "/"?
    work,          \* the loops and the pipelines
    probe,
    changes,
    afterwards,    \* history: a pipeline called Notion after the client was closed
    seen           \* history: how the services were in the course of a probe

lifeVars == <<phase, well, attached, http, ready, mounted, work, probe, changes, afterwards, seen>>
outside == <<well, changes, mounted>>
probing == <<probe, seen>>

Services == {"database", "redis", "notion", "disk"}
Checks == {"database", "redis", "notion_mcp", "celery", "disk_space"}
Loops == {"watcher", "center"}
Pending == "pending"

LifeInit ==
    /\ phase = "database" /\ well \in [Services -> BOOLEAN] /\ attached = {} /\ http = "none" /\ ready = FALSE
    /\ mounted \in BOOLEAN /\ work = [w \in Loops \cup Jobs |-> "off"] /\ changes = 0 /\ afterwards = FALSE
    /\ probe = [p \in Probes |-> [at |-> "idle"]] /\ seen = [p \in Probes |-> {}]

\* External: a service fails or is back.
Change(s) ==
    /\ phase # "ended" /\ changes < MaxChanges /\ changes' = changes + 1
    /\ well' = [well EXCEPT ![s] = ~@]
    /\ seen' = [p \in Probes |-> IF probe[p].at = "checking" THEN seen[p] \cup {<<s, ~well[s]>>} ELSE seen[p]]
    /\ UNCHANGED <<phase, attached, http, ready, mounted, work, probe, afterwards>>

----------------------------------------------------------------------------
(* Startup, in which nothing but the outside moves                         *)

\* _init_database and _init_redis: without one the process goes on.
Attach(s, next) ==
    /\ phase = s /\ phase' = next
    /\ attached' = IF well[s] THEN attached \cup {s} ELSE attached
    /\ UNCHANGED <<outside, http, ready, work, afterwards, probing>>

\* The session with the MCP server; one that fails is tried again by the first call.
OpenSession ==
    /\ phase = "session" /\ phase' = "rehydrate"
    /\ http' = "open" /\ ready' = well["notion"]
    /\ UNCHANGED <<outside, attached, work, afterwards, probing>>

\* The incidents are loaded, or not, and the loops started: the one of the command center
\* if a page for it is configured.
StartLoops ==
    /\ phase = "rehydrate" /\ phase' = "serving" /\ ready' = (ready \/ well["notion"])
    /\ \E started \in {{"watcher"}, Loops} : work' = [w \in DOMAIN work |-> IF w \in started THEN "resting" ELSE "off"]
    /\ UNCHANGED <<outside, attached, http, afterwards, probing>>

----------------------------------------------------------------------------
(* The loops and the pipelines                                             *)

StartJob(j) ==
    /\ phase = "serving" /\ work[j] = "off" /\ work' = [work EXCEPT ![j] = "resting"]
    /\ UNCHANGED <<phase, outside, attached, http, ready, afterwards, probing>>

\* NotionMCPClient._get_http: a client that was closed is made anew.
CallNotion(w) ==
    /\ phase # "ended" /\ work[w] = "resting" /\ work' = [work EXCEPT ![w] = "calling"]
    /\ http' = "open" /\ afterwards' = (afterwards \/ http = "closed")
    /\ UNCHANGED <<phase, outside, attached, ready, probing>>

\* The answer, or an error, which the loops log; one that says the session is gone ends it.
AnswerNotion(w) ==
    /\ work[w] = "calling" /\ ready' \in IF well["notion"] THEN {TRUE} ELSE {ready, FALSE}
    /\ \E next \in IF w \in Jobs THEN {"resting", "off"} ELSE {"resting"} : work' = [work EXCEPT ![w] = next]
    /\ UNCHANGED <<phase, outside, attached, http, afterwards, probing>>

----------------------------------------------------------------------------
(* Shutdown, after the last request                                        *)

Drained == \A p \in Probes : probe[p].at # "checking"

\* Slip: the flag is cleared, the task is not cancelled.
Slip_Stop(loop) ==
    work' = [work EXCEPT ![loop] = IF @ = "calling" THEN @ ELSE "off"]

\* CommandCenter.stop, NotionWatcher.stop: the task is cancelled where it waits, and awaited.
Stop(loop) == work' = [work EXCEPT ![loop] = "off"]

StopCenter ==
    /\ phase = "serving" /\ Drained /\ phase' = "watcher" /\ Stop("center")
    /\ UNCHANGED <<outside, attached, http, ready, afterwards, probing>>

StopWatcher ==
    /\ phase = "watcher" /\ phase' = "client" /\ Stop("watcher")
    /\ UNCHANGED <<outside, attached, http, ready, afterwards, probing>>

\* NotionMCPClient.close: calls under way fail.
CloseClient ==
    /\ phase = "client" /\ phase' = "dispose" /\ http' = "closed"
    /\ work' = [w \in DOMAIN work |-> IF work[w] = "calling" THEN "resting" ELSE work[w]]
    /\ UNCHANGED <<outside, attached, ready, afterwards, probing>>

\* The engine and Redis are let go; the process ends, and with it every pipeline.
EndProcess ==
    /\ phase = "dispose" /\ phase' = "ended" /\ attached' = {}
    /\ work' = [w \in DOMAIN work |-> "off"]
    /\ UNCHANGED <<outside, http, ready, afterwards, probing>>

----------------------------------------------------------------------------
(* Probes                                                                  *)

\* GET /health: healthy whatever the state.
Health(p) ==
    /\ phase = "serving" /\ probe[p].at = "idle"
    /\ probe' = [probe EXCEPT ![p] = [at |-> "healthy"]]
    /\ UNCHANGED <<phase, outside, attached, http, ready, work, afterwards, seen>>

\* GET /readyz, /health/detailed: their routes come after the mount at "/", if there is one.
Ask(p) ==
    /\ phase = "serving" /\ probe[p].at = "idle"
    /\ probe' = [probe EXCEPT ![p] = IF mounted THEN [at |-> "not found"]
                                     ELSE [at |-> "checking", results |-> [c \in Checks |-> Pending]]]
    /\ seen' = [seen EXCEPT ![p] = {<<s, well[s]>> : s \in Services}]
    /\ UNCHANGED <<phase, outside, attached, http, ready, work, afterwards>>

\* A service that hangs times out.  No Celery app is ever attached.
Backed(s) == IF s \notin attached THEN {"warn"} ELSE IF well[s] THEN {"pass"} ELSE {"fail"}
Results(c) ==
    CASE c \in {"database", "redis"} -> Backed(c)
      [] c = "notion_mcp" -> IF ready THEN {"pass"} ELSE {"warn"}
      [] c = "celery" -> {"warn"}
      [] c = "disk_space" -> IF well["disk"] THEN {"pass", "warn"} ELSE {"fail"}

RunCheck(p, c) ==
    /\ probe[p].at = "checking" /\ probe[p].results[c] = Pending
    /\ \E r \in Results(c) : probe' = [probe EXCEPT ![p].results[c] = r]
    /\ UNCHANGED <<phase, outside, attached, http, ready, work, afterwards, seen>>

\* Slip: a warning hides a failure.
Slip_Overall(results) ==
    LET found(r) == \E c \in Checks : results[c] = r
    IN IF found("warn") THEN "degraded" ELSE IF found("fail") THEN "unhealthy" ELSE "healthy"

\* HealthChecker.check_all, and the code of the answer.
Overall(results) ==
    LET found(r) == \E c \in Checks : results[c] = r
    IN IF found("fail") THEN "unhealthy" ELSE IF found("warn") THEN "degraded" ELSE "healthy"

Report(p) ==
    /\ probe[p].at = "checking" /\ \A c \in Checks : probe[p].results[c] # Pending
    /\ probe' = [probe EXCEPT ![p] = [at |-> IF Overall(probe[p].results) = "unhealthy" THEN "503" ELSE "200"]]
    /\ UNCHANGED <<phase, outside, attached, http, ready, work, afterwards, seen>>

LifeNext ==
    \/ Attach("database", "redis") \/ Attach("redis", "session") \/ OpenSession \/ StartLoops
    \/ \E s \in Services : Change(s)
    \/ \E j \in Jobs : StartJob(j)
    \/ \E w \in DOMAIN work : CallNotion(w) \/ AnswerNotion(w)
    \/ StopCenter \/ StopWatcher \/ CloseClient \/ EndProcess
    \/ \E p \in Probes : Health(p) \/ Ask(p) \/ Report(p) \/ \E c \in Checks : RunCheck(p, c)

----------------------------------------------------------------------------
\* A loop is stopped before the client it calls is closed, and calls no more.
LoopsQuiet == phase \in {"client", "dispose", "ended"} => \A w \in Loops : work[w] = "off"

\* The process ends with its client closed, unless a pipeline, which nobody waits for, made
\* itself a new one during the shutdown.
ClientReleased == (phase = "ended" /\ ~afterwards) => http = "closed"

\* Ready means that each service in use was well at some time during the probe; not ready
\* that one was not.
ReadyMeans == \A p \in Probes : LET used == attached \cup {"disk"} IN phase # "ended" =>
    /\ probe[p].at = "200" => \A s \in used : <<s, TRUE>> \in seen[p]
    /\ probe[p].at = "503" => \E s \in used : <<s, FALSE>> \in seen[p]

\* Loops that end before their client, a client that is closed, and probes that tell.
ProcessSound == LoopsQuiet /\ ClientReleased /\ ReadyMeans
=============================================================================
