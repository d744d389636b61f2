--------------------------- MODULE IncidentIntake --------------------------
(***************************************************************************)
(* IncidentManager.create_incident of src/incidents/manager.py: alerts     *)
(* that arrive together are deduplicated, grouped (AlertGrouper of         *)
(* src/agents/alert_grouping.py) or made incidents with a Notion page; and *)
(* rehydrate_from_notion, which builds the manager's memory from those     *)
(* pages when the process starts again.                                    *)
(*                                                                         *)
(* A handler is one call of main.handle_alert.  It suspends at each call   *)
(* to Notion; between two of them it is atomic, for there is one event     *)
(* loop.  The MCP client repeats a call that is rate limited or whose      *)
(* answer is lost, creations included, and Notion may carry out a request  *)
(* long after its caller has given it up.                                  *)
(***************************************************************************)
EXTENDS Naturals, FiniteSets

CONSTANTS
  Handlers,     \* concurrent calls of handle_alert
  Alerts,       \* what an alert says: records of fp, service, words, severity, source, labels
  Severities,   \* severity names
  Unknown,      \* "unknown": the service of a rehydrated incident, and of alerts that name none
  Empty,        \* "": a service left empty, and the fingerprint of a rehydrated incident
  DedupWindow,  \* config.DEDUP_WINDOW_SECONDS, in ticks
  PageLimit,    \* page_size of the query that rehydrates
  MaxTries,     \* stop_after_attempt of NotionMCPClient.call_tool
  Times,        \* bound: readings of the clock, 0 the first
  MaxArrivals,  \* bound: alerts
  MaxFaults     \* bound: failing Notion calls and restarts of the process

ASSUME ManagerAssumption ==
  /\ Unknown # Empty
  /\ \A a \in Alerts : /\ a.fp # Empty
                        /\ a.severity \in Severities
                        /\ IsFiniteSet(a.words) /\ IsFiniteSet(a.labels)
  /\ DedupWindow \in Nat \ {0}
  /\ PageLimit \in Nat \ {0} /\ MaxTries \in Nat \ {0}
  /\ Times \subseteq Nat /\ 0 \in Times
  /\ MaxArrivals \in Nat /\ MaxFaults \in Nat

VARIABLES
  incidents,  \* _incidents: by id, what grouping reads of an incident
  counter,    \* _counter
  cache,      \* _dedup_cache: by fingerprint, the incident and when it was stored
  pages,      \* the incident database in Notion
  late,       \* pages of requests given up by their caller that Notion may still carry out
  handler,    \* per handler, its alert and how far it is
  now,        \* the clock, in ticks
  arrivals,   \* alerts that arrived, which the bound counts
  faults,     \* failures that happened, which the bound counts
  complete    \* history: every restart so far has loaded every page, with none to come

vars == <<incidents, counter, cache, pages, late, handler, now, arrivals, faults, complete>>

GroupWindow == 2 * DedupWindow

NoHandler == [pc |-> "idle"]

Init ==
  /\ incidents = <<>>
  /\ counter = 0
  /\ cache = <<>>
  /\ pages = {}
  /\ late = {}
  /\ handler = [h \in Handlers |-> NoHandler]
  /\ now = 0
  /\ arrivals = 0
  /\ faults = 0
  /\ complete = TRUE

Fault == faults < MaxFaults /\ faults' = faults + 1

With(f, x, v) == [y \in DOMAIN f \cup {x} |-> IF y = x THEN v ELSE f[y]]

-----------------------------------------------------------------------------
(* AlertGrouper.                                                           *)

Larger(m, n) == IF m > n THEN m ELSE n

(* _similarity_score in tenths, times the number of words of the longer    *)
(* title: a ratio of word counts is part of it.  A title without words     *)
(* scores nothing, and neither does an empty service.                      *)
Scale(a, inc) == Larger(1, Larger(Cardinality(a.words), Cardinality(inc.words)))

Score(a, inc) ==
  Scale(a, inc) * ((IF a.service # Empty /\ a.service = inc.service THEN 15 ELSE 0)
                   + (IF a.severity = inc.severity THEN 3 ELSE 0)
                   + (IF a.source = inc.source THEN 2 ELSE 0)
                   + 3 * Cardinality(a.labels \cap inc.labels))
  + 15 * Cardinality(a.words \cap inc.words)

(* Slip: a score of exactly 2.0 is no longer enough.                       *)
AlikeStrictly(a, inc) == Score(a, inc) > 20 * Scale(a, inc)

(* best_score >= 2.0.                                                      *)
Alike(a, inc) == Score(a, inc) >= 20 * Scale(a, inc)

(* The active incidents that are young enough for find_group.              *)
Candidates == {i \in DOMAIN incidents : incidents[i].active /\ now <= incidents[i].at + GroupWindow}

Groups(a) == {i \in Candidates : Alike(a, incidents[i])}

-----------------------------------------------------------------------------
(* create_incident.                                                        *)

(* _is_duplicate: the cache still holds the fingerprint.                   *)
Duplicate(a) == a.fp \in DOMAIN cache /\ now < cache[a.fp].at + DedupWindow

(* An expired entry is deleted when it is met.                             *)
Purge(a) ==
  cache' = IF a.fp \in DOMAIN cache /\ ~Duplicate(a)
           THEN [f \in DOMAIN cache \ {a.fp} |-> cache[f]] ELSE cache

Arrives(h) ==
  /\ handler[h] = NoHandler
  /\ arrivals < MaxArrivals
  /\ arrivals' = arrivals + 1

(* A duplicate of a known incident is a comment on its page, and so is an  *)
(* alert that joins a group.                                               *)
Joins(a) == (Duplicate(a) /\ cache[a.fp].id \in DOMAIN incidents) \/ Groups(a) # {}

ArriveJoining(h, a) ==
  /\ Arrives(h)
  /\ Joins(a)
  /\ Purge(a)
  /\ handler' = [handler EXCEPT ![h] = [pc |-> "comment"]]
  /\ UNCHANGED <<incidents, counter, pages, late, now, faults, complete>>

(* create_incident of an alert that joins none: it asks Notion for a page. *)
Asking(a, t) ==
  [pc |-> "create", alert |-> a, id |-> counter + 1, birth |-> arrivals + 1, at |-> t,
   since |-> now, try |-> 1]

(* Slip: the fingerprint is claimed before the incident exists.            *)
ArriveNewClaiming(h, a, t) ==
  /\ Arrives(h)
  /\ ~Joins(a)
  /\ cache' = With(cache, a.fp, [id |-> counter + 1, at |-> now])
  /\ counter' = counter + 1
  /\ handler' = [handler EXCEPT ![h] = Asking(a, t)]
  /\ UNCHANGED <<incidents, pages, late, now, faults, complete>>

(* Any other alert takes the next id and asks Notion for a page.  When it  *)
(* was triggered is what its sender says, past or future.                  *)
ArriveNew(h, a, t) ==
  /\ Arrives(h)
  /\ ~Joins(a)
  /\ Purge(a)
  /\ counter' = counter + 1
  /\ handler' = [handler EXCEPT ![h] = Asking(a, t)]
  /\ UNCHANGED <<incidents, pages, late, now, faults, complete>>

PageOf(c) == [id |-> c.id, birth |-> c.birth, try |-> c.try, alert |-> c.alert, at |-> c.at,
              severity |-> c.alert.severity, active |-> TRUE]

(* The id Notion gives a page: one per request that it carries out.        *)
PageId(p) == <<p.birth, p.try>>

NoPage == <<0, 0>>

(* create_page at Notion ...                                               *)
CreatePage(h) ==
  /\ handler[h].pc = "create"
  /\ pages' = pages \cup {PageOf(handler[h])}
  /\ handler' = [handler EXCEPT ![h].pc = "created"]
  /\ UNCHANGED <<incidents, counter, cache, late, now, arrivals, faults, complete>>

(* ... or it is refused, or the request or its answer is lost.  A request  *)
(* that is not carried out yet may be so later.                            *)
Loses(h) ==
  /\ handler[h].pc \in {"create", "created"}
  /\ Fault
  /\ late' \in {late} \cup (IF handler[h].pc = "create" THEN {late \cup {PageOf(handler[h])}} ELSE {})

(* NotionMCPClient.call_tool is tried again, with the same arguments.      *)
Retry(h) ==
  /\ Loses(h)
  /\ handler[h].try < MaxTries
  /\ handler' = [handler EXCEPT ![h].pc = "create", ![h].try = @ + 1]
  /\ UNCHANGED <<incidents, counter, cache, pages, now, arrivals, complete>>

(* The last attempt, or an error that is not repeated: what is raised is   *)
(* logged.                                                                 *)
CreateFails(h) ==
  /\ Loses(h)
  /\ handler' = [handler EXCEPT ![h].pc = "failed"]
  /\ UNCHANGED <<incidents, counter, cache, pages, now, arrivals, complete>>

(* Notion carries out what was given up.                                   *)
LatePage(p) ==
  /\ pages' = pages \cup {p}
  /\ late' = late \ {p}
  /\ UNCHANGED <<incidents, counter, cache, handler, now, arrivals, faults, complete>>

(* What the program keeps of an incident; page is its notion_page_id.      *)
Incident(a, at, since, page, active) ==
  [service |-> a.service, words |-> a.words, severity |-> a.severity, source |-> a.source,
   labels |-> a.labels, fp |-> a.fp, at |-> at, since |-> since, page |-> page, active |-> active]

(* The incident of a handler, with the page of the attempt that was        *)
(* answered.                                                               *)
Made(c) == Incident(c.alert, c.at, c.since, IF c.pc = "created" THEN PageId(c) ELSE NoPage, TRUE)

(* Slip: an incident without a page is not stored.                         *)
StoreIfPaged(h) ==
  /\ handler[h].pc \in {"created", "failed"}
  /\ LET c == handler[h]
     IN IF c.pc = "created"
        THEN /\ incidents' = With(incidents, c.id, Made(c))
             /\ cache' = With(cache, c.alert.fp, [id |-> c.id, at |-> now])
        ELSE UNCHANGED <<incidents, cache>>
  /\ handler' = [handler EXCEPT ![h] = [pc |-> "comment"]]
  /\ UNCHANGED <<counter, pages, late, now, arrivals, faults, complete>>

(* The incident is stored with or without its page, and only now can later *)
(* alerts find it.                                                         *)
Store(h) ==
  /\ handler[h].pc \in {"created", "failed"}
  /\ LET c == handler[h]
     IN /\ incidents' = With(incidents, c.id, Made(c))
        /\ cache' = With(cache, c.alert.fp, [id |-> c.id, at |-> now])
  /\ handler' = [handler EXCEPT ![h] = [pc |-> "comment"]]
  /\ UNCHANGED <<counter, pages, late, now, arrivals, faults, complete>>

(* The comment is written or its failure logged; create_incident returns   *)
(* and handle_alert starts the agents (Alert of IncidentSync).             *)
Return(h) ==
  /\ handler[h].pc = "comment"
  /\ handler' = [handler EXCEPT ![h] = NoHandler]
  /\ UNCHANGED <<incidents, counter, cache, pages, late, now, arrivals, faults, complete>>

-----------------------------------------------------------------------------
(* The rest of the incident's life, as far as intake can tell: its         *)
(* severity is assessed, it is resolved, and its page changes with it      *)
(* unless it has none or the write fails.  A copy that a repeated creation *)
(* left stays as it was.                                                   *)
Revised(r, severity, active) == [r EXCEPT !.severity = severity, !.active = active]

Update(i, severity, active) ==
  /\ incidents[i].active
  /\ incidents' = [incidents EXCEPT ![i] = Revised(@, severity, active)]
  /\ \/ pages' = {IF PageId(p) = incidents[i].page THEN Revised(p, severity, active) ELSE p :
                   p \in pages}
        /\ UNCHANGED faults
     \/ Fault /\ UNCHANGED pages
  /\ UNCHANGED <<counter, cache, late, handler, now, arrivals, complete>>

Assess(i) == \E severity \in Severities \ {incidents[i].severity} : Update(i, severity, TRUE)

Close(i) == Update(i, incidents[i].severity, FALSE)

Tick ==
  /\ now' \in {t \in Times : t > now}
  /\ UNCHANGED <<incidents, counter, cache, pages, late, handler, arrivals, faults, complete>>

(* What a page says of its incident: the service, the labels and the       *)
(* fingerprint were never written to it.                                   *)
Rehydrated(p) ==
  [Incident(p.alert, p.at, p.at, PageId(p), p.active)
     EXCEPT !.severity = p.severity, !.service = Unknown, !.labels = {}, !.fp = Empty]

(* query_database returns one result page, whichever pages Notion picks.   *)
Answers == IF Cardinality(pages) <= PageLimit THEN {pages}
           ELSE {loaded \in SUBSET pages : Cardinality(loaded) = PageLimit}

Ids(loaded) == {p.id : p \in loaded}

(* Of the pages with one id, the last in the answer stays in memory.       *)
LastOf(loaded) == {last \in [Ids(loaded) -> loaded] : \A i \in Ids(loaded) : last[i].id = i}

(* The process dies, with the handlers and the cache; a request under way  *)
(* may still be carried out.                                               *)
Dies ==
  /\ Fault
  /\ \E sent \in SUBSET {PageOf(handler[h]) : h \in {g \in Handlers : handler[g].pc = "create"}} :
       late' = late \cup sent
  /\ cache' = <<>>
  /\ handler' = [h \in Handlers |-> NoHandler]
  /\ UNCHANGED <<pages, now, arrivals>>

Load(loaded, n) ==
  /\ \E last \in LastOf(loaded) : incidents' = [i \in Ids(loaded) |-> Rehydrated(last[i])]
  /\ counter' = n
  /\ complete' = (complete /\ loaded = pages /\ late' = {})

(* Slip: the counter is set to the number of incidents that were loaded.   *)
RestartCounting ==
  /\ Dies
  /\ \E loaded \in Answers : Load(loaded, Cardinality(Ids(loaded)))

(* It comes back: rehydrate_from_notion loads what it is given and sets    *)
(* the counter to the highest id, or, if the query fails, starts from      *)
(* nothing.                                                                *)
Restart ==
  /\ Dies
  /\ \/ \E loaded \in Answers : \E n \in {0} \cup Ids(loaded) :
          /\ \A i \in Ids(loaded) : i <= n
          /\ Load(loaded, n)
     \/ Load({}, 0)

Next ==
  \/ \E h \in Handlers :
       \/ \E a \in Alerts : ArriveJoining(h, a) \/ \E t \in Times : ArriveNew(h, a, t)
       \/ CreatePage(h) \/ Retry(h) \/ CreateFails(h) \/ Store(h) \/ Return(h)
  \/ \E p \in late : LatePage(p)
  \/ \E i \in DOMAIN incidents : Assess(i) \/ Close(i)
  \/ Tick
  \/ Restart

Spec == Init /\ [][Next]_vars

-----------------------------------------------------------------------------
Creating(h) == handler[h].pc \in {"create", "created", "failed"}

(* The deduplication cache never answers with an incident the manager does *)
(* not have, or that is not of the alert's fingerprint: the fall-through   *)
(* for a missing incident in create_incident is never taken.               *)
CacheBacked ==
  \A f \in DOMAIN cache : /\ cache[f].id \in DOMAIN incidents
                          /\ incidents[cache[f].id].fp = f

(* No two incidents have the same id in Notion, over crashes too, as long  *)
(* as every restart saw all pages (_next_id, rehydrate_from_notion): pages *)
(* with one id are copies of one creation that call_tool repeated.         *)
IdsUnique ==
  complete => \A p, q \in pages : p.id = q.id => p.birth = q.birth

(* Storing an incident never overwrites another one, whatever handlers run *)
(* beside it and however much of Notion the last restart saw.              *)
StoreIsFresh ==
  [][\A h \in Handlers : Store(h) => handler[h].id \notin DOMAIN incidents]_vars

(* No page is orphaned: as long as every restart saw all pages, whatever   *)
(* Notion has a page of is known to the manager or about to be, also when  *)
(* the answer of create_page was lost, when the page is a copy and when it *)
(* comes after the request was given up (create_incident stores            *)
(* regardless).                                                            *)
PagesKnown ==
  complete => \A p \in pages : \/ p.id \in DOMAIN incidents
                               \/ \E h \in Handlers : Creating(h) /\ handler[h].id = p.id

(* An alert that repeats joins its incident as long as that is active and  *)
(* young, without the cache, if both its title and its service count, or   *)
(* one of them does and the severity or a label does too.  A title counts  *)
(* if it has words; a service does if it is not empty and, after a         *)
(* restart, which loses services and labels, only if it is "unknown".      *)
(* (find_group, _similarity_score.)                                        *)
RepeatsJoin ==
  \A i \in Candidates, p \in pages :
    LET inc == incidents[i]
        a == p.alert
        rehydrated == inc.fp = Empty
        titled == a.words # {}
        served == a.service # Empty /\ (rehydrated => a.service = Unknown)
        hinted == inc.severity = a.severity \/ (~rehydrated /\ a.labels # {})
    IN /\ p.id = i /\ complete
       /\ (titled /\ served) \/ ((titled \/ served) /\ hinted)
       => i \in Groups(a)

(* What the README says of the deduplicator: alerts of one fingerprint     *)
(* make one incident per window.                                           *)
OneIncident ==
  \A i, j \in DOMAIN incidents :
    /\ i < j
    /\ incidents[i].fp = incidents[j].fp
    /\ incidents[i].fp # Empty
    => incidents[j].since >= incidents[i].since + DedupWindow
=============================================================================
