---------------------------- MODULE IncidentSync ---------------------------
(***************************************************************************)
(* One incident and everything that writes to it at the same time:         *)
(*   - the agent pipelines of src/agents/orchestrator.py, behind the       *)
(*     semaphore MAX_CONCURRENT_AGENTS;                                    *)
(*   - the requests of the dashboard and of Slack, which call              *)
(*     IncidentManager.transition;                                         *)
(*   - the Notion watcher of src/sync/notion_watcher.py (its loop, and     *)
(*     the /sync endpoints that run the same check) with the reactions     *)
(*     the orchestrator registers with it;                                 *)
(*   - the humans who edit the incident's Notion page.                     *)
(*                                                                         *)
(* The program is one asyncio event loop, so a step here is what a task    *)
(* does between two awaits.  A call to Notion takes effect at Notion in    *)
(* one step of its own; calls of different tasks may overtake each other.  *)
(* Timeline comments, broadcasts, Slack posts and metrics change nothing   *)
(* that is read back, and are left out.                                    *)
(***************************************************************************)
EXTENDS IncidentStates, Naturals, Sequences

CONSTANTS
  Slots,         \* the permits of the semaphore
  Requests,      \* concurrent transition requests
  Pollers,       \* tasks that may be inside _check_incident
  Loop,          \* the poller that is the watcher's own loop
  Channels,      \* where requests come from, out of {"api", "slack"}
  Severities,    \* severity names; "P0" is the highest
  HumanStatuses, \* statuses a human may choose on the page
  HumanKinds,    \* what humans edit: "status", "severity", "rootCause", "escalate"
  MaxEdits,      \* bound: human edits
  MaxPipelines,  \* bound: alerts that start the pipeline for this incident
  MaxRequests,   \* bound: accepted transition requests
  MaxFaults      \* bound: failing Notion calls and restarts of the process

ASSUME SyncAssumption ==
  /\ Loop \in Pollers
  /\ {"P0", "P2"} \subseteq Severities
  /\ Channels \subseteq {"api", "slack"}
  /\ MaxEdits \in Nat /\ MaxPipelines \in Nat /\ MaxRequests \in Nat
  /\ MaxFaults \in Nat

VARIABLES
  status,      \* incident.status in memory
  resolvedAt,  \* incident.resolved_at is set
  severity,    \* incident.severity in memory
  page,        \* the Notion page: status, severity, root cause
  escalate,    \* the ESCALATE comment: posted on the page, known to the watcher
  watched,     \* the watcher holds a snapshot of the page ...
  snapshot,    \* ... and this is it
  queue,       \* jobs waiting for the semaphore, oldest first
  slot,        \* the jobs that hold a permit
  request,     \* transition requests inside manager.transition
  poller,      \* tasks inside _check_incident
  spent,       \* how much of each bound is used
  author,      \* history: who wrote the page's status last
  resolution   \* history: how the incident was last resolved, and whether the
               \* postmortem agent has run since

memory == <<status, resolvedAt, severity>>
watcher == <<watched, snapshot, poller>>
agents == <<queue, slot>>
vars == <<memory, page, escalate, watcher, agents, request, spent, author, resolution>>

Page == [status : Status \cup HumanStatuses, severity : Severities, rootCause : BOOLEAN]

FreeSlot == [kind |-> "none", by |-> Loop, pc |-> "free", value |-> "none"]
NoRequest == [pc |-> "idle", target |-> "none", via |-> "none"]
FirstPage == [status |-> "Triggered", severity |-> "P2", rootCause |-> FALSE]
IdlePoller == [pc |-> "idle", seen |-> FirstPage, saw |-> FALSE, todo |-> <<>>]

FirstStep == [pipeline |-> "triage", retriage |-> "triage",
              postmortem |-> "draft", remediate |-> "remediate"]

Job(kind, p) == [kind |-> kind, by |-> p, pc |-> FirstStep[kind], value |-> "none"]

(* The incident as create_incident leaves it, its page written.            *)
Init ==
  /\ status = "Triggered"
  /\ resolvedAt = FALSE
  /\ severity = "P2"
  /\ page = FirstPage
  /\ escalate = [posted |-> FALSE, known |-> FALSE]
  /\ watched = FALSE
  /\ snapshot = FirstPage
  /\ queue = <<>>
  /\ slot = [s \in Slots |-> FreeSlot]
  /\ request = [r \in Requests |-> NoRequest]
  /\ poller = [p \in Pollers |-> IdlePoller]
  /\ spent = [edits |-> 0, pipelines |-> 0, requests |-> 0, faults |-> 0, crashes |-> 0]
  /\ author = "system"
  /\ resolution = [via |-> "none", attempted |-> FALSE]

Spend(what, bound) ==
  /\ spent[what] < bound
  /\ spent' = [spent EXCEPT ![what] = @ + 1]

Fault(what) ==
  /\ spent.faults + spent.crashes < MaxFaults
  /\ spent' = [spent EXCEPT ![what] = @ + 1]

-----------------------------------------------------------------------------
(* IncidentManager.                                                        *)

CanMove(target) == ValidTransition(status, target)

(* transition(), up to its first await: the status moves and, when the     *)
(* incident is resolved, resolved_at is stamped.  It is never cleared.     *)
Move(target, via) ==
  /\ status' = target
  /\ resolvedAt' = (resolvedAt \/ target = "Resolved")
  /\ UNCHANGED severity
  /\ resolution' = IF target = "Resolved" THEN [via |-> via, attempted |-> FALSE]
                                          ELSE resolution

(* update_page inside transition(): Notion takes the value, or the call    *)
(* fails and the exception is logged and forgotten.                        *)
WritePageStatus(value) ==
  \/ /\ page' = [page EXCEPT !.status = value]
     /\ author' = "system"
     /\ UNCHANGED spent
  \/ /\ Fault("faults")
     /\ UNCHANGED <<page, author>>

-----------------------------------------------------------------------------
(* Requests: POST /incidents/{id}/transition, and the buttons of Slack,    *)
(* which offer Acknowledge and Resolve only.                               *)

Targets(via) == IF via = "slack" THEN {"Investigating", "Resolved"} ELSE Status

(* A target the table forbids is answered with an error.                   *)
RequestStart(r, target, via) ==
  /\ request[r] = NoRequest
  /\ target \in Targets(via)
  /\ CanMove(target)
  /\ Spend("requests", MaxRequests)
  /\ Move(target, via)
  /\ request' = [request EXCEPT ![r] = [pc |-> "write", target |-> target, via |-> via]]
  /\ UNCHANGED <<page, escalate, watcher, agents, author>>

(* Slip: a failing call to Notion keeps the postmortem from starting.      *)
RequestEndIfWritten(r) ==
  /\ request[r].pc = "write"
  /\ WritePageStatus(request[r].target)
  /\ request' = [request EXCEPT ![r] = NoRequest]
  /\ queue' = IF request[r].target = "Resolved" /\ request[r].via = "api" /\ UNCHANGED spent
              THEN Append(queue, Job("postmortem", Loop)) ELSE queue
  /\ UNCHANGED <<memory, escalate, watcher, slot, resolution>>

(* Only the dashboard's endpoint starts the postmortem agent, once its     *)
(* transition has returned.                                                *)
RequestEnd(r) ==
  /\ request[r].pc = "write"
  /\ WritePageStatus(request[r].target)
  /\ request' = [request EXCEPT ![r] = NoRequest]
  /\ queue' = IF request[r].target = "Resolved" /\ request[r].via = "api"
              THEN Append(queue, Job("postmortem", Loop)) ELSE queue
  /\ UNCHANGED <<memory, escalate, watcher, slot, resolution>>

-----------------------------------------------------------------------------
(* AgentOrchestrator.                                                      *)

(* handle_alert runs the pipeline for every firing alert it is given, the  *)
(* duplicates of a known incident included.                                *)
Alert ==
  /\ Spend("pipelines", MaxPipelines)
  /\ queue' = Append(queue, Job("pipeline", Loop))
  /\ UNCHANGED <<memory, page, escalate, watcher, slot, request, author, resolution>>

(* asyncio.Semaphore hands its permits out in the order of arrival.        *)
Grant(s) ==
  /\ slot[s] = FreeSlot
  /\ queue # <<>>
  /\ slot' = [slot EXCEPT ![s] = Head(queue)]
  /\ queue' = Tail(queue)
  /\ UNCHANGED <<memory, page, escalate, watcher, request, spent, author, resolution>>

At(s, kinds, pcs) == slot[s].kind \in kinds /\ slot[s].pc \in pcs

Step(s, pc, value) ==
  slot' = [slot EXCEPT ![s] = [kind |-> @.kind, by |-> @.by, pc |-> pc, value |-> value]]

Release(s) == slot' = [slot EXCEPT ![s] = FreeSlot]

(* The check of poller p is at pc, with the events in todo still to fire.  *)
Check(p, pc, todo) ==
  poller' = [poller EXCEPT ![p] = [pc |-> pc, seen |-> @.seen, saw |-> @.saw, todo |-> todo]]

EndCheck(p) == poller' = [poller EXCEPT ![p] = IdlePoller]

(* The check of p goes on with its next event, or ends.                    *)
Resume(p, todo) == IF todo = <<>> THEN EndCheck(p) ELSE Check(p, "react", todo)

(* The triage agent's tool update_incident_severity: the page first ...    *)
SeverityToolCall(s, value) ==
  /\ At(s, {"pipeline", "retriage"}, {"triage"})
  /\ page' = [page EXCEPT !.severity = value]
  /\ Step(s, "tool", value)
  /\ UNCHANGED <<memory, escalate, watcher, queue, request, spent, author, resolution>>

(* ... and the incident when the call has returned; if its answer is lost, *)
(* the exception becomes the tool's result and the incident keeps its own. *)
SeverityToolReturn(s) ==
  /\ At(s, {"pipeline", "retriage"}, {"tool"})
  /\ \/ severity' = slot[s].value /\ UNCHANGED spent
     \/ Fault("faults") /\ UNCHANGED severity
  /\ Step(s, "triaged", "none")
  /\ UNCHANGED <<status, resolvedAt, page, escalate, watcher, queue, request,
                 author, resolution>>

(* handle_new_incident: triage is over, move to Triaged if that is valid.  *)
TriageEnds(s) ==
  /\ At(s, {"pipeline"}, {"triage", "triaged"})
  /\ IF CanMove("Triaged")
     THEN Move("Triaged", "agent") /\ Step(s, "write", "Triaged")
     ELSE Step(s, "analyse", "none") /\ UNCHANGED <<memory, resolution>>
  /\ UNCHANGED <<page, escalate, watcher, queue, request, spent, author>>

(* Slip: the test for a resolution in the meantime is forgotten.           *)
AnalysisEndsUnchecked(s) ==
  /\ At(s, {"pipeline"}, {"analyse"})
  /\ IF CanMove("Investigating")
     THEN Move("Investigating", "agent") /\ Step(s, "write", "Investigating")
     ELSE Release(s) /\ UNCHANGED <<memory, resolution>>
  /\ UNCHANGED <<page, escalate, watcher, queue, request, spent, author>>

(* handle_new_incident: correlation, remediation, communications and the   *)
(* confidence log are over; unless somebody resolved the incident in the   *)
(* meantime, move to Investigating if that is valid.                       *)
AnalysisEnds(s) ==
  /\ At(s, {"pipeline"}, {"analyse"})
  /\ IF status \notin {"Resolved", "Postmortem"} /\ CanMove("Investigating")
     THEN Move("Investigating", "agent") /\ Step(s, "write", "Investigating")
     ELSE Release(s) /\ UNCHANGED <<memory, resolution>>
  /\ UNCHANGED <<page, escalate, watcher, queue, request, spent, author>>

(* Slip: the permit is not given back when the pipeline fails.             *)
PipelineFailsHolding(s) ==
  /\ At(s, {"pipeline"}, {"triage", "triaged", "analyse"})
  /\ Step(s, "dead", "none")
  /\ UNCHANGED <<memory, page, escalate, watcher, queue, request, spent, author, resolution>>

(* An exception anywhere in the pipeline: a comment asks for a manual      *)
(* investigation and the permit is returned.                               *)
PipelineFails(s) ==
  /\ At(s, {"pipeline"}, {"triage", "triaged", "analyse"})
  /\ Release(s)
  /\ UNCHANGED <<memory, page, escalate, watcher, queue, request, spent, author, resolution>>

(* handle_incident_resolved: the postmortem agent reports whether it       *)
(* created a draft; if so, move to Postmortem if that is valid by now.     *)
DraftEnds(s, created) ==
  /\ At(s, {"postmortem"}, {"draft"})
  /\ IF created /\ CanMove("Postmortem")
     THEN /\ status' = "Postmortem"
          /\ Step(s, "write", "Postmortem")
     ELSE Release(s) /\ UNCHANGED status
  /\ resolution' = [resolution EXCEPT !.attempted = TRUE]
  /\ UNCHANGED <<resolvedAt, severity, page, escalate, watcher, queue, request, spent, author>>

(* The Notion half of an agent's transition.                               *)
AgentWrite(s) ==
  /\ At(s, {"pipeline", "postmortem"}, {"write"})
  /\ WritePageStatus(slot[s].value)
  /\ IF slot[s].value = "Triaged" THEN Step(s, "analyse", "none") ELSE Release(s)
  /\ UNCHANGED <<memory, escalate, watcher, queue, request, resolution>>

(* Slip: the re-run's permit is returned, its reaction is not resumed.     *)
RerunEndsSilently(s) ==
  /\ \/ At(s, {"retriage"}, {"triage", "triaged"})
     \/ At(s, {"remediate"}, {"remediate"})
  /\ Release(s)
  /\ UNCHANGED <<memory, page, escalate, watcher, queue, request, spent, author, resolution>>

(* The re-runs that a reaction awaits: triage after a change of severity,  *)
(* remediation after an escalation.  The poller goes on with its events.   *)
RerunEnds(s) ==
  /\ \/ At(s, {"retriage"}, {"triage", "triaged"})
     \/ At(s, {"remediate"}, {"remediate"})
  /\ Release(s)
  /\ Resume(slot[s].by, poller[slot[s].by].todo)
  /\ UNCHANGED <<memory, page, escalate, watched, snapshot, queue, request, spent,
                 author, resolution>>

AgentStep(s) ==
  \/ \E v \in Severities : SeverityToolCall(s, v)
  \/ SeverityToolReturn(s)
  \/ TriageEnds(s)
  \/ AnalysisEnds(s)
  \/ PipelineFails(s)
  \/ \E created \in BOOLEAN : DraftEnds(s, created)
  \/ AgentWrite(s)
  \/ RerunEnds(s)

-----------------------------------------------------------------------------
(* NotionWatcher.                                                          *)

PollerAt(p, pc) == poller[p].pc = pc

Goto(p, pc) == Check(p, pc, poller[p].todo)

NextEvent(p) == Resume(p, Tail(poller[p].todo))

untouched == <<page, request, author>>

(* _poll_once takes up the active incidents; POST /incidents/{id}/sync     *)
(* takes any.                                                              *)
PollStart(p) ==
  /\ poller[p] = IdlePoller
  /\ p = Loop => status \in Active
  /\ Goto(p, "fetch")
  /\ UNCHANGED <<memory, escalate, watched, snapshot, agents, spent, resolution, untouched>>

(* fetch_page, answered by Notion, or failing: the check ends.             *)
PollFetch(p) ==
  /\ PollerAt(p, "fetch")
  /\ \/ /\ poller' = [poller EXCEPT ![p] = [pc |-> "diff", seen |-> page,
                                            saw |-> FALSE, todo |-> <<>>]]
        /\ UNCHANGED spent
     \/ EndCheck(p) /\ Fault("faults")
  /\ UNCHANGED <<memory, escalate, watched, snapshot, agents, resolution, untouched>>

(* The events _check_incident finds between the snapshot and what it saw.  *)
Changes(old, new) ==
  (IF new.severity # old.severity THEN <<"severity">> ELSE <<>>)
    \o (IF new.status # old.status THEN <<"status">> ELSE <<>>)
    \o (IF new.rootCause /\ ~old.rootCause THEN <<"rootCause">> ELSE <<>>)

(* Slip: the snapshot is taken before the differences are.                 *)
PollDiffLate(p) ==
  /\ PollerAt(p, "diff")
  /\ Goto(p, IF watched THEN "list" ELSE "baseline")
  /\ watched' = TRUE
  /\ snapshot' = poller[p].seen
  /\ UNCHANGED <<memory, escalate, agents, spent, resolution, untouched>>

(* The page against the snapshot; the first sight of it is only recorded.  *)
PollDiff(p) ==
  /\ PollerAt(p, "diff")
  /\ IF watched THEN Check(p, "list", Changes(snapshot, poller[p].seen)) ELSE Goto(p, "baseline")
  /\ watched' = TRUE
  /\ snapshot' = poller[p].seen
  /\ UNCHANGED <<memory, escalate, agents, spent, resolution, untouched>>

(* list_comments, answered by Notion ...                                   *)
PollComments(p) ==
  /\ poller[p].pc \in {"baseline", "list"}
  /\ poller' = [poller EXCEPT ![p] = [pc |-> IF @.pc = "list" THEN "listed" ELSE "captured",
                                      seen |-> @.seen, saw |-> escalate.posted, todo |-> @.todo]]
  /\ UNCHANGED <<memory, escalate, watched, snapshot, agents, spent, resolution, untouched>>

(* ... or failing, which is logged; the known comments stay as they are.   *)
PollCommentsFail(p) ==
  /\ poller[p].pc \in {"baseline", "list"}
  /\ Fault("faults")
  /\ Resume(p, poller[p].todo)
  /\ UNCHANGED <<memory, escalate, watched, snapshot, agents, resolution, untouched>>

(* _snapshot_comments: what is there at first sight is known, not new.     *)
PollBaseline(p) ==
  /\ PollerAt(p, "captured")
  /\ escalate' = [escalate EXCEPT !.known = poller[p].saw]
  /\ EndCheck(p)
  /\ UNCHANGED <<memory, watched, snapshot, agents, spent, resolution, untouched>>

(* _check_escalation_comments: a comment not known yet is an event, once.  *)
PollEscalations(p) ==
  /\ PollerAt(p, "listed")
  /\ LET isNew == poller[p].saw /\ ~escalate.known
     IN /\ Resume(p, poller[p].todo \o IF isNew THEN <<"escalate">> ELSE <<>>)
        /\ escalate' = [escalate EXCEPT !.known = @ \/ poller[p].saw]
  /\ UNCHANGED <<memory, watched, snapshot, agents, spent, resolution, untouched>>

Reacting(p, event) == PollerAt(p, "react") /\ Head(poller[p].todo) = event

(* handle_severity_change: adopt the severity, then queue a re-triage and  *)
(* wait for it.                                                            *)
ReactSeverity(p) ==
  /\ Reacting(p, "severity")
  /\ severity' = poller[p].seen.severity
  /\ queue' = Append(queue, Job("retriage", p))
  /\ Check(p, "rerun", Tail(poller[p].todo))
  /\ UNCHANGED <<status, resolvedAt, escalate, watched, snapshot, slot, spent, resolution,
                 untouched>>

(* Slip: a select option that is no status is taken for one.               *)
ReactStatusUnchecked(p) ==
  /\ Reacting(p, "status")
  /\ IF poller[p].seen.status # status THEN Goto(p, "force") ELSE NextEvent(p)
  /\ UNCHANGED <<memory, escalate, watched, snapshot, agents, spent, resolution, untouched>>

(* handle_status_change, up to its await: a name that is no status is      *)
(* ignored, and so is the status the incident has already.                 *)
ReactStatus(p) ==
  /\ Reacting(p, "status")
  /\ IF poller[p].seen.status \in Status \ {status} THEN Goto(p, "force") ELSE NextEvent(p)
  /\ UNCHANGED <<memory, escalate, watched, snapshot, agents, spent, resolution, untouched>>

(* handle_status_change, after its await: the status is set whatever the   *)
(* table says and whatever it has become since; Resolved is stamped and    *)
(* starts the postmortem agent.                                            *)
ForceStatus(p) ==
  /\ PollerAt(p, "force")
  /\ Move(poller[p].seen.status, "notion")
  /\ queue' = IF poller[p].seen.status = "Resolved"
              THEN Append(queue, Job("postmortem", Loop)) ELSE queue
  /\ NextEvent(p)
  /\ UNCHANGED <<escalate, watched, snapshot, slot, spent, untouched>>

(* handle_root_cause_added: always starts the postmortem agent.            *)
ReactRootCause(p) ==
  /\ Reacting(p, "rootCause")
  /\ queue' = Append(queue, Job("postmortem", Loop))
  /\ NextEvent(p)
  /\ UNCHANGED <<memory, escalate, watched, snapshot, slot, spent, resolution, untouched>>

(* handle_escalation: P0 in memory, unless it is P0 already ...            *)
ReactEscalate(p) ==
  /\ Reacting(p, "escalate")
  /\ severity' = "P0"
  /\ Check(p, IF severity = "P0" THEN "escalated" ELSE "raise", Tail(poller[p].todo))
  /\ UNCHANGED <<status, resolvedAt, escalate, watched, snapshot, agents, spent, resolution,
                 untouched>>

(* ... then on the page (a failure is logged) ...                          *)
EscalateWrite(p) ==
  /\ PollerAt(p, "raise")
  /\ \/ page' = [page EXCEPT !.severity = "P0"] /\ UNCHANGED spent
     \/ Fault("faults") /\ UNCHANGED page
  /\ Goto(p, "escalated")
  /\ UNCHANGED <<memory, escalate, watched, snapshot, agents, request, author, resolution>>

(* ... then queue the remediation agent and wait for it.                   *)
EscalateRerun(p) ==
  /\ PollerAt(p, "escalated")
  /\ queue' = Append(queue, Job("remediate", p))
  /\ Goto(p, "rerun")
  /\ UNCHANGED <<memory, escalate, watched, snapshot, slot, spent, resolution, untouched>>

PollStep(p) ==
  \/ PollFetch(p)
  \/ PollDiff(p)
  \/ PollComments(p) \/ PollCommentsFail(p)
  \/ PollBaseline(p) \/ PollEscalations(p)
  \/ ReactSeverity(p)
  \/ ReactStatus(p) \/ ForceStatus(p)
  \/ ReactRootCause(p)
  \/ ReactEscalate(p) \/ EscalateWrite(p) \/ EscalateRerun(p)

-----------------------------------------------------------------------------
(* The environment.                                                        *)

(* A human edits the page in Notion.                                       *)
HumanEdits(kind) ==
  /\ kind \in HumanKinds
  /\ Spend("edits", MaxEdits)
  /\ UNCHANGED <<memory, watcher, agents, request, resolution>>

HumanSetsStatus(value) ==
  /\ HumanEdits("status")
  /\ page.status # value
  /\ page' = [page EXCEPT !.status = value]
  /\ author' = "human"
  /\ UNCHANGED escalate

HumanSetsSeverity(value) ==
  /\ HumanEdits("severity")
  /\ page.severity # value
  /\ page' = [page EXCEPT !.severity = value]
  /\ UNCHANGED <<escalate, author>>

HumanAddsRootCause ==
  /\ HumanEdits("rootCause")
  /\ ~page.rootCause
  /\ page' = [page EXCEPT !.rootCause = TRUE]
  /\ UNCHANGED <<escalate, author>>

HumanEscalates ==
  /\ HumanEdits("escalate")
  /\ ~escalate.posted
  /\ escalate' = [escalate EXCEPT !.posted = TRUE]
  /\ UNCHANGED <<page, author>>

Human ==
  \/ \E v \in HumanStatuses : HumanSetsStatus(v)
  \/ \E v \in Severities : HumanSetsSeverity(v)
  \/ HumanAddsRootCause
  \/ HumanEscalates

(* The process dies and comes back: rehydrate_from_notion reads the page   *)
(* (an unknown status becomes Triggered, resolved_at is not read); tasks,  *)
(* queue and snapshots are gone.                                           *)
Restart ==
  /\ Fault("crashes")
  /\ status' = IF page.status \in Status THEN page.status ELSE "Triggered"
  /\ resolvedAt' = FALSE
  /\ severity' = page.severity
  /\ watched' = FALSE
  /\ snapshot' = FirstPage
  /\ escalate' = [escalate EXCEPT !.known = FALSE]
  /\ queue' = <<>>
  /\ slot' = [s \in Slots |-> FreeSlot]
  /\ request' = [r \in Requests |-> NoRequest]
  /\ poller' = [p \in Pollers |-> IdlePoller]
  /\ resolution' = [via |-> "restart", attempted |-> FALSE]
  /\ UNCHANGED <<page, author>>

Next ==
  \/ \E r \in Requests :
       \/ \E t \in Status, v \in Channels : RequestStart(r, t, v)
       \/ RequestEnd(r)
  \/ Alert
  \/ \E s \in Slots : Grant(s) \/ AgentStep(s)
  \/ \E p \in Pollers : PollStart(p) \/ PollStep(p)
  \/ Human
  \/ Restart

Spec == Init /\ [][Next]_vars

(* The event loop runs every task that is ready and every call to Notion   *)
(* or to a language model returns (all have timeouts); the watcher's timer *)
(* fires.  Humans, requests, alerts and crashes happen or not.             *)
FairSpec ==
  /\ Spec
  /\ WF_vars(PollStart(Loop))
  /\ \A r \in Requests : WF_vars(RequestEnd(r))
  /\ \A s \in Slots : WF_vars(Grant(s)) /\ WF_vars(AgentStep(s))
  /\ \A p \in Pollers : WF_vars(PollStep(p))

-----------------------------------------------------------------------------
JobSteps == {"free", "triage", "tool", "triaged", "analyse", "write", "draft", "remediate"}

Jobs == [kind : {"none", "pipeline", "retriage", "postmortem", "remediate"}, by : Pollers,
         pc : JobSteps, value : {"none"} \cup Severities \cup Status]

Events == {"severity", "status", "rootCause", "escalate"}

CheckSteps == {"idle", "fetch", "diff", "baseline", "captured", "list", "listed", "react",
               "rerun", "force", "raise", "escalated"}

Checks == [pc : CheckSteps, seen : Page, saw : BOOLEAN, todo : Seq(Events)]

(* Every variable stays in its range: a name a human invents on the page   *)
(* never becomes the incident's status.                                    *)
SyncTypeOK ==
  /\ status \in Status
  /\ resolvedAt \in BOOLEAN
  /\ severity \in Severities
  /\ page \in Page
  /\ escalate \in [posted : BOOLEAN, known : BOOLEAN]
  /\ watched \in BOOLEAN
  /\ snapshot \in Page
  /\ queue \in Seq(Jobs)
  /\ slot \in [Slots -> Jobs]
  /\ request \in [Requests -> [pc : {"idle", "write"}, target : {"none"} \cup Status,
                               via : {"none"} \cup Channels]]
  /\ poller \in [Pollers -> Checks]
  /\ author \in {"system", "human"}

Resumes(job, p) == job.by = p /\ job.kind \in {"retriage", "remediate"}
QueuedFor(p) == \E i \in DOMAIN queue : Resumes(queue[i], p)
HeldFor(p) == \E s \in Slots : Resumes(slot[s], p)

(* A reaction that waits for its agent is waited for: for every check that *)
(* is suspended in a re-run there is a job, in the queue or in a slot,     *)
(* that will resume it (handle_severity_change, handle_escalation).        *)
RerunOwned == \A p \in Pollers : PollerAt(p, "rerun") => QueuedFor(p) \/ HeldFor(p)

(* An incident that humans resolved while the agents were at work is not   *)
(* reopened by them, although the table allows Resolved -> Investigating   *)
(* (the check before the last transition of handle_new_incident).          *)
NoAgentReopen ==
  [][\A s \in Slots : AgentStep(s) /\ status = "Resolved" => status' # "Investigating"]_vars

(* The status a human gives the page of a watched, active incident becomes *)
(* the status of the incident, unless the page changes again or the        *)
(* incident is closed first (_check_incident, handle_status_change).       *)
HumanEditAdopted ==
  \A v \in HumanStatuses \cap Status :
    (author = "human" /\ page.status = v /\ status \in Active
       /\ watched /\ snapshot.status # v)
      ~> (status = v \/ page.status # v \/ status \notin Active)

(* Resolving from the dashboard or on the page starts the postmortem agent *)
(* even if Notion fails meanwhile; only a restart or a reopening loses it  *)
(* (transition_incident, handle_status_change).                            *)
ResolutionReviewed ==
  (status = "Resolved" /\ resolution.via \in {"api", "notion"})
    ~> (resolution.attempted \/ status # "Resolved"
          \/ resolution.via \notin {"api", "notion"})

(* The watcher's loop, which waits for the agents it re-runs in line, comes *)
(* back to polling whatever the pipelines in front of it do.               *)
WatcherReturns == PollerAt(Loop, "rerun") ~> PollerAt(Loop, "idle")

(* What the comment in handle_status_change and the table of the lifecycle *)
(* say: it is a human's edit that takes the status off the table.          *)
OverridesAreHuman ==
  [][spent.edits = 0 /\ spent.crashes = 0
       => status' = status \/ ValidTransition(status, status')]_vars
=============================================================================
