----------------------------- MODULE WebhookTasks -----------------------------
(***************************************************************************)
(* The Celery tasks of tasks/webhook_tasks.py and tasks/agent_tasks.py on  *)
(* the queue tasks/celery_app.py configures: late acknowledgement, three   *)
(* retries.  The tasks keep incidents in the database, which the           *)
(* IncidentManager (IncidentIntake) never reads.                           *)
(*                                                                         *)
(* Each query is an action: sessions run at READ COMMITTED, and several    *)
(* workers are between their queries at a time.                            *)
(***************************************************************************)
EXTENDS Integers, Sequences, FiniteSets

CONSTANTS
    TaskIds,       \* messages a producer sends
    Servers,       \* worker processes
    Bodies,        \* what a producer puts in a message
    Secured,       \* sources with a webhook secret
    MutedWords,    \* words an active SUPPRESS rule of the organisation finds in a title
    MaxRetries,    \* max_retries of the tasks; 3 in the code
    MaxFaults      \* bound: database errors, time limits and lost workers

ASSUME BodiesAssumption == \A b \in Bodies : b.kind \in {"webhook", "batch", "deliver", "agents"}
ASSUME AlertsAssumption == \A b \in Bodies : b.kind = "webhook" =>
    Len(b.webhook.alerts) \in Nat /\ DOMAIN b.webhook.alerts = 1 .. Len(b.webhook.alerts)
ASSUME FaultsAssumption == MaxFaults \in Nat /\ MaxRetries \in Nat

VARIABLES
    tasks,         \* each message: state, tries, body, has it its delivery metadata?
    worker,        \* what each worker process is doing
    incidents,     \* the rows of the table incidents, oldest first
    faults,        \* so far
    overlapped     \* history: fingerprints two workers were creating an incident for

taskVars == <<tasks, worker, incidents, faults, overlapped>>

NoTask == [state |-> "unsent"]
Resting == [at |-> "free"]

----------------------------------------------------------------------------
(* What a webhook becomes                                                  *)

\* _validate_signature
Valid(p) == p.signature # "wrong" \/ p.source \notin Secured

\* _make_fingerprint: a hash of service, title and source.
MakeFingerprint(source, raw) == <<source, raw.title>>

\* normalize_alertmanager, normalize_grafana: the fingerprint that was sent.
NormalizeGiven(source, raw) ==
    [title |-> raw.title,
     fingerprint |-> IF raw.fingerprint = "" THEN MakeFingerprint(source, raw) ELSE <<"given", raw.fingerprint>>]

\* normalize_pagerduty, normalize_generic, normalize_manual.
NormalizeHashed(source, raw) == [title |-> raw.title, fingerprint |-> MakeFingerprint(source, raw)]

\* _normalize_payload
Normalized(p) ==
    [i \in DOMAIN p.alerts |-> IF p.source \in {"prometheus", "grafana"}
                               THEN NormalizeGiven(p.source, p.alerts[i])
                               ELSE NormalizeHashed(p.source, p.alerts[i])]

\* _check_suppression_rules: rules on a field, of an organisation.
Muted(org, a) == org # "" /\ a.title \cap MutedWords # {}

\* Word overlap above 0.6.
Alike(s, u) == s # {} /\ u # {} /\ 10 * Cardinality(s \cap u) > 6 * Cardinality(s \cup u)

Active == {i \in DOMAIN incidents : incidents[i].status # "Resolved"}

----------------------------------------------------------------------------
(* The queue                                                               *)

TasksInit ==
    /\ tasks = [t \in TaskIds |-> NoTask] /\ worker = [w \in Servers |-> Resting]
    /\ incidents = <<>> /\ faults = 0 /\ overlapped = {}

Submit(t) ==
    /\ tasks[t] = NoTask
    /\ \E b \in Bodies : tasks' = [tasks EXCEPT ![t] = [state |-> "queued", tries |-> 0, body |-> b, url |-> TRUE]]
    /\ UNCHANGED <<worker, incidents, faults, overlapped>>

\* What a worker does first with each kind of task.
Beginning(b) ==
    CASE b.kind = "webhook" -> [at |-> "webhook", items |-> <<b.webhook>>]
      [] b.kind = "batch" -> [at |-> "webhook", items |-> b.webhooks]
      [] b.kind = "deliver" -> [at |-> "deliver", items |-> <<>>]
      [] OTHER -> [at |-> "agents", items |-> <<>>]

Take(w, t) ==
    /\ worker[w] = Resting /\ tasks[t].state = "queued"
    /\ tasks' = [tasks EXCEPT ![t].state = "running"]
    /\ LET b == Beginning(tasks[t].body)
       IN worker' = [worker EXCEPT ![w] = [at |-> b.at, task |-> t, items |-> b.items, alerts |-> <<>>, id |-> 0]]
    /\ UNCHANGED <<incidents, faults, overlapped>>

Task(w) == tasks[worker[w].task]

\* The task returns and is acknowledged.
End(w) ==
    /\ tasks' = [tasks EXCEPT ![worker[w].task].state = "done"]
    /\ worker' = [worker EXCEPT ![w] = Resting]

\* self.retry: the message is sent again, with the arguments as they are now.
Retry(w, url) ==
    /\ LET t == Task(w)
           again == [t EXCEPT !.state = "queued", !.tries = @ + 1, !.url = url]
       IN tasks' = [tasks EXCEPT ![worker[w].task] = IF t.tries < MaxRetries THEN again ELSE [t EXCEPT !.state = "failed"]]
    /\ worker' = [worker EXCEPT ![w] = Resting]

Goto(w, at) == worker' = [worker EXCEPT ![w].at = at] /\ UNCHANGED tasks

\* process_webhook_batch: an item that fails is reported as an error; a task
\* called as a function raises where it would retry.
NextItem(w) == worker' = [worker EXCEPT ![w].at = "webhook", ![w].items = Tail(@), ![w].alerts = <<>>] /\ UNCHANGED tasks

\* Slip: the error is the result.
Slip_Raise(w) == IF Task(w).body.kind = "batch" THEN NextItem(w) ELSE End(w)

\* An exception in process_webhook.
Raise(w) == IF Task(w).body.kind = "batch" THEN NextItem(w) ELSE Retry(w, Task(w).url)

\* The worker is lost, or cancelled with its connection: the message was not
\* acknowledged and is delivered again.
Crash(w) ==
    /\ worker[w] # Resting /\ faults < MaxFaults /\ faults' = faults + 1
    /\ tasks' = [tasks EXCEPT ![worker[w].task].state = "queued"]
    /\ worker' = [worker EXCEPT ![w] = Resting]
    /\ UNCHANGED <<incidents, overlapped>>

\* The database fails or the soft time limit is reached.
Fault(w) ==
    /\ worker[w].at \in {"alert", "similar", "number", "insert"}
    /\ faults < MaxFaults /\ faults' = faults + 1
    /\ Raise(w) /\ UNCHANGED <<incidents, overlapped>>

----------------------------------------------------------------------------
(* process_webhook                                                         *)

\* Signature and normalisation; a payload of the wrong shape raises.
OpenWebhook(w) ==
    /\ worker[w].at = "webhook" /\ worker[w].items # <<>>
    /\ LET p == Head(worker[w].items)
       IN \/ ~Valid(p) /\ NextItem(w)
          \/ Valid(p) /\ ~p.wellFormed /\ Raise(w)
          \/ Valid(p) /\ p.wellFormed
             /\ worker' = [worker EXCEPT ![w].at = "alert", ![w].alerts = Normalized(p)] /\ UNCHANGED tasks
    /\ UNCHANGED <<incidents, faults, overlapped>>

CloseTask(w) ==
    /\ worker[w].at = "webhook" /\ worker[w].items = <<>>
    /\ End(w) /\ UNCHANGED <<incidents, faults, overlapped>>

Alert(w) == Head(worker[w].alerts)
Org(w) == Head(worker[w].items).org

\* The next alert of the webhook.
NextAlert(w) == worker' = [worker EXCEPT ![w].at = "alert", ![w].alerts = Tail(@)] /\ UNCHANGED tasks

\* The last alert of a webhook is done.
CloseWebhook(w) ==
    /\ worker[w].at = "alert" /\ worker[w].alerts = <<>>
    /\ NextItem(w) /\ UNCHANGED <<incidents, faults, overlapped>>

\* Active incidents with the fingerprint.
Twins(f) == {i \in Active : incidents[i].fingerprint = f}

\* Is the alert at hand the first of its webhook?
Primary(w) == Len(worker[w].alerts) = Len(Normalized(Head(worker[w].items)))

\* Is another worker between this query and its commit, for the same fingerprint?
Racing(w) ==
    \E v \in Servers \ {w} : /\ worker[v].at \in {"similar", "number", "insert"}
                             /\ Alert(v).fingerprint = Alert(w).fingerprint

\* Suppression, which with the first alert ends the webhook, and the query by
\* fingerprint: scalar_one_or_none raises when it finds several.
Deduplicate(w) ==
    /\ worker[w].at = "alert" /\ worker[w].alerts # <<>>
    /\ LET twins == Twins(Alert(w).fingerprint)
           muted == Muted(Org(w), Alert(w))
       IN \/ muted /\ Primary(w) /\ NextItem(w) /\ UNCHANGED overlapped
          \/ muted /\ ~Primary(w) /\ NextAlert(w) /\ UNCHANGED overlapped
          \/ ~muted /\ Cardinality(twins) = 1 /\ NextAlert(w) /\ UNCHANGED overlapped
          \/ ~muted /\ Cardinality(twins) > 1 /\ Raise(w) /\ UNCHANGED overlapped
          \/ ~muted /\ twins = {} /\ Goto(w, "similar")
             /\ overlapped' = IF Racing(w) THEN overlapped \cup {Alert(w).fingerprint} ELSE overlapped
    /\ UNCHANGED <<incidents, faults>>

\* The query for active incidents of the service (all are of one) with a similar title.
FindSimilar(w) ==
    /\ worker[w].at = "similar"
    /\ IF \E i \in Active : Alike(incidents[i].title, Alert(w).title) THEN NextAlert(w) ELSE Goto(w, "number")
    /\ UNCHANGED <<incidents, faults, overlapped>>

\* The id after that of the latest incident.
Number(w) ==
    /\ worker[w].at = "number"
    /\ LET next == IF incidents = <<>> THEN 1 ELSE incidents[Len(incidents)].id + 1
       IN worker' = [worker EXCEPT ![w].at = "insert", ![w].id = next]
    /\ UNCHANGED <<tasks, incidents, faults, overlapped>>

\* The table refuses an id that is taken, and an organisation that does not
\* exist: without one the task invents its id.
Insert(w) ==
    /\ worker[w].at = "insert"
    /\ IF Org(w) = "" \/ \E i \in DOMAIN incidents : incidents[i].id = worker[w].id
       THEN Raise(w) /\ UNCHANGED <<incidents, faults>>
       ELSE /\ incidents' = Append(incidents, [id |-> worker[w].id, title |-> Alert(w).title,
                                               fingerprint |-> Alert(w).fingerprint, status |-> "Triggered"])
            /\ \/ NextAlert(w) /\ UNCHANGED faults
               \/ faults < MaxFaults /\ faults' = faults + 1 /\ Raise(w)
    /\ UNCHANGED overlapped

\* IncidentRepository.update: a responder works on an incident or ends it.  Nothing in
\* src calls it; whoever edits the table does the same.
UpdateIncident(i) ==
    /\ i \in Active
    /\ \E s \in {"Investigating", "Resolved"} \ {incidents[i].status} :
          incidents' = [incidents EXCEPT ![i].status = s]
    /\ UNCHANGED <<tasks, worker, faults, overlapped>>

----------------------------------------------------------------------------
(* The other tasks                                                         *)

\* deliver_outbound_webhook: url, secret and headers are popped from the
\* payload, so a retry finds none and gives up.
Deliver(w) ==
    /\ worker[w].at = "deliver"
    /\ \/ End(w)                           \* no url; 2xx, 3xx, 4xx
       \/ Task(w).url /\ Retry(w, FALSE)   \* 5xx, timeout, no connection
    /\ UNCHANGED <<incidents, faults, overlapped>>

\* _get_incident_from_db
Known(id) == \E i \in DOMAIN incidents : incidents[i].id = id

\* _build_orchestrator calls NotionMCPTools with two arguments; it takes one.
BuildOrchestrator(w) == Retry(w, Task(w).url)

\* run_agent_pipeline, run_single_agent, run_postmortem_agent, rerun_on_change:
\* none of them gets past the construction of its agents.
RunAgents(w) ==
    /\ worker[w].at = "agents"
    /\ IF Known(Task(w).body.incident) THEN BuildOrchestrator(w) ELSE End(w)
    /\ UNCHANGED <<incidents, faults, overlapped>>

----------------------------------------------------------------------------
TasksNext ==
    \/ \E t \in TaskIds : Submit(t) \/ \E w \in Servers : Take(w, t)
    \/ \E w \in Servers : \/ OpenWebhook(w) \/ CloseTask(w) \/ CloseWebhook(w)
                          \/ Deduplicate(w) \/ FindSimilar(w) \/ Number(w) \/ Insert(w)
                          \/ Deliver(w) \/ RunAgents(w) \/ Fault(w) \/ Crash(w)
    \/ \E i \in DOMAIN incidents : UpdateIncident(i)

----------------------------------------------------------------------------
(* Properties                                                              *)

\* No retry, redelivery or later alert gives a fingerprint a second active
\* incident; only two workers at once can.
NoTwins == \A f \in {incidents[i].fingerprint : i \in DOMAIN incidents} :
    Cardinality({i \in Active : incidents[i].fingerprint = f}) > 1 => f \in overlapped

\* A webhook that is acknowledged without an error, and whose first alert no rule
\* suppresses, has an incident, its own or a similar one, for each alert that none does.
Acknowledged ==
    \A t \in TaskIds :
        (tasks[t].state = "done" /\ tasks[t].body.kind = "webhook") =>
            LET p == tasks[t].body.webhook
                alerts == Normalized(p)
            IN ~Valid(p) \/ (alerts # <<>> /\ Muted(p.org, alerts[1])) \/ \A k \in DOMAIN alerts :
                   \/ Muted(p.org, alerts[k])
                   \/ \E i \in DOMAIN incidents : \/ incidents[i].fingerprint = alerts[k].fingerprint
                                                  \/ Alike(incidents[i].title, alerts[k].title)

\* process_webhook can be retried and redelivered at any point (acks_late):
\* what it did before stays in force, and what it acknowledges is recorded.
RedeliverySafe == NoTwins /\ Acknowledged
=============================================================================
