# OpsLens in TLA+

OpsLens receives alerts, turns them into incidents kept in Notion, lets language-model agents
triage them, and follows what humans do to them in Notion, Slack and a dashboard. This
directory holds TLA+ models of the parts of that program in which several things happen at
once, TLC configurations that check them on small instances, and TLAPS proofs of the results
that matter for every instance. Paths below are relative to the repository.

## The system

One FastAPI process, one asyncio event loop. Code between two `await`s is atomic; everything
else interleaves. State that matters lives in memory, in Notion, which is reached by HTTP
through an MCP server, and in a SQL database. Celery workers run periodic and redelivered
tasks on that database; browsers hold the tokens of their users.

| component | state | operations | what makes it hard | correct when |
|---|---|---|---|---|
| circuit breaker `security/circuit_breaker.py` | state, time of opening, failure streak | `call`, `reset` | the protected call runs outside the lock, so calls of before an outage end inside it | streak and state agree; stragglers do not extend an outage; outages end |
| webhook intake `webhooks/` | batch per request | endpoints, `_process_alerts` | answered 202 before anything is done; partial failure | every accepted alert comes to one outcome |
| incident manager `incidents/` | incidents, id counter, deduplication cache | `create_incident`, `transition`, `rehydrate_from_notion` | state is read before and written after calls to Notion; restarts | ids unique but for copies, no page orphaned, cache consistent, repeated alerts join |
| alert grouping `agents/alert_grouping.py` | none | `find_group` | threshold arithmetic on rehydrated incidents | a repeated alert joins its incident |
| orchestrator `agents/orchestrator.py` | semaphore | two pipelines, four reactions | pipelines, humans and watcher write one incident | agents respect a resolution; every resolution is reviewed |
| Notion watcher `sync/notion_watcher.py` | snapshots, known comments | poll loop, forced sync | stale reads; the loop awaits the agents it re-runs | edits adopted; polling always comes back |
| agents, LLM client `agents/` | transcripts, the Commander's conversation, confidence records | bounded tool loops, provider fallback | tools and providers fail, replies are cut off, questions overlap | loops end; transcripts are sound; silent agents are flagged |
| Notion MCP client `notion_mcp/` | session id, request times | rate limit, `call_tool` with retries | session loss under concurrency, retry of what was done | limits kept; no double effect |
| settings `api/settings.py`, `security/encryption.py` | settings file, key, forms | load, save, reload | stale forms, masks, lost keys, reloads that fail | secrets survive; what is typed reaches use |
| outbound webhooks `integrations/outbound_webhooks.py` | subscriptions, counter | add, update, remove, dispatch, deliver | the dictionary changes under an iteration; retries | every subscriber that allows a try is tried once |
| WebSocket fan-out `main.py` | list of connections | connect, disconnect, broadcast | the list changes under a walk | who is connected gets the message |
| knowledge base `integrations/knowledge_base.py` | documents, one file | index, search, save, load | replaced objects, torn writes, two kinds of embedding | what was indexed is found |
| Slack, tickets, GitHub `integrations/` | threads of cards; tickets; none | cards, war rooms, updates; action items; blame | two cards race for a thread; replies are lost; windows count from now; failures look like empty answers | updates in their thread; tickets reported; the right deployment blamed |
| runbooks `enterprise/runbook_automation.py` | executions in the database, definitions in memory | start, execute, advance, approve, reject, cancel | memory and database drift apart; approvals race | commands once and in order |
| on-call, SLA, alert rules `enterprise/` | schedules, breaches, rules, window tracker | rotate, escalate, check, evaluate | select-then-insert; periodic jobs overlap | nobody skipped, requests reach the chain; overdue incidents recorded; windows count |
| Celery tasks `tasks/` | rows of the database | retries, late acknowledgement | redelivery at any point, twins | effects idempotent |
| accounts and sessions `auth/`, `authStore.js`, `client.js` | rows, blacklist; two copies of the tokens | register, sign in, roles; login, refresh, logout | check-then-write; a refresh in flight at logout | one first administrator; tokens used once; sign-out lasts |
| process `main.py:lifespan`, `observability/health.py` | loops, clients, probes | startup, shutdown, readiness | pipelines nobody awaits; services that come and go during a probe | loops end before their client; readiness tells the truth |
| cache and pub/sub, reporting, compliance, metrics, cloud providers, vector store, views, deployment | | wrappers, queries, layout | | not modelled, see below |

Interactions: a webhook calls `main.handle_alert` through the circuit breaker; that calls
`create_incident`, then starts the agent pipeline as a task of its own. Agents, dashboard,
Slack and the watcher's reactions all change the same `Incident` object and its Notion page.
The watcher reads the page back. Saving the settings replaces the integrations under the
pipelines that use them. A restart forgets memory and rebuilds it from Notion. The Celery
tasks and the enterprise endpoints keep incidents of their own in the database, which the
incident manager never reads.

## Modules

| module | models | extends |
|---|---|---|
| `CircuitBreaker` | the breaker alone | |
| `WebhookIntake` | batches of alerts behind the breaker; its tasks are the breaker's callers | `CircuitBreaker` |
| `IncidentStates` | statuses and the transition table | |
| `IncidentSync` | one incident, its page, the agents, the requests, the watcher, humans, restarts | `IncidentStates` |
| `IncidentIntake` | many alerts: deduplication, grouping, ids, page creation, rehydration | |
| `McpClient` | the Notion client that all coroutines share, and the MCP server behind it | |
| `AgentLoop` | tool loops of agents and Commander, providers below them, the conversation, the confidence summary | |
| `Settings` | the secrets from form to cipher to integrations | |
| `Fanout` | what a dispatch promises: the abstract specification | |
| `OutboundWebhooks` | subscriptions, the walk over the live dictionary, deliveries with retries; implements `Fanout` | |
| `Integrations` | settings and outbound webhooks in one process | `Settings`, `OutboundWebhooks` |
| `OnCall`, `ServiceLevels`, `Runbooks`, `AlertRules` | the enterprise features | |
| `Enterprise` | the four of them | |
| `WebhookTasks` | webhook, batch, delivery and agent tasks on the Celery queue | |
| `Broadcast` | WebSocket connections and broadcasts | |
| `KnowledgeBase` | documents, embeddings, the file, objects before and after a reload | |
| `Accounts`, `Sessions` | users and roles; tokens at server and browser | |
| `SlackThreads`, `Tickets`, `Deploys` | collaborators' services | |
| `Lifespan` | startup, loops, pipelines, shutdown, probes | |
| `Platform` | the nine of them | |
| `...Proofs` | lemmas and theorems about the module they are named after | that module |
| `MC...` | instances for TLC | the module they are named after |

`IncidentIntake` ends where `IncidentSync` begins: its `Return` is the other's `Alert`.
`Integrations` composes two modules that interact: a save makes a new webhook manager, which
takes over the dictionary and starts to count from zero, while walks go on in the manager that
began them. The parts of `Enterprise`, and those of `Platform`,
share no state that a handler of one reads and another writes, so a behaviour follows one part,
which the variable `part` names, and the others rest; TLC explores the sum of their states and
not the product.

How state corresponds to code. In `CircuitBreaker`, `stored` is `_state` and `State` the
property `state`; HALF_OPEN is never stored, in the code as in the model. `elapsed` stands for
`monotonic() - _opened_at` and saturates at the timeout, beyond which the code cannot tell.
Each block under the lock is one action (`Admit`, `Succeed`, `Fail`), and so is a cancellation
(`Abort`). In `IncidentSync`, `status`, `severity`, `resolvedAt` are the fields of the
`Incident`, `page` what Notion has; `queue` and `slot` are the waiters and the permits of the
semaphore; a slot's `pc` says which await its job is in. `transition()` is two actions, the
memory half (`Move`, with the guard of `execute_transition`) and the Notion half
(`WritePageStatus`), because another task may run between them. `poller` holds the local
variables of `_check_incident`. Timeline comments are written at Notion but read by nothing
(the watcher reacts to comments that start with ESCALATE only), so the awaits they add inside
a block are merged with it, except where they separate a test from its use: `ReactStatus` and
`ForceStatus` are the two sides of such an await. In `IncidentIntake`, `handler` holds the
locals of `create_incident`; `counter`, `cache`, `incidents` are the manager's fields.
`_similarity_score` is computed in tenths and multiplied by the longer title's word count, so
that the comparison with 2.0 is exact; a title without words earns nothing, and a service that
nobody named is "unknown", which equals the service of a rehydrated incident. An alert carries
the time its sender says (`triggered_at`), which may lie before or after the clock. A creation
that is refused or lost is tried again by the client with the same arguments (`Retry`), or given
up (`CreateFails`); each try may make a page, also one that was given up (`late`, `LatePage`), so
that one incident may have several pages (`birth` tells creations apart and `try` their copies).
The incident remembers the page of the try that was answered.

In `McpClient`, `pc` names the await a caller of `call_tool` is in and `stage` which of the
code's places the request belongs to: the `initialize` under the lock (`lock`), the one of the
first `except` outside it (`pre`), the one after a 410 (`post`), the call itself (`first`) and
its repetition (`again`). `_init_lock` is `lock` and its queue `waiting`. Timestamps are kept
as ages. The server is external: it may drop a session at any time, a request whose session was
alive when it was sent may be answered before or after that, and an answer may echo the id.
`mayRun` and `mayOpen` are history: how many more executions of a call, and how many more
sessions, the answers so far excuse. Of a failed call only whether tenacity retries it matters.

In `AgentLoop`, a message is its role, the ids of the tool uses it asks for and of those it
answers; `loop` holds a run's transcript, round and provider, `lists` the conversations by
identity, because a cleared history leaves running queries with the old list. `Contents` and
`Named` do to a transcript what the adapter for Gemini does to its messages. In
`OutboundWebhooks`, `entries` is the entry array of a Python dictionary with its holes, which
is what decides whom a walk meets after a removal; `Integrations` adds budgets. In `Settings`,
a value on file is a cipher with the key it was made with; when one does not open with the key
of the process, all are passed on as they stand, as `_try_decrypt_settings` does. `tokens` is what
the agents and the API use. A save whose reload raises leaves `tokens` and the webhook manager as
they are; the histories `typed` and `stale` say what was last put into each field and that the last
reload failed. The objects `handle_alert` keeps are left out.
A subscription has any number of tries, 0 included (for every number below 1): such a one matches,
but gets no request (`Tried`). In `OnCall`, an escalation records whom the chain `listed` for its
level and who was `told`. In `Deploys`, a query may fail, which looks like an answer without
deployments.

In the enterprise modules a worker's `at` names the query or commit it is about to make; rows
read earlier are copies. `ServiceLevels` keeps breaches as a bag, because two overlapping runs
insert twice; `Runbooks` keeps per session what its executor has loaded. The window tracker of
`AlertRules` is the list of times per rule and group, and `seen` a history of every alert a rule
was given. Loops over a list (the leaves of a condition, the rules, the pruning, the walk of a
broadcast, the search for a deployment) are recursive functions over its places.

In `WebhookTasks`, `tasks` holds the messages with their state at the broker, `worker` the
locals of a task; a worker's death returns the message. In `KnowledgeBase`, an object is a version of memory; the
last is the one in use. In `Sessions` a token is the second it was issued in, since the claims
hold nothing else that differs; `proc` is one request of the store or of a call. In `Lifespan`,
`phase` is the place in `lifespan`, `work` what each loop and pipeline does, `http` and `ready`
the client's `_http` and `_initialized`.

History variables (`owed`, `excused`, `crossed`, `crowned`, `afterwards`, `seen`, `typed`, `stale`,
`turned`, and so on) are only written by the actions; each is marked at its
declaration. Where a property excepts a race the code loses, the exception is such a history,
set by the very steps that race, so that nothing else is excepted.

Definitions whose comment starts with "Slip:" are plausible programming errors, not part of
the model; each shows that a property can fail.

## Runs

| run | instance | shows |
|---|---|---|
| `webhook_intake` | 3 batches of at most 2 alerts, threshold 2, timeout 2 ticks, 6 calls | `StreakMatchesState`, `DropsNeedFailures`, `StragglersKeepDeadline`, `OutageEnds`, `EveryAlertEnds` |
| `incident_sync` | 1 permit, 1 request, the watcher's loop, 1 human edit, 1 pipeline, 1 fault | `SyncTypeOK`, `RerunOwned`, `NoAgentReopen`, `HumanEditAdopted`, `ResolutionReviewed`, `WatcherReturns` |
| `incident_intake` | 2 handlers, 2 alerts (one without title words and service), 3 arrivals, clock 0 and 3, 2 faults, 2 tries, result pages of 2 | `CacheBacked`, `IdsUnique`, `StoreIsFresh`, `PagesKnown`, `RepeatsJoin` |
| `mcp_client` | 2 callers, 2 tries, 2 requests per window of 2 ticks, 2 sessions | `InitializedHasSession`, `RepeatsOnlyAfterLoss`, `WindowHolds`, `SessionsShared`, `CallsEnd` |
| `integrations` | 2 secrets, 2 browsers, 2 keys and a malformed one; 3 subscriptions with 2, 1 and no tries, 2 dispatches; reloads that fail | `TypedInUse`, `SecretsKept`, `DispatchKeepsPromise`, `DispatchesEnd` |
| `agent_loop` | 2 loops of 2 rounds with 2 tool uses, 2 providers, 3 questions, a conversation of 4 messages | `TranscriptSound`, `ConversationPaired`, `SilentAgentsFlagged`, `LoopsEnd` |
| `enterprise` | 2 workers, 2 checkers, 2 desks, 2 rules; rosters of 2 and 3, 3 scripts of 3 steps, 3 alerts | `RotationFair`, `EscalationSound`, `OverdueRecorded`, `StepsInOrder`, `WindowCounts` |
| `platform` | per part, see below | `RedeliverySafe`, `BroadcastReaches`, `KnowledgeKept`, `AuthSound`, `CollaborationSound`, `ProcessSound` |
| `single_probe` | as `webhook_intake` | violated: the docstring's "single probe" |
| `overrides_are_human` | no human edits at all | violated: "human override" |
| `one_incident` | no faults | violated: deduplication within the window |
| `search_limit` | 1 caller, 2 searches per window | violated: "30 searches/min" |

Why the bounds are enough. Three batches let one call be a probe while another is a straggler
of the outage and a third is refused; a threshold of 2 tells "one failure" from "the failure
that trips". In `incident_sync` the single permit is what makes the watcher and the pipeline
wait for each other, and one fault at every place in turn covers every error path. In
`incident_intake`, two arrivals make one incident twice or two that have nothing in common, two
faults make a creation that is lost, repeated and followed by a restart, or given up and carried
out late, and with two tries a page and its copy fill a result page; the clock takes the readings
0 and 3, on either side of both windows. The third arrival is the one whose id is given out after
a restart that knew two; ids and counter do not depend on time, so it comes only where the clock
stands (`MCNext`). In
`mcp_client` two callers are one in the lock and one in its queue, or one asleep in the limiter
and one that clears the session; two sessions are one to lose and one to find; a window of two
ticks lets requests of different ages leave it one after the other, and two tries tell the
first from the last.

In `integrations`, two browsers make a stale form, two restarts lose a key and bring it back,
and a secret with and one without a value in the environment meet the fallback; three changes
of subscriptions make a hole before, at and after the place of a walk, and put an old key back;
a save in a second profile lets the counter of ids start again under two walks. Settings and
deliveries have behaviours of their own (`MCProfiles`) to keep the product of both small. In
`agent_loop`, the second round is the last one allowed, two tool uses let one fail and one
succeed, and three questions with a conversation of four messages overflow it. In `enterprise`,
a period of 3 hours with transactions of at most 1 lets a repeated task come too early, in time
and late; rosters of two and three members tell "next" from "the other"; two checkers overlap
with one abort; the scripts put an approval, a manual step and a blocked command between
commands; windows of one and two hours count to two and three.

In `platform`: *tasks*: two messages and two workers, one retry and one death of a worker, with
bodies for every branch of the tasks (`MCBodies`). *Broadcast*: three sockets, two broken ones,
two messages that walk at once. *Knowledge base*: two documents in two versions and two tasks;
two objects are one reload or one restart, which is what it takes to have a replaced one.
*Accounts*: two addresses and two requests. *Sessions*: the store and two calls, one of which
waits for the other, three seconds with tokens that last one, one lost reply or restart.
*Slack*: two profiles, war rooms on request with two failures for one incident, two incidents
with less. *Tickets*: two requests, lists of none, one and two items, two failures. *Deploys*: seven
minutes, a window of three and a page of two. *Process*: one pipeline, one probe and one
service that fails or comes back, from every state of the services at the start.

Deadlock is not checked where a bound ends a behaviour: every module counts arrivals, calls,
edits or faults, and the program itself may be idle.

Every property has a mutant, a plausible slip in one definition that breaks it: a guard that is
dropped, a flag that is not set, an order that is swapped. `AuthSound`, `CollaborationSound` and
`ProcessSound`, which join several parts, have one for several of them.

## Refinement

`Fanout` says what the dispatch of an event promises: everyone who is owed the event is settled
once, none twice, and one may be passed over only if the registry was changed while the
dispatch ran. `OutboundWebhooks` maps a walk to it: who is owed is computed from the place of
the walk in the entry array, disturbance from the changes made during it.
`DispatchKeepsPromise` is `Fanout`'s specification as a property of run `integrations`, and
`DispatchImplementsFanout` proves it: `OutboundInv` says where a walk may stand (`Walking`), and
every step of `Integrations` maps to a step of `Fanout` or to a stutter.
`WebhookIntake` implements `CircuitBreaker`, which is proved (`IntakeUsesBreaker`).

## Fairness

The event loop runs every task that is ready, and every call to Notion, a model or a subscriber
returns, because the HTTP clients have timeouts; hence weak fairness of every continuation of a
task (`AgentStep`, `PollStep`, `RequestEnd`, `Handled \/ Errored \/ Cancelled`, `RunStep`,
`Deliver`), never of its success. `asyncio.Semaphore` is first-in first-out, hence weak fairness
of `Grant`. The watcher's timer fires (`PollStart(Loop)`), and time passes for an open breaker
and for sleepers (`Tick`). `asyncio.Lock` wakes its waiters in order and the HTTP client gives
up after 30 seconds, hence weak fairness of `Serve` for every caller of `McpClient`. Celery beat
sends the SLA check periodically and a worker that takes it goes on with it, hence weak
fairness of `CheckerStep`. Nothing is assumed of humans, requests, alerts, failures and restarts.

## Proofs

Checked by TLAPS for all values of the constants, from the assumptions named in the modules.

- `BreakerTypeCorrect`, `BreakerStreak`, `BreakerDeadline`: the breaker's type invariant is
  inductive; the streak invariant is inductive together with it; the deadline is an action
  property that needs only the types.
- `IntakeUsesBreaker`: every step of `WebhookIntake` is a step of the breaker or leaves it
  alone, so its theorems carry over (`IntakeStreak`).
- `SyncTypeCorrect`: `SyncTypeOK` is not inductive, because a check about to force a status
  could hold a name that is no status; the inductive invariant `TypeInv` adds `Suspended`,
  which says what a poller holds at each of its awaits.
- `RerunsOwned`: for every poller suspended in a re-run, a job that will resume it; by
  cases on where the job is (queue, slot), using `TypeInv`.
- `AgentsKeepResolutions`: an action property, from the guards and `TypeInv`.
- `CacheAlwaysBacked`, `IdsAlwaysUnique`, `PagesAlwaysKnown`, `StoresAreFresh`,
  `RepeatsAlwaysJoin`: all from one inductive invariant, `IInv`. Its part `Memory` relates the
  counter, the incidents and the ids that handlers hold across their await (no id beyond the
  counter, no two handlers with one id, none of them stored already); its part `Notion` says
  the same of the pages and of those that may still come (`AllPages`), under the condition that
  every restart saw all of them: pages with one id are of one creation, which its handler holds or
  its incident is like. `RepeatsJoin` adds arithmetic: a title with words and a service make 3.0;
  either of them makes 1.5, to which the source adds 0.2 and the severity or a label 0.3, which
  is exactly 2.0, or more with a further hint.
- `McpTypeCorrect`: the types of `McpClient` are inductive; lemmas say that the limiter's
  filter and the passing of time keep lists of ages. `SessionsKept`: inductive together with
  the types, because new session ids are never the empty one. `RepeatsExcused`: the inductive
  invariant is `MayStillRun`, a call under way may be executed once more without a further
  loss, because an execution that is answered ends the call.
- `WindowIsKept`: the inductive invariant `WindowInv` says that the timestamps are in the order
  they were taken, that `passes` are those within the window, and, as long as no two callers met
  in the limiter, that the one asleep in it will find room when it wakes: the oldest call it
  counted leaves the window no later than its sleep ends.
- `SessionsAreShared` counts: `OpenInv` bounds, by what losses have excused, the openings that are
  under way or still to be expected. At most one opener holds the lock, and only openers
  outside it, each of which follows a loss, add to it. `DropsAreEarned` counts too: the errors
  over all batches are at least the streak, and at least the threshold once an alert was dropped.
- `TypedReachesUse` and `SecretsAreKept`: the first rests on `TypedOnFile`, that the file always
  holds what was last typed, whichever key each value was encrypted with and whatever masks and
  stale forms were merged into it, and on the integrations being those of the file unless the last
  reload failed; `ReadableMeans` says that a file which opens is read in plain text. For the second every step is shown to keep each secret that no form typed over or showed as blank,
  through masking, merging, encrypting and a fallback to the values of the environment.
- `TranscriptsAreSound`, `ConversationsArePaired`, `SilenceIsFlagged`, from `LoopInv`: at each
  await of a loop its transcript is a dialogue that ends in what the place in the loop calls for
  (`GoodLoop`), because the open tool uses are those of the reply the loop works on; the
  Commander's lists hold pairs, whichever list a query still has; and a pipeline has one agent at
  a time, after those before it.
- `EscalationsReach` and `RotationIsFair`, from `OnCallInv`. The first says of an escalation by
  request that all the chain lists are told, and of one by the task only that levels follow each other. Two tasks may have read the same
  schedule; the invariant says that then the later commit turns it to the member who has the duty
  already (`Agrees`), as long as no rotation by hand came between.
- `RunbooksInOrder`, from `RunbookInv`: what an executor holds is what ran (`Recorded`), although
  the row it was loaded from may say something else since; so the step it stops at is later than
  all that ran.
- `WindowsCountAll`, from `AlertInv`. The tracker forgets, `seen` does not; the invariant says
  that for every rule, group and time within the window the tracker holds as many times as there
  were looks (`RulesBalanced`). The windows of other rules are never touched (`JudgeOthers`), time
  only takes alerts out of a window, and nothing is known of a rule yet to be made.
- Of `Platform`, all six properties (`RedeliveryIsSafe`, `BroadcastsReach`, `KnowledgeIsKept`,
  `AuthIsSound`, `CollaborationIsSound`, `ProcessIsSound`), from `PlatformInvariant`: each part has
  an invariant of its own, and every step of `Platform` is one of that part or leaves its state
  alone.
  - `TasksInv`: a task's message, its worker and the row it wrote agree at each await (`GoodTask`,
    `GoodWorker`), and unless two workers were noticed with one fingerprint, the one between
    its query and its commit is alone with it and no active incident has it (`Exclusive`).
  - `BroadcastInv`: whoever is owed a message and has not got it stands at or after the place of
    the walk in the list (`Reaching`), unless another task shortened the list under it.
  - `KnowledgeInv`: what was reported as indexed is in the object in use and in the file
    (`Reflected`); of a document never at risk at most one task is under way, and with no older
    version (`NoneBehind`).
  - `AccountsInv`: nobody is an administrator by registration unless his request found no
    organisation, and the organisation exists as soon as anyone does, so a second first user is
    refused by the unique slug; a change of roles has an actor other than its target.
  - `SessionsInv`: a token not excused is on the blacklist once it was exchanged, and before
    that at most one request has passed the look at the list with it (`TokensOnce`); nobody who
    is signed out has a token in the store, in localStorage or on its way (`SignedOutEmpty`);
    a refresh under way is some call's (`CallsServed`).
  - The collaborators: every thread a Slack object remembers is that of a card it filed for the
    incident (`RightThread`); each key in an answer is a ticket made for that item, and no two
    requests and no lost reply share one (`TicketsInv`); deployments are listed newest first, so
    the first one found before the incident is the last one before it, if the query did not fail
    (`DeploysInv`).
  - `LifeInv`: a loop that was stopped is off and stays off; probes are served between startup
    and shutdown only; each result of a check says how its service was at some time of the
    probe (`Told`), from which the answer follows.

What a loop over a list computes is proved without an induction theorem. A lemma says that the
loop's function exists (`...Exists`): otherwise there would be a least length for which it does
not, and the function for one less could be extended. What the function returns is proved the
same way, from the least place at which it would be wrong. The least place exists because the
numbers are well-founded (`LeastExists`, from `NatLessThanWellFounded` and `WFMin`).

The assumptions are those of the modules; two were needed for proofs only: the callers of a
breaker are finitely many, and a condition's parts are a list whose windows are natural numbers.

Every invariant and every action property the passing runs check is a theorem, for all values of
the constants. Only liveness (`OutageEnds`, `EveryAlertEnds`, `HumanEditAdopted`,
`ResolutionReviewed`, `WatcherReturns`, `CallsEnd`, `DispatchesEnd`, `LoopsEnd`,
`OverdueRecorded`) is model-checked and not proved: liveness under fairness is beyond this prover.

## Disagreements between code and documents

Each has a run that ends in a counterexample:

1. `single_probe`. The docstring of the breaker promises a single probe request; the code
   admits every caller once the timeout has elapsed.
2. `overrides_are_human`. The comment at the forced assignment and the transition table in the
   README take whatever the watcher finds for a human's override. The watcher reads a page
   between the memory half and the Notion half of the system's own transition, or a page
   whose write failed, and forces the incident back.
3. `one_incident`. Deduplication looks before a call to Notion and records after it.
4. `search_limit`. The README announces 30 searches per minute; the limiter looks for a tool
   name that no wrapper uses.

Others, met while modelling; the models do what the code does, without a run of their own:

- `reload_integrations` announces a hot reload of all integrations (main.py:195). The alert handler,
  a closure of the lifespan, keeps the Slack and webhook objects it was made with (main.py:455-475),
  so the first notification of an incident follows the settings of the start.
- `dispatch` announces the event to all matching subscriptions (outbound_webhooks.py:254). One whose
  `retry_count` is not above zero, which the API accepts (integrations_router.py:552), gets no
  request (outbound_webhooks.py:409).
- A level of escalation says whom it notifies (oncall.py:238-241) and the task says that it escalates
  to the next one (enterprise_tasks.py:242); it writes a timeline event and notifies nobody
  (enterprise_tasks.py:298), although the settings page promises escalation (SettingsPage.jsx:691).
- `/healthz`, `/readyz` and `/health/detailed` are registered during startup, after the mount of
  the dashboard at "/" (main.py:737-739), and answer 404 in the image, whose health check
  (Dockerfile:63) and manifests (k8s/opslens-deployment.yaml) probe them. No Celery app is ever
  attached to the application, so health is at best "degraded".
- The refresh token is announced as good for one use; two requests may exchange it, a restart
  forgets the list, and two pairs issued in one second are the same pair. The API client renews
  localStorage only, so the store's timer later presents a used token and signs out.
- `postmortem_created` is set without a page (agents/postmortem_agent.py:127). A rollback pull
  request reverts nothing. A war room is reported as created though its card failed.
- A delivery task takes its metadata out of the payload, so its retry finds none and gives up. A
  task without an organisation invents one, which the database refuses. The alerts after a
  suppressed one are dropped with it. Failed members of a batch are not retried.
- Two runs of the SLA check record a breach twice, after which the query for it raises for good;
  a second row of an escalation level does the same to the escalation task, which never gets
  above the first level.
- The results of runbook steps are changed in place and not written to the row; a rejection does
  not look whether anything is pending; an executor may overwrite CANCELLED with COMPLETED.
- Reloading the settings restarts the counter of subscription ids, and the next subscription
  takes the place of one that exists.
- The agent and command-center tasks of Celery raise where they construct the Notion tools; the webhook router imports
  a module that does not exist.

## What is not claimed

Exceptions stated in the properties: `IdsUnique`, `PagesKnown` and `RepeatsJoin` assume that
every restart loaded every page, with none still to come: the query reads one result page of 100.
`IdsUnique` allows several pages with one id if they are copies of one creation that the client
repeated after a loss; such a copy is never updated, and after a restart it may stand for its
incident. `RepeatsJoin` says nothing of an alert that shares its title only, or its service only,
and neither severity nor a label. `TypedInUse` excepts a reload that failed, until the next save
or restart, and a file with a secret that does not open: then all its values are used as they
stand. `DispatchKeepsPromise` owes nothing to subscriptions that allow no try. `WindowHolds` says
nothing once two callers were in the limiter together: all of them pass when they wake. Requests
that open a session and calls repeated after a 410 do not pass the limiter at all. `RotationFair`
excepts rotations by hand that overlap a task, `OverdueRecorded` several policies of one severity
and rows recorded twice, `RedeliverySafe` two workers that look for a twin at once,
`BroadcastReaches` a list that another task shortens, `KnowledgeKept` faults, overlaps and
replaced objects, `AuthSound` two administrators who demote each other, two holders of a token,
a restart of the server, which forgets the blacklist, and a refresh under way at sign-out,
`BlameSound` pipelines that run late and queries that fail (github_integration.py:128 answers them
with an empty list), `EscalationSound` whom the task should notify, `ProcessSound` pipelines that call during the shutdown.

Known limits of the code that no property is about: an edit made before the watcher's first look
at a page is part of the baseline and is not seen; a comment may be handled twice when a forced
sync overlaps the first check; a page that a human reopens is not polled; the triage agent's own
write of the severity is reported as a human's; the page writes of two transitions may overtake
each other; a resolution whose page write failed is forgotten at a restart; a resolution by Slack
is never reviewed and a Slack escalation raises (api/integrations_router.py:199); a duplicate may
be answered with an incident that is resolved, and runs the pipeline all the same (main.py:482); a
crash between the creation of an incident and its pipeline leaves it Triggered; a call may find
the session cleared when it leaves the limiter, and then fails. Cancelled calls of the MCP client
are not modelled.

Where a model is narrower than the code:

- `AgentLoop`: that a cut-off reply is seen as one holds for Anthropic; Gemini's adapter reports
  `end_turn` (llm_client.py:235-238), so such a reply counts as complete.
- `Runbooks` identifies a step by its place; the request supplies `step.index` unchecked
  (enterprise/router.py:568), and indices that repeat or are missing are not modelled.
- `AlertRules` leaves out the search for a substring (alert_rules.py:416-417).
- `WebhookTasks` always redelivers the task of a worker that dies. `task_acks_late` is set without
  `task_reject_on_worker_lost` (celery_app.py:86), so when only the pool process is killed the task
  is acknowledged as failed; redelivery is what the properties have to survive.
- `Sessions` has one browser tab, and the request and answer of `/auth/me` are one step of it
  (authStore.js:168-175).
- `SlackThreads` sends the card and the war room of an incident once; the code does so for each of
  its alerts (main.py:454-461).
- `Tickets` lists all tickets of an incident; Jira answers 50 of them, and none when the query fails
  (jira_integration.py:280-299).

## Not modelled

- *Cache and pub/sub*: `ws_pubsub.py` is started by no code, and what the tasks publish has no
  reader; the cache wraps Redis for values nothing reads back.
- *Reporting*, cloud providers, the compliance report's times, the pages and filters of the
  repositories: they only read.
- *Compliance*: the retention manager has no caller; the audit middleware adds a row per request
  that nothing reads, and the image does not contain it.
- *Vector store*: used by nothing that runs. *Rate limiter* of the API: constructed, applied to
  nothing.
- *Metrics, tracing, error reporting*: they observe. *Profile and password endpoints*: one row of
  their own user. *Views, containers, manifests, scripts, migrations*: layout and configuration.
- Prompts, titles, payload layouts and severity maps are data that no property tells apart.

## Plan

Open: the refinement of a sequential incident log by `IncidentSync`, with its proof; lemmas
about what a restart keeps, shared by `IncidentSync` and `IncidentIntake`; the filters of the
repositories, if a handler comes to depend on their order.
