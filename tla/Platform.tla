------------------------------ MODULE Platform ------------------------------
(***************************************************************************)
(* What surrounds the incident pipeline: the Celery tasks (WebhookTasks),  *)
(* the WebSocket fan-out (Broadcast), the knowledge base (KnowledgeBase),  *)
(* accounts (Accounts) and their sessions (Sessions), Slack                *)
(* (SlackThreads), tickets (Tickets), blamed deployments (Deploys) and the *)
(* life of the process (Lifespan).  No handler of one reads or writes the  *)
(* state another one keeps here: the row of the user a token names is      *)
(* fixed in Sessions, for no endpoint removes it, and Slack's reloads and  *)
(* the process's pipelines are each their own.  A behaviour therefore      *)
(* follows one of them.                                                    *)
(***************************************************************************)
EXTENDS WebhookTasks, Broadcast, KnowledgeBase, Accounts, Sessions, SlackThreads, Tickets, Deploys, Lifespan

VARIABLE part      \* the one the behaviour follows

vars == <<taskVars, broadcastVars, knowledgeVars, accountVars, sessionVars,
          slackVars, ticketVars, deployVars, lifeVars, part>>

\* A behaviour starts as its part may; the others rest in one state.
Init ==
    /\ TasksInit /\ BroadcastInit /\ KnowledgeInit /\ AccountsInit /\ SessionsInit
    /\ SlackInit /\ TicketsInit /\ DeploysInit /\ LifeInit
    /\ part \in {"tasks", "broadcast", "knowledge", "accounts", "sessions", "slack", "tickets", "deploys", "process"}
    /\ part # "slack" => setup = <<CHOOSE c \in Setups : TRUE>> /\ bounds = CHOOSE b \in SlackBounds : TRUE
    /\ part # "tickets" => provider = "jira"
    /\ part # "process" => ~mounted /\ \A s \in Services : well[s]

\* A step is one of the part that is followed.
TasksPart ==
    /\ part = "tasks" /\ TasksNext
    /\ UNCHANGED <<broadcastVars, knowledgeVars, accountVars, sessionVars, slackVars, ticketVars, deployVars, lifeVars, part>>
BroadcastPart ==
    /\ part = "broadcast" /\ BroadcastNext
    /\ UNCHANGED <<taskVars, knowledgeVars, accountVars, sessionVars, slackVars, ticketVars, deployVars, lifeVars, part>>
KnowledgePart ==
    /\ part = "knowledge" /\ KnowledgeNext
    /\ UNCHANGED <<taskVars, broadcastVars, accountVars, sessionVars, slackVars, ticketVars, deployVars, lifeVars, part>>
AccountsPart ==
    /\ part = "accounts" /\ AccountsNext
    /\ UNCHANGED <<taskVars, broadcastVars, knowledgeVars, sessionVars, slackVars, ticketVars, deployVars, lifeVars, part>>
SessionsPart ==
    /\ part = "sessions" /\ SessionsNext
    /\ UNCHANGED <<taskVars, broadcastVars, knowledgeVars, accountVars, slackVars, ticketVars, deployVars, lifeVars, part>>
SlackPart ==
    /\ part = "slack" /\ SlackNext
    /\ UNCHANGED <<taskVars, broadcastVars, knowledgeVars, accountVars, sessionVars, ticketVars, deployVars, lifeVars, part>>
TicketsPart ==
    /\ part = "tickets" /\ TicketsNext
    /\ UNCHANGED <<taskVars, broadcastVars, knowledgeVars, accountVars, sessionVars, slackVars, deployVars, lifeVars, part>>
DeploysPart ==
    /\ part = "deploys" /\ DeploysNext
    /\ UNCHANGED <<taskVars, broadcastVars, knowledgeVars, accountVars, sessionVars, slackVars, ticketVars, lifeVars, part>>
LifePart ==
    /\ part = "process" /\ LifeNext
    /\ UNCHANGED <<taskVars, broadcastVars, knowledgeVars, accountVars, sessionVars, slackVars, ticketVars, deployVars, part>>

Next ==
    \/ TasksPart \/ BroadcastPart \/ KnowledgePart \/ AccountsPart \/ SessionsPart
    \/ SlackPart \/ TicketsPart \/ DeploysPart \/ LifePart

Spec == Init /\ [][Next]_vars

----------------------------------------------------------------------------
\* Accounts and sessions, with requests served in every order their queries allow: at most
\* one first administrator, one left unless two demote each other, a refresh token
\* exchanged once unless two hold it at the same time, a sign-out that lasts, and no call that
\* waits for a refresh nobody does.
AuthSound == OneFirst /\ AdminRemains /\ ExchangedOnce /\ SignedOutStays /\ WaitersServed

\* The collaborators' services: updates in the threads of their incident's cards, incidents
\* announced, tickets reported as they were made, and the right deployment blamed.
CollaborationSound == UpdatesThreaded /\ Announced /\ TicketsHonest /\ BlameSound
=============================================================================
