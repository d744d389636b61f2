---------------------------- MODULE SlackThreads ----------------------------
(***************************************************************************)
(* Slack: incident cards, war rooms and the updates of the agents          *)
(* (integrations/slack_integration.py and its callers).  Each Slack object *)
(* remembers the thread of the card it posted last for an incident.        *)
(* Reloading the settings gives the orchestrator and the API a new object, *)
(* while handle_alert keeps the one of the startup.                        *)
(***************************************************************************)
EXTENDS Integers, Sequences, FiniteSets

CONSTANTS
    Outages,       \* incidents
    Severe,        \* those of P0 and P1, which get a war room
    Setups,        \* credentials: a bot token, a webhook URL?
    General,       \* the default channel
    ListLimit,     \* public channels conversations.list returns
    SlackBounds    \* bounds: incidents, reloads, rooms requested, updates, calls that fail

ASSUME SlackAssumption ==
    /\ General \notin Outages /\ Severe \subseteq Outages
    /\ Setups \subseteq [bot : BOOLEAN, hook : BOOLEAN]
    /\ ListLimit \in Nat
    /\ SlackBounds \subseteq [outages : SUBSET Outages, reloads : Nat, requests : Nat, updates : Nat, glitches : Nat]

VARIABLES
    setup,         \* the objects' credentials, the last one's in use
    threads,       \* _incident_threads of each object
    channels,      \* public channels
    posts,         \* messages, by their time stamp
    errand,        \* notification, war room and requested war room of each incident
    glitches,
    filed,         \* history: cards acknowledged, and when
    bounds         \* the bounds of this behaviour

slackVars == <<setup, threads, channels, posts, errand, glitches, filed, bounds>>

Errands == Outages \X {"notify", "room", "request"}
Objects == DOMAIN setup
NoThread == [channel |-> General, ts |-> 0]
Enabled(o) == setup[o].bot \/ setup[o].hook

Errand(at, o) == [at |-> at, object |-> o, ts |-> 0, failed |-> 0]
Move(e, at) == errand' = [errand EXCEPT ![e].at = at]

Fresh(c) == /\ setup' = Append(setup, c)
            /\ threads' = Append(threads, [i \in Outages |-> NoThread])

SlackInit ==
    /\ setup \in {<<c>> : c \in Setups} /\ threads = <<[i \in Outages |-> NoThread]>>
    /\ channels = {General} /\ posts = <<>> /\ glitches = 0 /\ filed = {} /\ bounds \in SlackBounds
    /\ errand = [e \in Errands |-> Errand("idle", 1)]

\* reload_integrations
ReloadSlack ==
    /\ Len(setup) <= bounds.reloads /\ \E c \in Setups : Fresh(c)
    /\ UNCHANGED <<channels, posts, errand, glitches, filed, bounds>>

\* handle_alert: two tasks, with the object of the startup.
AlertSlack(i) ==
    /\ i \in bounds.outages /\ errand[<<i, "notify">>].at = "idle"
    /\ errand' = [errand EXCEPT ![<<i, "notify">>].at = IF setup[1].bot THEN "post" ELSE IF setup[1].hook THEN "hook" ELSE "done",
                                ![<<i, "room">>].at = IF setup[1].bot /\ i \in Severe THEN "create" ELSE "done"]
    /\ UNCHANGED <<setup, threads, channels, posts, glitches, filed, bounds>>

Announcing(i) == errand[<<i, "notify">>].at # "idle"

\* POST /slack/war-room/{incident_id}
RequestRoom(i) ==
    /\ Announcing(i) /\ errand[<<i, "request">>].at = "idle" /\ setup[Len(setup)].bot
    /\ Cardinality({j \in Outages : errand[<<j, "request">>].at # "idle"}) < bounds.requests
    /\ errand' = [errand EXCEPT ![<<i, "request">>] = Errand("create", Len(setup))]
    /\ UNCHANGED <<setup, threads, channels, posts, glitches, filed, bounds>>

Glitch == glitches < bounds.glitches /\ glitches' = glitches + 1

\* create_war_room up to the card: a name that is taken is looked up in one page of the
\* channels; topic and purpose are set, or one of the calls fails.
CreateRoom(e) ==
    /\ errand[e].at = "create"
    /\ \/ channels' = channels \cup {e[1]} /\ Move(e, "post") /\ UNCHANGED glitches
       \/ /\ e[1] \in channels /\ Cardinality(channels) > ListLimit
          /\ Move(e, "done") /\ UNCHANGED <<channels, glitches>>
       \/ Glitch /\ Move(e, "done") /\ channels' \in {channels, channels \cup {e[1]}}
    /\ UNCHANGED <<setup, threads, posts, filed, bounds>>

Post(kind, i, channel, thread, o) ==
    posts' = Append(posts, [kind |-> kind, incident |-> i, channel |-> channel, thread |-> thread, object |-> o])

Room(e) == IF e[2] = "notify" THEN General ELSE e[1]

\* A notification that got no answer goes on with the webhook, a war room without a card.
Uncarded(e) ==
    errand' = [errand EXCEPT ![e].failed = @ + 1,
                             ![e].at = IF e[2] = "notify" /\ setup[errand[e].object].hook THEN "hook" ELSE "done"]

\* _post_incident_card up to the reply of chat.postMessage, which may be lost.
PostCard(e) ==
    /\ errand[e].at = "post"
    /\ \/ /\ Post("card", e[1], Room(e), 0, errand[e].object)
          /\ \/ errand' = [errand EXCEPT ![e].at = "posted", ![e].ts = Len(posts) + 1] /\ UNCHANGED glitches
             \/ Glitch /\ Uncarded(e)
       \/ Glitch /\ Uncarded(e) /\ UNCHANGED posts
    /\ UNCHANGED <<setup, threads, channels, filed, bounds>>

\* Slip: a thread that is known is kept, but for its time stamp.
Slip_FileCard(e) ==
    /\ errand[e].at = "posted"
    /\ LET o == errand[e].object
           known == threads[o][e[1]]
       IN /\ threads' = [threads EXCEPT ![o][e[1]] =
                [channel |-> IF known = NoThread THEN Room(e) ELSE known.channel, ts |-> errand[e].ts]]
          /\ filed' = filed \cup {[object |-> o, incident |-> e[1], ts |-> errand[e].ts, at |-> Len(posts)]}
    /\ Move(e, "done")
    /\ UNCHANGED <<setup, channels, posts, glitches, bounds>>

\* _post_incident_card after the reply: the thread is kept, the card pinned.
FileCard(e) ==
    /\ errand[e].at = "posted"
    /\ LET o == errand[e].object
       IN /\ threads' = [threads EXCEPT ![o][e[1]] = [channel |-> Room(e), ts |-> errand[e].ts]]
          /\ filed' = filed \cup {[object |-> o, incident |-> e[1], ts |-> errand[e].ts, at |-> Len(posts)]}
    /\ Move(e, "done")
    /\ UNCHANGED <<setup, channels, posts, glitches, bounds>>

\* _send_webhook
SendHook(e) ==
    /\ errand[e].at = "hook"
    /\ \/ Post("hook", e[1], General, 0, errand[e].object) /\ Move(e, "done") /\ UNCHANGED glitches
       \/ /\ Glitch /\ errand' = [errand EXCEPT ![e].at = "done", ![e].failed = @ + 1]
          /\ Post("hook", e[1], General, 0, errand[e].object) \/ UNCHANGED posts
    /\ UNCHANGED <<setup, threads, channels, filed, bounds>>

\* post_thread_update, for the pipelines and POST /slack/thread-update: the object in use.
PostUpdate(i) ==
    /\ Announcing(i) /\ setup[Len(setup)].bot
    /\ Cardinality({n \in DOMAIN posts : posts[n].kind = "update"}) < bounds.updates
    /\ LET thread == threads[Len(setup)][i]
       IN Post("update", i, thread.channel, thread.ts, Len(setup))
    /\ UNCHANGED <<setup, threads, channels, errand, glitches, filed, bounds>>

SlackNext ==
    \/ ReloadSlack \/ \E i \in Outages : AlertSlack(i) \/ RequestRoom(i) \/ PostUpdate(i)
    \/ \E e \in Errands : CreateRoom(e) \/ PostCard(e) \/ FileCard(e) \/ SendHook(e)

----------------------------------------------------------------------------
\* An update stands under a card of its incident, in the channel of that card, if the Slack
\* object in use had been told of one.  One reloaded since knows none: its updates go to
\* the default channel, out of any thread.
UpdatesThreaded == \A n \in DOMAIN posts : posts[n].kind = "update" =>
    LET mine == {f \in filed : f.incident = posts[n].incident /\ f.object = posts[n].object /\ f.at < n}
    IN IF mine = {} THEN posts[n].channel = General /\ posts[n].thread = 0
       ELSE \E f \in mine : posts[n].thread = f.ts /\ posts[f.ts].channel = posts[n].channel

\* An incident is announced in the default channel, unless each way that was set up failed.
Announced == \A i \in Outages : LET e == errand[<<i, "notify">>] IN
    (e.at = "done" /\ Enabled(1)) =>
        \/ \E n \in DOMAIN posts : posts[n].incident = i /\ posts[n].kind # "update" /\ posts[n].channel = General
        \/ e.failed = IF setup[1].bot /\ setup[1].hook THEN 2 ELSE 1
=============================================================================
