-------------------------- MODULE OutboundWebhooks --------------------------
(***************************************************************************)
(* The subscriptions of OutboundWebhookManager and the dispatch of events  *)
(* to them (integrations/outbound_webhooks.py).  `dispatch` walks the live *)
(* dictionary and awaits every delivery, so subscriptions are added,       *)
(* changed and removed while it walks.  A step runs from one await (an     *)
(* HTTP answer, the end of a backoff) to the next.                         *)
(*                                                                         *)
(* The dictionary is its entry array: insertion order, a hole for every    *)
(* removed key, an overwritten key in its old place.  A walk stops with an *)
(* error when it finds another number of keys than it began with.          *)
(***************************************************************************)
EXTENDS Integers, Sequences, FiniteSets

CONSTANTS
    Walks,         \* coroutines that dispatch an event or send a test
    Offers,        \* what a subscription asks for
    MaxSubs        \* bound: subscriptions made

Subs == 1 .. MaxSubs           \* the WebhookSubscription objects
None == 0
Hole == [id |-> 0, sub |-> None]

\* `wants` stands for the event types and the severity, service and source
\* filters together, `tries` for retry_count, which the API takes as it comes:
\* 0 stands for every number below 1.
Offer == [enabled : BOOLEAN, wants : BOOLEAN, tries : Nat]
ASSUME OffersAssumption == Offers \subseteq Offer /\ Offers # {}
ASSUME SubsAssumption == MaxSubs \in Nat \ {0}

VARIABLES
    entries,    \* _subscriptions
    counter,    \* _counter of the manager the API uses
    made,       \* subscription objects made so far
    offer,      \* what each of them asks for now
    walk        \* the progress of each walk

outboundVars == <<entries, counter, made, offer, walk>>

Idle == [at |-> "idle", sub |-> None, pos |-> 0, size |-> 0, left |-> 0,
         attempt |-> 0, limit |-> 0, test |-> FALSE, got |-> {}, churn |-> FALSE]

Present == {i \in DOMAIN entries : entries[i] # Hole}
Registered == {entries[i].sub : i \in Present}
Places(id) == {i \in Present : entries[i].id = id}

\* matches_event
Matches(o) == offer[o].enabled /\ offer[o].wants

\* _deliver makes an attempt only if retry_count allows one; else the delivery
\* is recorded as failed, with no await.
Tried(o) == Matches(o) /\ offer[o].tries > 0

\* Slip: starts again at the subscription it delivered to last.
Slip_NextMatch(w) ==
    LET hits == {i \in Present : i >= w.pos /\ Tried(entries[i].sub)}
        hit == CHOOSE i \in hits : \A j \in hits : i <= j
    IN IF Cardinality(Present) # w.size \/ hits = {} \/ w.left = 0
       THEN Idle
       ELSE [w EXCEPT !.at = "posting", !.sub = entries[hit].sub, !.pos = hit,
                      !.left = @ - 1, !.attempt = 1,
                      !.limit = offer[entries[hit].sub].tries]

\* The `for sub in self._subscriptions.values()` of a walk w that is at a
\* position, up to the next subscription it posts to or its end.
NextMatch(w) ==
    LET ahead == {i \in Present : i > w.pos}
        hits == {i \in ahead : Tried(entries[i].sub)}
        hit == CHOOSE i \in hits : \A j \in hits : i <= j
        taken == Cardinality({i \in ahead : i <= hit})
    IN IF Cardinality(Present) # w.size \/ hits = {} \/ taken > w.left
       THEN Idle
       ELSE [w EXCEPT !.at = "posting", !.sub = entries[hit].sub, !.pos = hit,
                      !.left = @ - taken, !.attempt = 1,
                      !.limit = offer[entries[hit].sub].tries]

OutboundInit ==
    /\ entries = <<>> /\ counter = 0 /\ made = 0
    /\ offer = [o \in Subs |-> CHOOSE f \in Offers : TRUE]
    /\ walk = [d \in Walks |-> Idle]

\* The registry has changed under the running walks.
Churn == walk' = [d \in Walks |-> IF walk[d].at = "idle" THEN Idle
                                  ELSE [walk[d] EXCEPT !.churn = TRUE]]

\* The dictionary after `_subscriptions[id] = o`.
Entered(id, o) ==
    IF Places(id) = {} THEN Append(entries, [id |-> id, sub |-> o])
    ELSE [entries EXCEPT ![CHOOSE i \in Places(id) : TRUE].sub = o]

\* add_subscription
AddSubscription(f) ==
    /\ made < MaxSubs
    /\ counter' = counter + 1
    /\ made' = made + 1
    /\ offer' = [offer EXCEPT ![made + 1] = f]
    /\ entries' = Entered(counter + 1, made + 1)
    /\ Churn

\* update_subscription: attributes of the object, which a delivery in progress
\* holds as well.
UpdateSubscription(i, f) ==
    /\ i \in Present
    /\ offer' = [offer EXCEPT ![entries[i].sub] = f]
    /\ Churn
    /\ UNCHANGED <<entries, counter, made>>

\* remove_subscription
RemoveSubscription(i) ==
    /\ i \in Present
    /\ entries' = [entries EXCEPT ![i] = Hole]
    /\ Churn
    /\ UNCHANGED <<counter, made, offer>>

\* dispatch, up to its first attempt.
Dispatch(d) ==
    LET size == Cardinality(Present)
    IN /\ walk[d].at = "idle"
       /\ walk' = [walk EXCEPT ![d] = NextMatch([Idle EXCEPT !.size = size, !.left = size])]
       /\ UNCHANGED <<entries, counter, made, offer>>

\* test_subscription, up to its first attempt; without one nothing happens.
TestSubscription(d, i) ==
    /\ walk[d].at = "idle" /\ i \in Present /\ offer[entries[i].sub].tries > 0
    /\ walk' = [walk EXCEPT ![d] =
            [Idle EXCEPT !.at = "posting", !.sub = entries[i].sub, !.attempt = 1,
                         !.limit = offer[entries[i].sub].tries, !.test = TRUE]]
    /\ UNCHANGED <<entries, counter, made, offer>>

\* What follows a delivery: the rest of the walk, or the end of the test.
Delivered(w) ==
    IF w.test THEN Idle ELSE NextMatch([w EXCEPT !.got = @ \cup {w.sub}])

\* Slip: never counts the attempts.
Slip_Retried(w) == [w EXCEPT !.at = "posting"]

\* _deliver after an attempt that failed, slept out or not: the loop was given
\* the retry_count of its start.
Retried(w) ==
    IF w.attempt < w.limit THEN [w EXCEPT !.at = "posting", !.attempt = @ + 1]
    ELSE Delivered(w)

\* _deliver: the subscriber answers, or the request times out or raises.
Answer(d, ok) ==
    LET w == walk[d]
    IN /\ w.at = "posting"
       /\ walk' = [walk EXCEPT ![d] =
              CASE ok -> Delivered(w)
                [] ~ok /\ w.attempt < offer[w.sub].tries -> [w EXCEPT !.at = "sleeping"]
                [] OTHER -> Retried(w)]
       /\ UNCHANGED <<entries, counter, made, offer>>

\* _deliver: the backoff is over.
Awake(d) ==
    /\ walk[d].at = "sleeping"
    /\ walk' = [walk EXCEPT ![d] = Retried(walk[d])]
    /\ UNCHANGED <<entries, counter, made, offer>>

\* reload_integrations: a new manager with a counter of its own takes over the
\* dictionary; walks go on in the manager that began them.
ReloadOutbound ==
    /\ counter' = 0
    /\ UNCHANGED <<entries, made, offer, walk>>

\* The process stops: subscriptions are kept in memory only.
RestartOutbound ==
    /\ entries' = <<>> /\ counter' = 0
    /\ walk' = [d \in Walks |-> Idle]
    /\ UNCHANGED <<made, offer>>

----------------------------------------------------------------------------
(* The walk as a fan-out: tests are not dispatches of an event.            *)

Dispatching == {d \in Walks : walk[d].at # "idle" /\ ~walk[d].test}

Owed == [d \in Walks |->
    IF d \notin Dispatching THEN {}
    ELSE {walk[d].sub} \cup
         {entries[i].sub : i \in {j \in Present : j > walk[d].pos /\ Tried(entries[j].sub)}}]

Settled == [d \in Walks |-> IF d \in Dispatching THEN walk[d].got ELSE {}]

Promise == INSTANCE Fanout WITH
    Events <- Walks, Subscribers <- Subs, running <- Dispatching, owed <- Owed,
    settled <- Settled, disturbed <- {d \in Dispatching : walk[d].churn}

\* Property (refinement).  A dispatch tries once every subscription that wants
\* the event and allows an attempt: the walk over the live dictionary skips or
\* repeats nobody of those unless an administrator changed the subscriptions
\* during one of its deliveries.
DispatchKeepsPromise == Promise!FanoutSpec
=============================================================================
