------------------------------- MODULE Fanout -------------------------------
(***************************************************************************)
(* What the dispatch of an event promises to its subscribers: every one    *)
(* that is owed the event is settled (delivered or given up) once, none    *)
(* twice, and one may be passed over only when the registry was changed    *)
(* while the dispatch was running.                                         *)
(***************************************************************************)
CONSTANTS Events, Subscribers

VARIABLES
    running,    \* the dispatches in progress
    owed,       \* who still has to be tried
    settled,    \* who has been
    disturbed   \* dispatches during which the registry was changed

fanoutVars == <<running, owed, settled, disturbed>>

FanoutInit ==
    /\ running = {} /\ disturbed = {}
    /\ owed = [e \in Events |-> {}] /\ settled = [e \in Events |-> {}]

BeginDispatch(e) ==
    /\ e \notin running
    /\ running' = running \cup {e}
    /\ \E S \in SUBSET Subscribers : owed' = [owed EXCEPT ![e] = S]
    /\ settled' = [settled EXCEPT ![e] = {}]
    /\ disturbed' = disturbed \ {e}

Leave(e) ==
    /\ running' = running \ {e}
    /\ owed' = [owed EXCEPT ![e] = {}]
    /\ settled' = [settled EXCEPT ![e] = {}]
    /\ disturbed' = disturbed \ {e}

Settle(e, o) ==
    /\ e \in running /\ o \in owed[e]
    /\ \/ /\ owed' = [owed EXCEPT ![e] = @ \ {o}]
          /\ settled' = [settled EXCEPT ![e] = @ \cup {o}]
          /\ UNCHANGED <<running, disturbed>>
       \/ /\ owed[e] = {o} \/ e \in disturbed
          /\ Leave(e)

\* An administrator changes the subscriptions: the running dispatches may gain
\* and lose subscribers, but nobody is owed what was settled for him.
Disturb ==
    /\ disturbed' = running
    /\ owed' \in [Events -> SUBSET Subscribers]
    /\ \A e \in Events : owed'[e] \cap settled[e] = {}
    /\ \A e \in Events \ running : owed'[e] = {}
    /\ UNCHANGED <<running, settled>>

\* The process stops.
StopAll == FanoutInit'

FanoutNext ==
    \/ \E e \in Events : BeginDispatch(e) \/ \E o \in Subscribers : Settle(e, o)
    \/ Disturb
    \/ StopAll

FanoutSpec == FanoutInit /\ [][FanoutNext]_fanoutVars
=============================================================================
