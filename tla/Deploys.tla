------------------------------- MODULE Deploys -------------------------------
(***************************************************************************)
(* The deployment an incident is blamed on                                 *)
(* (integrations/github_integration.py): the pipeline asks GitHub when it  *)
(* gets to run, which may be long after the incident.  A deployment is     *)
(* named by its time.                                                      *)
(***************************************************************************)
EXTENDS Integers, Sequences, FiniteSets

CONSTANTS
    BlameWindow,   \* window_minutes
    DeployPage,    \* per_page
    MaxMinutes     \* bound on the clock

ASSUME DeploysAssumption == {BlameWindow, DeployPage, MaxMinutes} \subseteq Nat \ {0}

VARIABLES
    minute,        \* the time
    deploys,       \* deployments, newest first
    trouble,       \* when the incident was triggered
    blamed         \* the suspicious deployment, when it was looked for, and
                   \* whether the query failed

deployVars == <<minute, deploys, trouble, blamed>>

NotYet == -1
Nothing == -1
Unasked == [deploy |-> Nothing, at |-> NotYet, failed |-> FALSE]

DeploysInit == minute = 0 /\ deploys = <<>> /\ trouble = NotYet /\ blamed = Unasked

PassMinute == /\ minute < MaxMinutes /\ minute' = minute + 1
              /\ UNCHANGED <<deploys, trouble, blamed>>

\* External: the team deploys.
DeployNow == /\ \A n \in DOMAIN deploys : deploys[n] < minute
             /\ deploys' = <<minute>> \o deploys
             /\ UNCHANGED <<minute, trouble, blamed>>

StartTrouble == /\ trouble = NotYet /\ trouble' = minute
                /\ UNCHANGED <<minute, deploys, blamed>>

\* get_recent_deployments: of one page, those in the window before now.  A query
\* that fails, in whatever way, is answered like one that finds none.
RecentDeploys(failed) ==
    {n \in DOMAIN deploys : ~failed /\ n <= DeployPage /\ deploys[n] >= minute - BlameWindow}

\* Slip: the first one in the window instead of the last.
Slip_Suspect(best, d) ==
    IF 0 < trouble - d /\ trouble - d < BlameWindow /\ (best = Nothing \/ trouble - d > trouble - best) THEN d ELSE best

\* correlate_with_incident: the deployment looked at against the best so far.
Suspect(best, d) ==
    IF 0 < trouble - d /\ trouble - d < BlameWindow /\ (best = Nothing \/ trouble - d < trouble - best) THEN d ELSE best

\* correlate_with_incident: the recent ones, one after another.
SuspiciousDeploy(failed) ==
    LET best[n \in 0 .. Len(deploys)] ==
            IF n = 0 THEN Nothing
            ELSE IF n \in RecentDeploys(failed) THEN Suspect(best[n - 1], deploys[n]) ELSE best[n - 1]
    IN best[Len(deploys)]

\* handle_new_incident at its turn with the semaphore, or POST /github/correlate.
Correlate(failed) ==
    /\ trouble # NotYet
    /\ blamed' = [deploy |-> SuspiciousDeploy(failed), at |-> minute, failed |-> failed]
    /\ UNCHANGED <<minute, deploys, trouble>>

DeploysNext == PassMinute \/ DeployNow \/ StartTrouble \/ \E failed \in BOOLEAN : Correlate(failed)

----------------------------------------------------------------------------
\* A deployment that is blamed is the last one before the incident and less than the window
\* before it.  One that ought to be is missed only by a pipeline whose query failed, that ran
\* after the window had passed over it, or that many deployments later.
BlameSound ==
    LET before == {n \in DOMAIN deploys : 0 < trouble - deploys[n] /\ trouble - deploys[n] < BlameWindow}
        last == CHOOSE n \in before : \A m \in before : n <= m
    IN blamed.at # NotYet =>
          IF blamed.deploy # Nothing
          THEN before # {} /\ blamed.deploy = deploys[last]
          ELSE before # {} => \/ blamed.failed
                              \/ deploys[last] < blamed.at - BlameWindow
                              \/ Cardinality({n \in 1 .. last - 1 : deploys[n] <= blamed.at}) >= DeployPage
=============================================================================
