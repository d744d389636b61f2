----------------------------- MODULE Enterprise -----------------------------
(***************************************************************************)
(* The enterprise features of src/enterprise and their Celery tasks: duty  *)
(* rotation and escalation (OnCall), SLA breaches (ServiceLevels), runbook *)
(* executions (Runbooks), alert rules (AlertRules).  They share the        *)
(* database and a router and no state: no handler of one reads or writes   *)
(* what another one keeps.  A behaviour therefore follows one of them.     *)
(***************************************************************************)
EXTENDS OnCall, ServiceLevels, Runbooks, AlertRules

VARIABLE part      \* the feature the behaviour follows

vars == <<onCallVars, slaVars, runbookVars, alertVars, part>>

Parts == {"rotation", "escalation", "service levels", "runbooks", "alert rules"}

Init == OnCallInit /\ SlaInit /\ RunbookInit /\ AlertInit /\ part \in Parts

OnCallPart ==
    /\ \/ part = "rotation" /\ RotationNext
       \/ part = "escalation" /\ EscalationNext
    /\ UNCHANGED <<slaVars, runbookVars, alertVars>>

SlaPart == part = "service levels" /\ SlaNext /\ UNCHANGED <<onCallVars, runbookVars, alertVars>>
RunbookPart == part = "runbooks" /\ RunbookNext /\ UNCHANGED <<onCallVars, slaVars, alertVars>>
AlertPart == part = "alert rules" /\ AlertNext /\ UNCHANGED <<onCallVars, slaVars, runbookVars>>

Next == (OnCallPart \/ SlaPart \/ RunbookPart \/ AlertPart) /\ UNCHANGED part

\* Only the checks of service levels are promised to run; see ServiceLevels.
Fairness == \A w \in Checkers :
    WF_vars(part = "service levels" /\ CheckerStep(w) /\ UNCHANGED <<onCallVars, runbookVars, alertVars, part>>)

Spec == Init /\ [][Next]_vars /\ Fairness
=============================================================================
