---------------------------- MODULE WebhookIntake ---------------------------
(***************************************************************************)
(* Webhook intake: src/webhooks/router.py in front of the circuit breaker  *)
(* "webhook_incident_creation".                                            *)
(*                                                                         *)
(* A request that passes its validator is normalised to a batch of alerts, *)
(* answered with 202, and handed to a background task of its own (the      *)
(* Celery import fails in this tree, so _try_celery_dispatch always says   *)
(* no).  The task feeds the alerts to the incident handler one after the   *)
(* other, every call through the breaker.  The batches are the breaker's   *)
(* callers.                                                                *)
(***************************************************************************)
EXTENDS CircuitBreaker, FiniteSetsExt

CONSTANT MaxAlerts   \* bound: alerts in one webhook request

ASSUME IntakeAssumption == MaxAlerts \in Nat \ {0} /\ IsFiniteSet(Callers)

VARIABLES
  accepted,  \* per batch, the alerts answered with 202
  pending,   \* per batch, the alerts its task has still to take
  outcome    \* per batch, how the alerts that were taken ended

intakeVars == <<accepted, pending, outcome>>
vars == <<breakerVars, intakeVars>>

Outcomes == {"handled", "errored", "dropped", "cancelled"}

IntakeInit ==
  /\ Init
  /\ accepted = [b \in Callers |-> 0]
  /\ pending = [b \in Callers |-> 0]
  /\ outcome = [b \in Callers |-> [o \in Outcomes |-> 0]]

(* A webhook endpoint: the validator let the request pass (a bad signature *)
(* is answered with 401 and leaves no trace) and the normaliser made n     *)
(* alerts of it.                                                           *)
Receive(b, n) ==
  /\ accepted[b] = 0
  /\ accepted' = [accepted EXCEPT ![b] = n]
  /\ pending' = [pending EXCEPT ![b] = n]
  /\ UNCHANGED <<breakerVars, outcome>>

(* The loop of _process_alerts takes the next alert into the breaker ...   *)
Start(b) ==
  /\ pending[b] > 0
  /\ Admit(b)
  /\ pending' = [pending EXCEPT ![b] = @ - 1]
  /\ UNCHANGED <<accepted, outcome>>

(* ... or is refused by it: CircuitOpenError is logged and the loop goes   *)
(* on, so the alert is gone.                                               *)
Drop(b) ==
  /\ pending[b] > 0
  /\ inFlight[b] = Idle
  /\ Rejects
  /\ pending' = [pending EXCEPT ![b] = @ - 1]
  /\ outcome' = [outcome EXCEPT ![b]["dropped"] = @ + 1]
  /\ UNCHANGED <<breakerVars, accepted>>

(* handle_alert returned.                                                  *)
Handled(b) ==
  /\ Succeed(b)
  /\ outcome' = [outcome EXCEPT ![b]["handled"] = @ + 1]
  /\ UNCHANGED <<accepted, pending>>

(* Slip: the except clause leaves the loop instead of the iteration.       *)
ErroredEndsBatch(b) ==
  /\ Fail(b)
  /\ outcome' = [outcome EXCEPT ![b]["errored"] = @ + 1]
  /\ pending' = [pending EXCEPT ![b] = 0]
  /\ UNCHANGED accepted

(* handle_alert raised: logged, and the loop goes on with the next alert.  *)
Errored(b) ==
  /\ Fail(b)
  /\ outcome' = [outcome EXCEPT ![b]["errored"] = @ + 1]
  /\ UNCHANGED <<accepted, pending>>

(* The task is cancelled (shutdown): CancelledError is no Exception, so    *)
(* neither the breaker nor the loop catches it and the batch ends here.    *)
Cancelled(b) ==
  /\ Abort(b)
  /\ outcome' = [outcome EXCEPT ![b]["cancelled"] = @ + (1 + pending[b])]
  /\ pending' = [pending EXCEPT ![b] = 0]
  /\ UNCHANGED accepted

IntakeNext ==
  \/ \E b \in Callers :
       \/ \E n \in 1 .. MaxAlerts : Receive(b, n)
       \/ Start(b) \/ Drop(b) \/ Handled(b) \/ Errored(b) \/ Cancelled(b)
  \/ Reset /\ UNCHANGED intakeVars
  \/ Tick /\ UNCHANGED intakeVars

IntakeSpec == IntakeInit /\ [][IntakeNext]_vars

(* The clock runs, the loop of a batch goes on, and the handler returns:   *)
(* every call it awaits has an HTTP timeout.                               *)
IntakeFairSpec ==
  /\ IntakeSpec
  /\ WF_vars(Tick /\ UNCHANGED intakeVars)
  /\ \A b \in Callers :
       /\ WF_vars(Start(b) \/ Drop(b))
       /\ WF_vars(Handled(b) \/ Errored(b) \/ Cancelled(b))

-----------------------------------------------------------------------------
(* Every variable stays in its range, the breaker's included.              *)
IntakeTypeOK ==
  /\ TypeOK
  /\ accepted \in [Callers -> 0 .. MaxAlerts]
  /\ pending \in [Callers -> 0 .. MaxAlerts]
  /\ outcome \in [Callers -> [Outcomes -> Nat]]

(* Every alert answered with 202 comes to exactly one outcome, whatever    *)
(* becomes of its neighbours: an alert that fails or is refused does not   *)
(* take the rest of its batch with it (the loop of _process_alerts).       *)
EveryAlertEnds ==
  \A b \in Callers :
    accepted[b] > 0 ~> accepted[b] = MapThenSumSet(LAMBDA o : outcome[b][o], Outcomes)

(* No alert is dropped unless the handler has failed FailureThreshold      *)
(* times, over all batches: an outage needs its failures.                  *)
DropsNeedFailures ==
  (\E b \in Callers : outcome[b]["dropped"] > 0)
    => MapThenSumSet(LAMBDA b : outcome[b]["errored"], Callers) >= FailureThreshold
=============================================================================
