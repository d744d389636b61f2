--------------------------- MODULE CircuitBreaker ---------------------------
(***************************************************************************)
(* The asyncio circuit breaker of src/security/circuit_breaker.py.         *)
(*                                                                         *)
(* The lock of the class guards two short blocks that never await, so each *)
(* block is one atomic step; the protected call runs between them with the *)
(* lock released, and any number of tasks may be there at once.  The       *)
(* counters and times that only the stats property reports are left out,   *)
(* and so is _opened_at of a circuit that is closed: nothing reads it.     *)
(***************************************************************************)
EXTENDS Naturals, FiniteSets

CONSTANTS
  Callers,           \* tasks that use the breaker, one call at a time each
  FailureThreshold,  \* consecutive failures that open the circuit
  RecoveryTimeout,   \* ticks an open circuit waits before it probes
  MaxCalls           \* bound: calls admitted in a behaviour

ASSUME BreakerAssumption ==
  /\ FailureThreshold \in Nat \ {0}
  /\ RecoveryTimeout \in Nat \ {0}
  /\ MaxCalls \in Nat

VARIABLES
  stored,       \* _state; HALF_OPEN is computed from the clock, never stored
  elapsed,      \* now - _opened_at while open, saturating at RecoveryTimeout
  consecutive,  \* _stats.consecutive_failures
  calls,        \* _stats.total_calls, which the bound counts
  inFlight      \* per caller, the state that admitted its running call

breakerVars == <<stored, elapsed, consecutive, calls, inFlight>>

Idle == "idle"

(* Slip: the clock must pass the timeout, which it never does once the     *)
(* circuit stops looking at it.                                            *)
StateStrict ==
  IF stored = "open" /\ elapsed > RecoveryTimeout THEN "half_open" ELSE stored

(* The state property: OPEN reads as HALF_OPEN once the timeout elapsed.   *)
State ==
  IF stored = "open" /\ elapsed >= RecoveryTimeout THEN "half_open" ELSE stored

Init ==
  /\ stored = "closed"
  /\ elapsed = 0
  /\ consecutive = 0
  /\ calls = 0
  /\ inFlight = [c \in Callers |-> Idle]

(* The test inside the lock of call(): an OPEN circuit raises              *)
(* CircuitOpenError and changes nothing.                                   *)
Rejects == State = "open"

(* call(), up to the await of the protected function.                      *)
Admit(c) ==
  /\ inFlight[c] = Idle
  /\ calls < MaxCalls
  /\ ~Rejects
  /\ inFlight' = [inFlight EXCEPT ![c] = State]
  /\ calls' = calls + 1
  /\ UNCHANGED <<stored, elapsed, consecutive>>

(* The call returns: _record_success closes whatever is not closed.        *)
Succeed(c) ==
  /\ inFlight[c] # Idle
  /\ inFlight' = [inFlight EXCEPT ![c] = Idle]
  /\ stored' = "closed"
  /\ elapsed' = 0
  /\ consecutive' = 0
  /\ UNCHANGED calls

(* Slip: the threshold is compared before the failure is counted.          *)
TripsOneEarly ==
  \/ State = "half_open"
  \/ stored = "closed" /\ consecutive + 2 >= FailureThreshold

(* Slip: every failure of a circuit that is not closed counts as a probe.  *)
TripsWheneverOpen ==
  \/ stored = "open"
  \/ stored = "closed" /\ consecutive + 1 >= FailureThreshold

(* Whether one more failure starts a new outage: a failed probe, or the    *)
(* failure that reaches the threshold of a closed circuit.                 *)
Trips ==
  \/ State = "half_open"
  \/ stored = "closed" /\ consecutive + 1 >= FailureThreshold

(* The call raises an expected exception: _record_failure.                 *)
Fail(c) ==
  /\ inFlight[c] # Idle
  /\ inFlight' = [inFlight EXCEPT ![c] = Idle]
  /\ consecutive' = consecutive + 1
  /\ IF Trips
     THEN stored' = "open" /\ elapsed' = 0
     ELSE UNCHANGED <<stored, elapsed>>
  /\ UNCHANGED calls

(* Any other exception (a cancellation, say) passes through uncounted.     *)
Abort(c) ==
  /\ inFlight[c] # Idle
  /\ inFlight' = [inFlight EXCEPT ![c] = Idle]
  /\ UNCHANGED <<stored, elapsed, consecutive, calls>>

(* Slip: reset() forgets the failure counter.                              *)
ResetKeepsStreak ==
  /\ stored' = "closed"
  /\ elapsed' = 0
  /\ UNCHANGED <<consecutive, calls, inFlight>>

(* reset(), the operator's manual override.                                *)
Reset ==
  /\ stored' = "closed"
  /\ elapsed' = 0
  /\ consecutive' = 0
  /\ UNCHANGED <<calls, inFlight>>

(* The monotonic clock, as far as an open circuit can tell.                *)
Tick ==
  /\ stored = "open"
  /\ elapsed < RecoveryTimeout
  /\ elapsed' = elapsed + 1
  /\ UNCHANGED <<stored, consecutive, calls, inFlight>>

Next ==
  \/ \E c \in Callers : Admit(c) \/ Succeed(c) \/ Fail(c) \/ Abort(c)
  \/ Reset
  \/ Tick

Spec == Init /\ [][Next]_breakerVars

(* Time passes; nothing obliges a caller to call or a call to return.      *)
FairSpec == Spec /\ WF_breakerVars(Tick)

-----------------------------------------------------------------------------
(* Every variable stays in its range.                                      *)
TypeOK ==
  /\ stored \in {"closed", "open"}
  /\ elapsed \in 0 .. RecoveryTimeout
  /\ consecutive \in Nat
  /\ calls \in 0 .. MaxCalls
  /\ inFlight \in [Callers -> {Idle, "closed", "half_open"}]

(* The circuit is open exactly when the failure streak has reached the     *)
(* threshold.  Closing by any path, the success of a call admitted before  *)
(* the outage and reset() included, gives the dependency its whole budget  *)
(* of failures back (_record_success, _record_failure, reset).             *)
StreakMatchesState == (stored = "open") <=> (consecutive >= FailureThreshold)

(* Calls that were admitted before an outage and fail during it do not     *)
(* push the probe further away: until the timeout elapses, _opened_at does *)
(* not move (the else branch of _record_failure).                          *)
StragglersKeepDeadline ==
  [][stored = "open" /\ elapsed < RecoveryTimeout /\ stored' = "open"
       => elapsed' >= elapsed]_breakerVars

(* Every outage ends: a circuit that is open is eventually probing or      *)
(* closed, however the stragglers of the outage finish.                    *)
OutageEnds == (State = "open") ~> (State # "open")

(* What the module's docstring says of HALF_OPEN: a single probe request   *)
(* goes through.                                                           *)
SingleProbe == Cardinality({c \in Callers : inFlight[c] = "half_open"}) <= 1
=============================================================================
