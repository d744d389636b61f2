--------------------------- MODULE ServiceLevels ----------------------------
(***************************************************************************)
(* SLA policies, the status report of enterprise/sla.py, and the periodic  *)
(* task that records breaches (tasks/enterprise_tasks.py).  Celery runs    *)
(* several workers and delivers a task again when its worker dies, so two  *)
(* runs of the task may overlap.  Each is one transaction: it sees what    *)
(* others have committed and commits its own rows at the end.              *)
(***************************************************************************)
EXTENDS Integers, Sequences, FiniteSets

CONSTANTS
    Incidents,
    Policies,      \* policies for the severity of the incidents
    Limits,        \* minutes of each policy, per kind of breach
    Checkers,      \* Celery workers of the enterprise queue
    MaxMinute,     \* bound on the clock
    MaxAborts      \* bound: transactions that fail

Kinds == <<"response", "acknowledge", "resolution">>
KindSet == {"response", "acknowledge", "resolution"}

ASSUME LimitAssumption == Limits \in [Policies -> [KindSet -> Nat]]
ASSUME MinuteAssumption == MaxMinute \in Nat /\ MaxAborts \in Nat

VARIABLES
    minute,
    incident,      \* the row of each incident
    policies,      \* active policies, newest first
    breaches,      \* committed rows per incident, policy and kind
    notified,      \* those whose rows have been notified
    check,         \* what each worker is doing
    aborts,
    overlapped     \* history: have two runs of the task overlapped?

slaVars == <<minute, incident, policies, breaches, notified, check, aborts, overlapped>>

Never == -1
NoRow == [status |-> "none", created |-> 0, acked |-> Never]
Resting == [at |-> "rest", todo |-> <<>>, seen |-> [i \in Incidents |-> "none"],
            policy |-> "none", mine |-> {}]
Keys == {<<i, p, k>> : i \in Incidents, p \in Policies, k \in KindSet}

Active(i) == incident[i].status \in {"Triggered", "Investigating"}
Elapsed(i) == minute - incident[i].created

----------------------------------------------------------------------------
(* Status report                                                           *)

\* get_policy_for_severity
Current == IF policies = <<>> THEN "none" ELSE policies[1]

\* check_incident_sla: what remains of each limit.
Remaining(i, k) ==
    LET until == IF k = "acknowledge" /\ incident[i].acked # Never
                 THEN incident[i].acked - incident[i].created ELSE Elapsed(i)
    IN Limits[Current][k] - until

Exceeded(i) == {k \in KindSet :
    /\ Remaining(i, k) < 0
    /\ k = "acknowledge" => incident[i].acked = Never}

Rank(k) == CHOOSE n \in 1 .. 3 : Kinds[n] = k

\* The breach the report shows: the one that is overdue for longest, of
\* several the first.
Urgent(i) ==
    IF ~Active(i) \/ Current = "none" \/ Exceeded(i) = {} THEN "none"
    ELSE CHOOSE k \in Exceeded(i) : \A j \in Exceeded(i) :
            Remaining(i, k) < Remaining(i, j) \/ (Remaining(i, k) = Remaining(i, j) /\ Rank(k) <= Rank(j))

\* check_all_active_incidents, check_sla_status: the incidents the report lists.
Overdue == {i \in Incidents : Urgent(i) # "none"}

\* calculate_compliance_rate: the incidents that count as breached.
Breached == {i \in Incidents : \E p \in Policies, k \in KindSet : breaches[<<i, p, k>>] > 0}

----------------------------------------------------------------------------
(* Incidents, policies and time                                            *)

SlaInit ==
    /\ minute = 0 /\ incident = [i \in Incidents |-> NoRow] /\ policies = <<>>
    /\ breaches = [key \in Keys |-> 0] /\ notified = {}
    /\ check = [w \in Checkers |-> Resting] /\ aborts = 0 /\ overlapped = FALSE

MinutePasses ==
    /\ minute < MaxMinute /\ minute' = minute + 1
    /\ UNCHANGED <<incident, policies, breaches, notified, check, aborts, overlapped>>

\* An incident's row is created, acknowledged (its first status change) and
\* resolved.
RowChanges(i) ==
    /\ incident' = [incident EXCEPT ![i] =
         CASE @.status = "none" -> [NoRow EXCEPT !.status = "Triggered", !.created = minute]
           [] @.status = "Triggered" -> [@ EXCEPT !.status = "Investigating", !.acked = minute]
           [] @.status = "Investigating" -> [@ EXCEPT !.status = "Resolved"]
           [] OTHER -> @]
    /\ UNCHANGED <<minute, policies, breaches, notified, check, aborts, overlapped>>

\* create_policy, by a request or by seed_default_policies.
CreatePolicy(p) ==
    /\ p \notin {policies[n] : n \in DOMAIN policies}
    /\ policies' = <<p>> \o policies
    /\ UNCHANGED <<minute, incident, breaches, notified, check, aborts, overlapped>>

----------------------------------------------------------------------------
(* check_sla_breaches_task                                                 *)

\* All checks of a run, incident by incident.
Checks(active) ==
    LET order == CHOOSE q \in [1 .. Cardinality(active) -> active] : \A a, b \in DOMAIN q : a # b => q[a] # q[b]
    IN [n \in 1 .. 3 * Cardinality(active) |-> <<order[(n + 2) \div 3], Kinds[((n - 1) % 3) + 1]>>]

\* A run begins: the active incidents, and a policy of their severity; of
\* several one wins by accident.
StartCheck(w) ==
    /\ check[w].at = "rest" /\ policies # <<>>
    /\ \E p \in {policies[n] : n \in DOMAIN policies} :
         check' = [check EXCEPT ![w] =
            [Resting EXCEPT !.at = "run", !.policy = p, !.todo = Checks({i \in Incidents : Active(i)}),
                            !.seen = [i \in Incidents |-> incident[i].status]]]
    /\ overlapped' = (overlapped \/ \E v \in Checkers : check[v].at = "run")
    /\ UNCHANGED <<minute, incident, policies, breaches, notified, aborts>>

\* Is the check a breach for this run?
Breach(w, i, k) ==
    /\ Elapsed(i) > Limits[check[w].policy][k]
    /\ k = "acknowledge" => check[w].seen[i] = "Triggered"

Abort(w) ==
    /\ check' = [check EXCEPT ![w] = Resting]
    /\ UNCHANGED <<minute, incident, policies, breaches, notified, overlapped>>

\* Slip: the existing row is looked up without its kind.
Slip_CheckNext(w) ==
    LET i == Head(check[w].todo)[1]  k == Head(check[w].todo)[2]
        rest == [check[w] EXCEPT !.todo = Tail(@)]
        known == \E key \in Keys : key[1] = i /\ (breaches[key] > 0 \/ key \in check[w].mine)
    IN /\ check[w].at = "run" /\ check[w].todo # <<>>
       /\ check' = [check EXCEPT ![w] = IF Breach(w, i, k) /\ ~known
                      THEN [rest EXCEPT !.mine = @ \cup {<<i, check[w].policy, k>>}] ELSE rest]
       /\ UNCHANGED <<minute, incident, policies, breaches, notified, aborts, overlapped>>

\* _record_breach_sync: the row is added unless there is one; more than one
\* is an error that ends the run.
CheckNext(w) ==
    LET i == Head(check[w].todo)[1]  k == Head(check[w].todo)[2]
        key == <<i, check[w].policy, k>>
        rest == [check[w] EXCEPT !.todo = Tail(@)]
    IN /\ check[w].at = "run" /\ check[w].todo # <<>>
       /\ IF Breach(w, i, k) /\ breaches[key] > 1 THEN Abort(w) /\ UNCHANGED aborts
          ELSE /\ check' = [check EXCEPT ![w] =
                     IF Breach(w, i, k) /\ breaches[key] = 0 THEN [rest EXCEPT !.mine = @ \cup {key}] ELSE rest]
               /\ UNCHANGED <<minute, incident, policies, breaches, notified, aborts, overlapped>>

\* The end of a run: rows not notified yet are, and all is committed.
CommitCheck(w) ==
    /\ check[w].at = "run" /\ check[w].todo = <<>>
    /\ breaches' = [key \in Keys |-> breaches[key] + IF key \in check[w].mine THEN 1 ELSE 0]
    /\ notified' = notified \cup {key \in Keys : breaches'[key] > 0}
    /\ check' = [check EXCEPT ![w] = Resting]
    /\ UNCHANGED <<minute, incident, policies, aborts, overlapped>>

\* The run fails, meets its time limit, or its worker dies.
AbortCheck(w) ==
    /\ check[w].at = "run" /\ aborts < MaxAborts
    /\ aborts' = aborts + 1 /\ Abort(w)

CheckerStep(w) == StartCheck(w) \/ CheckNext(w) \/ CommitCheck(w)

SlaNext ==
    \/ MinutePasses
    \/ \E i \in Incidents : incident[i].status # "Resolved" /\ RowChanges(i)
    \/ \E p \in Policies : CreatePolicy(p)
    \/ \E w \in Checkers : CheckerStep(w) \/ AbortCheck(w)

\* Beat queues the task every minute and a worker that rests takes it.
SlaFairness == \A w \in Checkers : WF_slaVars(CheckerStep(w))

----------------------------------------------------------------------------
(* Properties                                                              *)

\* Liveness.  A breach the status report shows is recorded, counted by the
\* compliance report and notified, whatever runs fail, unless the incident moves on first; only a row
\* that two overlapping runs recorded twice may prevent it.
OverdueRecorded == \A i \in Incidents, k \in KindSet :
    i \in Overdue /\ Urgent(i) = k ~>
                     \/ i \in Breached /\ \E p \in Policies : <<i, p, k>> \in notified
                     \/ Urgent(i) # k \/ Len(policies) > 1
                     \/ overlapped /\ \E key \in Keys : breaches[key] > 1
=============================================================================
