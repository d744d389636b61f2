------------------------------- MODULE OnCall -------------------------------
(***************************************************************************)
(* On-call rotation and escalation (enterprise/oncall.py, the rotation and *)
(* escalation tasks of tasks/enterprise_tasks.py and their endpoints in    *)
(* enterprise/router.py).  A request or a task reads the schedule in a     *)
(* transaction of its own and commits later; several workers and requests  *)
(* may be between the two at a time.                                       *)
(***************************************************************************)
EXTENDS Integers, Sequences, FiniteSets

CONSTANTS
    Workers,       \* Celery workers and request handlers
    Rosters,       \* members of a schedule: sequences of [email, lead]
    Manager,       \* the engineering manager of the policy, or ""
    Period,        \* rotation period of the schedule
    Limit,         \* time_limit: a transaction is killed after that time
    Timeout,       \* AUTO_ESCALATION_MINUTES
    MaxTime,       \* bound on the clock
    MaxManual      \* bound: requests to rotate or escalate

ASSUME RosterAssumption == \A r \in Rosters : r \in Seq([email : STRING, lead : BOOLEAN])
ASSUME PeriodAssumption == /\ Period \in Nat /\ Limit \in Nat /\ Period > 2 * Limit
                           /\ Timeout \in Nat /\ MaxTime \in Nat

VARIABLES
    schedule,      \* the committed row: members, index, updated
    clock,         \* hours
    duty,          \* what each worker is doing
    stale,         \* has the incident not been acknowledged yet?
    escalations,   \* its escalation events, oldest first
    manual,        \* requests so far
    mixed,         \* history: has a rotation by hand met one by a task, between
                   \* the reading and the writing of either?
    turned         \* history: when a task last moved the index

onCallVars == <<schedule, clock, duty, stale, escalations, manual, mixed, turned>>

Free == [at |-> "free", job |-> "none", row |-> [members |-> <<>>, index |-> 0, updated |-> 0],
         time |-> 0, level |-> 0]

----------------------------------------------------------------------------
(* Who is notified                                                         *)

Emails(q) == {q[i].email : i \in DOMAIN q}

\* get_current_oncall, and the member after it.
OnDuty(row) == row.members[(row.index % Len(row.members)) + 1].email
Backup(row) == row.members[((row.index + 1) % Len(row.members)) + 1].email
Leads(row) == {row.members[i].email : i \in {j \in DOMAIN row.members : row.members[j].lead}}

\* Slip: the next in rotation, leads or not.
Slip_FirstLevel(row) == {OnDuty(row), Backup(row)}

\* escalate, level 1: the leads, or else the next in rotation.
FirstLevel(row) ==
    LET leads == Leads(row) \ {OnDuty(row)}
    IN IF leads = {} THEN {OnDuty(row), Backup(row)} ELSE {OnDuty(row)} \cup leads

\* escalate: who is notified on a level.
Notified(row, level) ==
    IF row.members = <<>> THEN {}
    ELSE (IF level >= 0 THEN {OnDuty(row)} ELSE {})
         \cup (IF level >= 1 THEN FirstLevel(row) ELSE {})
         \cup (IF level >= 2 THEN Emails(row.members) ELSE {})
         \cup (IF level >= 3 /\ Manager # "" THEN {Manager} ELSE {})

\* get_escalation_chain: the contacts listed with a level.
Chain(row) ==
    IF row.members = <<>> THEN {}
    ELSE LET own == {<<0, OnDuty(row)>>}
             next == IF Leads(row) # {} THEN {<<1, e>> : e \in Leads(row) \ {OnDuty(row)}}
                     ELSE IF Len(row.members) > 1 THEN {<<1, Backup(row)>>} ELSE {}
             listed == {c[2] : c \in own \cup next}
         IN own \cup next \cup {<<2, e>> : e \in Emails(row.members) \ listed}
                \cup (IF Manager # "" THEN {<<3, Manager>>} ELSE {})

----------------------------------------------------------------------------
(* Schedule                                                                *)

OnCallInit ==
    /\ schedule = [members |-> <<>>, index |-> 0, updated |-> 0]
    /\ clock = 0 /\ duty = [w \in Workers |-> Free]
    /\ stale = TRUE /\ escalations = <<>>
    /\ manual = 0 /\ mixed = FALSE /\ turned = -Period

\* create_schedule; a second schedule of the team is refused by the table.
CreateSchedule ==
    /\ schedule.members = <<>>
    /\ \E r \in Rosters : schedule' = [members |-> r, index |-> 0, updated |-> clock]
    /\ UNCHANGED <<clock, duty, stale, escalations, manual, mixed, turned>>

\* Time passes; no transaction outlives its limit.
Pass ==
    /\ clock < MaxTime /\ clock' = clock + 1
    /\ \A w \in Workers : duty[w].at = "read" => clock - duty[w].time < Limit
    /\ UNCHANGED <<schedule, duty, stale, escalations, manual, mixed, turned>>

\* The incident's status changes for the first time.
Acknowledge ==
    /\ stale /\ stale' = FALSE
    /\ UNCHANGED <<schedule, clock, duty, escalations, manual, mixed, turned>>

\* A worker or a request reads the schedule at the start of its work.
Read(w, job) ==
    /\ duty[w].at = "free"
    /\ duty' = [duty EXCEPT ![w] = [Free EXCEPT !.at = "read", !.job = job, !.row = schedule, !.time = clock]]
    /\ UNCHANGED <<schedule, clock, stale, escalations, turned>>

\* rotate_oncall_schedules_task, as beat or a redelivery starts it.
StartTask(w) ==
    /\ Read(w, "task") /\ UNCHANGED manual
    /\ mixed' = (mixed \/ \E v \in Workers : duty[v].job = "request")

\* rotate_oncall of the router.
StartRequest(w) ==
    /\ manual < MaxManual /\ manual' = manual + 1
    /\ Read(w, "request")
    /\ mixed' = (mixed \/ \E v \in Workers : duty[v].job = "task")

\* auto_rotate_if_needed
Due(row, time) == row.members # <<>> /\ time - row.updated >= Period

Turned(row, time) == [row EXCEPT !.index = (@ + 1) % Len(row.members), !.updated = time]

Done(w) == duty' = [duty EXCEPT ![w] = Free]

\* Slip: adds to the index the row has at the commit.
Slip_CommitTask(w) ==
    /\ duty[w].job = "task" /\ Done(w)
    /\ IF Due(duty[w].row, duty[w].time)
       THEN /\ schedule' = Turned(schedule, duty[w].time)
            /\ turned' = IF schedule'.index = schedule.index THEN turned ELSE duty[w].time
       ELSE UNCHANGED <<schedule, turned>>
    /\ UNCHANGED <<clock, stale, escalations, manual, mixed>>

\* The task writes the index and the time it computed from what it read.
CommitTask(w) ==
    /\ duty[w].job = "task" /\ Done(w)
    /\ IF Due(duty[w].row, duty[w].time)
       THEN /\ schedule' = Turned(duty[w].row, duty[w].time)
            /\ turned' = IF schedule'.index = schedule.index THEN turned ELSE duty[w].time
       ELSE UNCHANGED <<schedule, turned>>
    /\ UNCHANGED <<clock, stale, escalations, manual, mixed>>

\* rotate
CommitRequest(w) ==
    /\ duty[w].job = "request" /\ Done(w)
    /\ schedule' = IF duty[w].row.members = <<>> THEN schedule ELSE Turned(duty[w].row, duty[w].time)
    /\ UNCHANGED <<clock, stale, escalations, manual, mixed, turned>>

\* The transaction fails or its worker is killed: nothing is written.  The
\* task is retried or delivered again, which is another start.
Rollback(w) ==
    /\ duty[w].at = "read" /\ Done(w)
    /\ UNCHANGED <<schedule, clock, stale, escalations, manual, mixed, turned>>

----------------------------------------------------------------------------
(* Escalation                                                              *)

\* An escalation event, with whom the chain lists up to its level and who is
\* notified: nobody by the task, which only writes the event.
Escalated(level, automatic, row) ==
    escalations' = Append(escalations,
        [level |-> level, automatic |-> automatic,
         told |-> IF automatic THEN {} ELSE Notified(row, level),
         listed |-> {c[2] : c \in {d \in Chain(row) : d[1] <= level}}])

\* escalate_incident of the router.
Escalate(level) ==
    /\ manual < MaxManual /\ schedule.members # <<>>
    /\ manual' = manual + 1
    /\ Escalated(level, FALSE, schedule)
    /\ UNCHANGED <<schedule, clock, duty, stale, mixed, turned>>

\* auto_escalate_task selects the incident and its escalation events; more
\* than one event is an error.
StartEscalation(w) ==
    /\ duty[w].at = "free" /\ stale /\ clock >= Timeout
    /\ Len(escalations) <= 1
    /\ LET level == IF escalations = <<>> THEN 0 ELSE escalations[1].level + 1
       IN /\ level <= 3
          /\ duty' = [duty EXCEPT ![w] = [Free EXCEPT !.at = "read", !.job = "escalation", !.level = level,
                                                !.time = clock]]
    /\ UNCHANGED <<schedule, clock, stale, escalations, manual, mixed, turned>>

CommitEscalation(w) ==
    /\ duty[w].job = "escalation" /\ Done(w)
    /\ Escalated(duty[w].level, TRUE, schedule)
    /\ UNCHANGED <<schedule, clock, stale, manual, mixed, turned>>

RotationNext ==
    \/ CreateSchedule \/ Pass
    \/ \E w \in Workers : StartTask(w) \/ StartRequest(w) \/ CommitTask(w) \/ CommitRequest(w) \/ Rollback(w)

\* No time after the timeout matters to an escalation.
EscalationNext ==
    \/ CreateSchedule \/ Acknowledge
    \/ clock < Timeout + Limit /\ Pass
    \/ \E level \in 0 .. 3 : Escalate(level)
    \/ \E w \in Workers : \/ StartEscalation(w) \/ CommitEscalation(w) \/ Rollback(w)
                          \/ StartRequest(w) \/ CommitRequest(w)

----------------------------------------------------------------------------
(* Properties                                                              *)

\* Action property.  However often the rotation task is repeated, retried or
\* run twice at the same time, it moves the duty to the next member, nobody is
\* skipped, and not again before the period has passed, but for the length of
\* one transaction (of two tasks that overlap the earlier one may commit last);
\* as long as no rotation by hand overlaps one by a task.
RotationFair == [][turned' # turned /\ ~mixed /\ ~mixed' =>
    /\ turned' - turned >= Period - Limit
    /\ schedule'.index = (schedule.index + 1) % Len(schedule.members)]_onCallVars

\* Invariant.  An escalation by request reaches everyone the escalation chain
\* listed up to its level, and one made by the task, which reaches nobody, is on
\* the first level, or one above an escalation before it.
EscalationSound == \A i \in DOMAIN escalations : LET e == escalations[i] IN
    /\ ~e.automatic => e.listed \subseteq e.told
    /\ e.automatic /\ e.level > 0 => \E j \in 1 .. i - 1 : escalations[j].level = e.level - 1
=============================================================================
