------------------------------ MODULE Runbooks ------------------------------
(***************************************************************************)
(* Runbook executions (enterprise/runbook_automation.py, the endpoints in  *)
(* enterprise/router.py, execute_runbook_step_task).  An executor belongs  *)
(* to one database session, keeps step definitions, results and pending    *)
(* approvals in memory, and sees of the execution's row what its session   *)
(* loaded first.  Every request has an executor of its own; the driver is  *)
(* the caller that starts an execution and advances it (external, src/     *)
(* has none).                                                              *)
(***************************************************************************)
EXTENDS Integers, Sequences

CONSTANTS
    Scripts,       \* the steps of a runbook: sequences of [type, text]
    Desks,         \* requests that approve, reject or cancel
    MaxDesk        \* bound: such requests

StepTypes == {"command", "api_call", "k8s", "approval", "manual", "other"}

\* Texts of commands as the lists tell them apart, and actions of kubectl.
Texts == {"", "allowed", "blocked", "unlisted"}
Actions == {"rollback", "restart", "scale", "status", "get", "describe", "logs"}

ASSUME ScriptAssumption == Scripts \subseteq Seq([type : StepTypes, text : Texts \cup Actions])
ASSUME DeskAssumption == MaxDesk \in Nat

VARIABLES
    execution,     \* the committed row: status, steps_completed, what the steps show
    driver,        \* the driver's executor: its copy of the row, definitions, results, pending approvals
    desk,          \* each request: its copy of the row, what it is about to do
    process,       \* the command or call the driver awaits
    orphans,       \* commands that timed out and were left running
    ran,           \* history: commands that ended, in order: [step, ok]
    requests

runbookVars == <<execution, driver, desk, process, orphans, ran, requests>>

NoRun == [status |-> "none", done |-> 0, shown |-> <<>>]
NoDesk == [at |-> "free", row |-> NoRun, job |-> "none", step |-> 0]
Human == {"approval", "manual"}
Idle == 0

----------------------------------------------------------------------------
(* Steps                                                                   *)

\* validate_command: no blocked pattern, and an allowed prefix.
Allowed(text) == text = "allowed"

\* _execute_k8s: the action becomes a kubectl command, all of which are listed.
Kubectl(step) == IF step.text \in Actions THEN [type |-> "command", text |-> "allowed"]
                 ELSE [type |-> "command", text |-> ""]

\* Does a step of this kind reach a process or the network?  _execute_command
\* and _execute_api_call refuse without.
Launches(step) ==
    CASE step.type = "command"  -> Allowed(step.text)
      [] step.type = "k8s"      -> Allowed(Kubectl(step).text)
      [] step.type = "api_call" -> step.text # ""
      [] OTHER                  -> FALSE

----------------------------------------------------------------------------
(* The row                                                                 *)

\* _update_step_output changes the nested list in place: the session's own
\* copy shows it, but the column looks unchanged and is not written.
Show(row, n, what) == [row EXCEPT !.shown = IF n \in DOMAIN @ THEN [@ EXCEPT ![n] = what] ELSE @]

OneMore(row) == [row EXCEPT !.done = IF @ + 1 > Len(row.shown) THEN Len(row.shown) ELSE @ + 1]

\* A flush writes the columns that differ from what the session loaded; the
\* output only if its top level changed.
Flushed(old, new) ==
    [execution EXCEPT !.status = IF new.status # old.status THEN new.status ELSE @,
                      !.done = IF new.done # old.done THEN new.done ELSE @]

----------------------------------------------------------------------------
(* The driver                                                              *)

RunbookInit ==
    /\ execution = NoRun /\ desk = [d \in Desks |-> NoDesk] /\ requests = 0
    /\ driver = [row |-> NoRun, steps |-> <<>>, results |-> <<>>, pending |-> {}]
    /\ process = Idle /\ orphans = {} /\ ran = <<>>

\* start_execution
StartExecution(script) ==
    /\ execution.status = "none"
    /\ execution' = [status |-> "RUNNING", done |-> 0, shown |-> [n \in DOMAIN script |-> "pending"]]
    /\ driver' = [row |-> execution', steps |-> script, results |-> [n \in {} |-> TRUE], pending |-> {}]
    /\ UNCHANGED <<desk, process, orphans, ran, requests>>

\* The loop of advance_execution stops at a step that failed or has no result.
Stops(n) == \/ n \notin DOMAIN driver.results
            \/ ~driver.results[n] /\ driver.steps[n].type \notin Human

\* Slip: goes on to the next step that has no result.
Slip_Reached == LET open == {n \in DOMAIN driver.steps : n \notin DOMAIN driver.results}
                IN IF open = {} THEN Len(driver.steps) + 1 ELSE CHOOSE n \in open : \A m \in open : n <= m

Reached == CHOOSE n \in 1 .. Len(driver.steps) + 1 :
    /\ n <= Len(driver.steps) => Stops(n)
    /\ \A m \in 1 .. n - 1 : ~Stops(m)

\* A result takes the place of an earlier one of the step.
Noted(results, n, ok) == [m \in DOMAIN results \cup {n} |-> IF m = n THEN ok ELSE results[m]]

Advancing == driver.row.status = "RUNNING" /\ process = Idle

\* execute_step up to the await of a command or call.
Launch ==
    LET n == Reached
    IN /\ Advancing /\ n \in DOMAIN driver.steps \ DOMAIN driver.results
       /\ Launches(driver.steps[n])
       /\ process' = n
       /\ driver' = [driver EXCEPT !.row = Show(@, n, "running")]
       /\ UNCHANGED <<execution, desk, orphans, ran, requests>>

\* A step that launches nothing: an approval is asked for and counts as a
\* result; anything else is refused.
Ask ==
    LET n == Reached
        human == driver.steps[n].type \in Human
    IN /\ Advancing /\ n \in DOMAIN driver.steps \ DOMAIN driver.results
       /\ ~Launches(driver.steps[n])
       /\ driver' = [driver EXCEPT !.results = Noted(@, n, human),
                                   !.pending = IF human THEN @ \cup {n} ELSE @,
                                   !.row = Show(@, n, IF human THEN "awaiting_approval" ELSE "failed")]
       /\ UNCHANGED <<execution, desk, process, orphans, ran, requests>>

\* The command or call returns, fails, or is given up after its timeout; the
\* process of a command is not killed.
Land(ok, late) ==
    LET n == process
        row == IF ok THEN OneMore(Show(driver.row, n, "completed")) ELSE Show(driver.row, n, "failed")
    IN /\ process # Idle /\ process' = Idle
       /\ driver' = [driver EXCEPT !.results = Noted(@, n, ok), !.row = row]
       /\ execution' = Flushed(driver.row, row)
       /\ ran' = Append(ran, [step |-> n, ok |-> ok])
       /\ orphans' = IF late /\ driver.steps[n].type # "api_call" THEN orphans \cup {n} ELSE orphans
       /\ UNCHANGED <<desk, requests>>

\* advance_execution, when a step failed or all have a result.
Conclude ==
    LET n == Reached
        row == IF n \in DOMAIN driver.steps THEN [driver.row EXCEPT !.status = "FAILED"]
               ELSE [driver.row EXCEPT !.status = "COMPLETED", !.done = Len(driver.steps)]
    IN /\ Advancing /\ n \notin DOMAIN driver.steps \ DOMAIN driver.results
       /\ driver' = [driver EXCEPT !.row = row]
       /\ execution' = Flushed(driver.row, row)
       /\ UNCHANGED <<desk, process, orphans, ran, requests>>

\* An orphan ends.
Expire(n) ==
    /\ n \in orphans /\ orphans' = orphans \ {n}
    /\ UNCHANGED <<execution, driver, desk, process, ran, requests>>

----------------------------------------------------------------------------
(* Approve, reject, cancel                                                 *)

Awaits(row, n) == n \in DOMAIN row.shown /\ row.shown[n] = "awaiting_approval"

\* approve_step in the driver's own executor.
ApproveOwn(n) ==
    LET row == OneMore(Show(driver.row, n, "completed"))
    IN /\ process = Idle /\ requests < MaxDesk /\ requests' = requests + 1
       /\ n \in driver.pending \/ Awaits(driver.row, n)
       /\ driver' = [driver EXCEPT !.results = Noted(@, n, TRUE), !.pending = @ \ {n}, !.row = row]
       /\ execution' = Flushed(driver.row, row)
       /\ UNCHANGED <<desk, process, orphans, ran>>

\* reject_step: whatever the step, and whatever became of the execution.
RejectOwn(n) ==
    LET row == [Show(driver.row, n, "rejected") EXCEPT !.status = "FAILED"]
    IN /\ process = Idle /\ driver.row.status # "none"
       /\ requests < MaxDesk /\ requests' = requests + 1
       /\ driver' = [driver EXCEPT !.results = Noted(@, n, FALSE), !.pending = @ \ {n}, !.row = row]
       /\ execution' = Flushed(driver.row, row)
       /\ UNCHANGED <<desk, process, orphans, ran>>

\* cancel_execution: the whole output is written, the row read back, and
\* what the executor remembered of the execution is dropped.
CancelOwn ==
    /\ process = Idle /\ driver.row.status = "RUNNING"
    /\ requests < MaxDesk /\ requests' = requests + 1
    /\ execution' = [Flushed(driver.row, [driver.row EXCEPT !.status = "CANCELLED"])
                       EXCEPT !.shown = driver.row.shown]
    /\ driver' = [row |-> execution', steps |-> <<>>, results |-> [n \in {} |-> TRUE], pending |-> {}]
    /\ UNCHANGED <<desk, process, orphans, ran>>

\* A request loads the row: approve_execution_step, reject_execution_step,
\* cancel_execution of the router.
OpenDesk(d, job, n) ==
    /\ desk[d].at = "free" /\ execution.status # "none"
    /\ requests < MaxDesk /\ requests' = requests + 1
    /\ desk' = [desk EXCEPT ![d] = [at |-> "read", row |-> execution, job |-> job, step |-> n]]
    /\ UNCHANGED <<execution, driver, process, orphans, ran>>

\* It decides by what it loaded and commits.
CommitDesk(d) ==
    LET old == desk[d].row  n == desk[d].step
    IN /\ desk[d].at = "read"
       /\ execution' =
            CASE desk[d].job = "approve" /\ Awaits(old, n)             -> Flushed(old, OneMore(old))
              [] desk[d].job = "reject"                                -> Flushed(old, [old EXCEPT !.status = "FAILED"])
              [] desk[d].job = "cancel" /\ old.status = "RUNNING"      ->
                    [Flushed(old, [old EXCEPT !.status = "CANCELLED"]) EXCEPT !.shown = old.shown]
              [] OTHER                                                 -> execution
       /\ desk' = [desk EXCEPT ![d] = NoDesk]
       /\ UNCHANGED <<driver, process, orphans, ran, requests>>

\* execute_runbook_step_task has a fresh executor, which knows no step
\* definitions: every call ends with an error and changes nothing.
StepTask == execution.status # "none" /\ UNCHANGED runbookVars

RunbookNext ==
    \/ \E script \in Scripts : StartExecution(script)
    \/ Launch \/ Ask \/ Conclude \/ CancelOwn \/ StepTask
    \/ \E ok \in BOOLEAN : Land(ok, FALSE)
    \/ Land(FALSE, TRUE)
    \/ \E n \in orphans : Expire(n)
    \/ \E n \in DOMAIN driver.row.shown : ApproveOwn(n) \/ RejectOwn(n)
    \/ \E d \in Desks, job \in {"approve", "reject", "cancel"} :
         \E n \in DOMAIN execution.shown : OpenDesk(d, job, n)
    \/ \E d \in Desks : CommitDesk(d)

----------------------------------------------------------------------------
(* Properties                                                              *)

\* Invariant.  Whatever is approved, rejected and cancelled meanwhile, in
\* whichever session, an execution runs its commands in the order of the
\* steps, each once and none at the same time as another one, not even one
\* that timed out; none follows a command that failed, and an execution is
\* COMPLETED only if all its commands succeeded.
StepsInOrder ==
    /\ \A i, j \in DOMAIN ran : i < j => ran[i].step < ran[j].step /\ ran[i].ok
    /\ process # Idle => /\ \A i \in DOMAIN ran : ran[i].ok /\ ran[i].step < process
                         /\ orphans = {}
    /\ execution.status = "COMPLETED" =>
         \A n \in DOMAIN driver.steps : driver.steps[n].type \notin Human =>
            \E i \in DOMAIN ran : ran[i] = [step |-> n, ok |-> TRUE]
=============================================================================
