------------------------- MODULE IncidentSyncProofs ------------------------
(***************************************************************************)
(* Theorems about IncidentSync, for any number of permits, requests and    *)
(* pollers, any severities and statuses on the page, and any bounds.       *)
(***************************************************************************)
EXTENDS IncidentSync, TLAPS

(* What a task may rely on while it is suspended.  A step that carries a   *)
(* status carries a real one, although the page may hold any name; a check *)
(* that handles an event has one; a job in the queue has done nothing yet. *)
Suspended ==
  /\ \A s \in Slots : /\ slot[s].pc = "tool" => slot[s].value \in Severities
                      /\ slot[s].pc = "write" => slot[s].value \in Status
  /\ \A r \in Requests : request[r].pc = "write" => request[r].target \in Status
  /\ \A p \in Pollers : /\ poller[p].pc \in {"react", "force"} => poller[p].todo # <<>>
                        /\ poller[p].pc = "force" => poller[p].seen.status \in Status
  /\ \A i \in DOMAIN queue : queue[i].pc \notin {"tool", "write"}

TypeInv == SyncTypeOK /\ Suspended

(* The parts of TypeInv about agents, checks and requests.                 *)
SlotOK == /\ slot \in [Slots -> Jobs]
          /\ \A s \in Slots : /\ slot[s].pc = "tool" => slot[s].value \in Severities
                              /\ slot[s].pc = "write" => slot[s].value \in Status

PollerOK == /\ poller \in [Pollers -> Checks]
            /\ \A p \in Pollers :
                 /\ poller[p].pc \in {"react", "force"} => poller[p].todo # <<>>
                 /\ poller[p].pc = "force" => poller[p].seen.status \in Status

RequestOK == /\ request \in [Requests -> [pc : {"idle", "write"}, target : {"none"} \cup Status,
                                          via : {"none"} \cup Channels]]
             /\ \A r \in Requests : request[r].pc = "write" => request[r].target \in Status

RestOK == /\ status \in Status
          /\ resolvedAt \in BOOLEAN
          /\ severity \in Severities
          /\ page \in Page
          /\ escalate \in [posted : BOOLEAN, known : BOOLEAN]
          /\ watched \in BOOLEAN
          /\ snapshot \in Page
          /\ author \in {"system", "human"}

QueueOK == /\ queue \in Seq(Jobs)
           /\ \A i \in DOMAIN queue : queue[i].pc \notin {"tool", "write"}

LEMMA Parts == TypeInv <=> SlotOK /\ PollerOK /\ RequestOK /\ QueueOK /\ RestOK
BY DEF TypeInv, Suspended, SyncTypeOK, SlotOK, PollerOK, RequestOK, QueueOK, RestOK

LEMMA PartsNext == TypeInv' <=> SlotOK' /\ PollerOK' /\ RequestOK' /\ QueueOK' /\ RestOK'
BY DEF TypeInv, Suspended, SyncTypeOK, SlotOK, PollerOK, RequestOK, QueueOK, RestOK

LEMMA FreshJobs ==
  ASSUME NEW kind \in {"pipeline", "retriage", "postmortem", "remediate"}, NEW p \in Pollers
  PROVE  Job(kind, p) \in Jobs /\ Job(kind, p).pc \notin {"tool", "write"}
BY DEF Job, Jobs, JobSteps, FirstStep

LEMMA FirstPageType == FirstPage \in Page
BY SyncAssumption DEF FirstPage, Page, Status, Active

LEMMA IdleTypes == IdlePoller \in Checks /\ FreeSlot \in Jobs
BY SyncAssumption, FirstPageType DEF IdlePoller, Checks, CheckSteps, FreeSlot, Jobs, JobSteps

LEMMA StepType ==
  ASSUME SlotOK, NEW s \in Slots, NEW pc \in JobSteps, NEW value \in {"none"} \cup Severities \cup Status,
         pc = "tool" => value \in Severities, pc = "write" => value \in Status,
         Step(s, pc, value)
  PROVE  SlotOK'
<1>1. slot[s] \in Jobs
  BY DEF SlotOK
<1>2. [kind |-> slot[s].kind, by |-> slot[s].by, pc |-> pc, value |-> value] \in Jobs
  BY <1>1 DEF Jobs
<1> QED
  BY <1>2 DEF SlotOK, Step

LEMMA ReleaseType == ASSUME SlotOK, NEW s \in Slots, Release(s) PROVE SlotOK'
BY IdleTypes DEF SlotOK, Release, FreeSlot

LEMMA CheckType ==
  ASSUME PollerOK, NEW p \in Pollers, NEW pc \in CheckSteps, NEW todo \in Seq(Events),
         pc \in {"react", "force"} => todo # <<>>,
         pc = "force" => poller[p].seen.status \in Status,
         Check(p, pc, todo)
  PROVE  PollerOK'
<1>1. poller[p] \in Checks
  BY DEF PollerOK
<1>2. [pc |-> pc, seen |-> poller[p].seen, saw |-> poller[p].saw, todo |-> todo] \in Checks
  BY <1>1 DEF Checks
<1> QED
  BY <1>2 DEF PollerOK, Check

LEMMA EndCheckType == ASSUME PollerOK, NEW p \in Pollers, EndCheck(p) PROVE PollerOK'
BY IdleTypes DEF PollerOK, EndCheck, IdlePoller

LEMMA ResumeType ==
  ASSUME PollerOK, NEW p \in Pollers, NEW todo \in Seq(Events), Resume(p, todo)
  PROVE  PollerOK'
BY CheckType, EndCheckType DEF Resume, CheckSteps

LEMMA AppendType ==
  ASSUME QueueOK, NEW kind \in {"pipeline", "retriage", "postmortem", "remediate"},
         NEW p \in Pollers, queue' = Append(queue, Job(kind, p))
  PROVE  QueueOK'
<1>1. Job(kind, p) \in Jobs /\ Job(kind, p).pc \notin {"tool", "write"}
  BY FreshJobs
<1>2. queue' \in Seq(Jobs)
  BY <1>1 DEF QueueOK
<1>3. ASSUME NEW i \in DOMAIN queue'
      PROVE  queue'[i].pc \notin {"tool", "write"}
  <2>1. queue'[i] = IF i \in DOMAIN queue THEN queue[i] ELSE Job(kind, p)
    BY <1>1 DEF QueueOK
  <2> QED
    BY <2>1, <1>1 DEF QueueOK
<1> QED
  BY <1>2, <1>3 DEF QueueOK

LEMMA TailType == ASSUME QueueOK, queue # <<>>, queue' = Tail(queue) PROVE QueueOK'
BY DEF QueueOK

LEMMA WritePageType ==
  ASSUME RestOK, NEW value \in Status, WritePageStatus(value)
  PROVE  page' \in Page /\ author' \in {"system", "human"}
BY DEF RestOK, WritePageStatus, Page

LEMMA MoveType ==
  ASSUME RestOK, NEW target \in Status, NEW via, Move(target, via)
  PROVE  status' \in Status /\ resolvedAt' \in BOOLEAN /\ severity' \in Severities
BY DEF RestOK, Move

(* The steps of requests, alerts and the semaphore.                        *)
LEMMA RequestTypeStep ==
  ASSUME TypeInv, NEW r \in Requests,
         (\E t \in Status, v \in Channels : RequestStart(r, t, v)) \/ RequestEnd(r)
  PROVE  TypeInv'
<1> USE Parts, PartsNext
<1>1. ASSUME NEW t \in Status, NEW v \in Channels, RequestStart(r, t, v)
      PROVE  TypeInv'
  <2>1. RequestOK'
    BY <1>1 DEF RequestStart, RequestOK
  <2>2. RestOK'
    BY <1>1, MoveType DEF RequestStart, RestOK, agents, watcher
  <2>3. SlotOK' /\ PollerOK' /\ QueueOK'
    BY <1>1 DEF RequestStart, agents, watcher, SlotOK, PollerOK, QueueOK
  <2> QED
    BY <2>1, <2>2, <2>3
<1>2. ASSUME RequestEnd(r)
      PROVE  TypeInv'
  <2>1. request[r].target \in Status
    BY <1>2 DEF RequestEnd, RequestOK
  <2>2. RequestOK'
    BY <1>2 DEF RequestEnd, RequestOK, NoRequest
  <2>3. QueueOK'
    BY <1>2, AppendType, SyncAssumption DEF RequestEnd, QueueOK
  <2>4. RestOK'
    BY <1>2, <2>1, WritePageType DEF RequestEnd, RestOK, memory, watcher
  <2>5. SlotOK' /\ PollerOK'
    BY <1>2 DEF RequestEnd, watcher, SlotOK, PollerOK
  <2> QED
    BY <2>2, <2>3, <2>4, <2>5
<1> QED
  BY <1>1, <1>2

LEMMA QueueTypeStep ==
  ASSUME TypeInv, Alert \/ (\E s \in Slots : Grant(s))
  PROVE  TypeInv'
<1> USE Parts, PartsNext
<1>1. CASE Alert
  <2>1. QueueOK'
    BY <1>1, AppendType, SyncAssumption DEF Alert
  <2> QED
    BY <1>1, <2>1 DEF Alert, RestOK, SlotOK, PollerOK, RequestOK, memory, watcher
<1>2. ASSUME NEW s \in Slots, Grant(s)
      PROVE  TypeInv'
  <2>1. QueueOK'
    BY <1>2, TailType DEF Grant
  <2>2. Head(queue) \in Jobs /\ Head(queue).pc \notin {"tool", "write"}
    BY <1>2 DEF Grant, QueueOK
  <2>3. SlotOK'
    BY <1>2, <2>2 DEF Grant, SlotOK
  <2> QED
    BY <1>2, <2>1, <2>3 DEF Grant, RestOK, PollerOK, RequestOK, memory, watcher
<1> QED
  BY <1>1, <1>2

(* The steps of the agents.                                                *)
LEMMA AgentTypeStep ==
  ASSUME TypeInv, NEW s \in Slots, AgentStep(s)
  PROVE  TypeInv'
<1> USE Parts, PartsNext
<1>1. ASSUME NEW v \in Severities, SeverityToolCall(s, v)
      PROVE  TypeInv'
  <2>1. SlotOK'
    BY <1>1, StepType DEF SeverityToolCall, JobSteps
  <2>2. page' \in Page
    BY <1>1 DEF SeverityToolCall, RestOK, Page
  <2> QED
    BY <1>1, <2>1, <2>2 DEF SeverityToolCall, RestOK, PollerOK, RequestOK, QueueOK, memory, watcher
<1>2. CASE SeverityToolReturn(s)
  <2>1. SlotOK'
    BY <1>2, StepType DEF SeverityToolReturn, JobSteps
  <2>2. severity' \in Severities
    BY <1>2 DEF SeverityToolReturn, At, SlotOK, RestOK
  <2> QED
    BY <1>2, <2>1, <2>2 DEF SeverityToolReturn, RestOK, PollerOK, RequestOK, QueueOK, watcher
<1>3. CASE TriageEnds(s)
  <2>1. SlotOK'
    BY <1>3, StepType DEF TriageEnds, JobSteps, Status, Active
  <2>2. status' \in Status /\ resolvedAt' \in BOOLEAN /\ severity' \in Severities
    BY <1>3, MoveType DEF TriageEnds, RestOK, memory, Status, Active
  <2> QED
    BY <1>3, <2>1, <2>2 DEF TriageEnds, RestOK, PollerOK, RequestOK, QueueOK, watcher
<1>4. CASE AnalysisEnds(s)
  <2>1. SlotOK'
    BY <1>4, StepType, ReleaseType DEF AnalysisEnds, JobSteps, Status, Active
  <2>2. status' \in Status /\ resolvedAt' \in BOOLEAN /\ severity' \in Severities
    BY <1>4, MoveType DEF AnalysisEnds, RestOK, memory, Status, Active
  <2> QED
    BY <1>4, <2>1, <2>2 DEF AnalysisEnds, RestOK, PollerOK, RequestOK, QueueOK, watcher
<1>5. CASE PipelineFails(s)
  BY <1>5, ReleaseType
     DEF PipelineFails, RestOK, PollerOK, RequestOK, QueueOK, memory, watcher
<1>6. ASSUME NEW created \in BOOLEAN, DraftEnds(s, created)
      PROVE  TypeInv'
  <2>1. SlotOK'
    BY <1>6, StepType, ReleaseType DEF DraftEnds, JobSteps, Status
  <2>2. status' \in Status
    BY <1>6 DEF DraftEnds, RestOK, Status
  <2> QED
    BY <1>6, <2>1, <2>2 DEF DraftEnds, RestOK, PollerOK, RequestOK, QueueOK, watcher
<1>7. CASE AgentWrite(s)
  <2>1. SlotOK'
    BY <1>7, StepType, ReleaseType DEF AgentWrite, JobSteps
  <2>2. page' \in Page /\ author' \in {"system", "human"}
    BY <1>7, WritePageType DEF AgentWrite, At, SlotOK
  <2> QED
    BY <1>7, <2>1, <2>2 DEF AgentWrite, RestOK, PollerOK, RequestOK, QueueOK, memory, watcher
<1>8. CASE RerunEnds(s)
  <2>1. SlotOK'
    BY <1>8, ReleaseType DEF RerunEnds
  <2>2. slot[s].by \in Pollers
    BY DEF SlotOK, Jobs
  <2>3. poller[slot[s].by].todo \in Seq(Events)
    BY <2>2 DEF PollerOK, Checks
  <2>4. PollerOK'
    BY <1>8, <2>2, <2>3, ResumeType DEF RerunEnds
  <2> QED
    BY <1>8, <2>1, <2>4 DEF RerunEnds, RestOK, RequestOK, QueueOK, memory
<1> QED
  BY <1>1, <1>2, <1>3, <1>4, <1>5, <1>6, <1>7, <1>8 DEF AgentStep

LEMMA EventSequences ==
  <<>> \in Seq(Events) /\ \A e \in Events : <<e>> \in Seq(Events)
OBVIOUS

LEMMA ChangesType ==
  ASSUME NEW old, NEW new
  PROVE  Changes(old, new) \in Seq(Events)
<1> DEFINE a == IF new.severity # old.severity THEN <<"severity">> ELSE <<>>
           b == IF new.status # old.status THEN <<"status">> ELSE <<>>
           c == IF new.rootCause /\ ~old.rootCause THEN <<"rootCause">> ELSE <<>>
<1>1. a \in Seq(Events)
  BY EventSequences, Zenon DEF Events
<1>2. b \in Seq(Events)
  BY EventSequences, Zenon DEF Events
<1>3. c \in Seq(Events)
  BY EventSequences, Zenon DEF Events
<1>4. (a \o b) \o c \in Seq(Events)
  <2> HIDE DEF a, b, c
  <2> QED
    BY <1>1, <1>2, <1>3
<1> QED
  BY <1>4 DEF Changes

(* The steps of the watcher that look for changes.                         *)
LEMMA LookTypeStep ==
  ASSUME TypeInv, NEW p \in Pollers,
         \/ PollStart(p) \/ PollFetch(p) \/ PollDiff(p)
         \/ PollComments(p) \/ PollCommentsFail(p)
         \/ PollBaseline(p) \/ PollEscalations(p)
  PROVE  TypeInv'
<1> USE Parts, PartsNext
<1>1. poller[p] \in Checks /\ poller[p].todo \in Seq(Events)
  BY DEF PollerOK, Checks
<1>2. CASE PollStart(p)
  <2>1. PollerOK'
    BY <1>1, <1>2, CheckType DEF PollStart, Goto, CheckSteps
  <2> QED
    BY <1>2, <2>1 DEF PollStart, RestOK, SlotOK, RequestOK, QueueOK, memory, agents, untouched
<1>3. CASE PollFetch(p)
  <2> DEFINE next == [pc |-> "diff", seen |-> page, saw |-> FALSE, todo |-> <<>>]
  <2>1. next \in Checks /\ next.pc \notin {"react", "force"}
    BY EventSequences DEF RestOK, Checks, CheckSteps
  <2>2. poller' = [poller EXCEPT ![p] = next] \/ EndCheck(p)
    BY <1>3 DEF PollFetch
  <2> HIDE DEF next
  <2>3. PollerOK'
    BY <2>1, <2>2, EndCheckType DEF PollerOK
  <2> QED
    BY <1>3, <2>3 DEF PollFetch, RestOK, SlotOK, RequestOK, QueueOK, memory, agents, untouched
<1>4. CASE PollDiff(p)
  <2>1. PollerOK'
    BY <1>1, <1>4, CheckType, ChangesType DEF PollDiff, Goto, CheckSteps
  <2>2. snapshot' \in Page /\ watched' \in BOOLEAN
    BY <1>1, <1>4 DEF PollDiff, Checks
  <2> QED
    BY <1>4, <2>1, <2>2 DEF PollDiff, RestOK, SlotOK, RequestOK, QueueOK, memory, agents, untouched
<1>5. CASE PollComments(p)
  <2> DEFINE next == [pc |-> IF poller[p].pc = "list" THEN "listed" ELSE "captured",
                      seen |-> poller[p].seen, saw |-> escalate.posted, todo |-> poller[p].todo]
  <2>1. next \in Checks /\ next.pc \notin {"react", "force"}
    BY <1>1 DEF RestOK, Checks, CheckSteps
  <2>2. poller' = [poller EXCEPT ![p] = next]
    BY <1>5 DEF PollComments
  <2> HIDE DEF next
  <2>3. PollerOK'
    BY <2>1, <2>2 DEF PollerOK
  <2> QED
    BY <1>5, <2>3 DEF PollComments, RestOK, SlotOK, RequestOK, QueueOK, memory, agents, untouched
<1>6. CASE PollCommentsFail(p)
  <2>1. PollerOK'
    BY <1>1, <1>6, ResumeType DEF PollCommentsFail
  <2> QED
    BY <1>6, <2>1
       DEF PollCommentsFail, RestOK, SlotOK, RequestOK, QueueOK, memory, agents, untouched
<1>7. CASE PollBaseline(p)
  <2>1. PollerOK'
    BY <1>7, EndCheckType DEF PollBaseline
  <2>2. escalate' \in [posted : BOOLEAN, known : BOOLEAN]
    BY <1>1, <1>7 DEF PollBaseline, RestOK, Checks
  <2> QED
    BY <1>7, <2>1, <2>2
       DEF PollBaseline, RestOK, SlotOK, RequestOK, QueueOK, memory, agents, untouched
<1>8. CASE PollEscalations(p)
  <2> DEFINE new == IF poller[p].saw /\ ~escalate.known THEN <<"escalate">> ELSE <<>>
  <2>1. new \in Seq(Events)
    BY EventSequences, Zenon DEF Events
  <2>2. Resume(p, poller[p].todo \o new)
    BY <1>8 DEF PollEscalations
  <2> HIDE DEF new
  <2>3. poller[p].todo \o new \in Seq(Events)
    BY <1>1, <2>1
  <2>4. PollerOK'
    BY <2>2, <2>3, ResumeType
  <2>5. escalate' \in [posted : BOOLEAN, known : BOOLEAN]
    BY <1>1, <1>8 DEF PollEscalations, RestOK, Checks
  <2> QED
    BY <1>8, <2>4, <2>5
       DEF PollEscalations, RestOK, SlotOK, RequestOK, QueueOK, memory, agents, untouched
<1> QED
  BY <1>2, <1>3, <1>4, <1>5, <1>6, <1>7, <1>8

(* The reactions of the orchestrator to what the watcher found.            *)
LEMMA ReactTypeStep ==
  ASSUME TypeInv, NEW p \in Pollers,
         \/ ReactSeverity(p) \/ ReactStatus(p) \/ ForceStatus(p) \/ ReactRootCause(p)
         \/ ReactEscalate(p) \/ EscalateWrite(p) \/ EscalateRerun(p)
  PROVE  TypeInv'
<1> USE Parts, PartsNext
<1>1. /\ poller[p] \in Checks
      /\ poller[p].todo \in Seq(Events)
      /\ poller[p].seen \in Page
      /\ poller[p].seen.severity \in Severities
  BY DEF PollerOK, Checks, Page
<1>2. ASSUME PollerAt(p, "react") \/ PollerAt(p, "force")
      PROVE  Tail(poller[p].todo) \in Seq(Events)
  <2>1. poller[p].todo # <<>>
    BY <1>2 DEF PollerOK, PollerAt
  <2> QED
    BY <1>1, <2>1
<1>3. CASE ReactSeverity(p)
  <2>1. PollerOK'
    BY <1>2, <1>3, CheckType DEF ReactSeverity, Reacting, CheckSteps
  <2>2. QueueOK'
    BY <1>3, AppendType DEF ReactSeverity
  <2> QED
    BY <1>1, <1>3, <2>1, <2>2 DEF ReactSeverity, RestOK, SlotOK, RequestOK, untouched
<1>4. CASE ReactStatus(p)
  <2>1. poller[p].pc = "react" /\ poller[p].todo # <<>>
    BY <1>4 DEF ReactStatus, Reacting, PollerAt, PollerOK
  <2>2. PollerOK'
    BY <1>1, <1>2, <1>4, <2>1, CheckType, ResumeType
       DEF ReactStatus, Reacting, Goto, NextEvent, CheckSteps
  <2> QED
    BY <1>4, <2>2 DEF ReactStatus, RestOK, SlotOK, RequestOK, QueueOK, memory, agents, untouched
<1>5. CASE ForceStatus(p)
  <2>1. PollerAt(p, "force") /\ poller[p].seen.status \in Status
    BY <1>5 DEF ForceStatus, PollerAt, PollerOK
  <2>2. PollerOK'
    BY <1>2, <1>5, <2>1, ResumeType DEF ForceStatus, NextEvent
  <2>3. QueueOK'
    BY <1>5, AppendType, SyncAssumption DEF ForceStatus, QueueOK
  <2>4. status' \in Status /\ resolvedAt' \in BOOLEAN /\ severity' \in Severities
    BY <1>5, <2>1, MoveType DEF ForceStatus
  <2> QED
    BY <1>5, <2>2, <2>3, <2>4 DEF ForceStatus, RestOK, SlotOK, RequestOK, untouched
<1>6. CASE ReactRootCause(p)
  <2>1. PollerOK'
    BY <1>2, <1>6, ResumeType DEF ReactRootCause, Reacting, NextEvent
  <2>2. QueueOK'
    BY <1>6, AppendType, SyncAssumption DEF ReactRootCause
  <2> QED
    BY <1>6, <2>1, <2>2 DEF ReactRootCause, RestOK, SlotOK, RequestOK, memory, untouched
<1>7. CASE ReactEscalate(p)
  <2>1. PollerOK'
    BY <1>2, <1>7, CheckType DEF ReactEscalate, Reacting, CheckSteps
  <2> QED
    BY <1>7, <2>1, SyncAssumption
       DEF ReactEscalate, RestOK, SlotOK, RequestOK, QueueOK, agents, untouched
<1>8. CASE EscalateWrite(p)
  <2>1. PollerOK'
    BY <1>1, <1>8, CheckType DEF EscalateWrite, Goto, CheckSteps
  <2>2. page' \in Page
    BY <1>8, SyncAssumption DEF EscalateWrite, RestOK, Page
  <2> QED
    BY <1>8, <2>1, <2>2 DEF EscalateWrite, RestOK, SlotOK, RequestOK, QueueOK, memory, agents
<1>9. CASE EscalateRerun(p)
  <2>1. PollerOK'
    BY <1>1, <1>9, CheckType DEF EscalateRerun, Goto, CheckSteps
  <2>2. QueueOK'
    BY <1>9, AppendType DEF EscalateRerun
  <2> QED
    BY <1>9, <2>1, <2>2 DEF EscalateRerun, RestOK, SlotOK, RequestOK, memory, untouched
<1> QED
  BY <1>3, <1>4, <1>5, <1>6, <1>7, <1>8, <1>9

(* The steps of the environment.                                           *)
LEMMA EnvironmentTypeStep ==
  ASSUME TypeInv, Human \/ Restart
  PROVE  TypeInv'
<1> USE Parts, PartsNext
<1>1. CASE Human
  <2>1. /\ page' \in Page
        /\ escalate' \in [posted : BOOLEAN, known : BOOLEAN]
        /\ author' \in {"system", "human"}
    BY <1>1 DEF Human, HumanSetsStatus, HumanSetsSeverity, HumanAddsRootCause, HumanEscalates,
                RestOK, Page
  <2>2. UNCHANGED <<memory, watcher, agents, request, resolution>>
    BY <1>1 DEF Human, HumanSetsStatus, HumanSetsSeverity, HumanAddsRootCause, HumanEscalates,
                HumanEdits
  <2> QED
    BY <2>1, <2>2 DEF memory, watcher, agents, RestOK, SlotOK, PollerOK, RequestOK, QueueOK
<1>2. CASE Restart
  <2>1. SlotOK' /\ PollerOK'
    BY <1>2, IdleTypes DEF Restart, SlotOK, PollerOK, FreeSlot, IdlePoller
  <2>2. RequestOK' /\ QueueOK'
    BY <1>2 DEF Restart, RequestOK, QueueOK, NoRequest
  <2>3. status' \in Status /\ severity' \in Severities
    BY <1>2 DEF Restart, RestOK, Page, Status, Active
  <2>4. escalate' \in [posted : BOOLEAN, known : BOOLEAN]
    BY <1>2 DEF Restart, RestOK
  <2> QED
    BY <1>2, <2>1, <2>2, <2>3, <2>4, FirstPageType DEF Restart, RestOK
<1> QED
  BY <1>1, <1>2

LEMMA StutterType == ASSUME TypeInv, UNCHANGED vars PROVE TypeInv'
BY DEF vars, memory, watcher, agents, TypeInv, SyncTypeOK, Suspended

LEMMA TypeInvStep == TypeInv /\ [Next]_vars => TypeInv'
<1> SUFFICES ASSUME TypeInv, [Next]_vars
             PROVE  TypeInv'
  OBVIOUS
<1> QED
  BY RequestTypeStep, QueueTypeStep, AgentTypeStep, LookTypeStep, ReactTypeStep,
     EnvironmentTypeStep, StutterType
     DEF Next, PollStep

LEMMA TypeInvInit == Init => TypeInv
<1> SUFFICES ASSUME Init
             PROVE  TypeInv
  OBVIOUS
<1> USE DEF Init
<1>1. SlotOK /\ PollerOK
  BY IdleTypes DEF SlotOK, PollerOK, FreeSlot, IdlePoller
<1>2. RequestOK /\ QueueOK
  BY DEF RequestOK, QueueOK, NoRequest
<1>3. RestOK
  BY FirstPageType, SyncAssumption DEF RestOK, Status, Active
<1> QED
  BY <1>1, <1>2, <1>3, Parts

(* Whatever humans write on the page, whatever overtakes whatever, the     *)
(* variables stay in their ranges; in particular the incident never takes  *)
(* a status that is not one of the lifecycle's.                            *)
THEOREM SyncTypeCorrect == Spec => []SyncTypeOK
<1>1. TypeInv => SyncTypeOK
  BY DEF TypeInv
<1> QED
  BY <1>1, TypeInvInit, TypeInvStep, PTL DEF Spec

-----------------------------------------------------------------------------
(* A step keeps RerunOwned if it suspends a check only with a job in the   *)
(* queue, and loses no job of a check that stays suspended.                *)
LEMMA OwnedStep ==
  ASSUME RerunOwned,
         \A p \in Pollers :
           PollerAt(p, "rerun")' =>
             \/ QueuedFor(p)'
             \/ /\ PollerAt(p, "rerun")
                /\ QueuedFor(p) => (QueuedFor(p)' \/ HeldFor(p)')
                /\ HeldFor(p) => HeldFor(p)'
  PROVE  RerunOwned'
BY DEF RerunOwned

LEMMA AppendKeeps ==
  ASSUME QueueOK, NEW kind, NEW q \in Pollers, queue' = Append(queue, Job(kind, q)),
         NEW p \in Pollers, QueuedFor(p)
  PROVE  QueuedFor(p)'
<1>1. PICK i \in DOMAIN queue : Resumes(queue[i], p)
  BY DEF QueuedFor
<1>2. i \in DOMAIN queue' /\ queue'[i] = queue[i]
  BY DEF QueueOK
<1> QED
  BY <1>1, <1>2 DEF QueuedFor, Resumes

LEMMA AppendQueues ==
  ASSUME QueueOK, NEW kind \in {"retriage", "remediate"}, NEW p \in Pollers,
         queue' = Append(queue, Job(kind, p))
  PROVE  QueuedFor(p)'
<1>1. Len(queue) + 1 \in DOMAIN queue' /\ queue'[Len(queue) + 1] = Job(kind, p)
  BY DEF QueueOK
<1> QED
  BY <1>1 DEF QueuedFor, Resumes, Job

LEMMA StepKeeps ==
  ASSUME SlotOK, NEW s \in Slots, NEW pc, NEW value, Step(s, pc, value),
         NEW p \in Pollers, HeldFor(p)
  PROVE  HeldFor(p)'
BY DEF SlotOK, Step, HeldFor, Resumes, Jobs

LEMMA ReleaseKeeps ==
  ASSUME SlotOK, NEW s \in Slots, Release(s), NEW p \in Pollers, ~Resumes(slot[s], p), HeldFor(p)
  PROVE  HeldFor(p)'
BY DEF SlotOK, Release, HeldFor, Resumes

(* The check of another poller is not touched, and that of p is suspended  *)
(* only by Check(p, "rerun", _).                                           *)
LEMMA OthersKeep ==
  ASSUME PollerOK, NEW p \in Pollers,
         \/ \E pc \in CheckSteps \ {"rerun"} : \E todo : Check(p, pc, todo)
         \/ \E todo : Resume(p, todo)
         \/ EndCheck(p)
  PROVE  ~PollerAt(p, "rerun")' /\ \A q \in Pollers \ {p} : poller'[q] = poller[q]
BY DEF PollerOK, Check, Resume, EndCheck, IdlePoller, PollerAt

LEMMA OwnedUntouched ==
  ASSUME RerunOwned, UNCHANGED <<queue, slot>>,
         \A p \in Pollers : PollerAt(p, "rerun")' => PollerAt(p, "rerun")
  PROVE  RerunOwned'
BY OwnedStep DEF QueuedFor, HeldFor

LEMMA RequestOwned ==
  ASSUME TypeInv, RerunOwned, NEW r \in Requests,
         (\E t \in Status, v \in Channels : RequestStart(r, t, v)) \/ RequestEnd(r)
  PROVE  RerunOwned'
<1> USE Parts
<1>1. UNCHANGED <<poller, slot>>
  BY DEF RequestStart, RequestEnd, watcher, agents
<1>2. UNCHANGED queue \/ queue' = Append(queue, Job("postmortem", Loop))
  BY DEF RequestStart, RequestEnd, agents
<1>3. \A p \in Pollers : QueuedFor(p) => QueuedFor(p)'
  BY <1>2, AppendKeeps, SyncAssumption DEF QueuedFor
<1> QED
  BY <1>1, <1>3, OwnedStep DEF PollerAt, HeldFor

LEMMA QueueOwned ==
  ASSUME TypeInv, RerunOwned, Alert \/ (\E s \in Slots : Grant(s))
  PROVE  RerunOwned'
<1> USE Parts
<1>1. CASE Alert
  <2>1. \A p \in Pollers : QueuedFor(p) => QueuedFor(p)'
    BY <1>1, AppendKeeps, SyncAssumption DEF Alert
  <2> QED
    BY <1>1, <2>1, OwnedStep DEF Alert, watcher, PollerAt, HeldFor
<1>2. ASSUME NEW s \in Slots, Grant(s)
      PROVE  RerunOwned'
  <2>1. UNCHANGED poller /\ slot[s] = FreeSlot /\ slot' = [slot EXCEPT ![s] = Head(queue)]
        /\ queue # <<>> /\ queue' = Tail(queue)
    BY <1>2 DEF Grant, watcher
  <2>2. ASSUME NEW p \in Pollers, HeldFor(p)
        PROVE  HeldFor(p)'
    BY <2>1, <2>2 DEF HeldFor, Resumes, FreeSlot, SlotOK
  <2>3. ASSUME NEW p \in Pollers, QueuedFor(p)
        PROVE  QueuedFor(p)' \/ HeldFor(p)'
    <3>1. PICK i \in DOMAIN queue : Resumes(queue[i], p)
      BY <2>3 DEF QueuedFor
    <3>2. CASE i = 1
      <4>1. slot'[s] = queue[1]
        BY <2>1 DEF SlotOK, QueueOK
      <4> QED
        BY <3>1, <3>2, <4>1 DEF HeldFor, Resumes
    <3>3. CASE i # 1
      <4>1. i - 1 \in DOMAIN queue' /\ queue'[i - 1] = queue[i]
        BY <2>1, <3>3 DEF QueueOK
      <4> QED
        BY <3>1, <4>1 DEF QueuedFor, Resumes
    <3> QED
      BY <3>2, <3>3
  <2> QED
    BY <2>1, <2>2, <2>3, OwnedStep DEF PollerAt
<1> QED
  BY <1>1, <1>2

LEMMA AgentOwned ==
  ASSUME TypeInv, RerunOwned, NEW s \in Slots, AgentStep(s)
  PROVE  RerunOwned'
<1> USE Parts
<1>1. CASE RerunEnds(s)
  <2>1. PICK q \in Pollers : q = slot[s].by
    BY DEF SlotOK, Jobs
  <2>2. ~PollerAt(q, "rerun")' /\ \A p \in Pollers \ {q} : poller'[p] = poller[p]
    <3>1. Resume(q, poller[q].todo)
      BY <1>1, <2>1 DEF RerunEnds
    <3> QED
      BY <3>1, OthersKeep
  <2>3. UNCHANGED queue /\ Release(s)
    BY <1>1 DEF RerunEnds
  <2>4. ASSUME NEW p \in Pollers, PollerAt(p, "rerun")'
        PROVE  PollerAt(p, "rerun") /\ (HeldFor(p) => HeldFor(p)')
    <3>1. p # q
      BY <2>2, <2>4
    <3>2. ~Resumes(slot[s], p)
      BY <2>1, <3>1 DEF Resumes
    <3> QED
      BY <2>2, <2>3, <2>4, <3>1, <3>2, ReleaseKeeps DEF PollerAt
  <2> QED
    BY <2>3, <2>4, OwnedStep DEF QueuedFor
<1>2. CASE ~RerunEnds(s)
  <2>1. UNCHANGED <<queue, poller>>
    BY <1>2 DEF AgentStep, SeverityToolCall, SeverityToolReturn, TriageEnds, AnalysisEnds,
                PipelineFails, DraftEnds, AgentWrite, watcher
  <2>2. \/ \E pc, value : Step(s, pc, value)
        \/ Release(s) /\ slot[s].kind \in {"pipeline", "postmortem"}
    BY <1>2 DEF AgentStep, SeverityToolCall, SeverityToolReturn, TriageEnds, AnalysisEnds,
                PipelineFails, DraftEnds, AgentWrite, At
  <2>3. \A p \in Pollers : HeldFor(p) => HeldFor(p)'
    BY <2>2, StepKeeps, ReleaseKeeps DEF Resumes
  <2> QED
    BY <2>1, <2>3, OwnedStep DEF PollerAt, QueuedFor
<1> QED
  BY <1>1, <1>2

LEMMA LookOwned ==
  ASSUME TypeInv, RerunOwned, NEW p \in Pollers,
         \/ PollStart(p) \/ PollFetch(p) \/ PollDiff(p)
         \/ PollComments(p) \/ PollCommentsFail(p)
         \/ PollBaseline(p) \/ PollEscalations(p)
  PROVE  RerunOwned'
<1> USE Parts
<1>1. UNCHANGED <<queue, slot>>
  BY DEF PollStart, PollFetch, PollDiff, PollComments, PollCommentsFail, PollBaseline,
         PollEscalations, agents
<1>2. ~PollerAt(p, "rerun")' /\ \A q \in Pollers \ {p} : poller'[q] = poller[q]
  <2>1. CASE PollFetch(p) \/ PollComments(p)
    BY <2>1 DEF PollFetch, PollComments, EndCheck, IdlePoller, PollerOK, PollerAt
  <2>2. CASE PollStart(p) \/ PollDiff(p) \/ PollCommentsFail(p) \/ PollBaseline(p)
             \/ PollEscalations(p)
    BY <2>2, OthersKeep
       DEF PollStart, PollDiff, PollCommentsFail, PollBaseline, PollEscalations, Goto, CheckSteps
  <2> QED
    BY <2>1, <2>2
<1> QED
  BY <1>1, <1>2, OwnedUntouched DEF PollerAt

LEMMA ReactOwned ==
  ASSUME TypeInv, RerunOwned, NEW p \in Pollers,
         \/ ReactSeverity(p) \/ ReactStatus(p) \/ ForceStatus(p) \/ ReactRootCause(p)
         \/ ReactEscalate(p) \/ EscalateWrite(p) \/ EscalateRerun(p)
  PROVE  RerunOwned'
<1> USE Parts
<1>1. UNCHANGED slot
  BY DEF ReactSeverity, ReactStatus, ForceStatus, ReactRootCause, ReactEscalate, EscalateWrite,
         EscalateRerun, agents
<1>2. \/ UNCHANGED queue
      \/ \E kind : \E q \in Pollers : queue' = Append(queue, Job(kind, q))
  BY SyncAssumption
     DEF ReactSeverity, ReactStatus, ForceStatus, ReactRootCause, ReactEscalate, EscalateWrite,
         EscalateRerun, agents
<1>3. \A q \in Pollers : QueuedFor(q) => QueuedFor(q)'
  BY <1>2, AppendKeeps DEF QueuedFor
<1>4. \A q \in Pollers \ {p} : poller'[q] = poller[q]
  BY DEF ReactSeverity, ReactStatus, ForceStatus, ReactRootCause, ReactEscalate, EscalateWrite,
         EscalateRerun, Goto, NextEvent, Resume, Check, EndCheck, PollerOK
<1>5. PollerAt(p, "rerun")' => QueuedFor(p)'
  <2>1. CASE ReactSeverity(p) \/ EscalateRerun(p)
    BY <2>1, AppendQueues DEF ReactSeverity, EscalateRerun
  <2>2. CASE ReactStatus(p) \/ ForceStatus(p) \/ ReactRootCause(p) \/ ReactEscalate(p)
             \/ EscalateWrite(p)
    BY <2>2, OthersKeep
       DEF ReactStatus, ForceStatus, ReactRootCause, ReactEscalate, EscalateWrite, Goto, NextEvent,
           CheckSteps
  <2> QED
    BY <2>1, <2>2
<1> QED
  BY <1>1, <1>3, <1>4, <1>5, OwnedStep DEF HeldFor, PollerAt

LEMMA EnvironmentOwned ==
  ASSUME TypeInv, RerunOwned, Human \/ Restart \/ UNCHANGED vars
  PROVE  RerunOwned'
<1>1. CASE Restart
  BY <1>1 DEF Restart, RerunOwned, PollerAt, IdlePoller
<1>2. CASE Human \/ UNCHANGED vars
  BY <1>2, OwnedUntouched
     DEF Human, HumanSetsStatus, HumanSetsSeverity, HumanAddsRootCause, HumanEscalates, HumanEdits,
         vars, agents, watcher, PollerAt
<1> QED
  BY <1>1, <1>2

(* A check of the watcher that waits for an agent it asked for is never    *)
(* forgotten: the job that will resume it is queued or holds a permit.     *)
THEOREM RerunsOwned == Spec => []RerunOwned
<1>1. Init => RerunOwned
  BY DEF Init, RerunOwned, PollerAt, IdlePoller
<1>2. TypeInv /\ RerunOwned /\ [Next]_vars => RerunOwned'
  <2> SUFFICES ASSUME TypeInv, RerunOwned, [Next]_vars
               PROVE  RerunOwned'
    OBVIOUS
  <2> QED
    BY RequestOwned, QueueOwned, AgentOwned, LookOwned, ReactOwned, EnvironmentOwned
       DEF Next, PollStep
<1> QED
  BY <1>1, <1>2, TypeInvInit, TypeInvStep, PTL DEF Spec

(* No step of an agent reopens an incident that was resolved meanwhile,    *)
(* whatever the number of pipelines and however they interleave.           *)
THEOREM AgentsKeepResolutions == Spec => NoAgentReopen
<1>1. ASSUME NEW s \in Slots, AgentStep(s), status = "Resolved"
      PROVE  status' # "Investigating"
  BY <1>1
     DEF AgentStep, SeverityToolCall, SeverityToolReturn, TriageEnds, AnalysisEnds, PipelineFails,
         DraftEnds, AgentWrite, RerunEnds, Move, memory, CanMove, ValidTransition, ValidTransitions
<1>2. [Next]_vars => [\A s \in Slots : AgentStep(s) /\ status = "Resolved"
                                         => status' # "Investigating"]_vars
  BY <1>1
<1> QED
  BY <1>2, PTL DEF Spec, NoAgentReopen
=============================================================================
