--------------------------- MODULE PlatformProofs ---------------------------
(***************************************************************************)
(* Theorems about Platform, for every value of its constants, on the       *)
(* invariants of its parts.  A section for each part states its invariant  *)
(* and shows that it holds at first, that every step of the part keeps it, *)
(* and that it implies the part's property; the last one puts them         *)
(* together.                                                               *)
(***************************************************************************)
EXTENDS Platform, FiniteSetTheorems, SequenceTheorems, WellFoundedInduction, TLAPS

\* A set of naturals that is not empty has a least element: what is shown of the first number
\* for which something fails is shown for all.
LEMMA LeastExists ==
  ASSUME NEW T, T \subseteq Nat, T # {}
  PROVE  \E m \in T : \A k \in T : m <= k
<1> DEFINE R == {p \in Nat \X Nat : p[1] < p[2]}
<1>1. IsWellFoundedOn(R, Nat)
  BY NatLessThanWellFounded DEF OpToRel
<1> HIDE DEF R
<1>2. PICK m \in T : \A k \in T : ~ (<<k, m>> \in R)
  BY <1>1, WFMin
<1>3. \A k \in T : k \in Nat /\ m \in Nat /\ ~ (k < m)
  BY <1>2 DEF R
<1> QED  BY <1>3

----------------------------------------------------------------------------
(* The Celery tasks (WebhookTasks)                                         *)

TaskFields == {"state", "tries", "body", "url"}
WorkerFields == {"at", "task", "items", "alerts", "id"}
RowFields == {"id", "title", "fingerprint", "status"}
Committing == {"similar", "number", "insert"}

\* A row, or a rule, accounts for an alert.
Covered(rows, org, a) ==
    \/ Muted(org, a)
    \/ \E i \in DOMAIN rows : rows[i].fingerprint = a.fingerprint \/ Alike(rows[i].title, a.title)

\* A webhook that may be acknowledged.
Settled(rows, p) ==
    LET alerts == Normalized(p)
    IN ~Valid(p) \/ (alerts # <<>> /\ Muted(p.org, alerts[1])) \/ \A k \in DOMAIN alerts : Covered(rows, p.org, alerts[k])

\* These alerts of the webhook are left; the ones before are accounted for.
Left(rows, p, rest) ==
    LET alerts == Normalized(p)
        gone == Len(alerts) - Len(rest)
    IN /\ \E S : rest \in Seq(S)
       /\ gone \in Nat
       /\ \A j \in 1 .. Len(rest) : rest[j] = alerts[gone + j]
       /\ \A k \in 1 .. gone : Covered(rows, p.org, alerts[k])

GoodTask(rows, t) ==
    \/ t = NoTask
    \/ /\ DOMAIN t = TaskFields /\ t.state \in {"queued", "running", "done", "failed"} /\ t.body \in Bodies
       /\ t.state = "done" /\ t.body.kind = "webhook" => Settled(rows, t.body.webhook)

GoodWorker(ts, rows, x) ==
    \/ x = Resting
    \/ /\ DOMAIN x = WorkerFields /\ x.task \in TaskIds /\ ts[x.task] # NoTask
       /\ x.at \in {"webhook", "deliver", "agents", "alert"} \cup Committing
       /\ x.at \in Committing => x.alerts # <<>>
       /\ LET b == ts[x.task].body IN b.kind = "webhook" =>
             /\ x.at \in {"webhook", "alert"} \cup Committing
             /\ x.items \in {<<>>, <<b.webhook>>}
             /\ x.items = <<>> => x.at = "webhook" /\ Settled(rows, b.webhook)
             /\ x.at # "webhook" => Valid(b.webhook) /\ Left(rows, b.webhook, x.alerts)

\* Between the query by fingerprint and the commit.
Races(x, f) == x.at \in Committing /\ Head(x.alerts).fingerprint = f
Open(rows, i, f) == rows[i].status # "Resolved" /\ rows[i].fingerprint = f

\* Two that create an incident for one fingerprint were noticed.
Exclusive(ws, rows, known) ==
    /\ \A w \in Servers : ws[w].at \in Committing =>
          LET f == Head(ws[w].alerts).fingerprint
          IN f \notin known => /\ \A v \in Servers : Races(ws[v], f) => v = w
                              /\ \A i \in DOMAIN rows : ~Open(rows, i, f)
    /\ \A i, j \in DOMAIN rows : rows[i].fingerprint \notin known /\ Open(rows, i, rows[i].fingerprint)
                                  /\ Open(rows, j, rows[i].fingerprint) => i = j

TasksInv ==
    /\ DOMAIN tasks = TaskIds /\ DOMAIN worker = Servers
    /\ \E S : incidents \in Seq(S)
    /\ \A i \in DOMAIN incidents : DOMAIN incidents[i] = RowFields
    /\ \A t \in TaskIds : GoodTask(incidents, tasks[t])
    /\ \A w \in Servers : GoodWorker(tasks, incidents, worker[w])
    /\ Exclusive(worker, incidents, overlapped)

LEMMA TasksInvSound == TasksInv => RedeliverySafe
<1> SUFFICES ASSUME TasksInv PROVE NoTwins /\ Acknowledged
  BY DEF RedeliverySafe
<1>1. NoTwins
  <2> SUFFICES ASSUME NEW f \in {incidents[i].fingerprint : i \in DOMAIN incidents}, f \notin overlapped
               PROVE  ~(Cardinality({i \in Active : incidents[i].fingerprint = f}) > 1)
    BY DEF NoTwins
  <2> DEFINE twins == {i \in Active : incidents[i].fingerprint = f}
  <2>1. \A i, j \in twins : i = j
    BY DEF TasksInv, Exclusive, Open, Active
  <2> HIDE DEF twins
  <2>2. CASE twins = {}
    <3>1. Cardinality(twins) = 0
      BY <2>2, FS_EmptySet
    <3> QED  BY <3>1 DEF twins
  <2>3. CASE twins # {}
    <3>1. PICK i : twins = {i}
      BY <2>1, <2>3
    <3>2. Cardinality(twins) = 1
      BY <3>1, FS_Singleton
    <3> QED  BY <3>2 DEF twins
  <2> QED  BY <2>2, <2>3
<1>2. Acknowledged
  <2> SUFFICES ASSUME NEW t \in TaskIds, tasks[t].state = "done", tasks[t].body.kind = "webhook"
               PROVE  Settled(incidents, tasks[t].body.webhook)
    BY DEF Acknowledged, Settled, Covered
  <2>1. tasks[t] # NoTask
    BY DEF NoTask
  <2> QED  BY <2>1 DEF TasksInv, GoodTask
<1> QED  BY <1>1, <1>2

LEMMA TasksInitInv == TasksInit => TasksInv
<1> SUFFICES ASSUME TasksInit PROVE TasksInv
  OBVIOUS
<1>1. incidents = <<>> /\ <<>> \in Seq({}) /\ DOMAIN incidents = {}
  BY DEF TasksInit
<1>2. \A w \in Servers : worker[w] = Resting /\ worker[w].at = "free"
  BY DEF TasksInit, Resting
<1>3. Exclusive(worker, incidents, overlapped)
  BY <1>1, <1>2 DEF Exclusive, Committing
<1> QED  BY <1>1, <1>2, <1>3 DEF TasksInit, TasksInv, GoodTask, GoodWorker

LEMMA TasksUnchanged == TasksInv /\ UNCHANGED taskVars => TasksInv'
<1> SUFFICES ASSUME TasksInv, UNCHANGED taskVars PROVE TasksInv'
  OBVIOUS
<1>1. UNCHANGED <<tasks, worker, incidents, overlapped>>
  BY DEF taskVars
<1>2. Exclusive(worker', incidents', overlapped')
  BY <1>1 DEF TasksInv
<1>3. \A w \in Servers : GoodWorker(tasks', incidents', worker'[w])
  BY <1>1 DEF TasksInv
<1>4. \A t \in TaskIds : GoodTask(incidents', tasks'[t])
  BY <1>1 DEF TasksInv
<1> QED  BY <1>1, <1>2, <1>3, <1>4 DEF TasksInv

\* No row is lost, and none changes its fingerprint or its title.
Keeping(rows, more) ==
    \A i \in DOMAIN rows : /\ i \in DOMAIN more /\ more[i].fingerprint = rows[i].fingerprint
                           /\ more[i].title = rows[i].title

LEMMA StillCovered ==
  ASSUME NEW rows, NEW more, Keeping(rows, more), NEW org, NEW a, Covered(rows, org, a)
  PROVE  Covered(more, org, a)
BY DEF Keeping, Covered

LEMMA StillSettled ==
  ASSUME NEW rows, NEW more, Keeping(rows, more), NEW p, Settled(rows, p)
  PROVE  Settled(more, p)
BY StillCovered DEF Settled

LEMMA StillLeft ==
  ASSUME NEW rows, NEW more, Keeping(rows, more), NEW p, NEW rest, Left(rows, p, rest)
  PROVE  Left(more, p, rest)
BY StillCovered DEF Left

LEMMA StillGoodTask ==
  ASSUME NEW rows, NEW more, Keeping(rows, more), NEW t, GoodTask(rows, t)
  PROVE  GoodTask(more, t)
BY StillSettled DEF GoodTask

\* Tasks that are sent stay so, with their bodies.
Sending(ts, us) == \A t \in TaskIds : ts[t] # NoTask => us[t] # NoTask /\ us[t].body = ts[t].body

LEMMA StillGoodWorker ==
  ASSUME NEW rows, NEW more, Keeping(rows, more), NEW ts, NEW us, Sending(ts, us), NEW x, GoodWorker(ts, rows, x)
  PROVE  GoodWorker(us, more, x)
<1>1. CASE x = Resting
  BY <1>1 DEF GoodWorker
<1>2. CASE x # Resting
  <2>1. /\ DOMAIN x = WorkerFields /\ x.task \in TaskIds /\ us[x.task] # NoTask /\ us[x.task].body = ts[x.task].body
        /\ x.at \in {"webhook", "deliver", "agents", "alert"} \cup Committing
        /\ x.at \in Committing => x.alerts # <<>>
    BY <1>2 DEF GoodWorker, Sending
  <2> DEFINE b == ts[x.task].body
  <2>2. b.kind = "webhook" =>
             /\ x.at \in {"webhook", "alert"} \cup Committing
             /\ x.items \in {<<>>, <<b.webhook>>}
             /\ x.items = <<>> => x.at = "webhook" /\ Settled(rows, b.webhook)
             /\ x.at # "webhook" => Valid(b.webhook) /\ Left(rows, b.webhook, x.alerts)
    BY <1>2 DEF GoodWorker
  <2>3. us[x.task].body = b
    BY <2>1
  <2> HIDE DEF b
  <2>4. (Settled(rows, b.webhook) => Settled(more, b.webhook)) /\ (Left(rows, b.webhook, x.alerts) => Left(more, b.webhook, x.alerts))
    BY StillSettled, StillLeft
  <2> QED  BY <2>1, <2>2, <2>3, <2>4 DEF GoodWorker
<1> QED  BY <1>1, <1>2
\* The tasks go on: none is taken back, none acknowledged that is not settled.
TasksGo == /\ DOMAIN tasks' = TaskIds /\ Sending(tasks, tasks')
           /\ \A t \in TaskIds : GoodTask(incidents, tasks'[t])

LEMMA SameTasks == ASSUME TasksInv, UNCHANGED tasks PROVE TasksGo
BY DEF TasksInv, TasksGo, Sending

LEMMA TaskGoes ==
  ASSUME TasksInv, NEW t \in TaskIds, NEW y, tasks' = [tasks EXCEPT ![t] = y], GoodTask(incidents, y), y # NoTask,
         tasks[t] # NoTask => y.body = tasks[t].body
  PROVE  TasksGo
BY DEF TasksInv, TasksGo, Sending

\* Work goes on, and no two more create an incident for one fingerprint.
LEMMA WorkMoves ==
  ASSUME TasksInv, NEW w \in Servers, NEW x, worker' = [worker EXCEPT ![w] = x], TasksGo,
         Keeping(incidents, incidents'), \E S : incidents' \in Seq(S),
         \A i \in DOMAIN incidents' : DOMAIN incidents'[i] = RowFields,
         GoodWorker(tasks', incidents', x), Exclusive(worker', incidents', overlapped')
  PROVE  TasksInv'
<1>1. DOMAIN worker = Servers /\ DOMAIN worker' = Servers /\ worker'[w] = x /\ \A v \in Servers : v # w => worker'[v] = worker[v]
  BY DEF TasksInv
<1>2. \A t \in TaskIds : GoodTask(incidents', tasks'[t])
  BY StillGoodTask DEF TasksGo
<1>3. \A v \in Servers : GoodWorker(tasks', incidents', worker[v])
  BY StillGoodWorker DEF TasksInv, TasksGo
<1>4. \A v \in Servers : GoodWorker(tasks', incidents', worker'[v])
  BY <1>1, <1>3
<1> QED  BY <1>1, <1>2, <1>4 DEF TasksInv, TasksGo

LEMMA SameRows ==
  ASSUME TasksInv, UNCHANGED incidents
  PROVE  /\ Keeping(incidents, incidents') /\ \E S : incidents' \in Seq(S)
         /\ \A i \in DOMAIN incidents' : DOMAIN incidents'[i] = RowFields
BY DEF TasksInv, Keeping

\* A worker that is not about to commit, or was with the same alert, or sees none of its
\* fingerprint.
Apart(x, w) ==
    x.at \in Committing =>
        LET f == Head(x.alerts).fingerprint
        IN \/ worker[w].at \in Committing /\ x.alerts = worker[w].alerts
           \/ f \in overlapped'
           \/ /\ \A v \in Servers : v # w => ~Races(worker[v], f)
              /\ \A i \in DOMAIN incidents : ~Open(incidents, i, f)

LEMMA ExclusiveStill ==
  ASSUME TasksInv, NEW w \in Servers, NEW x, worker' = [worker EXCEPT ![w] = x], UNCHANGED incidents,
         overlapped \subseteq overlapped', Apart(x, w)
  PROVE  Exclusive(worker', incidents', overlapped')
<1>1. worker'[w] = x /\ \A v \in Servers : v # w => worker'[v] = worker[v]
  BY DEF TasksInv
<1>2. Exclusive(worker, incidents, overlapped)
  BY DEF TasksInv
<1>3. ASSUME NEW u \in Servers, worker'[u].at \in Committing, Head(worker'[u].alerts).fingerprint \notin overlapped'
      PROVE  /\ \A v \in Servers : Races(worker'[v], Head(worker'[u].alerts).fingerprint) => v = u
             /\ \A i \in DOMAIN incidents : ~Open(incidents, i, Head(worker'[u].alerts).fingerprint)
  <2> DEFINE f == Head(worker'[u].alerts).fingerprint
  <2>1. f \notin overlapped /\ f \notin overlapped'
    BY <1>3
  <2>2. CASE u = w
    <3>1. x.at \in Committing /\ f = Head(x.alerts).fingerprint
      BY <1>1, <1>3, <2>2
    <3>2. \/ worker[w].at \in Committing /\ x.alerts = worker[w].alerts
          \/ /\ \A v \in Servers : v # w => ~Races(worker[v], f)
             /\ \A i \in DOMAIN incidents : ~Open(incidents, i, f)
      BY <2>1, <3>1 DEF Apart
    <3>3. worker[w].at \in Committing /\ x.alerts = worker[w].alerts =>
             /\ \A v \in Servers : Races(worker[v], f) => v = w
             /\ \A i \in DOMAIN incidents : ~Open(incidents, i, f)
      BY <1>2, <2>1, <3>1 DEF Exclusive
    <3> HIDE DEF f
    <3>4. /\ \A v \in Servers : v # w => ~Races(worker'[v], f)
          /\ \A i \in DOMAIN incidents : ~Open(incidents, i, f)
      BY <1>1, <3>2, <3>3
    <3> QED  BY <2>2, <3>4 DEF f
  <2>3. CASE u # w
    <3>1. worker'[u] = worker[u] /\ worker[u].at \in Committing /\ f = Head(worker[u].alerts).fingerprint
      BY <1>1, <1>3, <2>3
    <3>2. /\ \A v \in Servers : Races(worker[v], f) => v = u
          /\ \A i \in DOMAIN incidents : ~Open(incidents, i, f)
      BY <1>2, <2>1, <3>1 DEF Exclusive
    <3>3. Races(worker[u], f)
      BY <3>1 DEF Races
    <3> HIDE DEF f
    <3>4. ~Races(x, f)
      BY <2>1, <2>3, <3>2, <3>3 DEF Apart, Races
    <3>5. \A v \in Servers : Races(worker'[v], f) => v = u
      BY <1>1, <3>2, <3>4
    <3> QED  BY <3>2, <3>5 DEF f
  <2> QED  BY <2>2, <2>3
<1>4. \A i, j \in DOMAIN incidents : incidents[i].fingerprint \notin overlapped' /\ Open(incidents, i, incidents[i].fingerprint)
                                  /\ Open(incidents, j, incidents[i].fingerprint) => i = j
  BY <1>2 DEF Exclusive
<1> QED  BY <1>3, <1>4 DEF Exclusive

\* A step of a worker that leaves the rows.
LEMMA WorkerMoves ==
  ASSUME TasksInv, NEW w \in Servers, NEW x, worker' = [worker EXCEPT ![w] = x], TasksGo, UNCHANGED incidents,
         overlapped \subseteq overlapped', GoodWorker(tasks', incidents, x), Apart(x, w)
  PROVE  TasksInv'
<1>1. GoodWorker(tasks', incidents', x)
  OBVIOUS
<1> QED  BY <1>1, ExclusiveStill, SameRows, WorkMoves

----------------------------------------------------------------------------
(* What becomes of a worker                                                *)

LEMMA RestingIs == Resting.at = "free" /\ Resting.at \notin Committing /\ \A ts, rows : GoodWorker(ts, rows, Resting)
BY DEF Resting, Committing, GoodWorker

LEMMA BusyIs ==
  ASSUME TasksInv, NEW w \in Servers, worker[w] # Resting
  PROVE  LET x == worker[w]
             t == x.task
         IN /\ DOMAIN x = WorkerFields /\ t \in TaskIds /\ tasks[t] # NoTask
            /\ DOMAIN tasks[t] = TaskFields /\ tasks[t].body \in Bodies
            /\ GoodTask(incidents, tasks[t])
BY DEF TasksInv, GoodWorker, GoodTask

LEMMA EndIs ==
  ASSUME TasksInv, NEW w \in Servers, worker[w] # Resting, End(w),
         Task(w).body.kind = "webhook" => Settled(incidents, Task(w).body.webhook)
  PROVE  TasksGo /\ worker' = [worker EXCEPT ![w] = Resting]
<1> DEFINE t == worker[w].task
           y == [tasks[t] EXCEPT !.state = "done"]
<1>1. t \in TaskIds /\ tasks[t] # NoTask /\ DOMAIN tasks[t] = TaskFields /\ tasks[t].body \in Bodies
  BY BusyIs
<1>2. tasks' = [tasks EXCEPT ![t] = y] /\ worker' = [worker EXCEPT ![w] = Resting]
  BY <1>1 DEF End, TasksInv
<1>3. DOMAIN y = TaskFields /\ y.state = "done" /\ y.body = tasks[t].body
  BY <1>1 DEF TaskFields
<1>4. tasks[t].body.kind = "webhook" => Settled(incidents, tasks[t].body.webhook)
  BY DEF Task
<1> HIDE DEF y, t
<1>5. GoodTask(incidents, y) /\ y # NoTask
  BY <1>1, <1>3, <1>4 DEF GoodTask, NoTask
<1> QED  BY <1>1, <1>2, <1>3, <1>5, TaskGoes

LEMMA RetryIs ==
  ASSUME TasksInv, NEW w \in Servers, worker[w] # Resting, NEW url, Retry(w, url)
  PROVE  TasksGo /\ worker' = [worker EXCEPT ![w] = Resting]
<1> DEFINE t == worker[w].task
           y == IF tasks[t].tries < MaxRetries
                THEN [tasks[t] EXCEPT !.state = "queued", !.tries = @ + 1, !.url = url]
                ELSE [tasks[t] EXCEPT !.state = "failed"]
<1>1. t \in TaskIds /\ tasks[t] # NoTask /\ DOMAIN tasks[t] = TaskFields /\ tasks[t].body \in Bodies
  BY BusyIs
<1>2. tasks' = [tasks EXCEPT ![t] = y] /\ worker' = [worker EXCEPT ![w] = Resting]
  BY DEF Retry, Task
<1>3. DOMAIN y = TaskFields /\ y.state \in {"queued", "failed"} /\ y.body = tasks[t].body
  BY <1>1 DEF TaskFields
<1> HIDE DEF y, t
<1>5. GoodTask(incidents, y) /\ y # NoTask
  BY <1>1, <1>3 DEF GoodTask, NoTask
<1> QED  BY <1>1, <1>2, <1>3, <1>5, TaskGoes

LEMMA NextItemIs ==
  ASSUME TasksInv, NEW w \in Servers, worker[w] # Resting, NextItem(w),
         Task(w).body.kind = "webhook" => worker[w].items # <<>> /\ Settled(incidents, Task(w).body.webhook)
  PROVE  TasksGo /\ \E x : worker' = [worker EXCEPT ![w] = x] /\ x.at \notin Committing /\ GoodWorker(tasks', incidents, x)
<1> DEFINE x0 == worker[w]
           x == [x0 EXCEPT !.at = "webhook", !.items = Tail(@), !.alerts = <<>>]
           t == x0.task
<1>1. DOMAIN x0 = WorkerFields /\ t \in TaskIds /\ tasks[t] # NoTask
  BY BusyIs
<1>2. worker' = [worker EXCEPT ![w] = x] /\ tasks' = tasks
  BY DEF NextItem, TasksInv
<1>3. DOMAIN x = WorkerFields /\ x.at = "webhook" /\ x.items = Tail(x0.items) /\ x.task = t
  BY <1>1 DEF WorkerFields
<1>4. GoodWorker(tasks, incidents, x0) /\ x0 # Resting
  BY DEF TasksInv
<1>5. tasks[t].body.kind = "webhook" => x0.items # <<>> /\ Settled(incidents, tasks[t].body.webhook)
  BY DEF Task
<1>6. x0.task = t
  OBVIOUS
<1> HIDE DEF x, x0, t
<1>7. tasks[t].body.kind = "webhook" => x.items = <<>>
  <2> SUFFICES ASSUME tasks[t].body.kind = "webhook" PROVE x.items = <<>>
    OBVIOUS
  <2>1. x0.items = <<tasks[t].body.webhook>>
    BY <1>4, <1>5, <1>6 DEF GoodWorker
  <2> QED  BY <1>3, <2>1
<1>8. GoodWorker(tasks, incidents, x)
  BY <1>1, <1>3, <1>5, <1>7 DEF GoodWorker, Committing
<1>9. x.at \notin Committing
  BY <1>3 DEF Committing
<1> QED  BY <1>2, <1>8, <1>9, SameTasks

LEMMA RaiseIs ==
  ASSUME TasksInv, NEW w \in Servers, worker[w] # Resting, Raise(w)
  PROVE  TasksGo /\ \E x : worker' = [worker EXCEPT ![w] = x] /\ x.at \notin Committing /\ GoodWorker(tasks', incidents, x)
<1>1. CASE Task(w).body.kind = "batch"
  <2>1. NextItem(w) /\ Task(w).body.kind # "webhook"
    BY <1>1 DEF Raise
  <2> QED  BY <2>1, NextItemIs
<1>2. CASE Task(w).body.kind # "batch"
  <2>1. Retry(w, Task(w).url)
    BY <1>2 DEF Raise
  <2>2. TasksGo /\ worker' = [worker EXCEPT ![w] = Resting]
    BY <2>1, RetryIs
  <2> QED  BY <2>2, RestingIs
<1> QED  BY <1>1, <1>2
LEMMA NormalizedIs ==
  ASSUME NEW b \in Bodies, b.kind = "webhook"
  PROVE  LET alerts == Normalized(b.webhook)
         IN Len(alerts) \in Nat /\ DOMAIN alerts = 1 .. Len(alerts) /\ \E S : alerts \in Seq(S)
<1> DEFINE alerts == Normalized(b.webhook)
           n == Len(b.webhook.alerts)
           S == {alerts[i] : i \in 1 .. n}
<1>1. n \in Nat /\ DOMAIN b.webhook.alerts = 1 .. n
  BY AlertsAssumption
<1>2. alerts \in [1 .. n -> S]
  BY <1>1 DEF Normalized
<1> HIDE DEF alerts, S, n
<1>3. alerts \in UNION {[1 .. m -> S] : m \in Nat}
  BY <1>1, <1>2
<1>4. alerts \in Seq(S)
  BY <1>3, SeqDef
<1> QED  BY <1>4, LenProperties DEF alerts

\* The next alert of the webhook at hand, when this one is accounted for.
LEMMA NextAlertIs ==
  ASSUME TasksInv, NEW w \in Servers, worker[w].at \in {"alert"} \cup Committing, worker[w].alerts # <<>>, NextAlert(w),
         NEW rows, Keeping(incidents, rows), Covered(rows, Org(w), Alert(w))
  PROVE  TasksGo /\ \E x : worker' = [worker EXCEPT ![w] = x] /\ x.at \notin Committing /\ GoodWorker(tasks', rows, x)
<1> DEFINE x0 == worker[w]
           x == [x0 EXCEPT !.at = "alert", !.alerts = Tail(@)]
           t == x0.task
           p == tasks[t].body.webhook
<1>1. x0 # Resting
  BY RestingIs DEF Resting, Committing
<1>2. DOMAIN x0 = WorkerFields /\ t \in TaskIds /\ tasks[t] # NoTask
  BY <1>1, BusyIs
<1>3. worker' = [worker EXCEPT ![w] = x] /\ tasks' = tasks
  BY DEF NextAlert, TasksInv
<1>4. DOMAIN x = WorkerFields /\ x.at = "alert" /\ x.items = x0.items /\ x.task = t /\ x.alerts = Tail(x0.alerts)
  BY <1>2 DEF WorkerFields
<1>5. GoodWorker(tasks, incidents, x0) /\ x0.at # "webhook" /\ x0.alerts # <<>> /\ x0.task = t
  BY DEF TasksInv, Committing
<1>6. Covered(rows, Head(x0.items).org, Head(x0.alerts))
  BY DEF Org, Alert
<1>8. tasks[t].body \in Bodies
  BY <1>1, BusyIs
<1> HIDE DEF x, x0, t
<1>7. ASSUME tasks[t].body.kind = "webhook"
      PROVE  x0.items = <<p>> /\ Valid(p) /\ Left(rows, p, x.alerts)
  <2>1. x0.items = <<p>> /\ Valid(p) /\ Left(incidents, p, x0.alerts)
    BY <1>1, <1>5, <1>7 DEF GoodWorker
  <2>2. Left(rows, p, x0.alerts) /\ Head(x0.items) = p
    BY <2>1, StillLeft
  <2> HIDE DEF p
  <2> DEFINE alerts == Normalized(p)
             gone == Len(alerts) - Len(x0.alerts)
  <2>3. PICK S : x0.alerts \in Seq(S)
    BY <2>2 DEF Left
  <2>4. /\ gone \in Nat
        /\ \A j \in 1 .. Len(x0.alerts) : x0.alerts[j] = alerts[gone + j]
        /\ \A k \in 1 .. gone : Covered(rows, p.org, alerts[k])
    BY <2>2 DEF Left
  <2>5. /\ Head(x0.alerts) = x0.alerts[1] /\ x.alerts \in Seq(S) /\ Len(x.alerts) = Len(x0.alerts) - 1
        /\ Len(x0.alerts) \in Nat \ {0}
        /\ \A j \in 1 .. Len(x.alerts) : x.alerts[j] = x0.alerts[j + 1]
    <3>1. x0.alerts \in Seq(S) /\ x0.alerts # <<>>
      BY <1>5, <2>3
    <3>2. Len(x0.alerts) \in Nat \ {0}
      BY <3>1, EmptySeq, LenProperties
    <3> QED  BY <1>4, <3>1, <3>2, HeadTailProperties
  <2>6. Len(alerts) \in Nat
    BY <1>7, <1>8, NormalizedIs DEF p
  <2> HIDE DEF alerts
  <2>7. Len(alerts) - Len(x.alerts) = gone + 1 /\ gone + 1 \in Nat
    BY <2>4, <2>5, <2>6
  <2> HIDE DEF gone
  <2>8. \A j \in 1 .. Len(x.alerts) : x.alerts[j] = alerts[(gone + 1) + j]
    <3> SUFFICES ASSUME NEW j \in 1 .. Len(x.alerts) PROVE x.alerts[j] = alerts[(gone + 1) + j]
      OBVIOUS
    <3>1. j + 1 \in 1 .. Len(x0.alerts) /\ gone + (j + 1) = (gone + 1) + j
      BY <2>4, <2>5
    <3>2. x0.alerts[j + 1] = alerts[gone + (j + 1)]
      BY <2>4, <3>1
    <3> QED  BY <2>5, <3>1, <3>2
  <2>9. \A k \in 1 .. gone + 1 : Covered(rows, p.org, alerts[k])
    <3>1. 1 \in 1 .. Len(x0.alerts)
      BY <2>5
    <3>2. Head(x0.alerts) = alerts[gone + 1]
      BY <2>4, <2>5, <3>1
    <3>3. Covered(rows, p.org, alerts[gone + 1])
      BY <1>6, <2>2, <3>2
    <3>4. \A k \in 1 .. gone + 1 : k \in 1 .. gone \/ k = gone + 1
      BY <2>4
    <3> QED  BY <2>4, <3>3, <3>4
  <2>10. Left(rows, p, x.alerts)
    BY <2>5, <2>7, <2>8, <2>9 DEF Left, alerts
  <2> QED  BY <2>1, <2>10
<1>9. GoodWorker(tasks, rows, x)
  <2>1. x.task \in TaskIds /\ tasks[x.task] # NoTask /\ x.at \in {"webhook", "deliver", "agents", "alert"} /\ x.at \notin Committing
    BY <1>2, <1>4 DEF Committing
  <2>2. tasks[x.task].body.kind = "webhook" =>
             /\ x.at \in {"webhook", "alert"} \cup Committing
             /\ x.items \in {<<>>, <<tasks[x.task].body.webhook>>}
             /\ x.items = <<>> => x.at = "webhook" /\ Settled(rows, tasks[x.task].body.webhook)
             /\ x.at # "webhook" => Valid(tasks[x.task].body.webhook) /\ Left(rows, tasks[x.task].body.webhook, x.alerts)
    <3> SUFFICES ASSUME tasks[x.task].body.kind = "webhook"
                 PROVE  /\ x.items = <<p>> /\ x.items # <<>> /\ Valid(p) /\ Left(rows, p, x.alerts)
                        /\ p = tasks[x.task].body.webhook
      BY <1>4
    <3>1. tasks[t].body.kind = "webhook" /\ tasks[x.task].body.webhook = p
      BY <1>4
    <3>2. x0.items = <<p>> /\ Valid(p) /\ Left(rows, p, x.alerts)
      BY <1>7, <3>1
    <3> HIDE DEF p
    <3>3. <<p>> # <<>>
      OBVIOUS
    <3> QED  BY <1>4, <3>1, <3>2, <3>3
  <2> QED  BY <1>4, <2>1, <2>2 DEF GoodWorker
<1>10. x.at \notin Committing
  BY <1>4 DEF Committing
<1> QED  BY <1>3, <1>9, <1>10, SameTasks

\* On to the next query for the same alert.
LEMMA GotoIs ==
  ASSUME TasksInv, NEW w \in Servers, worker[w].at \in {"alert"} \cup Committing, worker[w].alerts # <<>>,
         NEW at \in Committing, Goto(w, at)
  PROVE  TasksGo /\ \E x : /\ worker' = [worker EXCEPT ![w] = x] /\ x.at = at /\ x.alerts = worker[w].alerts
                           /\ GoodWorker(tasks', incidents, x)
<1> DEFINE x0 == worker[w]
           x == [x0 EXCEPT !.at = at]
           t == x0.task
<1>1. x0 # Resting
  BY RestingIs DEF Resting, Committing
<1>2. DOMAIN x0 = WorkerFields /\ t \in TaskIds /\ tasks[t] # NoTask
  BY <1>1, BusyIs
<1>3. worker' = [worker EXCEPT ![w] = x] /\ tasks' = tasks
  BY DEF Goto, TasksInv
<1>4. /\ DOMAIN x = WorkerFields /\ x.at = at /\ x.items = x0.items /\ x.task = t /\ x.alerts = x0.alerts
      /\ x0.alerts # <<>> /\ x0.task = t /\ x0.at # "webhook"
  BY <1>2 DEF WorkerFields, Committing
<1>5. GoodWorker(tasks, incidents, x0)
  BY DEF TasksInv
<1> HIDE DEF x, t
<1>6. GoodWorker(tasks, incidents, x)
  <2>1. x.at # "webhook"
    BY <1>4 DEF Committing
  <2>2. tasks[t].body.kind = "webhook" =>
             /\ x.items \in {<<>>, <<tasks[t].body.webhook>>} /\ x.items # <<>>
             /\ Valid(tasks[t].body.webhook) /\ Left(incidents, tasks[t].body.webhook, x.alerts)
    BY <1>1, <1>4, <1>5 DEF GoodWorker
  <2> HIDE DEF x0
  <2> QED  BY <1>2, <1>4, <2>1, <2>2 DEF GoodWorker
<1> QED  BY <1>3, <1>4, <1>6, SameTasks
----------------------------------------------------------------------------
(* The actions                                                             *)

LEMMA SubmitKeeps == ASSUME TasksInv, NEW t \in TaskIds, Submit(t) PROVE TasksInv'
<1>1. PICK b \in Bodies : tasks' = [tasks EXCEPT ![t] = [state |-> "queued", tries |-> 0, body |-> b, url |-> TRUE]]
  BY DEF Submit
<1> DEFINE y == [state |-> "queued", tries |-> 0, body |-> b, url |-> TRUE]
<1>2. tasks[t] = NoTask /\ UNCHANGED <<worker, incidents, overlapped>>
  BY DEF Submit
<1>3. DOMAIN y = TaskFields /\ y.state = "queued" /\ y.body = b /\ tasks' = [tasks EXCEPT ![t] = y]
  BY <1>1 DEF TaskFields
<1> HIDE DEF y
<1>4. GoodTask(incidents, y) /\ y # NoTask
  BY <1>3 DEF GoodTask, NoTask
<1>5. TasksGo
  BY <1>2, <1>3, <1>4, TaskGoes
<1>6. Keeping(incidents, incidents)
  BY DEF Keeping
<1>7. \A w \in Servers : GoodWorker(tasks', incidents, worker[w])
  BY <1>5, <1>6, StillGoodWorker DEF TasksInv, TasksGo
<1>8. Exclusive(worker', incidents', overlapped')
  BY <1>2 DEF TasksInv
<1> QED  BY <1>2, <1>5, <1>7, <1>8 DEF TasksInv, TasksGo

LEMMA BeginningIs ==
  ASSUME NEW b \in Bodies
  PROVE  LET s == Beginning(b)
         IN /\ s.at \in {"webhook", "deliver", "agents"}
            /\ b.kind = "webhook" => s.at = "webhook" /\ s.items = <<b.webhook>>
<1>1. CASE b.kind = "webhook"
  <2>1. Beginning(b) = [at |-> "webhook", items |-> <<b.webhook>>]
    BY <1>1 DEF Beginning
  <2> QED  BY <2>1
<1>2. CASE b.kind = "batch"
  <2>1. Beginning(b) = [at |-> "webhook", items |-> b.webhooks]
    BY <1>2 DEF Beginning
  <2> QED  BY <1>2, <2>1
<1>3. CASE b.kind = "deliver"
  <2>1. Beginning(b) = [at |-> "deliver", items |-> <<>>]
    BY <1>3 DEF Beginning
  <2> QED  BY <1>3, <2>1
<1>4. CASE b.kind \notin {"webhook", "batch", "deliver"}
  <2>1. Beginning(b) = [at |-> "agents", items |-> <<>>]
    BY <1>4 DEF Beginning
  <2> QED  BY <1>4, <2>1
<1> QED  BY <1>1, <1>2, <1>3, <1>4

LEMMA TakeKeeps == ASSUME TasksInv, NEW w \in Servers, NEW t \in TaskIds, Take(w, t) PROVE TasksInv'
<1> DEFINE y == [tasks[t] EXCEPT !.state = "running"]
           s == Beginning(tasks[t].body)
           x == [at |-> s.at, task |-> t, items |-> s.items, alerts |-> <<>>, id |-> 0]
<1>1. tasks[t] # NoTask
  BY DEF Take, NoTask
<1>2. DOMAIN tasks[t] = TaskFields /\ tasks[t].body \in Bodies
  BY <1>1 DEF TasksInv, GoodTask
<1>3. /\ worker' = [worker EXCEPT ![w] = x] /\ tasks' = [tasks EXCEPT ![t] = y] /\ worker[w] = Resting
      /\ UNCHANGED <<incidents, overlapped>>
  BY DEF Take
<1>4. DOMAIN y = TaskFields /\ y.state = "running" /\ y.body = tasks[t].body
  BY <1>2 DEF TaskFields
<1>5. DOMAIN x = WorkerFields /\ x.at = s.at /\ x.task = t /\ x.items = s.items
  BY DEF WorkerFields
<1>6. /\ s.at \in {"webhook", "deliver", "agents"}
      /\ tasks[t].body.kind = "webhook" => s.at = "webhook" /\ s.items = <<tasks[t].body.webhook>>
  BY <1>2, BeginningIs
<1>7. tasks'[t] = y
  BY <1>3 DEF TasksInv
<1> HIDE DEF x, y, s
<1>8. GoodTask(incidents, y) /\ y # NoTask
  BY <1>2, <1>4 DEF GoodTask, NoTask
<1>9. TasksGo
  BY <1>1, <1>3, <1>4, <1>8, TaskGoes
<1>10. GoodWorker(tasks', incidents, x) /\ x.at \notin Committing
  <2>1. x.at \in {"webhook", "deliver", "agents"} /\ tasks'[x.task] = y /\ x.at \notin Committing
    BY <1>5, <1>6, <1>7 DEF Committing
  <2>2. ASSUME y.body.kind = "webhook"
        PROVE  x.at = "webhook" /\ x.items = <<y.body.webhook>> /\ x.items # <<>>
    <3>1. x.at = "webhook" /\ x.items = <<y.body.webhook>>
      BY <1>4, <1>5, <1>6, <2>2
    <3>2. \A q : <<q>> # <<>>
      OBVIOUS
    <3> QED  BY <3>1, <3>2
  <2> QED  BY <1>5, <1>8, <2>1, <2>2 DEF GoodWorker
<1> QED  BY <1>3, <1>9, <1>10, WorkerMoves DEF Apart

LEMMA CrashKeeps == ASSUME TasksInv, NEW w \in Servers, Crash(w) PROVE TasksInv'
<1> DEFINE t == worker[w].task
           y == [tasks[t] EXCEPT !.state = "queued"]
<1>1. worker[w] # Resting /\ UNCHANGED <<incidents, overlapped>> /\ worker' = [worker EXCEPT ![w] = Resting]
  BY DEF Crash
<1>2. t \in TaskIds /\ tasks[t] # NoTask /\ DOMAIN tasks[t] = TaskFields /\ tasks[t].body \in Bodies
  BY <1>1, BusyIs
<1>3. tasks' = [tasks EXCEPT ![t] = y]
  BY DEF Crash
<1>4. DOMAIN y = TaskFields /\ y.state = "queued" /\ y.body = tasks[t].body
  BY <1>2 DEF TaskFields
<1> HIDE DEF y, t
<1>5. GoodTask(incidents, y) /\ y # NoTask
  BY <1>2, <1>4 DEF GoodTask, NoTask
<1>6. TasksGo
  BY <1>2, <1>3, <1>4, <1>5, TaskGoes
<1> QED  BY <1>1, <1>6, RestingIs, WorkerMoves DEF Apart

\* A worker that leaves what it did, the rows being the same.
LEMMA LeaveKeeps ==
  ASSUME TasksInv, NEW w \in Servers, TasksGo, UNCHANGED incidents, overlapped \subseteq overlapped',
         \E x : worker' = [worker EXCEPT ![w] = x] /\ x.at \notin Committing /\ GoodWorker(tasks', incidents, x)
  PROVE  TasksInv'
<1>1. PICK x : worker' = [worker EXCEPT ![w] = x] /\ x.at \notin Committing /\ GoodWorker(tasks', incidents, x)
  OBVIOUS
<1>2. Apart(x, w)
  BY <1>1 DEF Apart
<1> QED  BY <1>1, <1>2, WorkerMoves

LEMMA FaultKeeps == ASSUME TasksInv, NEW w \in Servers, Fault(w) PROVE TasksInv'
<1>1. worker[w] # Resting /\ Raise(w) /\ UNCHANGED <<incidents, overlapped>>
  BY RestingIs DEF Fault, Committing, Resting
<1>2. TasksGo /\ \E x : worker' = [worker EXCEPT ![w] = x] /\ x.at \notin Committing /\ GoodWorker(tasks', incidents, x)
  BY <1>1, RaiseIs
<1> QED  BY <1>1, <1>2, LeaveKeeps
LEMMA ItemIs ==
  ASSUME TasksInv, NEW w \in Servers, worker[w] # Resting, Task(w).body.kind = "webhook"
  PROVE  LET p == Task(w).body.webhook
         IN /\ worker[w].items # <<>> => worker[w].items = <<p>> /\ Head(worker[w].items) = p
            /\ worker[w].at # "webhook" => /\ worker[w].items # <<>> /\ Valid(p)
                                           /\ Left(incidents, p, worker[w].alerts)
            /\ worker[w].items = <<>> => Settled(incidents, p)
            /\ worker[w].at \in {"webhook", "alert"} \cup Committing
            /\ Task(w).body \in Bodies
<1> DEFINE p == Task(w).body.webhook
           x == worker[w]
<1>1. /\ x.items \in {<<>>, <<p>>}
      /\ x.items = <<>> => x.at = "webhook" /\ Settled(incidents, p)
      /\ x.at # "webhook" => Valid(p) /\ Left(incidents, p, x.alerts)
      /\ x.at \in {"webhook", "alert"} \cup Committing
  BY DEF TasksInv, GoodWorker, Task
<1>2. Head(<<p>>) = p
  OBVIOUS
<1>3. Task(w).body \in Bodies
  BY BusyIs DEF Task
<1> HIDE DEF x, p
<1>4. /\ x.items # <<>> => x.items = <<p>> /\ Head(x.items) = p
      /\ x.at # "webhook" => x.items # <<>>
  BY <1>1, <1>2
<1> QED  BY <1>1, <1>3, <1>4 DEF x, p

LEMMA OpenWebhookKeeps == ASSUME TasksInv, NEW w \in Servers, OpenWebhook(w) PROVE TasksInv'
<1> DEFINE q == Head(worker[w].items)
           x0 == worker[w]
           x == [x0 EXCEPT !.at = "alert", !.alerts = Normalized(q)]
           b == Task(w).body
<1>1. /\ worker[w] # Resting /\ worker[w].at = "webhook" /\ worker[w].items # <<>> /\ UNCHANGED <<incidents, overlapped>>
      /\ \/ ~Valid(q) /\ NextItem(w)
         \/ Raise(w)
         \/ Valid(q) /\ worker' = [worker EXCEPT ![w].at = "alert", ![w].alerts = Normalized(q)] /\ UNCHANGED tasks
  BY DEF OpenWebhook, Resting
<1>2. b.kind = "webhook" => worker[w].items = <<b.webhook>> /\ q = b.webhook /\ b \in Bodies
  BY <1>1, ItemIs
<1>3. CASE ~Valid(q) /\ NextItem(w)
  <2>1. b.kind = "webhook" => Settled(incidents, b.webhook)
    BY <1>2, <1>3 DEF Settled
  <2>2. TasksGo /\ \E y : worker' = [worker EXCEPT ![w] = y] /\ y.at \notin Committing /\ GoodWorker(tasks', incidents, y)
    BY <1>1, <1>3, <2>1, NextItemIs
  <2> QED  BY <1>1, <2>2, LeaveKeeps
<1>4. CASE Raise(w)
  <2>1. TasksGo /\ \E y : worker' = [worker EXCEPT ![w] = y] /\ y.at \notin Committing /\ GoodWorker(tasks', incidents, y)
    BY <1>1, <1>4, RaiseIs
  <2> QED  BY <1>1, <2>1, LeaveKeeps
<1>5. CASE Valid(q) /\ worker' = [worker EXCEPT ![w].at = "alert", ![w].alerts = Normalized(q)] /\ UNCHANGED tasks
  <2>1. DOMAIN x0 = WorkerFields /\ x0.task \in TaskIds /\ tasks[x0.task] # NoTask
    BY <1>1, BusyIs
  <2>2. /\ DOMAIN x = WorkerFields /\ x.at = "alert" /\ x.items = x0.items /\ x.task = x0.task /\ x.alerts = Normalized(q)
        /\ worker' = [worker EXCEPT ![w] = x]
    BY <1>5, <2>1 DEF WorkerFields, TasksInv
  <2>3. b = tasks[x0.task].body /\ x0.items = worker[w].items /\ x0.items # <<>>
    BY <1>1 DEF Task
  <2> HIDE DEF x, x0, b, q
  <2>4. ASSUME b.kind = "webhook" PROVE Left(incidents, b.webhook, Normalized(b.webhook))
    <3> DEFINE alerts == Normalized(b.webhook)
    <3>1. Len(alerts) \in Nat /\ DOMAIN alerts = 1 .. Len(alerts) /\ \E S : alerts \in Seq(S)
      BY <1>2, <2>4, NormalizedIs
    <3> HIDE DEF alerts
    <3>2. Len(alerts) - Len(alerts) = 0 /\ \A j \in 1 .. Len(alerts) : 0 + j = j
      BY <3>1
    <3>3. 1 .. 0 = {}
      OBVIOUS
    <3> QED  BY <3>1, <3>2, <3>3 DEF Left, alerts
  <2>5. x.at \notin Committing /\ x.at # "webhook"
    BY <2>2 DEF Committing
  <2>6. GoodWorker(tasks, incidents, x)
    <3>1. b.kind = "webhook" => /\ x.items = <<b.webhook>> /\ x.items # <<>> /\ Valid(b.webhook) /\ Left(incidents, b.webhook, x.alerts)
      BY <1>2, <1>5, <2>2, <2>3, <2>4
    <3> QED  BY <2>1, <2>2, <2>3, <2>5, <3>1 DEF GoodWorker
  <2>7. TasksGo /\ GoodWorker(tasks', incidents, x)
    BY <1>5, <2>6, SameTasks
  <2> QED  BY <1>1, <2>2, <2>5, <2>7, LeaveKeeps
<1> QED  BY <1>1, <1>3, <1>4, <1>5

\* A worker acknowledges what is settled.
LEMMA EndKeeps ==
  ASSUME TasksInv, NEW w \in Servers, worker[w] # Resting, End(w), UNCHANGED <<incidents, overlapped>>,
         Task(w).body.kind = "webhook" => Settled(incidents, Task(w).body.webhook)
  PROVE  TasksInv'
<1>1. TasksGo /\ worker' = [worker EXCEPT ![w] = Resting]
  BY EndIs
<1> QED  BY <1>1, RestingIs, LeaveKeeps

LEMMA RetryKeeps ==
  ASSUME TasksInv, NEW w \in Servers, worker[w] # Resting, NEW url, Retry(w, url), UNCHANGED <<incidents, overlapped>>
  PROVE  TasksInv'
<1>1. TasksGo /\ worker' = [worker EXCEPT ![w] = Resting]
  BY RetryIs
<1> QED  BY <1>1, RestingIs, LeaveKeeps

LEMMA CloseTaskKeeps == ASSUME TasksInv, NEW w \in Servers, CloseTask(w) PROVE TasksInv'
<1>1. worker[w] # Resting /\ worker[w].items = <<>> /\ End(w) /\ UNCHANGED <<incidents, overlapped>>
  BY DEF CloseTask, Resting
<1>2. Task(w).body.kind = "webhook" => Settled(incidents, Task(w).body.webhook)
  BY <1>1, ItemIs
<1> QED  BY <1>1, <1>2, EndKeeps

\* The other tasks are none of a webhook.
LEMMA DeliverKeeps == ASSUME TasksInv, NEW w \in Servers, Deliver(w) PROVE TasksInv'
<1>1. worker[w] # Resting /\ worker[w].at = "deliver" /\ (End(w) \/ Retry(w, FALSE)) /\ UNCHANGED <<incidents, overlapped>>
  <2>1. worker[w].at = "deliver" /\ (End(w) \/ Retry(w, FALSE)) /\ UNCHANGED <<incidents, overlapped>>
    BY Zenon DEF Deliver
  <2>2. worker[w] # Resting
    BY <2>1 DEF Resting
  <2> QED  BY <2>1, <2>2
<1>2. Task(w).body.kind # "webhook"
  BY <1>1, ItemIs DEF Committing
<1> QED  BY <1>1, <1>2, EndKeeps, RetryKeeps

LEMMA RunAgentsKeeps == ASSUME TasksInv, NEW w \in Servers, RunAgents(w) PROVE TasksInv'
<1>1. worker[w] # Resting /\ worker[w].at = "agents" /\ (End(w) \/ Retry(w, Task(w).url)) /\ UNCHANGED <<incidents, overlapped>>
  BY DEF RunAgents, BuildOrchestrator, Resting
<1>2. Task(w).body.kind # "webhook"
  BY <1>1, ItemIs DEF Committing
<1> QED  BY <1>1, <1>2, EndKeeps, RetryKeeps

\* A webhook is done with its last alert.
LEMMA CloseWebhookKeeps == ASSUME TasksInv, NEW w \in Servers, CloseWebhook(w) PROVE TasksInv'
<1>1. /\ worker[w] # Resting /\ worker[w].at = "alert" /\ worker[w].alerts = <<>> /\ NextItem(w)
      /\ UNCHANGED <<incidents, overlapped>>
  BY DEF CloseWebhook, Resting
<1>2. ASSUME Task(w).body.kind = "webhook"
      PROVE  worker[w].items # <<>> /\ Settled(incidents, Task(w).body.webhook)
  <2> DEFINE p == Task(w).body.webhook
             alerts == Normalized(p)
  <2>1. worker[w].items # <<>> /\ Left(incidents, p, worker[w].alerts) /\ Task(w).body \in Bodies
    BY <1>1, <1>2, ItemIs
  <2>2. Len(alerts) \in Nat /\ DOMAIN alerts = 1 .. Len(alerts)
    BY <1>2, <2>1, NormalizedIs
  <2>3. Len(worker[w].alerts) = 0
    BY <1>1
  <2> HIDE DEF p
  <2>4. \A k \in 1 .. Len(alerts) - 0 : Covered(incidents, p.org, alerts[k])
    BY <2>1, <2>3 DEF Left
  <2>5. Len(alerts) - 0 = Len(alerts)
    BY <2>2
  <2>6. Settled(incidents, p)
    BY <2>2, <2>4, <2>5 DEF Settled
  <2> QED  BY <2>1, <2>6 DEF p
<1>3. TasksGo /\ \E y : worker' = [worker EXCEPT ![w] = y] /\ y.at \notin Committing /\ GoodWorker(tasks', incidents, y)
  BY <1>1, <1>2, NextItemIs
<1> QED  BY <1>1, <1>3, LeaveKeeps
\* A query that sends a worker on, the rows being the same.
LEMMA GoOnKeeps ==
  ASSUME TasksInv, NEW w \in Servers, worker[w].at \in {"alert"} \cup Committing, worker[w].alerts # <<>>,
         UNCHANGED incidents, overlapped \subseteq overlapped', NEW at \in Committing, Goto(w, at),
         worker[w].at \notin Committing =>
             LET f == Alert(w).fingerprint
             IN f \in overlapped' \/ (~Racing(w) /\ Twins(f) = {})
  PROVE  TasksInv'
<1>1. TasksGo
  BY GotoIs
<1>2. PICK x : /\ worker' = [worker EXCEPT ![w] = x] /\ x.at = at /\ x.alerts = worker[w].alerts
               /\ GoodWorker(tasks', incidents, x)
  BY GotoIs
<1>3. Apart(x, w)
  <2> SUFFICES ASSUME worker[w].at \notin Committing, Alert(w).fingerprint \notin overlapped'
               PROVE  /\ \A v \in Servers : v # w => ~Races(worker[v], Alert(w).fingerprint)
                      /\ \A i \in DOMAIN incidents : ~Open(incidents, i, Alert(w).fingerprint)
    BY <1>2 DEF Apart, Alert
  <2>1. ~Racing(w) /\ Twins(Alert(w).fingerprint) = {}
    OBVIOUS
  <2>2. \A v \in Servers : v # w => ~Races(worker[v], Alert(w).fingerprint)
    BY <2>1 DEF Racing, Races, Alert, Committing
  <2>3. \A i \in DOMAIN incidents : ~Open(incidents, i, Alert(w).fingerprint)
    BY <2>1 DEF Twins, Active, Open
  <2> QED  BY <2>2, <2>3
<1> QED  BY <1>1, <1>2, <1>3, WorkerMoves

\* The alert at hand is accounted for by the rows there are.
LEMMA SkipKeeps ==
  ASSUME TasksInv, NEW w \in Servers, worker[w].at \in {"alert"} \cup Committing, worker[w].alerts # <<>>,
         UNCHANGED <<incidents, overlapped>>, NextAlert(w), Covered(incidents, Org(w), Alert(w))
  PROVE  TasksInv'
<1>1. Keeping(incidents, incidents)
  BY DEF Keeping
<1>2. TasksGo /\ \E x : worker' = [worker EXCEPT ![w] = x] /\ x.at \notin Committing /\ GoodWorker(tasks', incidents, x)
  BY <1>1, NextAlertIs
<1> QED  BY <1>2, LeaveKeeps

LEMMA DeduplicateKeeps == ASSUME TasksInv, NEW w \in Servers, Deduplicate(w) PROVE TasksInv'
<1> DEFINE twins == Twins(Alert(w).fingerprint)
           muted == Muted(Org(w), Alert(w))
<1>1. worker[w] # Resting /\ worker[w].at = "alert" /\ worker[w].alerts # <<>> /\ UNCHANGED incidents
  BY DEF Deduplicate, Resting
<1>2. \/ muted /\ Primary(w) /\ NextItem(w) /\ UNCHANGED overlapped
      \/ muted /\ NextAlert(w) /\ UNCHANGED overlapped
      \/ Cardinality(twins) = 1 /\ NextAlert(w) /\ UNCHANGED overlapped
      \/ Raise(w) /\ UNCHANGED overlapped
      \/ /\ twins = {} /\ Goto(w, "similar")
         /\ overlapped' = IF Racing(w) THEN overlapped \cup {Alert(w).fingerprint} ELSE overlapped
  BY DEF Deduplicate
<1>3. CASE muted /\ Primary(w) /\ NextItem(w) /\ UNCHANGED overlapped
  <2>1. ASSUME Task(w).body.kind = "webhook"
        PROVE  worker[w].items # <<>> /\ Settled(incidents, Task(w).body.webhook)
    <3> DEFINE p == Task(w).body.webhook
               alerts == Normalized(p)
               rest == worker[w].alerts
    <3>1. /\ worker[w].items # <<>> /\ Head(worker[w].items) = p /\ Left(incidents, p, rest)
          /\ Task(w).body \in Bodies
      BY <1>1, <2>1, ItemIs
    <3>2. Len(alerts) \in Nat /\ DOMAIN alerts = 1 .. Len(alerts) /\ \E S : alerts \in Seq(S)
      BY <2>1, <3>1, NormalizedIs
    <3>3. Len(rest) = Len(alerts)
      BY <1>3, <3>1 DEF Primary
    <3>4. rest # <<>> /\ muted /\ Head(rest) = rest[1] /\ Head(worker[w].items).org = p.org
      <4>1. rest # <<>> /\ Head(worker[w].items).org = p.org /\ muted
        BY <1>1, <1>3, <3>1
      <4>2. Head(rest) = rest[1]
        OBVIOUS
      <4> QED  BY <4>1, <4>2
    <3>5. Muted(p.org, Head(rest))
      BY <3>4 DEF Org, Alert
    <3> HIDE DEF p, rest
    <3>6. Len(rest) # 0
      <4>1. PICK S : rest \in Seq(S)
        BY <3>1 DEF Left
      <4> QED  BY <3>4, <4>1, EmptySeq
    <3> HIDE DEF alerts
    <3>7. Len(alerts) - Len(rest) = 0 /\ 1 \in 1 .. Len(rest) /\ 1 \in 1 .. Len(alerts)
      BY <3>2, <3>3, <3>6
    <3>8. rest[1] = alerts[0 + 1]
      BY <3>1, <3>7 DEF Left, alerts
    <3>9. Muted(p.org, alerts[1]) /\ alerts # <<>>
      BY <3>2, <3>4, <3>5, <3>7, <3>8
    <3>10. Settled(incidents, p)
      BY <3>9 DEF Settled, alerts
    <3> QED  BY <3>1, <3>10 DEF p
  <2>2. TasksGo /\ \E y : worker' = [worker EXCEPT ![w] = y] /\ y.at \notin Committing /\ GoodWorker(tasks', incidents, y)
    BY <1>1, <1>3, <2>1, NextItemIs
  <2> QED  BY <1>1, <1>3, <2>2, LeaveKeeps
<1>4. CASE muted /\ NextAlert(w) /\ UNCHANGED overlapped
  <2>1. Covered(incidents, Org(w), Alert(w))
    BY <1>4 DEF Covered
  <2> QED  BY <1>1, <1>4, <2>1, SkipKeeps
<1>5. CASE Cardinality(twins) = 1 /\ NextAlert(w) /\ UNCHANGED overlapped
  <2>1. twins # {}
    BY <1>5, FS_EmptySet
  <2>2. Covered(incidents, Org(w), Alert(w))
    BY <2>1 DEF Covered, Twins, Active
  <2> QED  BY <1>1, <1>5, <2>2, SkipKeeps
<1>6. CASE Raise(w) /\ UNCHANGED overlapped
  <2>1. TasksGo /\ \E y : worker' = [worker EXCEPT ![w] = y] /\ y.at \notin Committing /\ GoodWorker(tasks', incidents, y)
    BY <1>1, <1>6, RaiseIs
  <2> QED  BY <1>1, <1>6, <2>1, LeaveKeeps
<1>7. CASE /\ twins = {} /\ Goto(w, "similar")
           /\ overlapped' = IF Racing(w) THEN overlapped \cup {Alert(w).fingerprint} ELSE overlapped
  <2>1. overlapped \subseteq overlapped' /\ (Racing(w) => Alert(w).fingerprint \in overlapped')
    BY <1>7
  <2>2. "similar" \in Committing
    BY DEF Committing
  <2> QED  BY <1>1, <1>7, <2>1, <2>2, GoOnKeeps
<1> QED  BY <1>2, <1>3, <1>4, <1>5, <1>6, <1>7

LEMMA CommittingIs ==
  ASSUME TasksInv, NEW w \in Servers, worker[w].at \in Committing
  PROVE  worker[w] # Resting /\ worker[w].alerts # <<>>
BY RestingIs DEF TasksInv, GoodWorker

LEMMA FindSimilarKeeps == ASSUME TasksInv, NEW w \in Servers, FindSimilar(w) PROVE TasksInv'
<1>1. worker[w].at = "similar" /\ worker[w].at \in Committing /\ "number" \in Committing /\ UNCHANGED <<incidents, overlapped>>
  BY DEF FindSimilar, Committing
<1>2. worker[w].alerts # <<>>
  BY <1>1, CommittingIs
<1>3. CASE NextAlert(w) /\ \E i \in Active : Alike(incidents[i].title, Alert(w).title)
  <2>1. Covered(incidents, Org(w), Alert(w))
    BY <1>3 DEF Covered, Active
  <2> QED  BY <1>1, <1>2, <1>3, <2>1, SkipKeeps
<1>4. CASE Goto(w, "number")
  BY <1>1, <1>2, <1>4, GoOnKeeps
<1> QED  BY <1>3, <1>4 DEF FindSimilar

LEMMA NumberKeeps == ASSUME TasksInv, NEW w \in Servers, Number(w) PROVE TasksInv'
<1> DEFINE x0 == worker[w]
           next == IF incidents = <<>> THEN 1 ELSE incidents[Len(incidents)].id + 1
           x == [x0 EXCEPT !.at = "insert", !.id = next]
<1>1. x0.at = "number" /\ x0.at \in Committing /\ UNCHANGED <<tasks, incidents, overlapped>>
  BY DEF Number, Committing
<1>2. x0 # Resting /\ x0.alerts # <<>>
  BY <1>1, CommittingIs
<1>3. DOMAIN x0 = WorkerFields /\ GoodWorker(tasks, incidents, x0)
  BY <1>2, BusyIs DEF TasksInv
<1>4. worker' = [worker EXCEPT ![w] = x]
  BY DEF Number
<1>5. /\ DOMAIN x = WorkerFields /\ x.at = "insert" /\ x.items = x0.items /\ x.task = x0.task /\ x.alerts = x0.alerts
  BY <1>3 DEF WorkerFields
<1>6. x0 = worker[w]
  OBVIOUS
<1> HIDE DEF x, x0, next
<1>7. GoodWorker(tasks, incidents, x)
  <2>1. x.at \in Committing /\ x.at # "webhook" /\ x0.at # "webhook"
    BY <1>1, <1>5 DEF Committing
  <2>2. /\ x0.task \in TaskIds /\ tasks[x0.task] # NoTask
        /\ tasks[x0.task].body.kind = "webhook" =>
              /\ x0.items \in {<<>>, <<tasks[x0.task].body.webhook>>} /\ x0.items # <<>>
              /\ Valid(tasks[x0.task].body.webhook) /\ Left(incidents, tasks[x0.task].body.webhook, x0.alerts)
    BY <1>2, <1>3, <2>1 DEF GoodWorker
  <2> QED  BY <1>2, <1>5, <2>1, <2>2 DEF GoodWorker
<1>8. Apart(x, w)
  BY <1>1, <1>5, <1>6 DEF Apart
<1>9. TasksGo /\ GoodWorker(tasks', incidents, x)
  BY <1>1, <1>7, SameTasks
<1> QED  BY <1>1, <1>4, <1>8, <1>9, WorkerMoves

LEMMA UpdateIncidentKeeps == ASSUME TasksInv, NEW i \in DOMAIN incidents, UpdateIncident(i) PROVE TasksInv'
<1>1. i \in Active /\ UNCHANGED <<tasks, worker, overlapped>>
  BY DEF UpdateIncident
<1>2. PICK s : incidents' = [incidents EXCEPT ![i].status = s]
  BY DEF UpdateIncident
<1> DEFINE row == [incidents[i] EXCEPT !.status = s]
<1>3. DOMAIN row = RowFields /\ row.fingerprint = incidents[i].fingerprint /\ row.title = incidents[i].title
  BY DEF TasksInv, RowFields
<1>4. incidents' = [incidents EXCEPT ![i] = row]
  BY <1>2
<1> HIDE DEF row
<1>5. /\ DOMAIN incidents' = DOMAIN incidents /\ incidents'[i] = row
      /\ \A j \in DOMAIN incidents : j # i => incidents'[j] = incidents[j]
  BY <1>4
<1>6. Keeping(incidents, incidents') /\ \A j \in DOMAIN incidents' : DOMAIN incidents'[j] = RowFields
  BY <1>3, <1>5 DEF Keeping, TasksInv
<1>7. \E S : incidents' \in Seq(S)
  <2>1. PICK S : incidents \in Seq(S)
    BY DEF TasksInv
  <2>2. incidents \in Seq(S \cup {row})
    BY <2>1, ElementOfSeq, LenProperties, SeqDef
  <2> QED  BY <1>4, <2>2, ExceptSeq
<1>9. \A j \in DOMAIN incidents : \A f : Open(incidents', j, f) => Open(incidents, j, f)
  BY <1>1, <1>3, <1>5 DEF Open, Active
<1>10. Exclusive(worker, incidents', overlapped)
  <2>1. Exclusive(worker, incidents, overlapped)
    BY DEF TasksInv
  <2> QED  BY <1>5, <1>6, <1>9, <2>1 DEF Exclusive, Keeping
<1>11. \A t \in TaskIds : GoodTask(incidents', tasks[t])
  BY <1>6, StillGoodTask DEF TasksInv
<1>12. Sending(tasks, tasks)
  BY DEF Sending
<1>13. \A w \in Servers : GoodWorker(tasks, incidents', worker[w])
  BY <1>6, <1>12, StillGoodWorker DEF TasksInv
<1> QED  BY <1>1, <1>6, <1>7, <1>10, <1>11, <1>13 DEF TasksInv
\* A row that a worker adds for its alert.
LEMMA InsertKeeps == ASSUME TasksInv, NEW w \in Servers, Insert(w) PROVE TasksInv'
<1> DEFINE row == [id |-> worker[w].id, title |-> Alert(w).title, fingerprint |-> Alert(w).fingerprint, status |-> "Triggered"]
           n == Len(incidents) + 1
<1>1. worker[w].at = "insert" /\ worker[w].at \in Committing /\ UNCHANGED overlapped
  BY DEF Insert, Committing
<1>2. worker[w] # Resting /\ worker[w].alerts # <<>>
  BY <1>1, CommittingIs
<1>3. \/ Raise(w) /\ UNCHANGED incidents
      \/ incidents' = Append(incidents, row) /\ (NextAlert(w) \/ Raise(w))
  BY DEF Insert
<1>4. CASE Raise(w) /\ UNCHANGED incidents
  <2>1. TasksGo /\ \E y : worker' = [worker EXCEPT ![w] = y] /\ y.at \notin Committing /\ GoodWorker(tasks', incidents, y)
    BY <1>2, <1>4, RaiseIs
  <2> QED  BY <1>1, <1>4, <2>1, LeaveKeeps
<1>5. CASE incidents' = Append(incidents, row) /\ (NextAlert(w) \/ Raise(w))
  <2>1. DOMAIN row = RowFields /\ row.fingerprint = Alert(w).fingerprint
    BY DEF RowFields
  <2>2. incidents' = Append(incidents, row)
    BY <1>5
  <2> HIDE DEF row
  <2>3. PICK S : incidents \in Seq(S)
    BY DEF TasksInv
  <2>4. incidents \in Seq(S \cup {row}) /\ Len(incidents) \in Nat /\ DOMAIN incidents = 1 .. Len(incidents)
    BY <2>3, ElementOfSeq, LenProperties, SeqDef
  <2>5. /\ incidents' \in Seq(S \cup {row}) /\ Len(incidents') = n /\ incidents'[n] = row
        /\ \A i \in 1 .. Len(incidents) : incidents'[i] = incidents[i]
    BY <2>2, <2>4, AppendProperties
  <2>6. DOMAIN incidents' = 1 .. n
    BY <2>5, LenProperties
  <2>7. \A i \in DOMAIN incidents' : i = n \/ (i \in DOMAIN incidents /\ incidents'[i] = incidents[i])
    BY <2>4, <2>5, <2>6
  <2>8. n \in DOMAIN incidents' /\ DOMAIN incidents \subseteq DOMAIN incidents'
    BY <2>4, <2>6
  <2> HIDE DEF n
  <2>9. Keeping(incidents, incidents')
    BY <2>4, <2>5, <2>8 DEF Keeping
  <2>10. \A i \in DOMAIN incidents' : DOMAIN incidents'[i] = RowFields
    BY <2>1, <2>5, <2>7 DEF TasksInv
  <2>11. Covered(incidents', Org(w), Alert(w))
    BY <2>1, <2>5, <2>8 DEF Covered
  <2>12. TasksGo /\ \E x : worker' = [worker EXCEPT ![w] = x] /\ x.at \notin Committing /\ GoodWorker(tasks', incidents', x)
    <3>1. CASE NextAlert(w)
      BY <1>1, <1>2, <2>9, <2>11, <3>1, NextAlertIs
    <3>2. CASE Raise(w)
      <4>1. TasksGo
        BY <1>2, <3>2, RaiseIs
      <4>2. PICK x : worker' = [worker EXCEPT ![w] = x] /\ x.at \notin Committing /\ GoodWorker(tasks', incidents, x)
        BY <1>2, <3>2, RaiseIs
      <4>3. Sending(tasks', tasks')
        BY DEF Sending
      <4>4. GoodWorker(tasks', incidents', x)
        BY <2>9, <4>2, <4>3, StillGoodWorker
      <4> QED  BY <4>1, <4>2, <4>4
    <3> QED  BY <1>5, <3>1, <3>2
  <2>13. PICK x : worker' = [worker EXCEPT ![w] = x] /\ x.at \notin Committing /\ GoodWorker(tasks', incidents', x)
    BY <2>12
  <2>14. worker'[w] = x /\ \A v \in Servers : v # w => worker'[v] = worker[v]
    BY <2>13 DEF TasksInv
  <2>15. Exclusive(worker, incidents, overlapped)
    BY DEF TasksInv
  <2>16. Races(worker[w], row.fingerprint)
    BY <1>1, <2>1 DEF Races, Alert
  <2>17. ASSUME NEW u \in Servers, worker'[u].at \in Committing, Head(worker'[u].alerts).fingerprint \notin overlapped
         PROVE  /\ \A v \in Servers : Races(worker'[v], Head(worker'[u].alerts).fingerprint) => v = u
                /\ \A i \in DOMAIN incidents' : ~Open(incidents', i, Head(worker'[u].alerts).fingerprint)
    <3>1. u # w /\ worker'[u] = worker[u]
      BY <2>13, <2>14, <2>17
    <3> DEFINE f == Head(worker[u].alerts).fingerprint
    <3>2. /\ \A v \in Servers : Races(worker[v], f) => v = u
          /\ \A i \in DOMAIN incidents : ~Open(incidents, i, f)
      BY <2>15, <2>17, <3>1 DEF Exclusive
    <3> HIDE DEF f
    <3>3. row.fingerprint # f
      BY <2>16, <3>1, <3>2
    <3>4. \A i \in DOMAIN incidents' : ~Open(incidents', i, f)
      BY <2>5, <2>7, <3>2, <3>3 DEF Open
    <3>5. \A v \in Servers : Races(worker'[v], f) => v = u
      BY <2>13, <2>14, <3>2 DEF Races
    <3> QED  BY <3>1, <3>4, <3>5 DEF f
  <2>18. row.fingerprint \notin overlapped => \A i \in DOMAIN incidents : ~Open(incidents, i, row.fingerprint)
    BY <1>1, <2>1, <2>15 DEF Exclusive, Alert
  <2>19. ASSUME NEW i \in DOMAIN incidents', NEW j \in DOMAIN incidents', incidents'[i].fingerprint \notin overlapped,
                Open(incidents', i, incidents'[i].fingerprint), Open(incidents', j, incidents'[i].fingerprint)
         PROVE  i = j
    <3>1. incidents'[j].fingerprint = incidents'[i].fingerprint
      BY <2>19 DEF Open
    <3>2. CASE i # n /\ j # n
      <4>1. /\ i \in DOMAIN incidents /\ j \in DOMAIN incidents /\ incidents'[i] = incidents[i] /\ incidents'[j] = incidents[j]
        BY <2>7, <3>2
      <4>2. Open(incidents, i, incidents[i].fingerprint) /\ Open(incidents, j, incidents[i].fingerprint)
        BY <2>19, <4>1 DEF Open
      <4> QED  BY <2>15, <2>19, <4>1, <4>2 DEF Exclusive
    <3>3. CASE i = n /\ j # n
      BY <2>5, <2>7, <2>18, <2>19, <3>1, <3>3 DEF Open
    <3>4. CASE i # n /\ j = n
      BY <2>5, <2>7, <2>18, <2>19, <3>1, <3>4 DEF Open
    <3> QED  BY <3>2, <3>3, <3>4
  <2>20. Exclusive(worker', incidents', overlapped')
    BY <1>1, <2>17, <2>19 DEF Exclusive
  <2>21. \E T : incidents' \in Seq(T)
    BY <2>5
  <2> QED  BY <2>9, <2>10, <2>12, <2>13, <2>20, <2>21, WorkMoves
<1> QED  BY <1>3, <1>4, <1>5

LEMMA TasksStep == TasksInv /\ TasksNext => TasksInv'
BY SubmitKeeps, TakeKeeps, OpenWebhookKeeps, CloseTaskKeeps, CloseWebhookKeeps, DeduplicateKeeps, FindSimilarKeeps,
   NumberKeeps, InsertKeeps, DeliverKeeps, RunAgentsKeeps, FaultKeeps, CrashKeeps, UpdateIncidentKeeps
   DEF TasksNext

----------------------------------------------------------------------------
(* The fan-out (Broadcast)                                                 *)

Places == {"new", "sending", "done"}

BroadcastTypes ==
    /\ connections \in Seq(Clients)
    /\ DOMAIN link = Clients /\ DOMAIN inbox = Clients /\ DOMAIN owed = Messages
    /\ DOMAIN sending = Messages
    /\ \A m \in Messages : /\ DOMAIN sending[m] = {"at", "next", "dead", "shrunk"}
                           /\ sending[m].next \in Nat \ {0} /\ sending[m].at \in Places
                           /\ sending[m].at = "new" => sending[m].next = 1 /\ ~sending[m].shrunk

\* A client that is owed a message is up, and has it or is still before the walk.
Reaching(m) ==
    \A c \in owed[m] :
        /\ c \in Clients /\ link[c] = "up"
        /\ sending[m].at = "sending" /\ ~sending[m].shrunk =>
              m \in inbox[c] \/ \E i \in DOMAIN connections : i >= sending[m].next /\ connections[i] = c

BroadcastInv == BroadcastTypes /\ (\A m \in Messages : Reaching(m)) /\ BroadcastReaches

\* The steps of the walk that leaves some out.
WalkOf(q, S, kept) ==
    [n \in 0 .. Len(q) |-> IF n = 0 THEN <<>>
                           ELSE IF q[n] \in S THEN kept[n - 1] ELSE Append(kept[n - 1], q[n])]

LEMMA WalkExists ==
  ASSUME NEW q, Len(q) \in Nat, NEW S
  PROVE  \E kept : kept = WalkOf(q, S, kept)
<1> DEFINE Steps(k, kept) ==
             [n \in 0 .. k |-> IF n = 0 THEN <<>>
                               ELSE IF q[n] \in S THEN kept[n - 1] ELSE Append(kept[n - 1], q[n])]
           Bad == {k \in Nat : ~ \E kept : kept = Steps(k, kept)}
<1>1. Bad = {}
  <2> SUFFICES ASSUME Bad # {} PROVE FALSE
    OBVIOUS
  <2>1. PICK k \in Bad : \A j \in Bad : k <= j
    BY LeastExists
  <2>2. k \in Nat /\ ~ \E kept : kept = Steps(k, kept)
    BY <2>1
  <2>3. CASE k = 0
    <3> DEFINE g == [n \in 0 .. 0 |-> <<>>]
    <3>1. g = Steps(0, g)
      OBVIOUS
    <3> QED  BY <2>2, <2>3, <3>1
  <2>4. CASE k # 0
    <3>1. k - 1 \in Nat
      BY <2>2, <2>4
    <3>2. k - 1 \notin Bad
      <4> HIDE DEF Bad
      <4> QED  BY <2>1, <2>2, <3>1
    <3>9. PICK f : f = Steps(k - 1, f)
      BY <3>1, <3>2
    <3> DEFINE last == IF q[k] \in S THEN f[k - 1] ELSE Append(f[k - 1], q[k])
               g == [n \in 0 .. k |-> IF n = k THEN last ELSE f[n]]
    <3>3. \A n \in 0 .. k - 1 : g[n] = f[n]
      BY <2>2
    <3>4. \A n \in 0 .. k - 1 : f[n] = IF n = 0 THEN <<>>
                               ELSE IF q[n] \in S THEN f[n - 1] ELSE Append(f[n - 1], q[n])
      BY <3>9
    <3>5. g[k] = last
      BY <2>2
    <3>6. ASSUME NEW n \in 0 .. k PROVE g[n] = Steps(k, g)[n]
      <4>1. CASE n = k
        BY <2>2, <2>4, <3>3, <3>5, <4>1
      <4>2. CASE n # k
        <5>1. n \in 0 .. k - 1 /\ (n # 0 => n - 1 \in 0 .. k - 1)
          BY <2>2, <4>2
        <5> HIDE DEF g
        <5> QED  BY <3>3, <3>4, <5>1
      <4> QED  BY <4>1, <4>2
    <3>7. g = Steps(k, g)
      BY <3>6
    <3> QED  BY <2>2, <3>7
  <2> QED  BY <2>2, <2>3, <2>4
<1>2. \E kept : kept = Steps(Len(q), kept)
  BY <1>1
<1> QED  BY <1>2 DEF WalkOf

LEMMA WithoutIs ==
  ASSUME NEW S, connections \in Seq(Clients)
  PROVE  /\ Without(S) \in Seq(Clients)
         /\ (\A n \in DOMAIN connections : connections[n] \notin S) => Without(S) = connections
<1> DEFINE q == connections
           kept == CHOOSE g : g = WalkOf(q, S, g)
<1>1. Len(q) \in Nat /\ DOMAIN q = 1 .. Len(q) /\ \A n \in 1 .. Len(q) : q[n] \in Clients
  BY LenProperties, ElementOfSeq
<1>2. kept = WalkOf(q, S, kept)
  BY <1>1, WalkExists
<1>3. Without(S) = kept[Len(q)]
  BY DEF Without, WalkOf
<1> HIDE DEF kept, q
<1>4. \A n \in 0 .. Len(q) : kept[n] = IF n = 0 THEN <<>>
                       ELSE IF q[n] \in S THEN kept[n - 1] ELSE Append(kept[n - 1], q[n])
  BY <1>2 DEF WalkOf
<1> DEFINE Good(n) == /\ kept[n] \in Seq(Clients)
                      /\ (\A i \in 1 .. n : q[i] \notin S) =>
                            Len(kept[n]) = n /\ \A i \in 1 .. n : kept[n][i] = q[i]
           Bad == {n \in 0 .. Len(q) : ~Good(n)}
<1>5. Good(0)
  <2>1. kept[0] = <<>> /\ <<>> \in Seq(Clients) /\ Len(<<>>) = 0
    BY <1>1, <1>4
  <2> QED  BY <2>1
<1>6. ASSUME NEW n \in 1 .. Len(q), Good(n - 1) PROVE Good(n)
  <2>1. kept[n] = (IF q[n] \in S THEN kept[n - 1] ELSE Append(kept[n - 1], q[n])) /\ n \in Nat /\ q[n] \in Clients
    BY <1>1, <1>4
  <2>2. CASE q[n] \in S
    BY <1>6, <2>1, <2>2
  <2>3. CASE q[n] \notin S
    <3>1. kept[n] = Append(kept[n - 1], q[n]) /\ kept[n - 1] \in Seq(Clients)
      BY <1>6, <2>1, <2>3
    <3>2. /\ kept[n] \in Seq(Clients) /\ Len(kept[n]) = Len(kept[n - 1]) + 1
          /\ kept[n][Len(kept[n - 1]) + 1] = q[n]
          /\ \A i \in 1 .. Len(kept[n - 1]) : kept[n][i] = kept[n - 1][i]
      BY <2>1, <3>1, AppendProperties
    <3>3. ASSUME \A i \in 1 .. n : q[i] \notin S PROVE Len(kept[n]) = n /\ \A i \in 1 .. n : kept[n][i] = q[i]
      <4>1. Len(kept[n - 1]) = n - 1 /\ \A i \in 1 .. n - 1 : kept[n - 1][i] = q[i]
        BY <1>6, <2>1, <3>3
      <4> QED  BY <2>1, <3>2, <4>1
    <3> QED  BY <3>2, <3>3
  <2> QED  BY <2>2, <2>3
<1> HIDE DEF Good
<1>7. Bad = {}
  <2> SUFFICES ASSUME Bad # {} PROVE FALSE
    OBVIOUS
  <2>1. Bad \subseteq Nat
    BY <1>1
  <2>2. PICK n \in Bad : \A j \in Bad : n <= j
    BY <2>1, LeastExists
  <2>3. n # 0 /\ n \in 1 .. Len(q)
    BY <1>1, <1>5, <2>2
  <2>4. Good(n - 1)
    BY <1>1, <2>2, <2>3
  <2> QED  BY <1>6, <2>2, <2>3, <2>4
<1>8. Good(Len(q))
  BY <1>1, <1>7
<1>9. kept[Len(q)] \in Seq(Clients)
  BY <1>8 DEF Good
<1>10. ASSUME \A n \in DOMAIN q : q[n] \notin S PROVE kept[Len(q)] = q
  <2>1. Len(kept[Len(q)]) = Len(q) /\ \A i \in 1 .. Len(q) : kept[Len(q)][i] = q[i]
    BY <1>1, <1>8, <1>10 DEF Good
  <2>2. q \in Seq(Clients)
    BY DEF q
  <2> QED  BY <1>9, <2>1, <2>2, SeqEqual
<1> QED  BY <1>3, <1>9, <1>10 DEF q

LEMMA BroadcastInitInv == BroadcastInit => BroadcastInv
BY DEF BroadcastInit, BroadcastInv, BroadcastTypes, Places, Reaching, BroadcastReaches

LEMMA BroadcastUnchanged == BroadcastInv /\ UNCHANGED broadcastVars => BroadcastInv'
BY DEF BroadcastInv, BroadcastTypes, Reaching, BroadcastReaches, broadcastVars

LEMMA ConnectKeeps == ASSUME BroadcastInv, NEW c \in Clients, Connect(c) PROVE BroadcastInv'
<1>1. /\ link[c] = "new" /\ link' = [link EXCEPT ![c] = "up"] /\ connections' = Append(connections, c)
      /\ UNCHANGED <<inbox, sending, owed>> /\ BroadcastTypes
  BY DEF Connect, BroadcastInv
<1>2. /\ connections' \in Seq(Clients) /\ DOMAIN connections \subseteq DOMAIN connections'
      /\ \A i \in DOMAIN connections : connections'[i] = connections[i]
  BY <1>1, AppendProperties, LenProperties DEF BroadcastTypes
<1>3. BroadcastTypes'
  BY <1>1, <1>2 DEF BroadcastTypes
<1>4. ASSUME NEW m \in Messages PROVE Reaching(m)'
  <2> SUFFICES ASSUME NEW d \in owed[m]
               PROVE  /\ d \in Clients /\ link'[d] = "up"
                      /\ sending[m].at = "sending" /\ ~sending[m].shrunk =>
                            m \in inbox[d] \/ \E i \in DOMAIN connections' : i >= sending[m].next /\ connections'[i] = d
    BY <1>1 DEF Reaching
  <2>1. /\ d \in Clients /\ link[d] = "up"
        /\ sending[m].at = "sending" /\ ~sending[m].shrunk =>
              m \in inbox[d] \/ \E i \in DOMAIN connections : i >= sending[m].next /\ connections[i] = d
    BY DEF BroadcastInv, Reaching
  <2>2. link'[d] = "up"
    BY <1>1, <2>1 DEF BroadcastTypes
  <2> QED  BY <1>2, <2>1, <2>2
<1>5. BroadcastReaches'
  BY <1>1 DEF BroadcastInv, BroadcastReaches
<1> QED  BY <1>3, <1>4, <1>5 DEF BroadcastInv

LEMMA BreakKeeps == ASSUME BroadcastInv, NEW c \in Clients, Break(c) PROVE BroadcastInv'
<1>1. /\ link' = [link EXCEPT ![c] = "broken"] /\ owed' = [m \in Messages |-> owed[m] \ {c}]
      /\ UNCHANGED <<connections, inbox, sending>> /\ BroadcastTypes
  BY DEF Break, BroadcastInv
<1>2. BroadcastTypes'
  BY <1>1 DEF BroadcastTypes
<1>3. \A m \in Messages : owed'[m] = owed[m] \ {c}
  BY <1>1
<1>4. \A d \in Clients \ {c} : link'[d] = link[d]
  BY <1>1 DEF BroadcastTypes
<1>5. ASSUME NEW m \in Messages PROVE Reaching(m)'
  BY <1>1, <1>3, <1>4 DEF BroadcastInv, Reaching
<1>6. BroadcastReaches'
  BY <1>1, <1>3 DEF BroadcastInv, BroadcastReaches
<1> QED  BY <1>2, <1>5, <1>6 DEF BroadcastInv

\* A shorter list, with the walks over it marked.
LEMMA ShorterKeeps ==
  ASSUME BroadcastInv, connections' \in Seq(Clients), UNCHANGED <<inbox, owed>>,
         DOMAIN link' = Clients, \A d \in Clients : link[d] = "up" => link'[d] = "up",
         DOMAIN sending' = Messages,
         \A m \in Messages :
            /\ DOMAIN sending'[m] = {"at", "next", "dead", "shrunk"} /\ sending'[m].next = sending[m].next
            /\ sending'[m].at \in Places
            /\ sending'[m].at = "new" => sending[m].at = "new" /\ ~sending'[m].shrunk
            /\ sending'[m].at = "sending" /\ ~sending'[m].shrunk =>
                  sending[m].at = "sending" /\ ~sending[m].shrunk /\ connections' = connections
            /\ sending'[m].at = "done" /\ ~sending'[m].shrunk =>
                  \A d \in owed[m] : m \in inbox[d]
  PROVE  BroadcastInv'
<1>1. BroadcastTypes'
  BY DEF BroadcastInv, BroadcastTypes
<1>2. ASSUME NEW m \in Messages PROVE Reaching(m)'
  <2>1. Reaching(m)
    BY DEF BroadcastInv
  <2> QED  BY <2>1 DEF Reaching
<1>3. BroadcastReaches'
  BY DEF BroadcastReaches
<1> QED  BY <1>1, <1>2, <1>3 DEF BroadcastInv

LEMMA DisconnectKeeps == ASSUME BroadcastInv, NEW c \in Clients, Disconnect(c) PROVE BroadcastInv'
<1>1. /\ link[c] = "broken" /\ link' = [link EXCEPT ![c] = "gone"] /\ connections' = Without({c}) /\ Shrink({c})
      /\ UNCHANGED <<inbox, owed>> /\ BroadcastTypes
  BY DEF Disconnect, BroadcastInv
<1>2. connections' \in Seq(Clients) /\ ((\A n \in DOMAIN connections : connections[n] # c) => connections' = connections)
  BY <1>1, WithoutIs DEF BroadcastTypes
<1>3. Len(connections) \in Nat /\ DOMAIN connections = 1 .. Len(connections)
  BY <1>1, LenProperties DEF BroadcastTypes
<1>4. DOMAIN sending' = Messages /\ \A m \in Messages :
        sending'[m] = IF sending[m].at = "sending" /\ \E d \in {c} : Contains(connections, d)
                      THEN [sending[m] EXCEPT !.shrunk = TRUE] ELSE sending[m]
  BY <1>1 DEF Shrink
<1>5. ~Contains(connections, c) => connections' = connections
  BY <1>2, <1>3 DEF Contains
<1>6. \A d \in Clients : link[d] = "up" => link'[d] = "up"
  BY <1>1 DEF BroadcastTypes
<1>7. DOMAIN link' = Clients
  BY <1>1 DEF BroadcastTypes
<1>8. ASSUME NEW m \in Messages
      PROVE /\ DOMAIN sending'[m] = {"at", "next", "dead", "shrunk"} /\ sending'[m].next = sending[m].next
            /\ sending'[m].at \in Places
            /\ sending'[m].at = "new" => sending[m].at = "new" /\ ~sending'[m].shrunk
            /\ sending'[m].at = "sending" /\ ~sending'[m].shrunk =>
                  sending[m].at = "sending" /\ ~sending[m].shrunk /\ connections' = connections
            /\ sending'[m].at = "done" /\ ~sending'[m].shrunk =>
                  \A d \in owed[m] : m \in inbox[d]
  <2>1. /\ DOMAIN sending[m] = {"at", "next", "dead", "shrunk"} /\ sending[m].at \in Places
        /\ sending[m].at = "new" => ~sending[m].shrunk
    BY <1>1 DEF BroadcastTypes
  <2>2. CASE sending[m].at = "sending" /\ Contains(connections, c)
    <3>1. sending'[m] = [sending[m] EXCEPT !.shrunk = TRUE]
      BY <1>4, <2>2
    <3>2. /\ DOMAIN sending'[m] = DOMAIN sending[m] /\ sending'[m].next = sending[m].next
          /\ sending'[m].at = sending[m].at /\ sending'[m].shrunk = TRUE
      BY <2>1, <3>1
    <3> QED  BY <2>1, <2>2, <3>2
  <2>3. CASE ~(sending[m].at = "sending" /\ Contains(connections, c))
    <3>1. sending'[m] = sending[m]
      BY <1>4, <2>3
    <3> QED  BY <1>5, <2>1, <2>3, <3>1 DEF BroadcastInv, BroadcastReaches
  <2> QED  BY <2>2, <2>3
<1> QED  BY <1>1, <1>2, <1>4, <1>6, <1>7, <1>8, ShorterKeeps

LEMMA BeginKeeps == ASSUME BroadcastInv, NEW m \in Messages, Begin(m) PROVE BroadcastInv'
<1>1. /\ sending[m].at = "new" /\ sending' = [sending EXCEPT ![m].at = "sending"]
      /\ owed' = [owed EXCEPT ![m] = {c \in Range(connections) : link[c] = "up"}]
      /\ UNCHANGED <<connections, link, inbox>> /\ BroadcastTypes
  BY DEF Begin, BroadcastInv
<1>2. DOMAIN owed' = Messages /\ owed'[m] = {c \in Range(connections) : link[c] = "up"}
      /\ \A n \in Messages \ {m} : owed'[n] = owed[n] /\ sending'[n] = sending[n]
  BY <1>1 DEF BroadcastTypes
<1>3. /\ DOMAIN sending' = Messages /\ DOMAIN sending'[m] = DOMAIN sending[m] /\ sending'[m].at = "sending"
      /\ sending'[m].next = 1 /\ sending'[m].dead = sending[m].dead /\ sending'[m].shrunk = sending[m].shrunk
  BY <1>1 DEF BroadcastTypes
<1>4. \A c \in Range(connections) : c \in Clients /\ \E i \in DOMAIN connections : i >= 1 /\ connections[i] = c
  <2> SUFFICES ASSUME NEW c \in Range(connections) PROVE c \in Clients /\ \E i \in DOMAIN connections : i >= 1 /\ connections[i] = c
    OBVIOUS
  <2>1. PICK i \in DOMAIN connections : connections[i] = c
    BY DEF Range
  <2>2. DOMAIN connections = 1 .. Len(connections) /\ Len(connections) \in Nat /\ connections[i] \in Clients
    BY <1>1, <2>1, LenProperties, ElementOfSeq DEF BroadcastTypes
  <2> QED  BY <2>1, <2>2
<1>5. BroadcastTypes'
  <2>1. \A n \in Messages : n # m => sending'[n] = sending[n]
    BY <1>2
  <2> QED  BY <1>1, <1>2, <1>3, <2>1 DEF BroadcastTypes, Places
<1>6. ASSUME NEW n \in Messages PROVE Reaching(n)'
  <2>1. CASE n = m
    BY <1>1, <1>2, <1>3, <1>4, <2>1 DEF Reaching
  <2>2. CASE n # m
    BY <1>1, <1>2, <2>2 DEF BroadcastInv, Reaching
  <2> QED  BY <2>1, <2>2
<1>7. BroadcastReaches'
  BY <1>1, <1>2, <1>3 DEF BroadcastInv, BroadcastReaches
<1> QED  BY <1>5, <1>6, <1>7 DEF BroadcastInv

LEMMA SendKeeps == ASSUME BroadcastInv, NEW m \in Messages, Send(m) PROVE BroadcastInv'
<1> DEFINE c == connections[sending[m].next]
<1>1. /\ sending[m].at = "sending" /\ sending[m].next <= Len(connections) /\ UNCHANGED <<connections, link, owed>>
      /\ BroadcastTypes
      /\ \/ /\ link[c] = "up" /\ inbox' = [inbox EXCEPT ![c] = @ \cup {m}]
            /\ sending' = [sending EXCEPT ![m].next = @ + 1]
         \/ /\ link[c] # "up" /\ inbox' = inbox
            /\ sending' = [sending EXCEPT ![m].next = @ + 1, ![m].dead = @ \cup {c}]
  BY DEF Send, BroadcastInv
<1>2. DOMAIN connections = 1 .. Len(connections) /\ Len(connections) \in Nat /\ c \in Clients
  BY <1>1, LenProperties, ElementOfSeq DEF BroadcastTypes
<1>3. /\ DOMAIN sending' = Messages /\ \A n \in Messages \ {m} : sending'[n] = sending[n]
      /\ DOMAIN sending'[m] = DOMAIN sending[m] /\ sending'[m].at = sending[m].at
      /\ sending'[m].next = sending[m].next + 1 /\ sending'[m].shrunk = sending[m].shrunk
  BY <1>1 DEF BroadcastTypes
<1>4. /\ DOMAIN inbox' = Clients /\ \A d \in Clients : inbox[d] \subseteq inbox'[d]
      /\ link[c] = "up" => m \in inbox'[c]
  BY <1>1, <1>2 DEF BroadcastTypes
<1>5. BroadcastTypes'
  <2>1. \A n \in Messages : n # m => sending'[n] = sending[n]
    BY <1>3
  <2> QED  BY <1>1, <1>3, <1>4, <2>1 DEF BroadcastTypes, Places
<1>6. ASSUME NEW n \in Messages PROVE Reaching(n)'
  <2> SUFFICES ASSUME NEW d \in owed[n]
               PROVE  /\ d \in Clients /\ link[d] = "up"
                      /\ sending'[n].at = "sending" /\ ~sending'[n].shrunk =>
                            n \in inbox'[d] \/ \E i \in DOMAIN connections : i >= sending'[n].next /\ connections[i] = d
    BY <1>1 DEF Reaching
  <2>1. /\ d \in Clients /\ link[d] = "up"
        /\ sending[n].at = "sending" /\ ~sending[n].shrunk =>
              n \in inbox[d] \/ \E i \in DOMAIN connections : i >= sending[n].next /\ connections[i] = d
    BY DEF BroadcastInv, Reaching
  <2>2. CASE n # m
    BY <1>3, <1>4, <2>1, <2>2
  <2>3. CASE n = m /\ sending[m].at = "sending" /\ ~sending[m].shrunk
    <3>1. CASE m \in inbox[d]
      BY <1>4, <2>1, <2>3, <3>1
    <3>2. CASE m \notin inbox[d]
      <4>1. PICK i \in DOMAIN connections : i >= sending[m].next /\ connections[i] = d
        BY <2>1, <2>3, <3>2
      <4>2. CASE i = sending[m].next
        BY <1>4, <2>1, <2>3, <4>1, <4>2
      <4>3. CASE i # sending[m].next
        <5>1. i >= sending'[m].next
          BY <1>1, <1>2, <1>3, <4>1, <4>3 DEF BroadcastTypes
        <5> QED  BY <2>1, <2>3, <4>1, <5>1
      <4> QED  BY <4>2, <4>3
    <3> QED  BY <3>1, <3>2
  <2>4. CASE n = m /\ ~(sending[m].at = "sending" /\ ~sending[m].shrunk)
    BY <1>3, <2>1, <2>4
  <2> QED  BY <2>2, <2>3, <2>4
<1>7. BroadcastReaches'
  <2> SUFFICES ASSUME NEW n \in Messages, sending'[n].at = "done", ~sending'[n].shrunk, NEW d \in owed[n]
               PROVE  n \in inbox'[d]
    BY <1>1 DEF BroadcastReaches
  <2>1. sending[n] = sending'[n] /\ Reaching(n)
    BY <1>1, <1>3 DEF BroadcastInv
  <2>2. n \in inbox[d] /\ d \in Clients
    BY <2>1 DEF BroadcastInv, BroadcastReaches, Reaching
  <2> QED  BY <1>4, <2>2
<1> QED  BY <1>5, <1>6, <1>7 DEF BroadcastInv

LEMMA FinishKeeps == ASSUME BroadcastInv, NEW m \in Messages, Finish(m) PROVE BroadcastInv'
<1>1. /\ sending[m].at = "sending" /\ sending[m].next > Len(connections)
      /\ connections' = Without(sending[m].dead) /\ UNCHANGED <<link, inbox, owed>> /\ BroadcastTypes
      /\ sending' = [n \in Messages |->
                      IF n = m THEN [sending[m] EXCEPT !.at = "done"]
                      ELSE IF sending[n].at = "sending" /\ connections' # connections
                           THEN [sending[n] EXCEPT !.shrunk = TRUE] ELSE sending[n]]
  BY DEF Finish, BroadcastInv
<1>2. connections' \in Seq(Clients)
  BY <1>1, WithoutIs DEF BroadcastTypes
<1>3. DOMAIN connections = 1 .. Len(connections) /\ Len(connections) \in Nat
  BY <1>1, LenProperties DEF BroadcastTypes
<1>4. DOMAIN sending' = Messages /\ \A n \in Messages :
        sending'[n] = IF n = m THEN [sending[m] EXCEPT !.at = "done"]
                      ELSE IF sending[n].at = "sending" /\ connections' # connections
                           THEN [sending[n] EXCEPT !.shrunk = TRUE] ELSE sending[n]
  BY <1>1
<1>5. ASSUME NEW n \in Messages
      PROVE /\ DOMAIN sending'[n] = {"at", "next", "dead", "shrunk"} /\ sending'[n].next = sending[n].next
            /\ sending'[n].at \in Places
            /\ sending'[n].at = "new" => sending[n].at = "new" /\ ~sending'[n].shrunk
            /\ sending'[n].at = "sending" /\ ~sending'[n].shrunk =>
                  sending[n].at = "sending" /\ ~sending[n].shrunk /\ connections' = connections
            /\ sending'[n].at = "done" /\ ~sending'[n].shrunk =>
                  \A d \in owed[n] : n \in inbox[d]
  <2>1. /\ DOMAIN sending[n] = {"at", "next", "dead", "shrunk"} /\ sending[n].at \in Places
        /\ sending[n].at = "new" => ~sending[n].shrunk
    BY <1>1 DEF BroadcastTypes
  <2>2. CASE n = m
    <3>1. sending'[n] = [sending[n] EXCEPT !.at = "done"]
      BY <1>4, <2>2
    <3>2. /\ DOMAIN sending'[n] = DOMAIN sending[n] /\ sending'[n].next = sending[n].next
          /\ sending'[n].at = "done" /\ sending'[n].shrunk = sending[n].shrunk
      BY <2>1, <3>1
    <3>3. ASSUME ~sending[n].shrunk, NEW d \in owed[n] PROVE n \in inbox[d]
      <4>1. ~ \E i \in DOMAIN connections : i >= sending[n].next
        BY <1>1, <1>3, <2>2 DEF BroadcastTypes
      <4>2. Reaching(n) /\ sending[n].at = "sending"
        BY <1>1, <2>2 DEF BroadcastInv
      <4> QED  BY <3>3, <4>1, <4>2 DEF Reaching
    <3> QED  BY <2>1, <3>2, <3>3 DEF Places
  <2>3. CASE n # m /\ sending[n].at = "sending" /\ connections' # connections
    <3>1. sending'[n] = [sending[n] EXCEPT !.shrunk = TRUE]
      BY <1>4, <2>3
    <3>2. /\ DOMAIN sending'[n] = DOMAIN sending[n] /\ sending'[n].next = sending[n].next
          /\ sending'[n].at = sending[n].at /\ sending'[n].shrunk = TRUE
      BY <2>1, <3>1
    <3> QED  BY <2>1, <2>3, <3>2
  <2>4. CASE n # m /\ ~(sending[n].at = "sending" /\ connections' # connections)
    <3>1. sending'[n] = sending[n]
      BY <1>4, <2>4
    <3> QED  BY <2>1, <2>4, <3>1 DEF BroadcastInv, BroadcastReaches
  <2> QED  BY <2>2, <2>3, <2>4
<1>6. DOMAIN link' = Clients /\ \A d \in Clients : link[d] = "up" => link'[d] = "up"
  BY <1>1 DEF BroadcastTypes
<1> QED  BY <1>1, <1>2, <1>4, <1>5, <1>6, ShorterKeeps

LEMMA BroadcastStep == BroadcastInv /\ BroadcastNext => BroadcastInv'
BY ConnectKeeps, BreakKeeps, DisconnectKeeps, BeginKeeps, SendKeeps, FinishKeeps DEF BroadcastNext

----------------------------------------------------------------------------
(* The knowledge base (KnowledgeBase)                                      *)

Embedding == {"at", "object", "docs", "version"}

\* What a task is embedding.
Indexes(l, d) == learner[l].at = "embedding" /\ Head(learner[l].docs) = d

LearnerTypes(l) ==
    /\ learner[l].at \in {"idle", "embedding"} /\ (learner[l].at = "idle" => learner[l] = Idle)
    /\ learner[l].at = "embedding" =>
          /\ DOMAIN learner[l] = Embedding /\ learner[l].object \in DOMAIN base
          /\ learner[l].docs \in Seq(DocIds) /\ learner[l].docs # <<>>
          /\ learner[l].version \in Nat /\ learner[l].version <= text[Head(learner[l].docs)]

KnowledgeTypes ==
    /\ \E S : base \in Seq(S)
    /\ base # <<>> /\ DOMAIN learner = Learners /\ text \in [DocIds -> Nat]
    /\ \A l \in Learners : LearnerTypes(l)
    /\ DOMAIN indexed \subseteq DocIds \ risked
    /\ \A d \in DOMAIN indexed : indexed[d].version \in Nat /\ indexed[d].version <= text[d]

\* What was reported is in the object in use and in the file.
Reflected(d) ==
    /\ d \in DOMAIN base[Current] /\ base[Current][d] = indexed[d]
    /\ d \in DOMAIN disk.documents /\ disk.documents[d] = indexed[d]

\* Of a document that is not at risk, one task at most has a text, which none is newer than.
NoneBehind(d) ==
    /\ \A l, k \in Learners : Indexes(l, d) /\ Indexes(k, d) => l = k
    /\ d \in DOMAIN indexed => \A l \in Learners : Indexes(l, d) => learner[l].version >= indexed[d].version

KnowledgeInv ==
    /\ KnowledgeTypes
    /\ \A d \in DOMAIN indexed : Reflected(d)
    /\ \A d \in DocIds \ risked : NoneBehind(d)

LEMMA KnowledgeInitInv == KnowledgeInit => KnowledgeInv
<1> SUFFICES ASSUME KnowledgeInit PROVE KnowledgeInv
  OBVIOUS
<1>1. /\ base = <<Empty>> /\ learner = [l \in Learners |-> Idle] /\ text = [d \in DocIds |-> 1]
      /\ indexed = Empty /\ risked = {} /\ DOMAIN Empty = {}
  BY DEF KnowledgeInit, Empty
<1>2. \A l \in Learners : learner[l] = Idle /\ Idle.at = "idle"
  BY <1>1 DEF Idle
<1>3. base \in Seq({Empty}) /\ base # <<>>
  BY <1>1
<1>4. KnowledgeTypes
  BY <1>1, <1>2, <1>3 DEF KnowledgeTypes, LearnerTypes
<1> QED  BY <1>1, <1>2, <1>4 DEF KnowledgeInv, NoneBehind, Indexes

LEMMA KnowledgeUnchanged == KnowledgeInv /\ UNCHANGED knowledgeVars => KnowledgeInv'
<1> SUFFICES ASSUME KnowledgeInv, UNCHANGED knowledgeVars PROVE KnowledgeInv'
  OBVIOUS
<1>1. UNCHANGED <<base, disk, learner, text, indexed, risked>>
  BY DEF knowledgeVars
<1>2. KnowledgeTypes'
  BY <1>1 DEF KnowledgeInv, KnowledgeTypes, LearnerTypes
<1> QED  BY <1>1, <1>2 DEF KnowledgeInv, Reflected, Current, NoneBehind, Indexes

\* What was reported is known, and of two documents the one a text is of is the closer.
LEMMA KnowledgeInvSound == KnowledgeInv => KnowledgeKept
<1> SUFFICES ASSUME KnowledgeInv, NEW d \in DOMAIN indexed
             PROVE  /\ d \in DOMAIN base[Current] /\ base[Current][d] = indexed[d]
                    /\ indexed[d].dims = Model => d \in Found(base[Current], d, Model, 1)
  BY DEF KnowledgeKept
<1> DEFINE k == base[Current]
<1>1. d \in DOMAIN k /\ k[d] = indexed[d]
  BY DEF KnowledgeInv, Reflected
<1> HIDE DEF k
<1>2. ASSUME indexed[d].dims = Model PROVE d \in Found(k, d, Model, 1)
  <2> DEFINE score(e) == Similarity(e, k[e], d, Model)
  <2>1. score(d) = 2
    BY <1>1, <1>2 DEF Similarity
  <2>2. \A e \in DOMAIN k : ~(score(e) > score(d))
    BY <2>1 DEF Similarity
  <2>3. {e \in DOMAIN k : score(e) > score(d)} = {}
    BY <2>2
  <2>4. Cardinality({e \in DOMAIN k : score(e) > score(d)}) = 0
    BY <2>3, FS_EmptySet
  <2>5. score(d) > 0
    BY <2>1
  <2> QED  BY <1>1, <2>4, <2>5 DEF Found
<1> QED  BY <1>1, <1>2 DEF k

LEMMA ReviseKeeps == ASSUME KnowledgeInv, NEW d \in DocIds, Revise(d) PROVE KnowledgeInv'
<1>1. text' = [text EXCEPT ![d] = @ + 1] /\ UNCHANGED <<base, disk, learner, indexed, risked>> /\ KnowledgeTypes
  BY DEF Revise, KnowledgeInv
<1>2. text' \in [DocIds -> Nat] /\ \A e \in DocIds : text[e] <= text'[e]
  BY <1>1 DEF KnowledgeTypes
<1>3. \A e \in DOMAIN indexed : indexed[e].version <= text'[e]
  BY <1>1, <1>2 DEF KnowledgeTypes
<1>4. ASSUME NEW l \in Learners PROVE LearnerTypes(l)'
  <2>1. CASE learner[l].at = "idle"
    BY <1>1, <2>1 DEF KnowledgeTypes, LearnerTypes
  <2>2. CASE learner[l].at # "idle"
    <3>1. /\ learner[l].at = "embedding" /\ DOMAIN learner[l] = Embedding /\ learner[l].object \in DOMAIN base
          /\ learner[l].docs \in Seq(DocIds) /\ learner[l].docs # <<>>
          /\ learner[l].version \in Nat /\ learner[l].version <= text[Head(learner[l].docs)]
      BY <1>1, <2>2 DEF KnowledgeTypes, LearnerTypes
    <3> DEFINE e == Head(learner[l].docs)
    <3>2. e \in DocIds
      BY <3>1, HeadTailProperties
    <3> HIDE DEF e
    <3>3. text[e] \in Nat /\ text'[e] \in Nat /\ text[e] <= text'[e]
      BY <1>1, <1>2, <3>2 DEF KnowledgeTypes
    <3>4. learner[l].version <= text'[e]
      <4>1. learner[l].version <= text[e]
        BY <3>1 DEF e
      <4> QED  BY <3>1, <3>3, <4>1
    <3> QED  BY <1>1, <3>1, <3>4 DEF LearnerTypes, e
  <2> QED  BY <2>1, <2>2
<1>5. KnowledgeTypes'
  BY <1>1, <1>2, <1>3, <1>4 DEF KnowledgeTypes
<1> QED  BY <1>1, <1>5 DEF KnowledgeInv, Reflected, Current, NoneBehind, Indexes

\* What a task that begins a document does to the others.
LEMMA EmbedIs ==
  ASSUME KnowledgeTypes, NEW l \in Learners, NEW object, NEW docs, docs \in Seq(DocIds), docs # <<>>,
         Embed(l, object, docs)
  PROVE  /\ DOMAIN learner' = Learners /\ \A k \in Learners \ {l} : learner'[k] = learner[k]
         /\ learner'[l].at = "embedding" /\ DOMAIN learner'[l] = Embedding
         /\ learner'[l].object = object /\ learner'[l].docs = docs /\ learner'[l].version = text[Head(docs)]
         /\ Head(docs) \in DocIds /\ text[Head(docs)] \in Nat
<1>1. learner' = [learner EXCEPT ![l] =
                     [at |-> "embedding", object |-> object, docs |-> docs, version |-> text[Head(docs)]]]
  BY DEF Embed
<1>2. learner'[l] = [at |-> "embedding", object |-> object, docs |-> docs, version |-> text[Head(docs)]]
  BY <1>1 DEF KnowledgeTypes
<1>3. Head(docs) \in DocIds
  BY HeadTailProperties
<1> QED  BY <1>1, <1>2, <1>3 DEF KnowledgeTypes, Embedding

LEMMA LearnKeeps == ASSUME KnowledgeInv, NEW l \in Learners, Learn(l) PROVE KnowledgeInv'
<1>1. PICK docs \in [1 .. 1 -> DocIds] \cup [1 .. 2 -> DocIds] :
          /\ Embed(l, Current, docs)
          /\ risked' = risked \cup (IF Contested(docs[1]) = {} THEN {} ELSE {docs[1]})
          /\ indexed' = Spared(indexed)
  BY DEF Learn
<1>2. learner[l] = Idle /\ UNCHANGED <<base, disk, text>> /\ KnowledgeTypes
  BY DEF Learn, KnowledgeInv
<1> DEFINE d == docs[1]
<1>3. docs \in Seq(DocIds) /\ docs # <<>> /\ Head(docs) = d
  <2>1. docs \in Seq(DocIds) /\ 1 \in DOMAIN docs
    <3>1. 1 \in Nat /\ 2 \in Nat /\ 1 \in 1 .. 1 /\ 1 \in 1 .. 2
      OBVIOUS
    <3>2. PICK n \in {1, 2} : docs \in [1 .. n -> DocIds]
      BY <1>1
    <3>3. docs \in UNION {[1 .. m -> DocIds] : m \in Nat}
      BY <3>1, <3>2
    <3>4. docs \in Seq(DocIds)
      BY <3>3, SeqDef
    <3> QED  BY <3>1, <3>2, <3>4
  <2> QED  BY <2>1, EmptySeq
<1>4. /\ DOMAIN learner' = Learners /\ \A k \in Learners \ {l} : learner'[k] = learner[k]
      /\ learner'[l].at = "embedding" /\ DOMAIN learner'[l] = Embedding
      /\ learner'[l].object = Current /\ learner'[l].docs = docs /\ learner'[l].version = text[d]
      /\ d \in DocIds /\ text[d] \in Nat
  BY <1>1, <1>2, <1>3, EmbedIs
<1>5. Current \in DOMAIN base
  BY <1>2, LenProperties, EmptySeq DEF KnowledgeTypes, Current
<1>6. /\ risked \subseteq risked' /\ (d \notin risked' => Contested(d) = {})
      /\ DOMAIN indexed' = DOMAIN indexed \ risked' /\ \A e \in DOMAIN indexed' : indexed'[e] = indexed[e]
  BY <1>1 DEF Spared
<1> HIDE DEF d
<1>7. KnowledgeTypes'
  <2>1. ASSUME NEW k \in Learners PROVE LearnerTypes(k)'
    <3>1. CASE k = l
      BY <1>2, <1>3, <1>4, <1>5, <3>1 DEF LearnerTypes
    <3>2. CASE k # l
      BY <1>2, <1>4, <3>2 DEF KnowledgeTypes, LearnerTypes
    <3> QED  BY <3>1, <3>2
  <2> QED  BY <1>2, <1>4, <1>6, <2>1 DEF KnowledgeTypes
<1>8. \A e \in DOMAIN indexed' : Reflected(e)'
  BY <1>2, <1>6 DEF KnowledgeInv, Reflected, Current
<1>9. ASSUME NEW e \in DocIds \ risked' PROVE NoneBehind(e)'
  <2>1. NoneBehind(e)
    BY <1>6 DEF KnowledgeInv
  <2>2. \A k \in Learners \ {l} : Indexes(k, e)' <=> Indexes(k, e)
    BY <1>4 DEF Indexes
  <2>3. Indexes(l, e)' <=> e = d
    BY <1>3, <1>4 DEF Indexes
  <2>4. CASE e = d
    <3>1. \A k \in Learners \ {l} : ~Indexes(k, e)
      BY <1>6, <2>4 DEF Contested, Indexes
    <3>2. e \in DOMAIN indexed' => indexed'[e].version <= text[d] /\ indexed'[e].version \in Nat
      BY <1>2, <1>6, <2>4 DEF KnowledgeTypes
    <3> QED  BY <1>4, <2>2, <3>1, <3>2 DEF NoneBehind
  <2>5. CASE e # d
    BY <1>4, <1>6, <2>1, <2>2, <2>3, <2>5 DEF NoneBehind
  <2> QED  BY <2>4, <2>5
<1> QED  BY <1>7, <1>8, <1>9 DEF KnowledgeInv

\* An object made from the file.
LEMMA ReplacedIs ==
  ASSUME KnowledgeTypes, NEW held, base' = Replaced(held)
  PROVE  /\ \E S : base' \in Seq(S)
         /\ base' # <<>> /\ DOMAIN base \subseteq DOMAIN base' /\ base'[Current'] = disk.documents
<1> DEFINE old == [o \in DOMAIN base |-> IF o \in held THEN base[o] ELSE Empty]
           T == {old[o] : o \in DOMAIN base} \cup {disk.documents}
<1>1. Len(base) \in Nat /\ DOMAIN base = 1 .. Len(base)
  BY LenProperties DEF KnowledgeTypes
<1>2. old \in Seq(T) /\ Len(old) = Len(base)
  <2>1. old \in [1 .. Len(base) -> T]
    BY <1>1
  <2>2. old \in Seq(T)
    BY <1>1, <2>1, SeqDef
  <2> HIDE DEF old
  <2>3. DOMAIN old = 1 .. Len(base)
    BY <2>1
  <2> QED  BY <1>1, <2>2, <2>3, LenProperties
<1>3. base' = Append(old, disk.documents)
  BY DEF Replaced, Loaded
<1>4. disk.documents \in T
  OBVIOUS
<1> HIDE DEF old, T
<1>5. base' \in Seq(T) /\ Len(base') = Len(base) + 1 /\ base'[Len(base) + 1] = disk.documents
  BY <1>2, <1>3, <1>4, AppendProperties
<1>6. DOMAIN base' = 1 .. Len(base) + 1 /\ base' # <<>>
  BY <1>1, <1>5, LenProperties, EmptySeq
<1> QED  BY <1>1, <1>5, <1>6 DEF Current

LEMMA ReloadKnowledgeKeeps == ASSUME KnowledgeInv, ReloadKnowledge PROVE KnowledgeInv'
<1> DEFINE held == {learner[l].object : l \in {k \in Learners : learner[k] # Idle}}
<1>1. base' = Replaced(held) /\ UNCHANGED <<disk, learner, text, indexed, risked>> /\ KnowledgeTypes
  BY DEF ReloadKnowledge, KnowledgeInv
<1> HIDE DEF held
<1>2. /\ \E S : base' \in Seq(S)
      /\ base' # <<>> /\ DOMAIN base \subseteq DOMAIN base' /\ base'[Current'] = disk.documents
  BY <1>1, ReplacedIs
<1>3. KnowledgeTypes'
  BY <1>1, <1>2 DEF KnowledgeTypes, LearnerTypes
<1>4. \A d \in DOMAIN indexed : Reflected(d)'
  BY <1>1, <1>2 DEF KnowledgeInv, Reflected
<1> QED  BY <1>1, <1>3, <1>4 DEF KnowledgeInv, NoneBehind, Indexes

LEMMA RestartKnowledgeKeeps == ASSUME KnowledgeInv, RestartKnowledge PROVE KnowledgeInv'
<1>1. /\ base' = Replaced({}) /\ learner' = [l \in Learners |-> Idle]
      /\ UNCHANGED <<disk, text, indexed, risked>> /\ KnowledgeTypes
  BY DEF RestartKnowledge, KnowledgeInv
<1>2. /\ \E S : base' \in Seq(S)
      /\ base' # <<>> /\ DOMAIN base \subseteq DOMAIN base' /\ base'[Current'] = disk.documents
  BY <1>1, ReplacedIs
<1>3. \A l \in Learners : learner'[l] = Idle /\ Idle.at = "idle"
  BY <1>1 DEF Idle
<1>4. KnowledgeTypes'
  BY <1>1, <1>2, <1>3 DEF KnowledgeTypes, LearnerTypes
<1>5. \A d \in DOMAIN indexed : Reflected(d)'
  BY <1>1, <1>2 DEF KnowledgeInv, Reflected
<1> QED  BY <1>1, <1>3, <1>4, <1>5 DEF KnowledgeInv, NoneBehind, Indexes

\* A task that is done with its documents, or goes on with the next, leaves the
\* others as they are.
LEMMA DoneIs ==
  ASSUME KnowledgeTypes, NEW l \in Learners, learner' = [learner EXCEPT ![l] = Idle]
  PROVE  /\ DOMAIN learner' = Learners /\ \A k \in Learners \ {l} : learner'[k] = learner[k]
         /\ learner'[l] = Idle /\ Idle.at = "idle"
BY DEF KnowledgeTypes, Idle

\* The object a task writes to keeps its place.
LEMMA WrittenIs ==
  ASSUME KnowledgeTypes, NEW o \in DOMAIN base, NEW after, base' = [base EXCEPT ![o] = after]
  PROVE  /\ \E S : base' \in Seq(S)
         /\ base' # <<>> /\ DOMAIN base' = DOMAIN base /\ Current' = Current /\ base'[o] = after
         /\ o # Current => base'[Current] = base[Current]
<1>1. PICK S : base \in Seq(S)
  BY DEF KnowledgeTypes
<1>2. base \in Seq(S \cup {after})
  BY <1>1, ElementOfSeq, LenProperties, SeqDef
<1>3. base' \in Seq(S \cup {after}) /\ DOMAIN base' = DOMAIN base
  BY <1>2, ExceptSeq
<1>4. Len(base') = Len(base) /\ Len(base) \in Nat /\ DOMAIN base = 1 .. Len(base)
  BY <1>2, <1>3, LenProperties
<1>5. base' # <<>>
  BY <1>3, <1>4, EmptySeq DEF KnowledgeTypes
<1> QED  BY <1>3, <1>4, <1>5 DEF Current

\* The save fails: the document is at risk, or all of them are.
LEMMA SaveFailsKeeps ==
  ASSUME KnowledgeInv, NEW l \in Learners, learner[l].at = "embedding", NEW doc,
         base' = [base EXCEPT ![learner[l].object] = Added(base[learner[l].object], Head(learner[l].docs), doc)],
         disk' \in {disk, Torn}, learner' = [learner EXCEPT ![l] = Idle],
         risked' = IF disk' = Torn THEN DocIds ELSE risked \cup {Head(learner[l].docs)},
         indexed' = Spared(indexed), text' = text
  PROVE  KnowledgeInv'
<1> DEFINE o == learner[l].object
           d == Head(learner[l].docs)
           after == Added(base[o], d, doc)
<1>1. KnowledgeTypes /\ o \in DOMAIN base
  BY DEF KnowledgeInv, KnowledgeTypes, LearnerTypes
<1>2. /\ base' = [base EXCEPT ![o] = after]
      /\ risked' = IF disk' = Torn THEN DocIds ELSE risked \cup {d}
  OBVIOUS
<1>3. \A e \in DOMAIN base[o] \ {d} : e \in DOMAIN after /\ after[e] = base[o][e]
  BY DEF Added
<1> HIDE DEF o, d, after
<1>4. /\ \E S : base' \in Seq(S)
      /\ base' # <<>> /\ DOMAIN base' = DOMAIN base /\ Current' = Current /\ base'[o] = after
      /\ o # Current => base'[Current] = base[Current]
  BY <1>1, <1>2, WrittenIs
<1>5. /\ DOMAIN learner' = Learners /\ \A k \in Learners \ {l} : learner'[k] = learner[k]
      /\ learner'[l] = Idle /\ Idle.at = "idle"
  BY <1>1, DoneIs
<1>6. DOMAIN indexed' = DOMAIN indexed \ risked' /\ \A e \in DOMAIN indexed' : indexed'[e] = indexed[e]
  BY DEF Spared
<1>7. KnowledgeTypes'
  <2>1. ASSUME NEW k \in Learners PROVE LearnerTypes(k)'
    BY <1>1, <1>4, <1>5 DEF KnowledgeTypes, LearnerTypes
  <2> QED  BY <1>1, <1>2, <1>4, <1>5, <1>6, <2>1 DEF KnowledgeTypes
<1>8. CASE disk' = Torn
  <2>1. DOMAIN indexed' = {} /\ DocIds \ risked' = {}
    BY <1>1, <1>2, <1>6, <1>8 DEF KnowledgeTypes
  <2> QED  BY <1>7, <2>1 DEF KnowledgeInv
<1>9. CASE disk' # Torn
  <2>1. disk' = disk /\ risked' = risked \cup {d}
    BY <1>2, <1>9
  <2>2. ASSUME NEW e \in DOMAIN indexed' PROVE Reflected(e)'
    <3>1. Reflected(e) /\ e # d
      BY <1>6, <2>1 DEF KnowledgeInv
    <3>2. e \in DOMAIN base'[Current] /\ base'[Current][e] = base[Current][e]
      BY <1>3, <1>4, <3>1 DEF Reflected
    <3> QED  BY <1>4, <1>6, <2>1, <3>1, <3>2 DEF Reflected
  <2>3. ASSUME NEW e \in DocIds \ risked' PROVE NoneBehind(e)'
    <3>1. NoneBehind(e)
      BY <2>1 DEF KnowledgeInv
    <3>2. \A k \in Learners : Indexes(k, e)' => Indexes(k, e) /\ learner'[k] = learner[k]
      BY <1>5 DEF Indexes
    <3> QED  BY <1>6, <3>1, <3>2 DEF NoneBehind
  <2> QED  BY <1>7, <2>2, <2>3 DEF KnowledgeInv
<1> QED  BY <1>8, <1>9

\* The save succeeds: the document is known, and reported unless it is at risk.
LEMMA SavedKeeps ==
  ASSUME KnowledgeInv, NEW l \in Learners, learner[l].at = "embedding", NEW dims,
         NEW o, o = learner[l].object, NEW d, d = Head(learner[l].docs),
         NEW doc, doc = [version |-> learner[l].version, dims |-> dims],
         NEW next, next \in Seq(DocIds), Embed(l, o, next),
         base' = [base EXCEPT ![o] = Added(base[o], d, doc)],
         disk' = Whole(Added(base[o], d, doc)),
         risked' = risked \cup (IF o # Current THEN DocIds ELSE {})
                          \cup (IF next # <<>> /\ Contested(Head(next)) # {} THEN {Head(next)} ELSE {}),
         indexed' = Spared(Newest(d, doc)), text' = text
  PROVE  KnowledgeInv'
<1> DEFINE after == Added(base[o], d, doc)
<1>1. /\ KnowledgeTypes /\ o \in DOMAIN base /\ d \in DocIds /\ doc.version = learner[l].version /\ doc.version \in Nat
      /\ doc.version <= text[d] /\ Indexes(l, d)
  BY HeadTailProperties DEF KnowledgeInv, KnowledgeTypes, LearnerTypes, Indexes
<1>2. base' = [base EXCEPT ![o] = after] /\ disk'.documents = after
  BY DEF Whole
<1>3. /\ \A e \in DOMAIN base[o] \ {d} : e \in DOMAIN after /\ after[e] = base[o][e]
      /\ d \in DOMAIN after /\ after[d] = doc
  BY DEF Added
<1> HIDE DEF after
<1>4. /\ \E S : base' \in Seq(S)
      /\ base' # <<>> /\ DOMAIN base' = DOMAIN base /\ Current' = Current /\ base'[o] = after
  BY <1>1, <1>2, WrittenIs
<1>5. /\ DOMAIN learner' = Learners /\ \A k \in Learners \ {l} : learner'[k] = learner[k]
      /\ \/ next = <<>> /\ learner'[l] = Idle /\ Idle.at = "idle"
         \/ /\ next # <<>> /\ learner'[l].at = "embedding" /\ DOMAIN learner'[l] = Embedding
            /\ learner'[l].object = o /\ learner'[l].docs = next /\ learner'[l].version = text[Head(next)]
            /\ Head(next) \in DocIds /\ text[Head(next)] \in Nat
  <2>1. CASE next = <<>>
    <3>1. learner' = [learner EXCEPT ![l] = Idle]
      BY <2>1 DEF Embed
    <3> QED  BY <1>1, <2>1, <3>1, DoneIs
  <2>2. CASE next # <<>>
    BY <1>1, <2>2, EmbedIs
  <2> QED  BY <2>1, <2>2
<1>6. /\ risked \subseteq risked' /\ (o # Current => DocIds \subseteq risked')
      /\ next # <<>> /\ Head(next) \notin risked' => Contested(Head(next)) = {}
  OBVIOUS
<1>7. /\ DOMAIN indexed' = (DOMAIN indexed \cup {d}) \ risked'
      /\ \A e \in DOMAIN indexed' :
            indexed'[e] = IF e # d \/ (e \in DOMAIN indexed /\ indexed[e].version > doc.version) THEN indexed[e] ELSE doc
  BY DEF Spared, Newest
<1>8. \A e \in DOMAIN indexed' :
         indexed'[e] = IF e = d THEN doc ELSE indexed[e]
  <2> SUFFICES ASSUME NEW e \in DOMAIN indexed' PROVE indexed'[e] = IF e = d THEN doc ELSE indexed[e]
    OBVIOUS
  <2>1. CASE e = d
    <3>1. e \in DOMAIN indexed => learner[l].version >= indexed[e].version /\ indexed[e].version \in Nat
      <4>1. d \notin risked
        BY <1>6, <1>7, <2>1
      <4> QED  BY <1>1, <2>1, <4>1 DEF KnowledgeInv, KnowledgeTypes, NoneBehind
    <3>2. ~(e \in DOMAIN indexed /\ indexed[e].version > doc.version)
      BY <1>1, <3>1
    <3> QED  BY <1>7, <2>1, <3>2
  <2>2. CASE e # d
    BY <1>7, <2>2
  <2> QED  BY <2>1, <2>2
<1>9. KnowledgeTypes'
  <2>1. ASSUME NEW k \in Learners PROVE LearnerTypes(k)'
    <3>1. CASE k # l
      BY <1>1, <1>4, <1>5, <3>1 DEF KnowledgeTypes, LearnerTypes
    <3>2. CASE k = l /\ next = <<>>
      BY <1>5, <3>2 DEF LearnerTypes
    <3>3. CASE k = l /\ next # <<>>
      BY <1>1, <1>4, <1>5, <3>3 DEF LearnerTypes
    <3> QED  BY <3>1, <3>2, <3>3
  <2>2. DOMAIN indexed' \subseteq DocIds \ risked'
    BY <1>1, <1>7 DEF KnowledgeTypes
  <2>3. \A e \in DOMAIN indexed' : indexed'[e].version \in Nat /\ indexed'[e].version <= text'[e]
    BY <1>1, <1>7, <1>8 DEF KnowledgeTypes
  <2> QED  BY <1>1, <1>4, <1>5, <2>1, <2>2, <2>3 DEF KnowledgeTypes
<1>10. ASSUME NEW e \in DOMAIN indexed' PROVE Reflected(e)'
  <2>1. o = Current /\ e \notin risked
    BY <1>1, <1>6, <1>7, <1>10 DEF KnowledgeTypes
  <2>2. base'[Current'] = after /\ disk'.documents = after
    BY <1>2, <1>4, <2>1
  <2>3. CASE e = d
    BY <1>3, <1>8, <2>2, <2>3 DEF Reflected
  <2>4. CASE e # d
    <3>1. e \in DOMAIN indexed /\ Reflected(e)
      BY <1>7, <2>4 DEF KnowledgeInv
    <3>2. e \in DOMAIN after /\ after[e] = base[o][e]
      BY <1>3, <2>1, <2>4, <3>1 DEF Reflected
    <3> QED  BY <1>8, <2>1, <2>2, <2>4, <3>1, <3>2 DEF Reflected
  <2> QED  BY <2>3, <2>4
<1>11. ASSUME NEW e \in DocIds \ risked' PROVE NoneBehind(e)'
  <2>1. NoneBehind(e)
    BY <1>6 DEF KnowledgeInv
  <2>2. \A k \in Learners \ {l} : Indexes(k, e)' <=> Indexes(k, e)
    BY <1>5 DEF Indexes
  <2>3. Indexes(l, e)' => next # <<>> /\ e = Head(next) /\ learner'[l].version = text[e]
    BY <1>5 DEF Indexes
  <2>4. Indexes(l, e)' => \A k \in Learners \ {l} : ~Indexes(k, e)
    BY <1>6, <2>3 DEF Contested, Indexes
  <2>5. \A k, j \in Learners : Indexes(k, e)' /\ Indexes(j, e)' => k = j
    BY <2>1, <2>2, <2>4 DEF NoneBehind
  <2>6. ASSUME e \in DOMAIN indexed', NEW k \in Learners, Indexes(k, e)' PROVE learner'[k].version >= indexed'[e].version
    <3>1. CASE k = l
      <4>1. indexed'[e].version <= text[e] /\ indexed'[e].version \in Nat /\ text[e] \in Nat
        BY <1>1, <1>7, <1>8, <2>6 DEF KnowledgeTypes
      <4> QED  BY <2>3, <2>6, <3>1, <4>1
    <3>2. CASE k # l
      <4>1. Indexes(k, e) /\ learner'[k] = learner[k] /\ e # d
        BY <1>1, <1>5, <2>1, <2>2, <2>6, <3>2 DEF NoneBehind
      <4>2. e \in DOMAIN indexed /\ indexed'[e] = indexed[e]
        BY <1>7, <1>8, <2>6, <4>1
      <4> QED  BY <2>1, <4>1, <4>2 DEF NoneBehind
    <3> QED  BY <3>1, <3>2
  <2> QED  BY <2>5, <2>6 DEF NoneBehind
<1> QED  BY <1>9, <1>10, <1>11 DEF KnowledgeInv

LEMMA StoreKeeps == ASSUME KnowledgeInv, NEW l \in Learners, Store(l) PROVE KnowledgeInv'
<1> DEFINE o == learner[l].object
           d == Head(learner[l].docs)
           next == IF Len(learner[l].docs) = 1 THEN <<>> ELSE Tail(learner[l].docs)
<1>1. PICK e \in Dims(mishaps) :
        LET doc == [version |-> learner[l].version, dims |-> e.dims]
            after == Added(base[o], d, doc)
        IN /\ base' = [base EXCEPT ![o] = after]
           /\ \/ /\ disk' = Whole(after) /\ Embed(l, o, next)
                 /\ risked' = risked \cup (IF o # Current THEN DocIds ELSE {})
                               \cup (IF next # <<>> /\ Contested(Head(next)) # {} THEN {Head(next)} ELSE {})
                 /\ indexed' = Spared(Newest(d, doc))
              \/ /\ disk' \in {disk, Torn} /\ learner' = [learner EXCEPT ![l] = Idle]
                 /\ risked' = IF disk' = Torn THEN DocIds ELSE risked \cup {d}
                 /\ indexed' = Spared(indexed)
  BY DEF Store
<1> DEFINE doc == [version |-> learner[l].version, dims |-> e.dims]
           after == Added(base[o], d, doc)
<1>2. learner[l].at = "embedding" /\ text' = text /\ base' = [base EXCEPT ![o] = after]
  BY <1>1 DEF Store
<1>3. \/ /\ disk' = Whole(after) /\ Embed(l, o, next)
         /\ risked' = risked \cup (IF o # Current THEN DocIds ELSE {})
                       \cup (IF next # <<>> /\ Contested(Head(next)) # {} THEN {Head(next)} ELSE {})
         /\ indexed' = Spared(Newest(d, doc))
      \/ /\ disk' \in {disk, Torn} /\ learner' = [learner EXCEPT ![l] = Idle]
         /\ risked' = IF disk' = Torn THEN DocIds ELSE risked \cup {d}
         /\ indexed' = Spared(indexed)
  BY <1>1
<1>4. next \in Seq(DocIds)
  <2>1. learner[l].docs \in Seq(DocIds) /\ learner[l].docs # <<>>
    BY <1>2 DEF KnowledgeInv, KnowledgeTypes, LearnerTypes
  <2> QED  BY <2>1, HeadTailProperties
<1> HIDE DEF next, doc
<1>5. CASE /\ disk' = Whole(after) /\ Embed(l, o, next)
           /\ risked' = risked \cup (IF o # Current THEN DocIds ELSE {})
                         \cup (IF next # <<>> /\ Contested(Head(next)) # {} THEN {Head(next)} ELSE {})
           /\ indexed' = Spared(Newest(d, doc))
  <2>1. doc = [version |-> learner[l].version, dims |-> e.dims]
    BY DEF doc
  <2> QED  BY <1>2, <1>4, <1>5, <2>1, SavedKeeps
<1>6. CASE /\ disk' \in {disk, Torn} /\ learner' = [learner EXCEPT ![l] = Idle]
           /\ risked' = IF disk' = Torn THEN DocIds ELSE risked \cup {d}
           /\ indexed' = Spared(indexed)
  BY <1>2, <1>6, SaveFailsKeeps
<1> QED  BY <1>3, <1>5, <1>6

LEMMA KnowledgeStep == KnowledgeInv /\ KnowledgeNext => KnowledgeInv'
BY ReviseKeeps, LearnKeeps, StoreKeeps, ReloadKnowledgeKeeps, RestartKnowledgeKeeps DEF KnowledgeNext

----------------------------------------------------------------------------
(* Accounts                                                                *)

Addresses == Emails \cup {GithubEmail(p) : p \in Profiles}
Providers == {"local", "google", "github"}
Rows == [role : Roles, provider : Providers, password : BOOLEAN]
HandlerStates ==
    [at : {"idle"}]
    \cup [at : {"create"}, email : Addresses, provider : Providers, password : BOOLEAN,
          organised : BOOLEAN, role : {"admin", "viewer"}]
    \cup [at : {"link"}, email : Addresses, provider : Providers]
    \cup [at : {"role"}, actor : Addresses, target : Addresses, role : Roles]

AccountsTypes ==
    /\ DOMAIN users \subseteq Addresses /\ users \in [DOMAIN users -> Rows]
    /\ organised \in BOOLEAN /\ crossed \in BOOLEAN /\ crowned \in {0, 1}
    /\ handler \in [Handlers -> HandlerStates]

\* What a request has read of the accounts is still so, or the tables refuse its write.
ReadingHolds(h) ==
    LET r == handler[h]
    IN /\ r.at = "create" => /\ r.role = "admin" => ~r.organised
                             /\ DOMAIN users = {} => r.role = "admin"
       /\ r.at = "link" => r.email \in DOMAIN users
       /\ r.at = "role" => r.actor # r.target /\ {r.actor, r.target} \subseteq DOMAIN users

AccountsInv ==
    /\ AccountsTypes
    /\ organised <=> DOMAIN users # {}
    /\ ~organised => crowned = 0
    /\ \A h \in Handlers : ReadingHolds(h)
    /\ AdminRemains

----------------------------------------------------------------------------
LEMMA RolesAre == Roles = {"viewer", "responder", "commander", "admin"}
BY DEF Roles, Level

\* Only the highest role permits what administrators may do.
LEMMA AdminPermitted ==
  ASSUME AccountsTypes, NEW e, Permitted(e, "admin")
  PROVE  e \in DOMAIN users /\ users[e].role = "admin"
BY RolesAre DEF Permitted, Registered, AccountsTypes, Rows, Level

LEMMA AccountsInitInv == AccountsInit => AccountsInv
<1> SUFFICES ASSUME AccountsInit PROVE AccountsInv
  OBVIOUS
<1>1. DOMAIN users = {} /\ users \in [DOMAIN users -> Rows]
  BY DEF AccountsInit
<1>2. handler = [h \in Handlers |-> Waiting] /\ organised = FALSE /\ crossed = FALSE /\ crowned = 0
  BY DEF AccountsInit
<1>3. Waiting \in HandlerStates /\ Waiting.at = "idle"
  BY DEF Waiting, HandlerStates
<1>4. handler \in [Handlers -> HandlerStates] /\ \A h \in Handlers : handler[h].at = "idle"
  BY <1>2, <1>3
<1> QED  BY <1>1, <1>2, <1>4 DEF AccountsInv, AccountsTypes, ReadingHolds, AdminRemains

LEMMA AccountsUnchanged == AccountsInv /\ UNCHANGED accountVars => AccountsInv'
BY DEF AccountsInv, AccountsTypes, ReadingHolds, AdminRemains, accountVars

\* A request that reads: what it has read holds of the accounts it was read from.
LEMMA AccountsRead ==
  ASSUME AccountsInv, NEW h \in Handlers, NEW r \in HandlerStates,
         UNCHANGED <<users, organised, crowned, crossed>>,
         handler' = [handler EXCEPT ![h] = r],
         r.at = "create" => (r.role = "admin" => ~r.organised) /\ (DOMAIN users = {} => r.role = "admin"),
         r.at = "link" => r.email \in DOMAIN users,
         r.at = "role" => r.actor # r.target /\ {r.actor, r.target} \subseteq DOMAIN users
  PROVE  AccountsInv'
<1>1. AccountsTypes'
  BY DEF AccountsInv, AccountsTypes
<1>2. \A g \in Handlers : ReadingHolds(g)'
  BY DEF AccountsInv, AccountsTypes, ReadingHolds
<1> QED  BY <1>1, <1>2 DEF AccountsInv, AdminRemains

\* A user that is about to be created is administrator if there is no other yet.
LEMMA ReadingType ==
  ASSUME AccountsInv, NEW e \in Addresses, NEW p \in Providers, NEW w \in BOOLEAN
  PROVE  LET r == Reading(e, p, w)
         IN /\ r \in HandlerStates /\ r.at = "create"
            /\ r.role = "admin" => ~r.organised
            /\ DOMAIN users = {} => r.role = "admin"
BY DEF Reading, HandlerStates, AccountsInv, AccountsTypes

LEMMA AccountsStart ==
  ASSUME AccountsInv, NEW h \in Handlers, Register(h) \/ OauthCallback(h) \/ StartRole(h)
  PROVE  AccountsInv'
<1>1. CASE Register(h)
  <2>1. PICK e \in Emails : handler' = [handler EXCEPT ![h] = Reading(e, "local", TRUE)]
    BY <1>1 DEF Register
  <2>2. e \in Addresses /\ UNCHANGED <<users, organised, crowned, crossed>>
    BY <1>1 DEF Register, Addresses
  <2> DEFINE r == Reading(e, "local", TRUE)
  <2>3. /\ r \in HandlerStates /\ r.at = "create"
        /\ r.role = "admin" => ~r.organised
        /\ DOMAIN users = {} => r.role = "admin"
    BY <2>2, ReadingType DEF Providers
  <2>4. handler' = [handler EXCEPT ![h] = r]
    BY <2>1
  <2> HIDE DEF r
  <2> QED  BY <2>2, <2>3, <2>4, AccountsRead
<1>2. CASE OauthCallback(h)
  <2>0. PICK p \in {"google", "github"} : \E e \in Exchanged(p) :
          \/ Registered(e) /\ handler' = [handler EXCEPT ![h] = [at |-> "link", email |-> e, provider |-> p]]
          \/ handler' = [handler EXCEPT ![h] = Reading(e, p, FALSE)]
    BY <1>2 DEF OauthCallback
  <2>1. PICK e \in Exchanged(p) :
          \/ Registered(e) /\ handler' = [handler EXCEPT ![h] = [at |-> "link", email |-> e, provider |-> p]]
          \/ handler' = [handler EXCEPT ![h] = Reading(e, p, FALSE)]
    BY <2>0
  <2>2. e \in Addresses /\ p \in Providers /\ UNCHANGED <<users, organised, crowned, crossed>>
    BY <1>2 DEF OauthCallback, Addresses, Providers, Exchanged
  <2>3. CASE Registered(e) /\ handler' = [handler EXCEPT ![h] = [at |-> "link", email |-> e, provider |-> p]]
    <3> DEFINE r == [at |-> "link", email |-> e, provider |-> p]
    <3>1. r \in HandlerStates /\ r.at = "link" /\ r.email \in DOMAIN users
      BY <2>2, <2>3 DEF HandlerStates, Registered
    <3>2. handler' = [handler EXCEPT ![h] = r]
      BY <2>3
    <3> HIDE DEF r
    <3> QED  BY <2>2, <3>1, <3>2, AccountsRead
  <2>4. CASE handler' = [handler EXCEPT ![h] = Reading(e, p, FALSE)]
    <3> DEFINE r == Reading(e, p, FALSE)
    <3>1. /\ r \in HandlerStates /\ r.at = "create"
          /\ r.role = "admin" => ~r.organised
          /\ DOMAIN users = {} => r.role = "admin"
      BY <2>2, ReadingType
    <3>2. handler' = [handler EXCEPT ![h] = r]
      BY <2>4
    <3> HIDE DEF r
    <3> QED  BY <2>2, <3>1, <3>2, AccountsRead
  <2> QED  BY <2>1, <2>3, <2>4
<1>3. CASE StartRole(h)
  <2>1. PICK a \in DOMAIN users, b \in DOMAIN users, n \in Roles :
          a # b /\ handler' = [handler EXCEPT ![h] = [at |-> "role", actor |-> a, target |-> b, role |-> n]]
    BY <1>3 DEF StartRole
  <2>2. UNCHANGED <<users, organised, crowned, crossed>> /\ a \in Addresses /\ b \in Addresses
    BY <1>3 DEF StartRole, AccountsInv, AccountsTypes
  <2> DEFINE r == [at |-> "role", actor |-> a, target |-> b, role |-> n]
  <2>3. r \in HandlerStates /\ r.at = "role" /\ r.actor # r.target /\ {r.actor, r.target} \subseteq DOMAIN users
    BY <2>1, <2>2 DEF HandlerStates
  <2>4. handler' = [handler EXCEPT ![h] = r]
    BY <2>1
  <2> HIDE DEF r
  <2> QED  BY <2>2, <2>3, <2>4, AccountsRead
<1> QED  BY <1>1, <1>2, <1>3

\* A change of a row keeps the accounts there are.
LEMMA AccountsLink == ASSUME AccountsInv, NEW h \in Handlers, Link(h) PROVE AccountsInv'
<1> DEFINE e == handler[h].email
<1>1. e \in DOMAIN users /\ handler[h].provider \in Providers
  BY DEF Link, AccountsInv, AccountsTypes, ReadingHolds, HandlerStates
<1>2. UNCHANGED <<organised, crowned, crossed>> /\ handler' = [handler EXCEPT ![h] = Waiting]
  BY DEF Link, Answer
<1>3. users' = [users EXCEPT ![e] = [@ EXCEPT !["provider"] = handler[h].provider]]
  BY DEF Link, Update
<1>4. [users[e] EXCEPT !["provider"] = handler[h].provider] \in Rows
  BY <1>1 DEF AccountsInv, AccountsTypes, Rows
<1>5. /\ DOMAIN users' = DOMAIN users /\ users' \in [DOMAIN users -> Rows]
      /\ \A d \in DOMAIN users : users'[d].role = users[d].role
  BY <1>1, <1>3, <1>4 DEF AccountsInv, AccountsTypes, Rows
<1>6. handler' \in [Handlers -> HandlerStates]
  BY <1>2 DEF AccountsInv, AccountsTypes, HandlerStates, Waiting
<1>7. \A g \in Handlers : ReadingHolds(g)'
  BY <1>2, <1>5 DEF AccountsInv, AccountsTypes, ReadingHolds, Waiting
<1> QED  BY <1>2, <1>5, <1>6, <1>7 DEF AccountsInv, AccountsTypes, AdminRemains

\* The tables keep a second first administrator out.
LEMMA AccountsCreate == ASSUME AccountsInv, NEW h \in Handlers, Create(h) PROVE AccountsInv'
<1> DEFINE r == handler[h]
           row == [role |-> r.role, provider |-> r.provider, password |-> r.password]
<1>1. /\ r \in [at : {"create"}, email : Addresses, provider : Providers, password : BOOLEAN,
                organised : BOOLEAN, role : {"admin", "viewer"}]
      /\ r.role = "admin" => ~r.organised
      /\ DOMAIN users = {} => r.role = "admin"
  BY DEF Create, AccountsInv, AccountsTypes, ReadingHolds, HandlerStates
<1>2. UNCHANGED crossed /\ handler' = [handler EXCEPT ![h] = Waiting]
  BY DEF Create, Answer
<1>3. handler' \in [Handlers -> HandlerStates]
  BY <1>2 DEF AccountsInv, AccountsTypes, HandlerStates, Waiting
<1>4. CASE Refused(r)
  <2>1. UNCHANGED <<users, organised, crowned>>
    BY <1>4 DEF Create
  <2>2. \A g \in Handlers : ReadingHolds(g)'
    BY <1>2, <2>1 DEF AccountsInv, AccountsTypes, ReadingHolds, Waiting
  <2> QED  BY <1>2, <1>3, <2>1, <2>2 DEF AccountsInv, AccountsTypes, AdminRemains
<1>5. CASE ~Refused(r)
  <2>1. /\ users' = [e \in DOMAIN users \cup {r.email} |-> IF e = r.email THEN row ELSE users[e]]
        /\ organised' = TRUE
        /\ crowned' = crowned + IF r.role = "admin" THEN 1 ELSE 0
    BY <1>5 DEF Create
  <2>2. r.email \notin DOMAIN users /\ (r.organised \/ ~organised)
    BY <1>5 DEF Refused, Registered
  <2>3. row \in Rows /\ row.role = r.role
    BY <1>1, RolesAre DEF Rows
  <2> HIDE DEF row
  <2>4. /\ DOMAIN users' = DOMAIN users \cup {r.email}
        /\ users' \in [DOMAIN users' -> Rows]
        /\ users'[r.email].role = r.role
        /\ \A d \in DOMAIN users : users'[d] = users[d]
    BY <2>1, <2>2, <2>3 DEF AccountsInv, AccountsTypes
  <2>5. DOMAIN users' \subseteq Addresses /\ DOMAIN users' # {}
    BY <1>1, <2>4 DEF AccountsInv, AccountsTypes
  <2>6. crowned' \in {0, 1}
    BY <1>1, <2>1, <2>2 DEF AccountsInv, AccountsTypes
  <2>7. AdminRemains'
    <3> SUFFICES ASSUME ~crossed PROVE \E e \in DOMAIN users' : users'[e].role = "admin"
      BY <1>2 DEF AdminRemains
    <3>1. CASE DOMAIN users = {}
      BY <1>1, <2>4, <3>1
    <3>2. CASE DOMAIN users # {}
      <4>1. PICK e \in DOMAIN users : users[e].role = "admin"
        BY <3>2 DEF AccountsInv, AdminRemains
      <4> QED  BY <2>4, <4>1
    <3> QED  BY <3>1, <3>2
  <2>8. \A g \in Handlers : ReadingHolds(g)'
    <3> SUFFICES ASSUME NEW g \in Handlers PROVE ReadingHolds(g)'
      OBVIOUS
    <3>1. CASE g = h
      BY <1>2, <3>1 DEF AccountsInv, AccountsTypes, ReadingHolds, Waiting
    <3>2. CASE g # h
      <4>1. handler'[g] = handler[g] /\ ReadingHolds(g)
        BY <1>2, <3>2 DEF AccountsInv, AccountsTypes
      <4> QED  BY <2>4, <2>5, <4>1 DEF ReadingHolds
    <3> QED  BY <3>1, <3>2
  <2>9. AccountsTypes'
    BY <1>2, <1>3, <2>1, <2>4, <2>5, <2>6 DEF AccountsInv, AccountsTypes
  <2> QED  BY <2>1, <2>5, <2>7, <2>8, <2>9 DEF AccountsInv
<1> QED  BY <1>4, <1>5

\* An administrator who is one when the change is committed remains one.
LEMMA AccountsRole == ASSUME AccountsInv, NEW h \in Handlers, CommitRole(h) PROVE AccountsInv'
<1> DEFINE r == handler[h]
<1>1. /\ r.role \in Roles /\ r.actor # r.target
      /\ r.actor \in DOMAIN users /\ r.target \in DOMAIN users
  BY DEF CommitRole, AccountsInv, AccountsTypes, ReadingHolds, HandlerStates
<1>2. /\ UNCHANGED <<organised, crowned>> /\ handler' = [handler EXCEPT ![h] = Waiting]
      /\ crossed' = (crossed \/ ~Permitted(r.actor, "admin"))
  BY DEF CommitRole, Answer
<1>3. users' = [users EXCEPT ![r.target] = [@ EXCEPT !["role"] = r.role]]
  BY DEF CommitRole, Update
<1>4. [users[r.target] EXCEPT !["role"] = r.role] \in Rows
  BY <1>1 DEF AccountsInv, AccountsTypes, Rows
<1>5. /\ DOMAIN users' = DOMAIN users /\ users' \in [DOMAIN users -> Rows]
      /\ \A d \in DOMAIN users \ {r.target} : users'[d] = users[d]
  BY <1>1, <1>3, <1>4 DEF AccountsInv, AccountsTypes
<1>6. handler' \in [Handlers -> HandlerStates]
  BY <1>2 DEF AccountsInv, AccountsTypes, HandlerStates, Waiting
<1>7. \A g \in Handlers : ReadingHolds(g)'
  BY <1>2, <1>5 DEF AccountsInv, AccountsTypes, ReadingHolds, Waiting
<1>8. AdminRemains'
  <2> SUFFICES ASSUME ~crossed' PROVE \E e \in DOMAIN users' : users'[e].role = "admin"
    BY DEF AdminRemains
  <2>1. Permitted(r.actor, "admin")
    BY <1>2
  <2>2. users[r.actor].role = "admin"
    BY <2>1, AdminPermitted DEF AccountsInv
  <2> QED  BY <1>1, <1>5, <2>2
<1>9. AccountsTypes'
  BY <1>2, <1>5, <1>6 DEF AccountsInv, AccountsTypes
<1> QED  BY <1>2, <1>5, <1>7, <1>8, <1>9 DEF AccountsInv

\* Every step of a request keeps AccountsInv.
LEMMA AccountsStep == AccountsInv /\ AccountsNext => AccountsInv'
BY AccountsStart, AccountsLink, AccountsCreate, AccountsRole DEF AccountsNext

\* One first administrator, and one that remains.
LEMMA AccountsInvSound == AccountsInv => OneFirst /\ AdminRemains
BY DEF AccountsInv, AccountsTypes, OneFirst

----------------------------------------------------------------------------
(* Sessions                                                                *)

Seconds == 0 .. MaxClock
Pairs == {NoPair} \cup {Pair(s) : s \in Seconds}
HandStates == {"sent", "checked", "answered"}
AtRest == [at : {"idle", "waiting", "refused", "start"}]
Refreshing == [at : HandStates, refresh : Seconds, starting : BOOLEAN]
Requesting == [at : {"request"}, access : Seconds]

SessionsTypes ==
    /\ clock \in Seconds /\ timer \in BOOLEAN /\ refreshing \in BOOLEAN
    /\ ended \in BOOLEAN /\ late \in BOOLEAN
    /\ store \in Pairs /\ local \in Pairs
    /\ proc \in [Procs -> AtRest \cup Refreshing \cup Requesting]
    /\ used \in [Seconds -> Nat] /\ excused \in SUBSET Seconds

\* A token that was not excused is on the list once it was exchanged, and until then at
\* most one request has passed the look at the list with it.
Holds(p, s) == proc[p].at = "checked" /\ proc[p].refresh = s
TokensOnce == \A s \in Seconds \ excused :
    /\ used[s] = 0 \/ (used[s] = 1 /\ s \in blacklist)
    /\ \A p \in Procs : Holds(p, s) => used[s] = 0
    /\ \A p, q \in Procs : Holds(p, s) /\ Holds(q, s) => p = q

\* Nobody who is signed out has a token, here or on its way.
Handed(p) == proc[p].at \in HandStates
SignedOutEmpty == (ended /\ ~late) => (local = NoPair /\ store = NoPair /\ \A p \in Procs : ~Handed(p))

\* A refresh that calls wait for is some call's.
CallsServed ==
    /\ refreshing => \E c \in Calls : InFlight(c)
    /\ (\E c \in Calls : proc[c].at = "waiting") => refreshing

SessionsInv == SessionsTypes /\ TokensOnce /\ SignedOutEmpty /\ CallsServed

----------------------------------------------------------------------------
LEMMA SecondsAre == MaxClock \in Nat /\ Seconds \subseteq Nat /\ None \notin Seconds /\ 0 \in Seconds
BY LivesAssumption DEF Seconds, None

LEMMA PairsAre ==
  /\ NoPair \in Pairs /\ \A s \in Seconds : Pair(s) \in Pairs /\ Pair(s).refresh = s /\ Pair(s).access = s
  /\ \A x \in Pairs : /\ x.refresh \in Seconds \cup {None} /\ x.access \in Seconds \cup {None}
                      /\ x.refresh = None <=> x = NoPair
                      /\ x.access = None <=> x = NoPair
<1>1. NoPair \in Pairs /\ \A s \in Seconds : Pair(s) \in Pairs
  BY DEF Pairs
<1>2. \A s \in Seconds : Pair(s).refresh = s /\ Pair(s).access = s /\ s # None
  BY SecondsAre DEF Pair
<1>3. NoPair.refresh = None /\ NoPair.access = None
  BY DEF NoPair
<1>4. \A x \in Pairs : x = NoPair \/ \E s \in Seconds : x = Pair(s)
  BY DEF Pairs
<1> QED  BY <1>1, <1>2, <1>3, <1>4

LEMMA StatesAre ==
  /\ Calm \in AtRest /\ [at |-> "start"] \in AtRest /\ [at |-> "waiting"] \in AtRest
  /\ Failed \in AtRest /\ Failed.at = "refused"
  /\ \A s \in Seconds, b \in BOOLEAN : /\ Sent(s, b) \in Refreshing /\ Sent(s, b).at = "sent"
                                      /\ Sent(s, b).refresh = s
  /\ \A s \in Seconds : [at |-> "request", access |-> s] \in Requesting
  /\ Calm.at = "idle"
BY DEF Calm, Failed, AtRest, Refreshing, Requesting, Sent, HandStates

LEMMA ProcsAre == "store" \in Procs /\ Calls \subseteq Procs /\ "store" \notin Calls /\ "user" \notin Procs
BY LivesAssumption DEF Procs

LEMMA SessionsInitInv == SessionsInit => SessionsInv
<1> SUFFICES ASSUME SessionsInit PROVE SessionsInv
  OBVIOUS
<1>1. proc \in [Procs -> AtRest \cup Refreshing \cup Requesting] /\ \A p \in Procs : proc[p].at = "idle"
  BY StatesAre DEF SessionsInit
<1>2. used \in [Seconds -> Nat] /\ \A s \in Seconds : used[s] = 0
  BY DEF SessionsInit, Seconds
<1>3. SessionsTypes
  BY <1>1, <1>2, SecondsAre, PairsAre DEF SessionsInit, SessionsTypes
<1>4. TokensOnce
  BY <1>1, <1>2 DEF TokensOnce, Holds
<1>5. SignedOutEmpty /\ CallsServed
  BY <1>1, ProcsAre DEF SessionsInit, SignedOutEmpty, CallsServed, Handed, HandStates
<1> QED  BY <1>3, <1>4, <1>5 DEF SessionsInv

LEMMA SessionsUnchanged == SessionsInv /\ UNCHANGED sessionVars => SessionsInv'
<1> SUFFICES ASSUME SessionsInv, UNCHANGED sessionVars PROVE SessionsInv'
  OBVIOUS
<1>1. SessionsTypes' /\ SignedOutEmpty' /\ CallsServed'
  BY DEF SessionsInv, SessionsTypes, SignedOutEmpty, CallsServed, Handed, InFlight, sessionVars
<1>2. TokensOnce'
  BY DEF SessionsInv, TokensOnce, Holds, sessionVars
<1> QED  BY <1>1, <1>2 DEF SessionsInv

----------------------------------------------------------------------------
(* What keeps each part of the invariant                                   *)

\* A step that changes no token's uses, after which each request that has passed the look
\* at the list is one that had.
LEMMA TokensKept ==
  ASSUME SessionsTypes, TokensOnce, UNCHANGED serverVars,
         \A p \in Procs : proc'[p].at = "checked" => proc'[p] = proc[p]
  PROVE  TokensOnce'
BY DEF TokensOnce, Holds, serverVars

\* A step that hands nobody a token who is signed out.
LEMMA EmptyKept ==
  ASSUME SignedOutEmpty, UNCHANGED <<store, local, ended, late>>,
         \A p \in Procs : Handed(p)' => Handed(p) \/ local # NoPair \/ store # NoPair
  PROVE  SignedOutEmpty'
BY DEF SignedOutEmpty

\* Signing out empties the session, but for other refreshes on their way.
LEMMA EmptiedOut ==
  ASSUME SessionsTypes, SignedOutEmpty, NEW p, SignOut(p),
         \A q \in Procs : Handed(q)' => q # p /\ Handed(q)
  PROVE  SignedOutEmpty'
<1> SUFFICES ASSUME ended', ~late'
             PROVE  local' = NoPair /\ store' = NoPair /\ \A q \in Procs : ~Handed(q)'
  BY DEF SignedOutEmpty
<1>1. \A q \in Procs \ {p} : ~InFlight(q)
  BY DEF SignOut
<1>2. \A q \in Procs \ {p} : ~Handed(q)
  BY <1>1 DEF InFlight, Handed, HandStates
<1> QED  BY <1>2 DEF SignOut

\* A step after which the calls are where they were.
LEMMA ServedKept ==
  ASSUME CallsServed, UNCHANGED refreshing,
         \A c \in Calls : /\ InFlight(c) => InFlight(c)'
                          /\ proc'[c].at = "waiting" => proc[c].at = "waiting"
  PROVE  CallsServed'
BY DEF CallsServed

----------------------------------------------------------------------------
(* The server                                                              *)

LEMMA SessionsClock == ASSUME SessionsInv, Tick PROVE SessionsInv'
<1>1. clock' \in Seconds
  BY SecondsAre DEF Tick, SessionsInv, SessionsTypes, Seconds
<1>2. UNCHANGED <<serverVars, browserVars, proc>>
  BY DEF Tick
<1>3. SessionsTypes'
  BY <1>1, <1>2 DEF SessionsInv, SessionsTypes, serverVars, browserVars
<1>4. TokensOnce'
  BY <1>2, TokensKept DEF SessionsInv
<1>5. SignedOutEmpty'
  BY <1>2, EmptyKept DEF SessionsInv, browserVars, Handed
<1>6. CallsServed'
  BY <1>2, ServedKept DEF SessionsInv, browserVars, InFlight
<1> QED  BY <1>3, <1>4, <1>5, <1>6 DEF SessionsInv

\* A request that passes the look at the list with a token another one holds excuses it.
LEMMA SessionsCheck == ASSUME SessionsInv, NEW p \in Procs, Check(p) PROVE SessionsInv'
<1> DEFINE r == proc[p].refresh
           passed == [proc[p] EXCEPT !["at"] = "checked"]
<1>1. /\ proc[p] \in Refreshing /\ r \in Seconds
      /\ proc' = [proc EXCEPT ![p] = IF r \in blacklist THEN Failed ELSE passed]
      /\ UNCHANGED <<clock, blacklist, used, browserVars>>
      /\ excused' = IF \E q \in Procs \ {p} : proc[q].at = "checked" /\ proc[q].refresh = r
                    THEN excused \cup {r} ELSE excused
  BY DEF Check, SessionsInv, SessionsTypes, AtRest, Refreshing, Requesting
<1>2. passed \in Refreshing /\ passed.at = "checked" /\ passed.refresh = r
  BY <1>1 DEF Refreshing, HandStates
<1> HIDE DEF passed
<1>3. /\ proc' \in [Procs -> AtRest \cup Refreshing \cup Requesting]
      /\ IF r \in blacklist THEN proc'[p].at = "refused" ELSE proc'[p].at = "checked" /\ proc'[p].refresh = r
      /\ \A q \in Procs \ {p} : proc'[q] = proc[q]
  BY <1>1, <1>2, StatesAre DEF SessionsInv, SessionsTypes
<1>4. excused' \in SUBSET Seconds /\ excused \subseteq excused'
  BY <1>1 DEF SessionsInv, SessionsTypes
<1>5. SessionsTypes'
  BY <1>1, <1>3, <1>4 DEF SessionsInv, SessionsTypes, browserVars
<1>6. TokensOnce'
  <2> SUFFICES ASSUME NEW s \in Seconds \ excused'
               PROVE  /\ used[s] = 0 \/ (used[s] = 1 /\ s \in blacklist)
                      /\ \A q \in Procs : Holds(q, s)' => used[s] = 0
                      /\ \A q, o \in Procs : Holds(q, s)' /\ Holds(o, s)' => q = o
    BY <1>1 DEF TokensOnce
  <2>1. s \in Seconds \ excused
    BY <1>4
  <2>2. /\ used[s] = 0 \/ (used[s] = 1 /\ s \in blacklist)
        /\ \A q \in Procs : Holds(q, s) => used[s] = 0
        /\ \A q, o \in Procs : Holds(q, s) /\ Holds(o, s) => q = o
    BY <2>1 DEF SessionsInv, TokensOnce
  <2>3. \A q \in Procs \ {p} : Holds(q, s)' => Holds(q, s)
    BY <1>3 DEF Holds
  <2>4. CASE Holds(p, s)'
    <3>1. s = r /\ r \notin blacklist
      BY <1>3, <2>4 DEF Holds
    <3>2. \A q \in Procs \ {p} : ~Holds(q, s)
      BY <1>1, <3>1 DEF Holds
    <3> QED  BY <2>2, <2>3, <3>1, <3>2
  <2>5. CASE ~Holds(p, s)'
    BY <2>2, <2>3, <2>5
  <2> QED  BY <2>4, <2>5
<1>7. SignedOutEmpty'
  <2>1. Handed(p)
    BY DEF Check, Handed, HandStates
  <2> QED  BY <1>1, <1>3, <2>1, EmptyKept DEF SessionsInv, browserVars, Handed
<1>8. CallsServed'
  BY <1>1, <1>3, ProcsAre, ServedKept DEF SessionsInv, browserVars, InFlight
<1> QED  BY <1>5, <1>6, <1>7, <1>8 DEF SessionsInv

\* The token is put on the list with its use.
LEMMA SessionsExchange == ASSUME SessionsInv, NEW p \in Procs, Exchange(p) PROVE SessionsInv'
<1> DEFINE r == proc[p].refresh
<1>1. /\ proc[p] \in Refreshing /\ r \in Seconds /\ Holds(p, r) /\ clock \in Seconds
      /\ UNCHANGED <<clock, excused, browserVars>>
      /\ blacklist' = blacklist \cup {r}
      /\ used' = [used EXCEPT ![r] = @ + 1]
      /\ proc' = [proc EXCEPT ![p] = [[@ EXCEPT !["at"] = "answered"] EXCEPT !["refresh"] = clock]]
  BY DEF Exchange, SessionsInv, SessionsTypes, AtRest, Refreshing, Requesting, Holds
<1>2. [[proc[p] EXCEPT !["at"] = "answered"] EXCEPT !["refresh"] = clock] \in Refreshing
  BY <1>1 DEF Refreshing, HandStates
<1>3. /\ proc' \in [Procs -> AtRest \cup Refreshing \cup Requesting]
      /\ proc'[p].at = "answered"
      /\ \A q \in Procs \ {p} : proc'[q] = proc[q]
  BY <1>1, <1>2 DEF SessionsInv, SessionsTypes, Refreshing
<1>4. /\ used' \in [Seconds -> Nat] /\ used'[r] = used[r] + 1
      /\ \A s \in Seconds \ {r} : used'[s] = used[s]
  BY <1>1 DEF SessionsInv, SessionsTypes
<1>5. SessionsTypes'
  BY <1>1, <1>3, <1>4 DEF SessionsInv, SessionsTypes, browserVars
<1>6. TokensOnce'
  <2> SUFFICES ASSUME NEW s \in Seconds \ excused
               PROVE  /\ used'[s] = 0 \/ (used'[s] = 1 /\ s \in blacklist')
                      /\ \A q \in Procs : Holds(q, s)' => used'[s] = 0
                      /\ \A q, o \in Procs : Holds(q, s)' /\ Holds(o, s)' => q = o
    BY <1>1 DEF TokensOnce
  <2>1. /\ used[s] = 0 \/ (used[s] = 1 /\ s \in blacklist)
        /\ \A q \in Procs : Holds(q, s) => used[s] = 0
        /\ \A q, o \in Procs : Holds(q, s) /\ Holds(o, s) => q = o
    BY DEF SessionsInv, TokensOnce
  <2>2. ~Holds(p, s)' /\ \A q \in Procs : Holds(q, s)' => Holds(q, s)
    BY <1>3 DEF Holds
  <2>3. CASE s = r
    <3>1. used[s] = 0 /\ \A q \in Procs : Holds(q, s) => q = p
      BY <1>1, <2>1, <2>3
    <3>2. \A q \in Procs : ~Holds(q, s)'
      BY <2>2, <3>1
    <3> QED  BY <1>1, <1>4, <2>3, <3>1, <3>2
  <2>4. CASE s # r
    BY <1>1, <1>4, <2>1, <2>2, <2>4
  <2> QED  BY <2>3, <2>4
<1>7. SignedOutEmpty'
  <2>1. Handed(p)
    BY <1>1 DEF Holds, Handed, HandStates
  <2> QED  BY <1>1, <1>3, <2>1, EmptyKept DEF SessionsInv, browserVars, Handed
<1>8. CallsServed'
  BY <1>1, <1>3, ProcsAre, ServedKept DEF SessionsInv, browserVars, InFlight
<1> QED  BY <1>5, <1>6, <1>7, <1>8 DEF SessionsInv

\* A request that is lost, or fails with the server, holds no token.
LEMMA SessionsLose == ASSUME SessionsInv, NEW p \in Procs, Lose(p) PROVE SessionsInv'
<1>1. /\ UNCHANGED <<clock, serverVars, browserVars>>
      /\ proc' = [proc EXCEPT ![p] = Failed]
  BY DEF Lose
<1>2. Handed(p)
  BY DEF Lose, Handed, HandStates
<1>3. /\ proc' \in [Procs -> AtRest \cup Refreshing \cup Requesting]
      /\ proc'[p].at = "refused"
      /\ \A q \in Procs \ {p} : proc'[q] = proc[q]
  BY <1>1, StatesAre DEF SessionsInv, SessionsTypes
<1>4. SessionsTypes'
  BY <1>1, <1>3 DEF SessionsInv, SessionsTypes, browserVars, serverVars
<1>5. TokensOnce'
  BY <1>1, <1>3, TokensKept DEF SessionsInv
<1>6. SignedOutEmpty'
  BY <1>1, <1>2, <1>3, EmptyKept DEF SessionsInv, browserVars, Handed, HandStates
<1>7. CallsServed'
  BY <1>1, <1>3, ProcsAre, ServedKept DEF SessionsInv, browserVars, InFlight
<1> QED  BY <1>4, <1>5, <1>6, <1>7 DEF SessionsInv

\* A server that starts again has no uses to remember, and no request.
LEMMA SessionsRestart == ASSUME SessionsInv, RestartServer PROVE SessionsInv'
<1>1. /\ UNCHANGED <<clock, browserVars>> /\ excused' = {}
      /\ proc' = [p \in Procs |-> IF AtServer(p) THEN Failed ELSE proc[p]]
  BY DEF RestartServer
<1>2. used' \in [Seconds -> Nat] /\ \A s \in Seconds : used'[s] = 0
  BY DEF RestartServer, SessionsInv, SessionsTypes
<1>3. /\ proc' \in [Procs -> AtRest \cup Refreshing \cup Requesting]
      /\ \A p \in Procs : proc'[p] = proc[p] \/ (proc'[p].at = "refused" /\ AtServer(p))
  BY <1>1, StatesAre DEF SessionsInv, SessionsTypes
<1>4. SessionsTypes'
  BY <1>1, <1>2, <1>3 DEF SessionsInv, SessionsTypes, browserVars
<1>5. TokensOnce'
  <2>1. \A p \in Procs : proc'[p].at # "checked"
    BY <1>1, StatesAre DEF AtServer
  <2> QED  BY <1>2, <2>1 DEF TokensOnce, Holds
<1>6. SignedOutEmpty'
  BY <1>1, <1>3, EmptyKept DEF SessionsInv, browserVars, Handed, HandStates
<1>7. CallsServed'
  BY <1>1, <1>3, ProcsAre, ServedKept DEF SessionsInv, browserVars, InFlight, AtServer
<1> QED  BY <1>4, <1>5, <1>6, <1>7 DEF SessionsInv

----------------------------------------------------------------------------
(* The store                                                               *)

\* A login gives the store its pair; a logout empties it.
LEMMA SessionsLog == ASSUME SessionsInv, Login \/ Logout PROVE SessionsInv'
<1>1. UNCHANGED <<clock, serverVars, refreshing, proc>>
  BY DEF Login, Logout
<1>2. TokensOnce'
  BY <1>1, TokensKept DEF SessionsInv
<1>3. CallsServed'
  BY <1>1, ServedKept DEF SessionsInv, InFlight
<1>4. CASE Login
  <2>1. SessionsTypes'
    BY <1>1, <1>4, PairsAre DEF Login, SessionsInv, SessionsTypes, serverVars
  <2>2. SignedOutEmpty'
    BY <1>4 DEF Login, SignedOutEmpty
  <2> QED  BY <1>2, <1>3, <2>1, <2>2 DEF SessionsInv
<1>5. CASE Logout
  <2>1. SessionsTypes'
    BY <1>1, <1>5, PairsAre DEF Logout, SignOut, SessionsInv, SessionsTypes, serverVars
  <2>2. SignedOutEmpty'
    BY <1>1, <1>5, ProcsAre, EmptiedOut DEF Logout, SessionsInv, Handed
  <2> QED  BY <1>2, <1>3, <2>1, <2>2 DEF SessionsInv
<1> QED  BY <1>4, <1>5

LEMMA SessionsRefresh == ASSUME SessionsInv, StoreRefresh PROVE SessionsInv'
<1>1. /\ UNCHANGED <<clock, serverVars, browserVars>> /\ store # NoPair
      /\ proc' = [proc EXCEPT !["store"] = Sent(store.refresh, FALSE)]
  BY DEF StoreRefresh
<1>2. store.refresh \in Seconds
  BY <1>1, PairsAre DEF SessionsInv, SessionsTypes
<1>3. /\ proc' \in [Procs -> AtRest \cup Refreshing \cup Requesting]
      /\ proc'["store"].at = "sent"
      /\ \A q \in Procs \ {"store"} : proc'[q] = proc[q]
  BY <1>1, <1>2, ProcsAre, StatesAre DEF SessionsInv, SessionsTypes
<1>4. SessionsTypes'
  BY <1>1, <1>3 DEF SessionsInv, SessionsTypes, browserVars, serverVars
<1>5. TokensOnce'
  BY <1>1, <1>3, TokensKept DEF SessionsInv
<1>6. SignedOutEmpty'
  BY <1>1, <1>3, EmptyKept DEF SessionsInv, browserVars, Handed
<1>7. CallsServed'
  BY <1>1, <1>3, ProcsAre, ServedKept DEF SessionsInv, browserVars, InFlight
<1> QED  BY <1>4, <1>5, <1>6, <1>7 DEF SessionsInv

\* The store's refresh ends, with a new pair or none.
LEMMA SessionsStoreEnd == ASSUME SessionsInv, StoreLand \/ StoreFail PROVE SessionsInv'
<1>1. /\ UNCHANGED <<clock, serverVars, refreshing>>
      /\ proc' = [proc EXCEPT !["store"] = Calm]
  BY DEF StoreLand, StoreFail
<1>2. /\ proc' \in [Procs -> AtRest \cup Refreshing \cup Requesting]
      /\ proc'["store"].at = "idle"
      /\ \A q \in Procs \ {"store"} : proc'[q] = proc[q]
  BY <1>1, ProcsAre, StatesAre DEF SessionsInv, SessionsTypes
<1>3. \A q \in Procs : Handed(q)' => q # "store" /\ Handed(q)
  BY <1>2 DEF Handed, HandStates
<1>4. TokensOnce'
  BY <1>1, <1>2, TokensKept DEF SessionsInv
<1>5. CallsServed'
  BY <1>1, <1>2, ProcsAre, ServedKept DEF SessionsInv, InFlight
<1>6. CASE SignOut("store")
  <2>1. SessionsTypes'
    BY <1>1, <1>2, <1>6, PairsAre DEF SignOut, SessionsInv, SessionsTypes, serverVars
  <2>2. SignedOutEmpty'
    BY <1>3, <1>6, EmptiedOut DEF SessionsInv
  <2> QED  BY <1>4, <1>5, <2>1, <2>2 DEF SessionsInv
<1>7. CASE ~SignOut("store")
  <2> DEFINE pair == Pair(proc["store"].refresh)
  <2>1. /\ proc["store"].at = "answered" /\ store' = pair /\ local' = pair
        /\ timer' = (timer \/ proc["store"].starting) /\ UNCHANGED <<ended, late>>
    BY <1>7 DEF StoreLand, StoreFail
  <2>2. proc["store"] \in Refreshing /\ Handed("store")
    BY <2>1, ProcsAre DEF SessionsInv, SessionsTypes, AtRest, Refreshing, Requesting, Handed, HandStates
  <2>3. pair \in Pairs /\ proc["store"].starting \in BOOLEAN
    BY <2>2, PairsAre DEF Refreshing
  <2> HIDE DEF pair
  <2>4. SessionsTypes'
    BY <1>1, <1>2, <2>1, <2>3 DEF SessionsInv, SessionsTypes, serverVars
  <2>5. SignedOutEmpty'
    BY <2>1, <2>2, ProcsAre DEF SessionsInv, SignedOutEmpty
  <2> QED  BY <1>4, <1>5, <2>4, <2>5 DEF SessionsInv
<1> QED  BY <1>6, <1>7

\* A page that is loaded again leaves requests at the server, each of which takes effect or not.
LEMMA SessionsReload == ASSUME SessionsInv, ReloadPage PROVE SessionsInv'
<1> DEFINE refs == {proc[p].refresh : p \in {q \in Procs : AtServer(q)}} \ blacklist
<1>1. /\ store' = local /\ timer' = FALSE /\ refreshing' = FALSE /\ UNCHANGED <<clock, local, ended, late>>
      /\ proc' = [p \in Procs |-> IF p = "store" /\ local # NoPair THEN [at |-> "start"] ELSE Calm]
  BY DEF ReloadPage
<1>2. PICK done \in SUBSET refs :
         /\ blacklist' = blacklist \cup done
         /\ used' = [s \in DOMAIN used |-> used[s] + IF s \in done THEN 1 ELSE 0]
         /\ excused' = excused \cup
               {r \in refs : Cardinality({p \in Procs : AtServer(p) /\ proc[p].refresh = r}) > 1}
  BY DEF ReloadPage
<1>3. refs \subseteq Seconds
  BY DEF AtServer, SessionsInv, SessionsTypes, AtRest, Refreshing, Requesting, HandStates
<1>4. refs \cap blacklist = {}
  OBVIOUS
<1> HIDE DEF refs
<1>5. excused' \in SUBSET Seconds /\ excused \subseteq excused'
  BY <1>2, <1>3 DEF SessionsInv, SessionsTypes
<1>6. /\ used' \in [Seconds -> Nat]
      /\ \A s \in Seconds : used'[s] = used[s] + IF s \in done THEN 1 ELSE 0
  BY <1>2 DEF SessionsInv, SessionsTypes
<1>7. /\ proc' \in [Procs -> AtRest \cup Refreshing \cup Requesting]
      /\ \A p \in Procs : proc'[p].at \in {"idle", "start"}
  BY <1>1, StatesAre
<1>8. SessionsTypes'
  BY <1>1, <1>5, <1>6, <1>7 DEF SessionsInv, SessionsTypes
<1>9. TokensOnce'
  <2> SUFFICES ASSUME NEW s \in Seconds \ excused'
               PROVE  used'[s] = 0 \/ (used'[s] = 1 /\ s \in blacklist')
    BY <1>7 DEF TokensOnce, Holds
  <2>1. s \in Seconds \ excused
    BY <1>5
  <2>2. used[s] = 0 \/ (used[s] = 1 /\ s \in blacklist)
    BY <2>1 DEF SessionsInv, TokensOnce
  <2> QED  BY <1>2, <1>4, <1>6, <2>1, <2>2
<1>10. SignedOutEmpty'
  BY <1>1, <1>7 DEF SessionsInv, SignedOutEmpty, Handed, HandStates
<1>11. CallsServed'
  BY <1>1, <1>7, ProcsAre DEF CallsServed
<1> QED  BY <1>8, <1>9, <1>10, <1>11 DEF SessionsInv

\* The start of the page goes on with the session, renews it or ends it.
LEMMA SessionsStart == ASSUME SessionsInv, InitAuth PROVE SessionsInv'
<1>1. PICK next \in AtRest \cup Refreshing :
         /\ proc' = [proc EXCEPT !["store"] = next]
         /\ next.at \in {"idle", "sent"}
         /\ \/ /\ UNCHANGED <<store, local, ended, late>> /\ timer' \in BOOLEAN
               /\ next.at = "sent" => store # NoPair
            \/ SignOut("store") /\ next.at = "idle"
  <2>1. CASE proc' = [proc EXCEPT !["store"] = Calm]
    <3>1. Calm \in AtRest /\ Calm.at = "idle"
      BY StatesAre
    <3>2. (UNCHANGED <<store, local, ended, late>> /\ timer' \in BOOLEAN) \/ SignOut("store")
      BY <2>1, StatesAre DEF InitAuth, Sent, Calm, SessionsInv, SessionsTypes
    <3> QED  BY <2>1, <3>1, <3>2
  <2>2. CASE ~(proc' = [proc EXCEPT !["store"] = Calm])
    <3>1. /\ proc' = [proc EXCEPT !["store"] = Sent(store.refresh, TRUE)] /\ store # NoPair
          /\ UNCHANGED <<store, local, timer, ended, late>>
      BY <2>2 DEF InitAuth
    <3>2. store.refresh \in Seconds
      BY <3>1, PairsAre DEF SessionsInv, SessionsTypes
    <3>3. Sent(store.refresh, TRUE) \in Refreshing /\ Sent(store.refresh, TRUE).at = "sent"
      BY <3>2, StatesAre
    <3>4. timer' \in BOOLEAN
      BY <3>1 DEF SessionsInv, SessionsTypes
    <3> QED  BY <3>1, <3>3, <3>4
  <2> QED  BY <2>1, <2>2
<1>2. UNCHANGED <<clock, serverVars, refreshing>>
  BY DEF InitAuth
<1>3. /\ proc' \in [Procs -> AtRest \cup Refreshing \cup Requesting]
      /\ proc'["store"] = next
      /\ \A q \in Procs \ {"store"} : proc'[q] = proc[q]
  BY <1>1, ProcsAre DEF SessionsInv, SessionsTypes
<1>4. TokensOnce'
  BY <1>1, <1>2, <1>3, TokensKept DEF SessionsInv
<1>5. CallsServed'
  BY <1>2, <1>3, ProcsAre, ServedKept DEF SessionsInv, InFlight
<1>6. CASE /\ UNCHANGED <<store, local, ended, late>> /\ timer' \in BOOLEAN
           /\ next.at = "sent" => store # NoPair
  <2>1. SessionsTypes'
    BY <1>2, <1>3, <1>6 DEF SessionsInv, SessionsTypes, serverVars
  <2>2. SignedOutEmpty'
    BY <1>1, <1>3, <1>6, EmptyKept DEF SessionsInv, Handed, HandStates
  <2> QED  BY <1>4, <1>5, <2>1, <2>2 DEF SessionsInv
<1>7. CASE SignOut("store") /\ next.at = "idle"
  <2>1. SessionsTypes'
    BY <1>2, <1>3, <1>7, PairsAre DEF SignOut, SessionsInv, SessionsTypes, serverVars
  <2>2. SignedOutEmpty'
    BY <1>3, <1>7, EmptiedOut DEF SessionsInv, Handed, HandStates
  <2> QED  BY <1>4, <1>5, <2>1, <2>2 DEF SessionsInv
<1> QED  BY <1>1, <1>6, <1>7

----------------------------------------------------------------------------
(* The API client                                                          *)

LEMMA SessionsCall == ASSUME SessionsInv, NEW c \in Calls, Call(c) PROVE SessionsInv'
<1>1. /\ UNCHANGED <<clock, serverVars, browserVars>> /\ proc[c] = Calm /\ local # NoPair
      /\ proc' = [proc EXCEPT ![c] = [at |-> "request", access |-> local.access]]
  BY DEF Call
<1>2. local.access \in Seconds
  BY <1>1, PairsAre DEF SessionsInv, SessionsTypes
<1>3. /\ proc' \in [Procs -> AtRest \cup Refreshing \cup Requesting]
      /\ proc'[c].at = "request"
      /\ \A q \in Procs \ {c} : proc'[q] = proc[q]
  BY <1>1, <1>2, ProcsAre, StatesAre DEF SessionsInv, SessionsTypes
<1>4. ~InFlight(c)
  BY <1>1, StatesAre DEF InFlight
<1>5. SessionsTypes'
  BY <1>1, <1>3 DEF SessionsInv, SessionsTypes, browserVars, serverVars
<1>6. TokensOnce'
  BY <1>1, <1>3, TokensKept DEF SessionsInv
<1>7. SignedOutEmpty'
  BY <1>1, <1>3, EmptyKept DEF SessionsInv, browserVars, Handed, HandStates
<1>8. CallsServed'
  BY <1>1, <1>3, <1>4, ServedKept DEF SessionsInv, browserVars, InFlight
<1> QED  BY <1>5, <1>6, <1>7, <1>8 DEF SessionsInv

\* A call that is refused its token refreshes it, or waits for the call that does.
LEMMA SessionsReply == ASSUME SessionsInv, NEW c \in Calls, Reply(c) PROVE SessionsInv'
<1>1. /\ UNCHANGED <<clock, serverVars, store, local, timer, ended, late>>
      /\ proc[c].at = "request"
  BY DEF Reply
<1>2. PICK next \in AtRest \cup Refreshing :
         /\ proc' = [proc EXCEPT ![c] = next]
         /\ \/ next.at = "idle" /\ UNCHANGED refreshing
            \/ next.at = "waiting" /\ refreshing /\ refreshing'
            \/ /\ next.at \in {"sent", "refused"} /\ refreshing' = TRUE
               /\ next.at = "sent" => local # NoPair
  <2>1. CASE proc' = [proc EXCEPT ![c] = Calm] /\ UNCHANGED refreshing
    BY <2>1, StatesAre
  <2>2. CASE proc' = [proc EXCEPT ![c] = [at |-> "waiting"]] /\ refreshing /\ UNCHANGED refreshing
    <3>1. [at |-> "waiting"] \in AtRest /\ [at |-> "waiting"].at = "waiting"
      BY StatesAre
    <3> QED  BY <2>2, <3>1
  <2>3. CASE /\ refreshing' = TRUE
             /\ proc' = [proc EXCEPT ![c] = IF local.refresh = None THEN Failed
                                            ELSE Sent(local.refresh, FALSE)]
    <3>1. CASE local.refresh = None
      BY <2>3, <3>1, StatesAre
    <3>2. CASE local.refresh # None
      <4>1. local # NoPair /\ local.refresh \in Seconds
        BY <3>2, PairsAre DEF SessionsInv, SessionsTypes
      <4>2. Sent(local.refresh, FALSE) \in Refreshing /\ Sent(local.refresh, FALSE).at = "sent"
        BY <4>1, StatesAre
      <4> QED  BY <2>3, <3>2, <4>1, <4>2
    <3> QED  BY <3>1, <3>2
  <2> QED  BY <2>1, <2>2, <2>3 DEF Reply
<1>3. /\ proc' \in [Procs -> AtRest \cup Refreshing \cup Requesting]
      /\ proc'[c] = next
      /\ \A q \in Procs \ {c} : proc'[q] = proc[q]
  BY <1>2, ProcsAre DEF SessionsInv, SessionsTypes
<1>4. ~InFlight(c)
  BY <1>1 DEF InFlight
<1>5. SessionsTypes'
  BY <1>1, <1>2, <1>3 DEF SessionsInv, SessionsTypes, serverVars
<1>6. TokensOnce'
  BY <1>1, <1>2, <1>3, TokensKept DEF SessionsInv
<1>7. SignedOutEmpty'
  BY <1>1, <1>2, <1>3, EmptyKept DEF SessionsInv, Handed, HandStates
<1>8. CallsServed'
  <2>1. \A q \in Calls \ {c} : InFlight(q)' = InFlight(q) /\ proc'[q] = proc[q]
    BY <1>3, ProcsAre DEF InFlight
  <2>2. next.at = "refused" \/ next.at = "sent" => InFlight(c)'
    BY <1>3 DEF InFlight
  <2> QED  BY <1>2, <1>3, <1>4, <2>1, <2>2 DEF SessionsInv, CallsServed
<1> QED  BY <1>5, <1>6, <1>7, <1>8 DEF SessionsInv

\* The refresh of a call ends, and with it every wait.
LEMMA SessionsCallEnd == ASSUME SessionsInv, NEW c \in Calls, Land(c) \/ Fail(c) PROVE SessionsInv'
<1>1. UNCHANGED <<clock, serverVars>> /\ refreshing' = FALSE /\ proc' = Released(c)
  BY DEF Land, Fail
<1>2. /\ proc' \in [Procs -> AtRest \cup Refreshing \cup Requesting]
      /\ proc'[c].at = "idle"
      /\ \A q \in Procs : proc'[q] = proc[q] \/ proc'[q].at = "idle"
      /\ \A q \in Procs : proc'[q].at # "waiting"
  BY <1>1, ProcsAre, StatesAre DEF Released, SessionsInv, SessionsTypes
<1>3. \A q \in Procs : Handed(q)' => q # c /\ Handed(q)
  BY <1>2 DEF Handed, HandStates
<1>4. TokensOnce'
  BY <1>1, <1>2, TokensKept DEF SessionsInv
<1>5. CallsServed'
  BY <1>1, <1>2, ProcsAre DEF CallsServed
<1>6. CASE Land(c)
  <2>1. /\ proc[c].at = "answered" /\ local' = Pair(proc[c].refresh)
        /\ UNCHANGED <<store, timer, ended, late>>
    BY <1>6 DEF Land
  <2>2. proc[c] \in Refreshing /\ Handed(c)
    BY <2>1, ProcsAre DEF SessionsInv, SessionsTypes, AtRest, Refreshing, Requesting, Handed, HandStates
  <2>3. local' \in Pairs
    BY <2>1, <2>2, PairsAre DEF Refreshing
  <2>4. SessionsTypes'
    BY <1>1, <1>2, <2>1, <2>3 DEF SessionsInv, SessionsTypes, serverVars
  <2>5. SignedOutEmpty'
    BY <2>1, <2>2, ProcsAre DEF SessionsInv, SignedOutEmpty
  <2> QED  BY <1>4, <1>5, <2>4, <2>5 DEF SessionsInv
<1>7. CASE Fail(c)
  <2>1. SignOut(c)
    BY <1>7 DEF Fail
  <2>2. SessionsTypes'
    BY <1>1, <1>2, <2>1, PairsAre DEF SignOut, SessionsInv, SessionsTypes, serverVars
  <2>3. SignedOutEmpty'
    BY <1>3, <2>1, EmptiedOut DEF SessionsInv
  <2> QED  BY <1>4, <1>5, <2>2, <2>3 DEF SessionsInv
<1> QED  BY <1>6, <1>7

----------------------------------------------------------------------------
\* Every step of a session keeps SessionsInv.
LEMMA SessionsStep == SessionsInv /\ SessionsNext => SessionsInv'
BY ProcsAre, SessionsClock, SessionsCheck, SessionsExchange, SessionsLose, SessionsRestart, SessionsLog,
   SessionsRefresh, SessionsStoreEnd, SessionsReload, SessionsStart, SessionsCall, SessionsReply,
   SessionsCallEnd DEF SessionsNext

\* Tokens used once, a sign-out that lasts, and waits that end.
LEMMA SessionsInvSound == SessionsInv => ExchangedOnce /\ SignedOutStays /\ WaitersServed
<1> SUFFICES ASSUME SessionsInv PROVE ExchangedOnce /\ SignedOutStays /\ WaitersServed
  OBVIOUS
<1>1. DOMAIN used = Seconds
  BY DEF SessionsInv, SessionsTypes
<1>2. \A s \in DOMAIN used \ excused : used[s] = 0 \/ used[s] = 1
  BY <1>1 DEF SessionsInv, TokensOnce
<1>3. ExchangedOnce
  BY <1>2 DEF ExchangedOnce
<1>4. SignedOutStays /\ WaitersServed
  BY DEF SessionsInv, SignedOutEmpty, CallsServed, SignedOutStays, WaitersServed
<1> QED  BY <1>3, <1>4

----------------------------------------------------------------------------
(* Slack (SlackThreads)                                                    *)

ErrandFields == {"at", "object", "ts", "failed"}

\* What an errand may be, where the objects are s and the messages p.
GoodErrand(s, p, e, x) ==
    /\ DOMAIN x = ErrandFields /\ x.object \in DOMAIN s
    /\ x.at = "posted" => x.ts \in DOMAIN p /\ p[x.ts].channel = Room(e)
    /\ e[2] = "notify" =>
          /\ x.object = 1 /\ x.at \in {"idle", "post", "posted", "hook", "done"}
          /\ x.at \in {"idle", "post"} => x.failed = 0
          /\ x.at = "post" => s[1].bot
          /\ x.at = "posted" => p[x.ts].incident = e[1] /\ p[x.ts].kind # "update"
          /\ x.at = "hook" => s[1].hook /\ x.failed = IF s[1].bot THEN 1 ELSE 0
          /\ (x.at = "done" /\ (s[1].bot \/ s[1].hook)) =>
                \/ \E n \in DOMAIN p : p[n].incident = e[1] /\ p[n].kind # "update" /\ p[n].channel = General
                \/ x.failed = IF s[1].bot /\ s[1].hook THEN 2 ELSE 1

\* The thread t object o knows for incident i is that of a card it filed.
RightThread(fs, p, o, i, t) ==
    LET mine == {f \in fs : f.incident = i /\ f.object = o}
    IN IF mine = {} THEN t.channel = General /\ t.ts = 0
       ELSE \E f \in mine : t.ts = f.ts /\ t.channel = p[f.ts].channel

SlackInv ==
    /\ \E S : setup \in Seq(S)
    /\ \E S : threads \in Seq(S)
    /\ \E S : posts \in Seq(S)
    /\ Len(setup) >= 1 /\ DOMAIN threads = DOMAIN setup
    /\ DOMAIN errand = Errands /\ \A e \in Errands : GoodErrand(setup, posts, e, errand[e])
    /\ \A f \in filed : f.object \in DOMAIN setup /\ f.ts \in DOMAIN posts /\ f.at \in Nat /\ f.at <= Len(posts)
    /\ \A o \in DOMAIN setup : DOMAIN threads[o] = Outages
    /\ \A o \in DOMAIN setup, i \in Outages : RightThread(filed, posts, o, i, threads[o][i])
    /\ UpdatesThreaded

LEMMA SlackInvSound == SlackInv => UpdatesThreaded /\ Announced
<1> SUFFICES ASSUME SlackInv, NEW i \in Outages, errand[<<i, "notify">>].at = "done", Enabled(1)
             PROVE  \/ \E n \in DOMAIN posts : posts[n].incident = i /\ posts[n].kind # "update" /\ posts[n].channel = General
                    \/ errand[<<i, "notify">>].failed = IF setup[1].bot /\ setup[1].hook THEN 2 ELSE 1
  BY DEF SlackInv, Announced
<1> DEFINE e == <<i, "notify">>
<1>1. e \in Errands /\ e[1] = i /\ e[2] = "notify"
  BY DEF Errands
<1>2. GoodErrand(setup, posts, e, errand[e])
  BY <1>1 DEF SlackInv
<1>3. errand[e].at = "done" /\ (setup[1].bot \/ setup[1].hook)
  BY DEF Enabled
<1> HIDE DEF e
<1>4. \/ \E n \in DOMAIN posts : posts[n].incident = i /\ posts[n].kind # "update" /\ posts[n].channel = General
      \/ errand[e].failed = IF setup[1].bot /\ setup[1].hook THEN 2 ELSE 1
  BY <1>1, <1>2, <1>3 DEF GoodErrand
<1> QED  BY <1>4 DEF e

LEMMA SlackInitInv == SlackInit => SlackInv
<1> SUFFICES ASSUME SlackInit PROVE SlackInv
  OBVIOUS
<1>1. PICK c \in Setups : setup = <<c>>
  BY DEF SlackInit
<1>2. setup \in Seq({c}) /\ Len(setup) = 1 /\ DOMAIN setup = {1}
  BY <1>1
<1>3. threads \in Seq({[i \in Outages |-> NoThread]}) /\ DOMAIN threads = {1} /\ threads[1] = [i \in Outages |-> NoThread]
  BY DEF SlackInit
<1>4. posts \in Seq({}) /\ DOMAIN posts = {} /\ Len(posts) = 0 /\ filed = {}
  BY DEF SlackInit
<1>5. \A e \in Errands : GoodErrand(setup, posts, e, errand[e])
  BY <1>2 DEF SlackInit, GoodErrand, Errand, ErrandFields
<1>6. \A o \in DOMAIN setup, i \in Outages : RightThread(filed, posts, o, i, threads[o][i])
  BY <1>2, <1>3, <1>4 DEF RightThread, NoThread
<1>7. DOMAIN errand = Errands /\ DOMAIN threads[1] = Outages
  BY <1>3 DEF SlackInit
<1>8. (\E S : setup \in Seq(S)) /\ (\E S : threads \in Seq(S)) /\ (\E S : posts \in Seq(S))
  BY <1>2, <1>3, <1>4
<1>9. UpdatesThreaded
  BY <1>4 DEF UpdatesThreaded
<1> QED  BY <1>2, <1>3, <1>4, <1>5, <1>6, <1>7, <1>8, <1>9 DEF SlackInv

LEMMA SlackUnchanged == SlackInv /\ UNCHANGED slackVars => SlackInv'
<1> SUFFICES ASSUME SlackInv, UNCHANGED slackVars PROVE SlackInv'
  OBVIOUS
<1>1. UNCHANGED <<setup, threads, posts, errand, filed>>
  BY DEF slackVars
<1>2. UpdatesThreaded'
  BY <1>1 DEF SlackInv, UpdatesThreaded
<1>3. \A e \in Errands : GoodErrand(setup', posts', e, errand'[e])
  BY <1>1 DEF SlackInv
<1>4. \A o \in DOMAIN setup', i \in Outages : RightThread(filed', posts', o, i, threads'[o][i])
  BY <1>1 DEF SlackInv
<1> QED  BY <1>1, <1>2, <1>3, <1>4 DEF SlackInv

\* The messages q are p and more.
Longer(p, q) == (\E S : q \in Seq(S)) /\ Len(p) <= Len(q) /\ DOMAIN p \subseteq DOMAIN q /\ \A n \in DOMAIN p : q[n] = p[n]

LEMMA SameLonger == ASSUME SlackInv PROVE Longer(posts, posts)
<1>1. PICK S : posts \in Seq(S)
  BY DEF SlackInv
<1>2. Len(posts) \in Nat
  BY <1>1, LenProperties
<1> QED  BY <1>1, <1>2 DEF Longer

LEMMA PostLonger ==
  ASSUME SlackInv, NEW kind, NEW i, NEW channel, NEW thread, NEW o, Post(kind, i, channel, thread, o)
  PROVE  /\ Longer(posts, posts') /\ Len(posts) + 1 \in DOMAIN posts'
         /\ \A n \in DOMAIN posts' : n \in DOMAIN posts \/ n = Len(posts) + 1
         /\ LET m == posts'[Len(posts) + 1]
            IN /\ m.kind = kind /\ m.incident = i /\ m.channel = channel /\ m.thread = thread /\ m.object = o
         /\ Len(posts) \in Nat
<1> DEFINE m == [kind |-> kind, incident |-> i, channel |-> channel, thread |-> thread, object |-> o]
<1>1. PICK S : posts \in Seq(S)
  BY DEF SlackInv
<1>2. m.kind = kind /\ m.incident = i /\ m.channel = channel /\ m.thread = thread /\ m.object = o /\ posts' = Append(posts, m)
  BY DEF Post
<1> HIDE DEF m
<1>3. posts \in Seq(S \cup {m}) /\ Len(posts) \in Nat /\ DOMAIN posts = 1 .. Len(posts)
  BY <1>1, ElementOfSeq, LenProperties, SeqDef
<1>4. /\ posts' \in Seq(S \cup {m}) /\ Len(posts') = Len(posts) + 1 /\ posts'[Len(posts) + 1] = m
      /\ \A k \in 1 .. Len(posts) : posts'[k] = posts[k]
  BY <1>2, <1>3, AppendProperties
<1>5. DOMAIN posts' = 1 .. Len(posts) + 1
  BY <1>4, LenProperties
<1> QED  BY <1>2, <1>3, <1>4, <1>5 DEF Longer

\* An errand stays what it may be while messages are posted.
LEMMA GoodLonger ==
  ASSUME NEW s, NEW p, NEW q, Longer(p, q), NEW e, NEW x, GoodErrand(s, p, e, x)
  PROVE  GoodErrand(s, q, e, x)
BY DEF Longer, GoodErrand

LEMMA RightLonger ==
  ASSUME NEW p, NEW q, Longer(p, q), NEW fs, \A f \in fs : f.ts \in DOMAIN p, NEW o, NEW i, NEW t, RightThread(fs, p, o, i, t)
  PROVE  RightThread(fs, q, o, i, t)
BY DEF Longer, RightThread

\* Messages that are no updates are posted, and errands go on.
LEMMA ErrandsGoOn ==
  ASSUME SlackInv, UNCHANGED <<setup, threads, filed>>, Longer(posts, posts'),
         \A n \in DOMAIN posts' : n \in DOMAIN posts \/ posts'[n].kind # "update",
         DOMAIN errand' = Errands,
         \A e \in Errands : errand'[e] = errand[e] \/ GoodErrand(setup', posts', e, errand'[e])
  PROVE  SlackInv'
<1>1. \A e \in Errands : GoodErrand(setup', posts', e, errand'[e])
  <2> SUFFICES ASSUME NEW e \in Errands, errand'[e] = errand[e] PROVE GoodErrand(setup', posts', e, errand'[e])
    OBVIOUS
  <2>1. GoodErrand(setup, posts, e, errand[e])
    BY DEF SlackInv
  <2>2. GoodErrand(setup, posts', e, errand[e])
    BY <2>1, GoodLonger
  <2> QED  BY <2>2
<1>2. \A f \in filed : f.ts \in DOMAIN posts /\ f.at \in Nat /\ f.at <= Len(posts)
  BY DEF SlackInv
<1>3. \A f \in filed : f.ts \in DOMAIN posts' /\ f.at \in Nat /\ f.at <= Len(posts')
  <2>1. Len(posts) \in Nat /\ Len(posts') \in Nat /\ Len(posts) <= Len(posts')
    BY LenProperties DEF SlackInv, Longer
  <2> QED  BY <1>2, <2>1 DEF Longer
<1>4. \A o \in DOMAIN setup, i \in Outages : RightThread(filed, posts', o, i, threads[o][i])
  BY <1>2, RightLonger DEF SlackInv
<1>5. UpdatesThreaded'
  <2> SUFFICES ASSUME NEW n \in DOMAIN posts', posts'[n].kind = "update"
               PROVE  LET mine == {f \in filed' : f.incident = posts'[n].incident /\ f.object = posts'[n].object /\ f.at < n}
                      IN IF mine = {} THEN posts'[n].channel = General /\ posts'[n].thread = 0
                         ELSE \E f \in mine : posts'[n].thread = f.ts /\ posts'[f.ts].channel = posts'[n].channel
    BY DEF UpdatesThreaded
  <2>1. n \in DOMAIN posts /\ posts'[n] = posts[n] /\ posts[n].kind = "update"
    BY DEF Longer
  <2>2. LET mine == {f \in filed : f.incident = posts[n].incident /\ f.object = posts[n].object /\ f.at < n}
        IN IF mine = {} THEN posts[n].channel = General /\ posts[n].thread = 0
           ELSE \E f \in mine : posts[n].thread = f.ts /\ posts[f.ts].channel = posts[n].channel
    BY <2>1 DEF SlackInv, UpdatesThreaded
  <2>3. \A f \in filed : posts'[f.ts] = posts[f.ts]
    BY <1>2 DEF Longer
  <2> QED  BY <2>1, <2>2, <2>3
<1>6. \E S : posts' \in Seq(S)
  BY DEF Longer
<1> QED  BY <1>1, <1>3, <1>4, <1>5, <1>6 DEF SlackInv
\* A step of one errand, that posts nothing.
LEMMA ErrandMoves ==
  ASSUME SlackInv, UNCHANGED <<setup, threads, filed, posts>>, NEW e \in Errands, NEW x,
         errand' = [errand EXCEPT ![e] = x], GoodErrand(setup, posts, e, x)
  PROVE  SlackInv'
<1>1. Longer(posts, posts') /\ \A n \in DOMAIN posts' : n \in DOMAIN posts
  BY SameLonger
<1>2. DOMAIN errand' = Errands /\ errand'[e] = x /\ \A g \in Errands : g # e => errand'[g] = errand[g]
  BY DEF SlackInv
<1>3. GoodErrand(setup', posts', e, x)
  OBVIOUS
<1>4. \A g \in Errands : errand'[g] = errand[g] \/ GoodErrand(setup', posts', g, errand'[g])
  BY <1>2, <1>3
<1> QED  BY <1>1, <1>2, <1>4, ErrandsGoOn

\* A step of one errand that posts a message that is no update.
LEMMA ErrandPosts ==
  ASSUME SlackInv, UNCHANGED <<setup, threads, filed>>, NEW e \in Errands, NEW x, errand' = [errand EXCEPT ![e] = x],
         NEW kind, kind # "update", NEW i, NEW channel, NEW thread, NEW o, Post(kind, i, channel, thread, o),
         GoodErrand(setup, posts', e, x)
  PROVE  SlackInv'
<1>1. /\ Longer(posts, posts')
      /\ \A n \in DOMAIN posts' : n \in DOMAIN posts \/ n = Len(posts) + 1
      /\ posts'[Len(posts) + 1].kind = kind
  BY PostLonger
<1>2. \A n \in DOMAIN posts' : n \in DOMAIN posts \/ posts'[n].kind # "update"
  BY <1>1
<1>3. DOMAIN errand' = Errands /\ errand'[e] = x /\ \A g \in Errands : g # e => errand'[g] = errand[g]
  BY DEF SlackInv
<1>4. GoodErrand(setup', posts', e, x)
  OBVIOUS
<1>5. \A g \in Errands : errand'[g] = errand[g] \/ GoodErrand(setup', posts', g, errand'[g])
  BY <1>3, <1>4
<1> QED  BY <1>1, <1>2, <1>3, <1>5, ErrandsGoOn

LEMMA ReloadSlackKeeps == ASSUME SlackInv, ReloadSlack PROVE SlackInv'
<1> DEFINE none == [i \in Outages |-> NoThread]
<1>1. PICK c \in Setups : setup' = Append(setup, c) /\ threads' = Append(threads, none)
  BY DEF ReloadSlack, Fresh
<1>2. UNCHANGED <<posts, errand, filed>>
  BY DEF ReloadSlack
<1>3. none = [i \in Outages |-> NoThread] /\ DOMAIN none = Outages /\ \A i \in Outages : none[i] = NoThread
  OBVIOUS
<1> HIDE DEF none
<1> DEFINE new == Len(setup) + 1
<1>4. PICK S : setup \in Seq(S)
  BY DEF SlackInv
<1>5. PICK T : threads \in Seq(T)
  BY DEF SlackInv
<1>6. setup \in Seq(S \cup {c}) /\ threads \in Seq(T \cup {none})
  BY <1>4, <1>5, ElementOfSeq, LenProperties, SeqDef
<1>7. Len(setup) \in Nat /\ DOMAIN setup = 1 .. Len(setup) /\ DOMAIN threads = 1 .. Len(threads) /\ Len(threads) \in Nat
  BY <1>6, LenProperties
<1>8. Len(threads) = Len(setup) /\ Len(setup) >= 1
  BY <1>7 DEF SlackInv
<1>9. /\ setup' \in Seq(S \cup {c}) /\ Len(setup') = new /\ DOMAIN setup' = 1 .. new
      /\ \A o \in 1 .. Len(setup) : setup'[o] = setup[o]
  BY <1>1, <1>6, <1>7, AppendProperties, LenProperties
<1>10. /\ threads' \in Seq(T \cup {none}) /\ DOMAIN threads' = 1 .. new /\ threads'[new] = none
       /\ \A o \in 1 .. Len(setup) : threads'[o] = threads[o]
  BY <1>1, <1>6, <1>7, <1>8, AppendProperties, LenProperties
<1>11. \A e \in Errands : GoodErrand(setup, posts, e, errand[e]) => GoodErrand(setup', posts, e, errand[e])
  BY <1>7, <1>8, <1>9 DEF GoodErrand
<1>12. \A f \in filed : f.object \in DOMAIN setup
  BY DEF SlackInv
<1>13. \A o \in DOMAIN setup', i \in Outages : RightThread(filed, posts, o, i, threads'[o][i])
  <2> SUFFICES ASSUME NEW o \in DOMAIN setup', NEW i \in Outages PROVE RightThread(filed, posts, o, i, threads'[o][i])
    OBVIOUS
  <2>1. CASE o \in DOMAIN setup
    BY <1>7, <1>10, <2>1 DEF SlackInv
  <2>2. CASE o \notin DOMAIN setup
    <3>1. o = new
      BY <1>7, <1>9, <2>2
    <3>2. threads'[o][i] = NoThread
      BY <1>3, <1>10, <3>1
    <3> QED  BY <1>12, <2>2, <3>2 DEF RightThread, NoThread
  <2> QED  BY <2>1, <2>2
<1>14. \A o \in DOMAIN setup' : DOMAIN threads'[o] = Outages
  <2>1. \A o \in 1 .. new : o \in 1 .. Len(setup) \/ o = new
    BY <1>7
  <2> QED  BY <1>3, <1>7, <1>9, <1>10, <2>1 DEF SlackInv
<1>15. UpdatesThreaded'
  BY <1>2 DEF SlackInv, UpdatesThreaded
<1>16. Len(setup') >= 1 /\ DOMAIN threads' = DOMAIN setup' /\ (\E U : setup' \in Seq(U)) /\ (\E U : threads' \in Seq(U))
  BY <1>7, <1>9, <1>10
<1> QED  BY <1>2, <1>9, <1>11, <1>13, <1>14, <1>15, <1>16 DEF SlackInv

LEMMA AlertSlackKeeps == ASSUME SlackInv, NEW i \in Outages, AlertSlack(i) PROVE SlackInv'
<1> DEFINE e == <<i, "notify">>
           g == <<i, "room">>
           at == IF setup[1].bot THEN "post" ELSE IF setup[1].hook THEN "hook" ELSE "done"
           begun == IF setup[1].bot /\ i \in Severe THEN "create" ELSE "done"
           x == [errand[e] EXCEPT !.at = at]
           y == [errand[g] EXCEPT !.at = begun]
<1>1. e \in Errands /\ g \in Errands /\ e # g /\ e[2] = "notify" /\ g[2] # "notify"
  BY DEF Errands
<1>2. GoodErrand(setup, posts, e, errand[e]) /\ GoodErrand(setup, posts, g, errand[g]) /\ DOMAIN errand = Errands
  BY <1>1 DEF SlackInv
<1>3. errand[e].at = "idle" /\ errand' = [errand EXCEPT ![e].at = at, ![g].at = begun]
  BY DEF AlertSlack
<1>4. errand'[e] = x /\ errand'[g] = y /\ DOMAIN errand' = Errands /\ \A h \in Errands : h \notin {e, g} => errand'[h] = errand[h]
  BY <1>1, <1>2, <1>3
<1>5. DOMAIN x = ErrandFields /\ x.at = at /\ x.object = errand[e].object /\ x.failed = errand[e].failed
  BY <1>2 DEF GoodErrand, ErrandFields
<1>6. DOMAIN y = ErrandFields /\ y.at = begun /\ y.object = errand[g].object
  BY <1>2 DEF GoodErrand, ErrandFields
<1> HIDE DEF x, y, e, g
<1>7. GoodErrand(setup, posts, e, x)
  BY <1>1, <1>2, <1>3, <1>5 DEF GoodErrand
<1>8. GoodErrand(setup, posts, g, y)
  BY <1>1, <1>2, <1>6 DEF GoodErrand
<1>9. UNCHANGED <<setup, threads, filed, posts>>
  BY DEF AlertSlack
<1>10. \A h \in Errands : errand'[h] = errand[h] \/ GoodErrand(setup', posts', h, errand'[h])
  BY <1>4, <1>7, <1>8, <1>9
<1>11. Longer(posts, posts') /\ \A n \in DOMAIN posts' : n \in DOMAIN posts
  BY <1>9, SameLonger
<1> QED  BY <1>4, <1>9, <1>10, <1>11, ErrandsGoOn

LEMMA RequestRoomKeeps == ASSUME SlackInv, NEW i \in Outages, RequestRoom(i) PROVE SlackInv'
<1> DEFINE e == <<i, "request">>
           x == Errand("create", Len(setup))
<1>1. e \in Errands /\ e[2] # "notify" /\ errand' = [errand EXCEPT ![e] = x] /\ UNCHANGED <<setup, threads, filed, posts>>
  BY DEF Errands, RequestRoom
<1>2. DOMAIN x = ErrandFields /\ x.at = "create" /\ x.object = Len(setup)
  BY DEF Errand, ErrandFields
<1>3. Len(setup) \in DOMAIN setup
  BY LenProperties DEF SlackInv
<1> HIDE DEF x, e
<1>4. GoodErrand(setup, posts, e, x)
  BY <1>1, <1>2, <1>3 DEF GoodErrand
<1> QED  BY <1>1, <1>4, ErrandMoves

LEMMA CreateRoomKeeps == ASSUME SlackInv, NEW e \in Errands, CreateRoom(e) PROVE SlackInv'
<1>1. GoodErrand(setup, posts, e, errand[e]) /\ errand[e].at = "create" /\ DOMAIN errand = Errands
  BY DEF SlackInv, CreateRoom
<1>2. PICK at \in {"post", "done"} : errand' = [errand EXCEPT ![e].at = at]
  BY DEF CreateRoom, Move
<1> DEFINE x == [errand[e] EXCEPT !.at = at]
<1>3. errand' = [errand EXCEPT ![e] = x] /\ DOMAIN x = ErrandFields /\ x.at = at /\ x.object = errand[e].object
  BY <1>1, <1>2 DEF GoodErrand, ErrandFields
<1> HIDE DEF x
<1>4. GoodErrand(setup, posts, e, x)
  BY <1>1, <1>3 DEF GoodErrand
<1>5. UNCHANGED <<setup, threads, filed, posts>>
  BY DEF CreateRoom
<1> QED  BY <1>3, <1>4, <1>5, ErrandMoves
\* What an errand becomes that got no answer.
LEMMA UncardedIs ==
  ASSUME SlackInv, NEW e \in Errands, errand[e].at = "post", Uncarded(e)
  PROVE  \E x : /\ errand' = [errand EXCEPT ![e] = x] /\ GoodErrand(setup, posts, e, x)
<1> DEFINE at == IF e[2] = "notify" /\ setup[errand[e].object].hook THEN "hook" ELSE "done"
           x == [errand[e] EXCEPT !.failed = @ + 1, !.at = at]
<1>1. GoodErrand(setup, posts, e, errand[e]) /\ DOMAIN errand = Errands
  BY DEF SlackInv
<1>2. errand' = [errand EXCEPT ![e].failed = @ + 1, ![e].at = at]
  BY DEF Uncarded
<1>3. errand' = [errand EXCEPT ![e] = x] /\ DOMAIN x = ErrandFields /\ x.at = at /\ x.object = errand[e].object /\ x.failed = errand[e].failed + 1
  BY <1>1, <1>2 DEF GoodErrand, ErrandFields
<1> HIDE DEF x
<1>4. GoodErrand(setup, posts, e, x)
  <2>1. DOMAIN x = ErrandFields /\ x.object \in DOMAIN setup /\ x.at \in {"hook", "done"}
    BY <1>1, <1>3 DEF GoodErrand
  <2>2. ASSUME e[2] = "notify" PROVE x.object = 1 /\ x.failed = 1 /\ setup[1].bot /\ (x.at = "hook" <=> setup[1].hook)
    BY <1>1, <1>3, <2>2 DEF GoodErrand
  <2>3. x.at = "hook" \/ x.at = "done"
    BY <2>1
  <2> QED  BY <2>1, <2>2, <2>3 DEF GoodErrand
<1> QED  BY <1>3, <1>4

LEMMA PostCardKeeps == ASSUME SlackInv, NEW e \in Errands, PostCard(e) PROVE SlackInv'
<1>1. GoodErrand(setup, posts, e, errand[e]) /\ errand[e].at = "post" /\ DOMAIN errand = Errands
  BY DEF SlackInv, PostCard
<1>2. UNCHANGED <<setup, threads, filed>>
  BY DEF PostCard
<1> DEFINE posting == Post("card", e[1], Room(e), 0, errand[e].object)
           x == [errand[e] EXCEPT !.at = "posted", !.ts = Len(posts) + 1]
<1>3. \/ posting /\ errand' = [errand EXCEPT ![e].at = "posted", ![e].ts = Len(posts) + 1]
      \/ posting /\ Uncarded(e)
      \/ posts' = posts /\ Uncarded(e)
  BY DEF PostCard
<1>4. posting => /\ Longer(posts, posts') /\ Len(posts) + 1 \in DOMAIN posts'
                 /\ posts'[Len(posts) + 1].kind = "card" /\ posts'[Len(posts) + 1].incident = e[1]
                 /\ posts'[Len(posts) + 1].channel = Room(e)
  BY PostLonger
<1>5. CASE posting /\ errand' = [errand EXCEPT ![e].at = "posted", ![e].ts = Len(posts) + 1]
  <2>1. /\ errand' = [errand EXCEPT ![e] = x] /\ DOMAIN x = ErrandFields /\ x.at = "posted" /\ x.object = errand[e].object
        /\ x.ts = Len(posts) + 1
    BY <1>1, <1>5 DEF GoodErrand, ErrandFields
  <2> HIDE DEF x
  <2>2. GoodErrand(setup, posts', e, x)
    BY <1>1, <1>4, <1>5, <2>1 DEF GoodErrand
  <2> QED  BY <1>2, <1>5, <2>1, <2>2, ErrandPosts
<1>6. CASE posting /\ Uncarded(e)
  <2>1. PICK y : errand' = [errand EXCEPT ![e] = y] /\ GoodErrand(setup, posts, e, y)
    BY <1>1, <1>6, UncardedIs
  <2>2. GoodErrand(setup, posts', e, y)
    BY <1>4, <1>6, <2>1, GoodLonger
  <2> QED  BY <1>2, <1>6, <2>1, <2>2, ErrandPosts
<1>7. CASE posts' = posts /\ Uncarded(e)
  <2>1. PICK y : errand' = [errand EXCEPT ![e] = y] /\ GoodErrand(setup, posts, e, y)
    BY <1>1, <1>7, UncardedIs
  <2> QED  BY <1>2, <1>7, <2>1, ErrandMoves
<1> QED  BY <1>3, <1>5, <1>6, <1>7

LEMMA SendHookKeeps == ASSUME SlackInv, NEW e \in Errands, SendHook(e) PROVE SlackInv'
<1>1. GoodErrand(setup, posts, e, errand[e]) /\ errand[e].at = "hook" /\ DOMAIN errand = Errands
  BY DEF SlackInv, SendHook
<1>2. UNCHANGED <<setup, threads, filed>>
  BY DEF SendHook
<1> DEFINE posting == Post("hook", e[1], General, 0, errand[e].object)
           x == [errand[e] EXCEPT !.at = "done"]
           y == [errand[e] EXCEPT !.at = "done", !.failed = @ + 1]
<1>3. \/ posting /\ errand' = [errand EXCEPT ![e].at = "done"]
      \/ posting /\ errand' = [errand EXCEPT ![e].at = "done", ![e].failed = @ + 1]
      \/ posts' = posts /\ errand' = [errand EXCEPT ![e].at = "done", ![e].failed = @ + 1]
  BY DEF SendHook, Move
<1>4. posting => /\ Longer(posts, posts') /\ Len(posts) + 1 \in DOMAIN posts'
                 /\ posts'[Len(posts) + 1].kind = "hook" /\ posts'[Len(posts) + 1].incident = e[1]
                 /\ posts'[Len(posts) + 1].channel = General
  BY PostLonger
<1>5. DOMAIN x = ErrandFields /\ x.at = "done" /\ x.object = errand[e].object
  BY <1>1 DEF GoodErrand, ErrandFields
<1>6. DOMAIN y = ErrandFields /\ y.at = "done" /\ y.object = errand[e].object /\ y.failed = errand[e].failed + 1
  BY <1>1 DEF GoodErrand, ErrandFields
<1>7. [errand EXCEPT ![e].at = "done"] = [errand EXCEPT ![e] = x]
  BY <1>1
<1>8. [errand EXCEPT ![e].at = "done", ![e].failed = @ + 1] = [errand EXCEPT ![e] = y]
  BY <1>1
<1> HIDE DEF x, y
<1>9. GoodErrand(setup, posts, e, y)
  <2>1. ASSUME e[2] = "notify" PROVE y.failed = IF setup[1].bot /\ setup[1].hook THEN 2 ELSE 1
    BY <1>1, <1>6, <2>1 DEF GoodErrand
  <2> QED  BY <1>1, <1>6, <2>1 DEF GoodErrand
<1>10. CASE posting /\ errand' = [errand EXCEPT ![e].at = "done"]
  <2>1. GoodErrand(setup, posts', e, x)
    BY <1>1, <1>4, <1>5, <1>10 DEF GoodErrand
  <2> QED  BY <1>2, <1>7, <1>10, <2>1, ErrandPosts
<1>11. CASE posting /\ errand' = [errand EXCEPT ![e].at = "done", ![e].failed = @ + 1]
  <2>1. GoodErrand(setup, posts', e, y)
    BY <1>4, <1>9, <1>11, GoodLonger
  <2> QED  BY <1>2, <1>8, <1>11, <2>1, ErrandPosts
<1>12. CASE posts' = posts /\ errand' = [errand EXCEPT ![e].at = "done", ![e].failed = @ + 1]
  BY <1>2, <1>8, <1>9, <1>12, ErrandMoves
<1> QED  BY <1>3, <1>10, <1>11, <1>12

LEMMA FileCardKeeps == ASSUME SlackInv, NEW e \in Errands, FileCard(e) PROVE SlackInv'
<1> DEFINE o == errand[e].object
           ts == errand[e].ts
           t == [channel |-> Room(e), ts |-> ts]
           f == [object |-> o, incident |-> e[1], ts |-> ts, at |-> Len(posts)]
           x == [errand[e] EXCEPT !.at = "done"]
<1>1. GoodErrand(setup, posts, e, errand[e]) /\ errand[e].at = "posted" /\ DOMAIN errand = Errands /\ e[1] \in Outages
  BY DEF SlackInv, FileCard, Errands
<1>2. /\ threads' = [threads EXCEPT ![o][e[1]] = t] /\ filed' = filed \cup {f} /\ UNCHANGED <<setup, posts>>
      /\ errand' = [errand EXCEPT ![e].at = "done"]
  BY DEF FileCard, Move
<1>3. f.object = o /\ f.incident = e[1] /\ f.ts = ts /\ f.at = Len(posts) /\ t.channel = Room(e) /\ t.ts = ts
  OBVIOUS
<1>4. o \in DOMAIN setup /\ ts \in DOMAIN posts /\ posts[ts].channel = Room(e) /\ Len(posts) \in Nat
  BY <1>1, LenProperties DEF GoodErrand, SlackInv
<1>5. DOMAIN x = ErrandFields /\ x.at = "done" /\ x.object = o /\ errand' = [errand EXCEPT ![e] = x]
  BY <1>1, <1>2 DEF GoodErrand, ErrandFields
<1>6. o = errand[e].object /\ ts = errand[e].ts
  OBVIOUS
<1> HIDE DEF t, f, x, o, ts
<1>7. GoodErrand(setup, posts, e, x)
  <2>1. ASSUME e[2] = "notify" PROVE posts[ts].incident = e[1] /\ posts[ts].kind # "update" /\ posts[ts].channel = General /\ o = 1
    BY <1>1, <1>4, <1>6, <2>1 DEF GoodErrand, Room
  <2> QED  BY <1>4, <1>5, <2>1 DEF GoodErrand
<1>8. \A g \in Errands : GoodErrand(setup', posts', g, errand'[g])
  <2> SUFFICES ASSUME NEW g \in Errands PROVE GoodErrand(setup, posts, g, errand'[g])
    BY <1>2
  <2>1. CASE g = e
    BY <1>1, <1>5, <1>7, <2>1
  <2>2. CASE g # e
    BY <1>1, <1>5, <2>2 DEF SlackInv
  <2> QED  BY <2>1, <2>2
<1>9. DOMAIN threads = DOMAIN setup /\ DOMAIN threads[o] = Outages
  BY <1>4 DEF SlackInv
<1>10. \A p \in DOMAIN setup, i \in Outages : threads'[p][i] = IF p = o /\ i = e[1] THEN t ELSE threads[p][i]
  BY <1>1, <1>2, <1>9
<1>11. \A p \in DOMAIN setup : DOMAIN threads'[p] = Outages
  BY <1>2, <1>9 DEF SlackInv
<1>12. \A p \in DOMAIN setup, i \in Outages : RightThread(filed', posts, p, i, threads'[p][i])
  <2> SUFFICES ASSUME NEW p \in DOMAIN setup, NEW i \in Outages PROVE RightThread(filed', posts, p, i, threads'[p][i])
    OBVIOUS
  <2>1. CASE p = o /\ i = e[1]
    <3>1. threads'[p][i] = t /\ f \in filed'
      BY <1>2, <1>10, <2>1
    <3> QED  BY <1>3, <1>4, <2>1, <3>1 DEF RightThread
  <2>2. CASE ~(p = o /\ i = e[1])
    <3>1. {g \in filed' : g.incident = i /\ g.object = p} = {g \in filed : g.incident = i /\ g.object = p}
      BY <1>2, <1>3, <2>2
    <3>2. RightThread(filed, posts, p, i, threads[p][i]) /\ threads'[p][i] = threads[p][i]
      BY <1>10, <2>2 DEF SlackInv
    <3> QED  BY <3>1, <3>2 DEF RightThread
  <2> QED  BY <2>1, <2>2
<1>13. \E S : threads' \in Seq(S)
  <2> DEFINE w == [threads[o] EXCEPT ![e[1]] = t]
  <2>1. PICK S : threads \in Seq(S)
    BY DEF SlackInv
  <2>2. threads \in Seq(S \cup {w})
    BY <2>1, ElementOfSeq, LenProperties, SeqDef
  <2>3. threads' = [threads EXCEPT ![o] = w]
    BY <1>2
  <2> HIDE DEF w
  <2>4. threads' \in Seq(S \cup {w})
    BY <1>4, <1>9, <2>2, <2>3, ExceptSeq
  <2> QED  BY <2>4
<1>14. DOMAIN threads' = DOMAIN threads /\ DOMAIN errand' = Errands
  BY <1>1, <1>2
<1>15. \A g \in filed' : g.object \in DOMAIN setup /\ g.ts \in DOMAIN posts /\ g.at \in Nat /\ g.at <= Len(posts)
  BY <1>2, <1>3, <1>4 DEF SlackInv
<1>16. UpdatesThreaded'
  <2>1. \A n \in DOMAIN posts : n \in Nat /\ n <= Len(posts)
    <3>1. DOMAIN posts = 1 .. Len(posts)
      BY LenProperties DEF SlackInv
    <3> QED  BY <1>4, <3>1
  <2>2. \A n \in DOMAIN posts : ~(f.at < n)
    BY <1>3, <1>4, <2>1
  <2>3. \A n \in DOMAIN posts :
           {g \in filed' : g.incident = posts[n].incident /\ g.object = posts[n].object /\ g.at < n}
           = {g \in filed : g.incident = posts[n].incident /\ g.object = posts[n].object /\ g.at < n}
    BY <1>2, <2>2
  <2>4. UpdatesThreaded
    BY DEF SlackInv
  <2> QED  BY <1>2, <2>3, <2>4 DEF UpdatesThreaded
<1> QED  BY <1>2, <1>8, <1>9, <1>11, <1>12, <1>13, <1>14, <1>15, <1>16 DEF SlackInv

LEMMA PostUpdateKeeps == ASSUME SlackInv, NEW i \in Outages, PostUpdate(i) PROVE SlackInv'
<1> DEFINE o == Len(setup)
           t == threads[o][i]
           new == Len(posts) + 1
<1>1. Post("update", i, t.channel, t.ts, o) /\ UNCHANGED <<setup, threads, errand, filed>>
  BY DEF PostUpdate
<1>2. o \in DOMAIN setup
  BY LenProperties DEF SlackInv
<1>3. RightThread(filed, posts, o, i, t)
  BY <1>2 DEF SlackInv
<1>4. o = Len(setup) /\ new = Len(posts) + 1
  OBVIOUS
<1> HIDE DEF o, t, new
<1>5. /\ Longer(posts, posts') /\ new \in DOMAIN posts' /\ Len(posts) \in Nat
      /\ \A n \in DOMAIN posts' : n \in DOMAIN posts \/ n = new
      /\ posts'[new].kind = "update" /\ posts'[new].incident = i /\ posts'[new].channel = t.channel
      /\ posts'[new].thread = t.ts /\ posts'[new].object = o
  BY <1>1, <1>4, PostLonger
<1>6. \A f \in filed : f.object \in DOMAIN setup /\ f.ts \in DOMAIN posts /\ f.at \in Nat /\ f.at <= Len(posts)
  BY DEF SlackInv
<1>7. \A f \in filed : f.at < new /\ posts'[f.ts] = posts[f.ts] /\ f.ts \in DOMAIN posts'
  BY <1>4, <1>5, <1>6 DEF Longer
<1>8. \A e \in Errands : GoodErrand(setup, posts', e, errand[e])
  BY <1>5, GoodLonger DEF SlackInv
<1>9. \A p \in DOMAIN setup, j \in Outages : RightThread(filed, posts', p, j, threads[p][j])
  BY <1>5, <1>6, RightLonger DEF SlackInv
<1>10. UpdatesThreaded'
  <2> SUFFICES ASSUME NEW n \in DOMAIN posts', posts'[n].kind = "update"
               PROVE  LET mine == {f \in filed' : f.incident = posts'[n].incident /\ f.object = posts'[n].object /\ f.at < n}
                      IN IF mine = {} THEN posts'[n].channel = General /\ posts'[n].thread = 0
                         ELSE \E f \in mine : posts'[n].thread = f.ts /\ posts'[f.ts].channel = posts'[n].channel
    BY DEF UpdatesThreaded
  <2>1. CASE n = new
    <3>1. {f \in filed' : f.incident = posts'[n].incident /\ f.object = posts'[n].object /\ f.at < n}
          = {f \in filed : f.incident = i /\ f.object = o}
      BY <1>1, <1>5, <1>7, <2>1
    <3>2. RightThread(filed, posts', o, i, t)
      BY <1>3, <1>5, <1>6, RightLonger
    <3> QED  BY <1>5, <2>1, <3>1, <3>2 DEF RightThread
  <2>2. CASE n # new
    <3>1. n \in DOMAIN posts /\ posts'[n] = posts[n] /\ posts[n].kind = "update"
      BY <1>5, <2>2 DEF Longer
    <3>2. LET mine == {f \in filed : f.incident = posts[n].incident /\ f.object = posts[n].object /\ f.at < n}
          IN IF mine = {} THEN posts[n].channel = General /\ posts[n].thread = 0
             ELSE \E f \in mine : posts[n].thread = f.ts /\ posts[f.ts].channel = posts[n].channel
      BY <3>1 DEF SlackInv, UpdatesThreaded
    <3> QED  BY <1>1, <1>7, <3>1, <3>2
  <2> QED  BY <2>1, <2>2
<1>11. \A f \in filed : f.at <= Len(posts')
  <2>1. Len(posts') \in Nat /\ Len(posts) <= Len(posts')
    BY <1>5, LenProperties DEF Longer
  <2> QED  BY <1>5, <1>6, <2>1
<1>12. \E S : posts' \in Seq(S)
  BY <1>5 DEF Longer
<1> QED  BY <1>1, <1>6, <1>7, <1>8, <1>9, <1>10, <1>11, <1>12 DEF SlackInv

LEMMA SlackStep == SlackInv /\ SlackNext => SlackInv'
BY ReloadSlackKeeps, AlertSlackKeeps, RequestRoomKeeps, PostUpdateKeeps, CreateRoomKeeps, PostCardKeeps, FileCardKeeps, SendHookKeeps
   DEF SlackNext

----------------------------------------------------------------------------
(* Tickets                                                                 *)

BatchFields == {"at", "incident", "items", "epic", "n", "key", "results"}

BatchTypes(b) ==
    /\ DOMAIN b = BatchFields /\ b.at \in {"idle", "item", "link", "answered"}
    /\ b.results \in Seq(Nat) /\ b.key \in Nat /\ b.n \in Nat \ {0} /\ Len(b.items) \in Nat
    /\ b.at = "idle" => b = NoBatch
    /\ b.at \in {"item", "link"} => b.n <= Len(b.items) /\ Len(b.results) = b.n - 1
    /\ b.at = "answered" => Len(b.results) = Len(b.items)
    /\ b.key # NoKey <=> b.at = "link"

\* The ticket made for the k-th item of a request.
MadeFor(ts, key, b, k) == key \in DOMAIN ts /\ ts[key].item = b.items[k] /\ ts[key].incident = b.incident

\* The tickets a request knows of.
KeysOf(b) == ({b.results[k] : k \in DOMAIN b.results} \cup {b.key}) \ {NoKey}
Keys(r) == KeysOf(batch[r])

TicketsInv ==
    /\ (\E S : tickets \in Seq(S)) /\ DOMAIN batch = Reviewers
    /\ \A r \in Reviewers :
          /\ BatchTypes(batch[r])
          /\ \A k \in DOMAIN batch[r].results :
                batch[r].results[k] # NoKey => MadeFor(tickets, batch[r].results[k], batch[r], k)
          /\ batch[r].at = "link" => MadeFor(tickets, batch[r].key, batch[r], batch[r].n)
          /\ Keys(r) \cap unknown = {}
    /\ \A r, s \in Reviewers : r # s => Keys(r) \cap Keys(s) = {}
    /\ DOMAIN tickets = unknown \cup UNION {Keys(r) : r \in Reviewers}

LEMMA TicketsInitInv == TicketsInit => TicketsInv
<1> SUFFICES ASSUME TicketsInit PROVE TicketsInv
  OBVIOUS
<1>1. /\ tickets = <<>> /\ unknown = {} /\ batch = [r \in Reviewers |-> NoBatch]
  BY DEF TicketsInit
<1>2. /\ DOMAIN NoBatch = BatchFields /\ NoBatch.at = "idle" /\ NoBatch.results = <<>> /\ NoBatch.key = NoKey
      /\ NoBatch.n = 1 /\ NoBatch.items = <<>> /\ NoKey = 0
  BY DEF NoBatch, NoKey, BatchFields
<1>3. \A r \in Reviewers : batch[r] = NoBatch
  BY <1>1
<1>4. <<>> \in Seq(Nat) /\ Len(<<>>) = 0 /\ DOMAIN <<>> = {} /\ tickets \in Seq({})
  BY <1>1
<1>5. BatchTypes(NoBatch)
  BY <1>2, <1>4 DEF BatchTypes
<1>6. \A r \in Reviewers : Keys(r) = {}
  BY <1>2, <1>3, <1>4 DEF Keys, KeysOf
<1> QED  BY <1>1, <1>2, <1>3, <1>4, <1>5, <1>6 DEF TicketsInv

LEMMA TicketsUnchanged == TicketsInv /\ UNCHANGED ticketVars => TicketsInv'
<1> SUFFICES ASSUME TicketsInv, UNCHANGED ticketVars PROVE TicketsInv'
  OBVIOUS
<1>1. UNCHANGED <<tickets, batch, unknown>>
  BY DEF ticketVars
<1>2. \A r \in Reviewers : Keys(r)' = Keys(r)
  BY <1>1 DEF Keys
<1> QED  BY <1>1, <1>2 DEF TicketsInv, MadeFor

LEMMA TicketsInvSound == TicketsInv => TicketsHonest
<1> SUFFICES ASSUME TicketsInv PROVE TicketsHonest
  OBVIOUS
<1> DEFINE told(r) == {batch[r].results[k] : k \in DOMAIN batch[r].results} \ {NoKey}
           given == UNION {told(r) \cup ({batch[r].key} \ {NoKey}) : r \in Reviewers}
<1>1. \A r \in Reviewers : told(r) \subseteq Keys(r) /\ told(r) \cup ({batch[r].key} \ {NoKey}) = Keys(r)
  BY DEF Keys, KeysOf
<1>2. \A r \in Reviewers : \A s \in Reviewers \ {r} : told(r) \cap told(s) = {}
  BY <1>1 DEF TicketsInv
<1>3. given = UNION {Keys(r) : r \in Reviewers}
  BY <1>1
<1>4. DOMAIN tickets \ given = unknown
  <2>1. \A r \in Reviewers : Keys(r) \cap unknown = {}
    BY DEF TicketsInv
  <2>2. DOMAIN tickets = unknown \cup UNION {Keys(r) : r \in Reviewers}
    BY DEF TicketsInv
  <2> HIDE DEF given
  <2> QED  BY <1>3, <2>1, <2>2
<1>5. \A r \in Reviewers :
         /\ batch[r].at = "answered" => Len(batch[r].results) = Len(batch[r].items)
         /\ \A k \in DOMAIN batch[r].results : batch[r].results[k] # NoKey =>
               /\ tickets[batch[r].results[k]].item = batch[r].items[k]
               /\ provider = "jira" => batch[r].results[k] \in TicketsOf(batch[r].incident)
  <2> HIDE DEF told, given
  <2> TAKE r \in Reviewers
  <2>1. BatchTypes(batch[r]) /\ \A k \in DOMAIN batch[r].results :
           batch[r].results[k] # NoKey => MadeFor(tickets, batch[r].results[k], batch[r], k)
    BY DEF TicketsInv
  <2>2. batch[r].at = "answered" => Len(batch[r].results) = Len(batch[r].items)
    BY <2>1 DEF BatchTypes
  <2>3. \A k \in DOMAIN batch[r].results : batch[r].results[k] # NoKey =>
           /\ tickets[batch[r].results[k]].item = batch[r].items[k]
           /\ provider = "jira" => batch[r].results[k] \in TicketsOf(batch[r].incident)
    BY <2>1 DEF MadeFor, TicketsOf
  <2> QED  BY <2>2, <2>3
<1> HIDE DEF given
<1>6. TicketsHonest <=>
         /\ \A r \in Reviewers :
               /\ batch[r].at = "answered" => Len(batch[r].results) = Len(batch[r].items)
               /\ \A k \in DOMAIN batch[r].results : batch[r].results[k] # NoKey =>
                     /\ tickets[batch[r].results[k]].item = batch[r].items[k]
                     /\ provider = "jira" => batch[r].results[k] \in TicketsOf(batch[r].incident)
               /\ \A s \in Reviewers \ {r} : told(r) \cap told(s) = {}
         /\ DOMAIN tickets \ given = unknown
  BY DEF TicketsHonest, given
<1> HIDE DEF told
<1> QED  BY <1>2, <1>4, <1>5, <1>6

\* A request goes on as c: the others and their tickets are as they were, and what
\* is new to it or lost is a new ticket.
LEMMA BatchMoves ==
  ASSUME TicketsInv, NEW r \in Reviewers, NEW c, batch' = [batch EXCEPT ![r] = c], BatchTypes(c),
         \E S : tickets' \in Seq(S), DOMAIN tickets \subseteq DOMAIN tickets',
         \A k \in DOMAIN tickets : tickets'[k].item = tickets[k].item /\ tickets'[k].incident = tickets[k].incident,
         \A k \in DOMAIN c.results : c.results[k] # NoKey => MadeFor(tickets', c.results[k], c, k),
         c.at = "link" => MadeFor(tickets', c.key, c, c.n),
         KeysOf(batch[r]) \subseteq KeysOf(c), (KeysOf(c) \ KeysOf(batch[r])) \cap DOMAIN tickets = {},
         unknown \subseteq unknown', (unknown' \ unknown) \cap DOMAIN tickets = {}, KeysOf(c) \cap unknown' = {},
         DOMAIN tickets' = DOMAIN tickets \cup unknown' \cup KeysOf(c)
  PROVE  TicketsInv'
<1>1. DOMAIN batch' = Reviewers /\ batch'[r] = c /\ \A s \in Reviewers \ {r} : batch'[s] = batch[s]
  BY DEF TicketsInv
<1>2. Keys(r)' = KeysOf(c) /\ \A s \in Reviewers \ {r} : Keys(s)' = Keys(s)
  BY <1>1 DEF Keys
<1>3. Keys(r) = KeysOf(batch[r]) /\ \A s \in Reviewers : Keys(s) \subseteq DOMAIN tickets /\ Keys(s) \cap unknown = {}
  BY DEF Keys, TicketsInv
<1>4. \A s \in Reviewers \ {r} : Keys(s) \cap KeysOf(c) = {} /\ Keys(s) \cap unknown' = {}
  BY <1>3 DEF TicketsInv
<1>5. ASSUME NEW s \in Reviewers
      PROVE /\ BatchTypes(batch'[s])
            /\ \A k \in DOMAIN batch'[s].results :
                  batch'[s].results[k] # NoKey => MadeFor(tickets', batch'[s].results[k], batch'[s], k)
            /\ batch'[s].at = "link" => MadeFor(tickets', batch'[s].key, batch'[s], batch'[s].n)
            /\ Keys(s)' \cap unknown' = {}
  <2>1. CASE s = r
    BY <1>1, <1>2, <2>1
  <2>2. CASE s # r
    <3>1. batch'[s] = batch[s] /\ Keys(s)' \cap unknown' = {}
      BY <1>1, <1>2, <1>4, <2>2
    <3>2. /\ BatchTypes(batch[s])
          /\ \A k \in DOMAIN batch[s].results :
                batch[s].results[k] # NoKey => MadeFor(tickets, batch[s].results[k], batch[s], k)
          /\ batch[s].at = "link" => MadeFor(tickets, batch[s].key, batch[s], batch[s].n)
      BY DEF TicketsInv
    <3> QED  BY <3>1, <3>2 DEF MadeFor
  <2> QED  BY <2>1, <2>2
<1>6. \A s, t \in Reviewers : s # t => Keys(s)' \cap Keys(t)' = {}
  <2> SUFFICES ASSUME NEW s \in Reviewers, NEW t \in Reviewers, s # t PROVE Keys(s)' \cap Keys(t)' = {}
    OBVIOUS
  <2>1. CASE s = r
    BY <1>2, <1>4, <2>1
  <2>2. CASE t = r
    BY <1>2, <1>4, <2>2
  <2>3. CASE s # r /\ t # r
    BY <1>2, <2>3 DEF TicketsInv
  <2> QED  BY <2>1, <2>2, <2>3
<1>7. DOMAIN tickets' = unknown' \cup UNION {Keys(s)' : s \in Reviewers}
  <2>1. \A k \in DOMAIN tickets : k \in unknown \/ \E s \in Reviewers : k \in Keys(s)
    BY DEF TicketsInv
  <2>2. ASSUME NEW k \in DOMAIN tickets' PROVE k \in unknown' \/ \E s \in Reviewers : k \in Keys(s)'
    BY <1>2, <1>3, <2>1
  <2>3. ASSUME NEW s \in Reviewers PROVE Keys(s)' \subseteq DOMAIN tickets'
    BY <1>2, <1>3
  <2> QED  BY <2>2, <2>3
<1> QED  BY <1>1, <1>5, <1>6, <1>7 DEF TicketsInv

LEMMA PostItemsKeeps == ASSUME TicketsInv, NEW r \in Reviewers, PostItems(r) PROVE TicketsInv'
<1>1. PICK i \in Causes, items \in ItemLists, epic \in (IF provider = "jira" THEN BOOLEAN ELSE {FALSE}) :
        batch' = [batch EXCEPT ![r] = [NoBatch EXCEPT !.at = IF Len(items) = 0 THEN "answered" ELSE "item",
                                                      !.incident = i, !.items = items, !.epic = epic]]
  BY DEF PostItems
<1> DEFINE b == [NoBatch EXCEPT !.at = IF Len(items) = 0 THEN "answered" ELSE "item",
                                !.incident = i, !.items = items, !.epic = epic]
<1>2. /\ DOMAIN b = BatchFields /\ b.at = (IF Len(items) = 0 THEN "answered" ELSE "item")
      /\ b.results = <<>> /\ b.key = 0 /\ b.n = 1 /\ b.items = items
  BY DEF NoBatch, NoKey, BatchFields
<1>3. batch' = [batch EXCEPT ![r] = b] /\ UNCHANGED <<tickets, unknown>> /\ batch[r].at = "idle"
  BY <1>1 DEF PostItems
<1> HIDE DEF b
<1>4. <<>> \in Seq(Nat) /\ Len(<<>>) = 0 /\ DOMAIN <<>> = {}
  OBVIOUS
<1>5. BatchTypes(b)
  BY <1>2, <1>4, ItemsAssumption DEF BatchTypes, NoKey
<1>6. KeysOf(b) = {} /\ KeysOf(batch[r]) = {}
  <2>1. batch[r] = NoBatch
    BY <1>3 DEF TicketsInv, BatchTypes
  <2>2. NoBatch.results = <<>> /\ NoBatch.key = 0
    BY DEF NoBatch, NoKey
  <2> QED  BY <1>2, <1>4, <2>1, <2>2 DEF KeysOf, NoKey
<1>7. /\ \A k \in DOMAIN b.results : b.results[k] # NoKey => MadeFor(tickets', b.results[k], b, k)
      /\ b.at = "link" => MadeFor(tickets', b.key, b, b.n)
  BY <1>2, <1>4
<1>8. (\E S : tickets' \in Seq(S)) /\ DOMAIN tickets' = DOMAIN tickets \cup unknown' \cup KeysOf(b)
  BY <1>3, <1>6 DEF TicketsInv
<1> QED  BY <1>3, <1>5, <1>6, <1>7, <1>8, BatchMoves

\* What a request says of an item, in its place.
LEMMA ReportedIs ==
  ASSUME NEW b, BatchTypes(b), b.at \in {"item", "link"}, NEW key \in Nat, NEW c, c = Reported(b, key)
  PROVE  /\ BatchTypes(c) /\ c.items = b.items /\ c.incident = b.incident /\ c.at # "link"
         /\ DOMAIN c.results = 1 .. b.n /\ c.results[b.n] = key /\ DOMAIN b.results = 1 .. b.n - 1
         /\ \A k \in 1 .. b.n - 1 : c.results[k] = b.results[k]
         /\ KeysOf(c) = ({b.results[k] : k \in DOMAIN b.results} \cup {key}) \ {NoKey}
<1>1. /\ DOMAIN c = BatchFields /\ c.at = Following(b) /\ c.n = b.n + 1 /\ c.key = NoKey
      /\ c.results = Append(b.results, key) /\ c.items = b.items /\ c.incident = b.incident
  BY DEF BatchTypes, Reported, BatchFields
<1>2. /\ b.results \in Seq(Nat) /\ b.n \in Nat \ {0} /\ Len(b.items) \in Nat /\ b.n <= Len(b.items)
      /\ Len(b.results) = b.n - 1
  BY DEF BatchTypes
<1>3. /\ c.results \in Seq(Nat) /\ Len(c.results) = Len(b.results) + 1 /\ c.results[Len(b.results) + 1] = key
      /\ \A k \in 1 .. Len(b.results) : c.results[k] = b.results[k]
  BY <1>1, <1>2, AppendProperties
<1>4. Len(b.results) + 1 = b.n
  BY <1>2
<1>5. /\ Len(c.results) = b.n /\ c.results[b.n] = key /\ \A k \in 1 .. b.n - 1 : c.results[k] = b.results[k]
  BY <1>2, <1>3, <1>4
<1>6. DOMAIN c.results = 1 .. b.n /\ DOMAIN b.results = 1 .. b.n - 1
  BY <1>2, <1>3, <1>5, LenProperties
<1>7. c.at = IF b.n = Len(b.items) THEN "answered" ELSE "item"
  BY <1>1 DEF Following
<1>8. BatchTypes(c)
  BY <1>1, <1>2, <1>3, <1>5, <1>7 DEF BatchTypes, NoKey
<1>9. {c.results[k] : k \in DOMAIN c.results} = {b.results[k] : k \in DOMAIN b.results} \cup {key}
  <2>1. \A k \in 1 .. b.n : k \in 1 .. b.n - 1 \/ k = b.n
    BY <1>2
  <2>2. b.n \in 1 .. b.n /\ 1 .. b.n - 1 \subseteq 1 .. b.n
    BY <1>2
  <2> DEFINE old == {b.results[k] : k \in 1 .. b.n - 1}
             new == {c.results[k] : k \in 1 .. b.n}
  <2>3. ASSUME NEW k \in 1 .. b.n PROVE c.results[k] \in old \cup {key}
    BY <1>5, <2>1
  <2>4. ASSUME NEW k \in 1 .. b.n - 1 PROVE b.results[k] \in new
    <3>1. k \in 1 .. b.n /\ b.results[k] = c.results[k]
      BY <1>5, <2>2
    <3> QED  BY <3>1
  <2>5. key \in new
    BY <1>5, <2>2
  <2>6. new \subseteq old \cup {key}
    BY <2>3
  <2>7. old \subseteq new
    BY <2>4
  <2>8. new = old \cup {key}
    <3> HIDE DEF old, new
    <3> QED  BY <2>5, <2>6, <2>7
  <2> QED  BY <1>6, <2>8
<1> QED  BY <1>1, <1>5, <1>6, <1>7, <1>8, <1>9 DEF KeysOf

\* A new ticket for the item a request is at.
LEMMA TicketMade ==
  ASSUME TicketsInv, NEW b, NEW epic,
         tickets' = Append(tickets, [incident |-> b.incident, item |-> b.items[b.n], epic |-> epic]),
         NEW key, key = Len(tickets) + 1
  PROVE  /\ \E S : tickets' \in Seq(S)
         /\ key \in Nat /\ key # NoKey /\ key \notin DOMAIN tickets /\ DOMAIN tickets' = DOMAIN tickets \cup {key}
         /\ \A k \in DOMAIN tickets : tickets'[k] = tickets[k]
         /\ MadeFor(tickets', key, b, b.n)
<1> DEFINE m == [incident |-> b.incident, item |-> b.items[b.n], epic |-> epic]
<1>1. PICK S : tickets \in Seq(S)
  BY DEF TicketsInv
<1>2. m.item = b.items[b.n] /\ m.incident = b.incident /\ tickets' = Append(tickets, m)
  OBVIOUS
<1> HIDE DEF m
<1>3. tickets \in Seq(S \cup {m}) /\ Len(tickets) \in Nat /\ DOMAIN tickets = 1 .. Len(tickets)
  BY <1>1, ElementOfSeq, LenProperties, SeqDef
<1>4. /\ tickets' \in Seq(S \cup {m}) /\ Len(tickets') = Len(tickets) + 1 /\ tickets'[key] = m
      /\ \A k \in 1 .. Len(tickets) : tickets'[k] = tickets[k]
  BY <1>2, <1>3, AppendProperties
<1>5. DOMAIN tickets' = 1 .. Len(tickets) + 1
  BY <1>4, LenProperties
<1>6. key \in Nat /\ key # 0 /\ key \notin 1 .. Len(tickets) /\ 1 .. Len(tickets) + 1 = 1 .. Len(tickets) \cup {key}
  BY <1>3
<1> QED  BY <1>2, <1>3, <1>4, <1>5, <1>6 DEF MadeFor, NoKey

\* What was made for a request stays so when tickets are added and linked, and the request
\* goes on.
LEMMA StillMade ==
  ASSUME NEW b, NEW c, c.items = b.items, c.incident = b.incident, DOMAIN tickets \subseteq DOMAIN tickets',
         \A k \in DOMAIN tickets : tickets'[k].item = tickets[k].item /\ tickets'[k].incident = tickets[k].incident,
         NEW key, NEW k, MadeFor(tickets, key, b, k)
  PROVE  MadeFor(tickets', key, c, k)
BY DEF MadeFor

\* The item at hand is reported, with a ticket or without.
LEMMA ReportKeeps ==
  ASSUME TicketsInv, NEW r \in Reviewers, NEW b, b = batch[r], b.at \in {"item", "link"}, NEW key \in Nat,
         batch' = [batch EXCEPT ![r] = Reported(b, key)],
         \E S : tickets' \in Seq(S), DOMAIN tickets \subseteq DOMAIN tickets',
         \A k \in DOMAIN tickets : tickets'[k].item = tickets[k].item /\ tickets'[k].incident = tickets[k].incident,
         key # NoKey => MadeFor(tickets', key, b, b.n) /\ (key \notin DOMAIN tickets \/ key = b.key),
         b.key \in {NoKey, key}, key \notin unknown',
         unknown \subseteq unknown', (unknown' \ unknown) \cap DOMAIN tickets = {},
         DOMAIN tickets' = DOMAIN tickets \cup unknown' \cup ({key} \ {NoKey})
  PROVE  TicketsInv'
<1> DEFINE c == Reported(b, key)
           old == {b.results[k] : k \in DOMAIN b.results}
<1>1. BatchTypes(b)
  BY DEF TicketsInv
<1>2. /\ BatchTypes(c) /\ c.items = b.items /\ c.incident = b.incident /\ c.at # "link"
      /\ DOMAIN c.results = 1 .. b.n /\ c.results[b.n] = key /\ DOMAIN b.results = 1 .. b.n - 1
      /\ \A k \in 1 .. b.n - 1 : c.results[k] = b.results[k]
      /\ KeysOf(c) = (old \cup {key}) \ {NoKey}
  BY <1>1, ReportedIs
<1>3. batch' = [batch EXCEPT ![r] = c]
  OBVIOUS
<1>4. KeysOf(b) = (old \cup {b.key}) \ {NoKey}
  BY DEF KeysOf
<1> HIDE DEF c, old
<1>5. \A k \in DOMAIN c.results : c.results[k] # NoKey => MadeFor(tickets', c.results[k], c, k)
  <2> SUFFICES ASSUME NEW k \in DOMAIN c.results, c.results[k] # NoKey PROVE MadeFor(tickets', c.results[k], c, k)
    OBVIOUS
  <2>1. CASE k \in DOMAIN b.results
    <3>1. MadeFor(tickets, b.results[k], b, k) /\ c.results[k] = b.results[k]
      BY <1>2, <2>1 DEF TicketsInv
    <3> QED  BY <1>2, <3>1, StillMade
  <2>2. CASE k \notin DOMAIN b.results
    <3>1. k = b.n
      BY <1>1, <1>2, <2>2 DEF BatchTypes
    <3> QED  BY <1>2, <3>1 DEF MadeFor
  <2> QED  BY <2>1, <2>2
<1>6. KeysOf(batch[r]) \subseteq KeysOf(c) /\ (KeysOf(c) \ KeysOf(batch[r])) \cap DOMAIN tickets = {}
  BY <1>2, <1>4
<1>7. KeysOf(b) \subseteq DOMAIN tickets /\ KeysOf(b) \cap unknown = {}
  BY DEF TicketsInv, Keys
<1>8. KeysOf(c) \cap unknown' = {}
  BY <1>2, <1>4, <1>7
<1>9. DOMAIN tickets' = DOMAIN tickets \cup unknown' \cup KeysOf(c)
  BY <1>2, <1>4, <1>7
<1> QED  BY <1>2, <1>3, <1>5, <1>6, <1>8, <1>9, BatchMoves

LEMMA CreateTicketKeeps == ASSUME TicketsInv, NEW r \in Reviewers, CreateTicket(r) PROVE TicketsInv'
<1> DEFINE b == batch[r]
           key == Len(tickets) + 1
           made == Append(tickets, [incident |-> b.incident, item |-> b.items[b.n], epic |-> FALSE])
           linking == [b EXCEPT !.at = "link", !.key = key]
<1>1. /\ b.at = "item" /\ BatchTypes(b) /\ b.key = NoKey
      /\ \/ /\ tickets' = made /\ unknown' = unknown
            /\ batch' = [batch EXCEPT ![r] = linking] \/ batch' = [batch EXCEPT ![r] = Reported(b, key)]
         \/ /\ batch' = [batch EXCEPT ![r] = Reported(b, NoKey)]
            /\ \/ tickets' = made /\ unknown' = unknown \cup {key}
               \/ tickets' = tickets /\ unknown' = unknown
  BY DEF CreateTicket, TicketsInv, BatchTypes
<1>2. unknown \subseteq DOMAIN tickets /\ NoKey \in Nat /\ NoKey \notin DOMAIN tickets /\ (\E S : tickets \in Seq(S))
  <2>1. \E S : tickets \in Seq(S)
    BY DEF TicketsInv
  <2>2. DOMAIN tickets = 1 .. Len(tickets)
    BY <2>1, LenProperties
  <2> QED  BY <2>1, <2>2 DEF TicketsInv, NoKey
<1>3. tickets' = made =>
        /\ \E S : tickets' \in Seq(S)
        /\ key \in Nat /\ key # NoKey /\ key \notin DOMAIN tickets /\ DOMAIN tickets' = DOMAIN tickets \cup {key}
        /\ \A k \in DOMAIN tickets : tickets'[k] = tickets[k]
        /\ MadeFor(tickets', key, b, b.n)
  BY TicketMade
<1> HIDE DEF b, key, made
<1>4. CASE tickets' = made /\ unknown' = unknown /\ batch' = [batch EXCEPT ![r] = linking]
  <2>1. /\ DOMAIN linking = BatchFields /\ linking.at = "link" /\ linking.key = key /\ linking.n = b.n
        /\ linking.items = b.items /\ linking.incident = b.incident /\ linking.results = b.results
    BY <1>1 DEF BatchTypes, BatchFields
  <2> HIDE DEF linking
  <2>2. BatchTypes(linking)
    BY <1>1, <1>3, <1>4, <2>1 DEF BatchTypes
  <2>3. KeysOf(linking) = KeysOf(b) \cup {key}
    BY <1>1, <1>3, <1>4, <2>1 DEF KeysOf
  <2>4. \A k \in DOMAIN linking.results :
           linking.results[k] # NoKey => MadeFor(tickets', linking.results[k], linking, k)
    <3> SUFFICES ASSUME NEW k \in DOMAIN linking.results, linking.results[k] # NoKey
                 PROVE  MadeFor(tickets', linking.results[k], linking, k)
      OBVIOUS
    <3>1. MadeFor(tickets, b.results[k], b, k)
      BY <2>1 DEF TicketsInv, b
    <3> QED  BY <1>3, <1>4, <2>1, <3>1, StillMade
  <2>5. MadeFor(tickets', linking.key, linking, linking.n)
    BY <1>3, <1>4, <2>1 DEF MadeFor
  <2>6. KeysOf(b) \subseteq DOMAIN tickets /\ KeysOf(b) \cap unknown = {}
    BY DEF TicketsInv, Keys, b
  <2>7. KeysOf(batch[r]) = KeysOf(b)
    BY DEF b
  <2> QED  BY <1>2, <1>3, <1>4, <2>2, <2>3, <2>4, <2>5, <2>6, <2>7, BatchMoves
<1>5. CASE tickets' = made /\ unknown' = unknown /\ batch' = [batch EXCEPT ![r] = Reported(b, key)]
  <2>1. b = batch[r] /\ b.at \in {"item", "link"} /\ key \in Nat /\ b.key \in {NoKey, key}
    BY <1>1, <1>2, <1>3, <1>5 DEF b
  <2>2. batch' = [batch EXCEPT ![r] = Reported(b, key)] /\ (\E S : tickets' \in Seq(S))
    BY <1>2, <1>3, <1>5
  <2>3. DOMAIN tickets \subseteq DOMAIN tickets' /\ key \notin unknown'
    BY <1>2, <1>3, <1>5
  <2>4. \A k \in DOMAIN tickets : tickets'[k].item = tickets[k].item /\ tickets'[k].incident = tickets[k].incident
    BY <1>3, <1>5
  <2>5. key # NoKey => MadeFor(tickets', key, b, b.n) /\ (key \notin DOMAIN tickets \/ key = b.key)
    BY <1>3, <1>5
  <2>6. unknown \subseteq unknown' /\ (unknown' \ unknown) \cap DOMAIN tickets = {}
    BY <1>3, <1>5
  <2>7. DOMAIN tickets' = DOMAIN tickets \cup unknown' \cup ({key} \ {NoKey})
    BY <1>2, <1>3, <1>5
  <2> QED  BY <2>1, <2>2, <2>3, <2>4, <2>5, <2>6, <2>7, ReportKeeps
<1>6. CASE tickets' = made /\ unknown' = unknown \cup {key} /\ batch' = [batch EXCEPT ![r] = Reported(b, NoKey)]
  <2>1. b = batch[r] /\ b.at \in {"item", "link"} /\ NoKey \in Nat /\ b.key \in {NoKey, NoKey}
    BY <1>1, <1>2, <1>3, <1>6 DEF b
  <2>2. batch' = [batch EXCEPT ![r] = Reported(b, NoKey)] /\ (\E S : tickets' \in Seq(S))
    BY <1>2, <1>3, <1>6
  <2>3. DOMAIN tickets \subseteq DOMAIN tickets' /\ NoKey \notin unknown'
    BY <1>2, <1>3, <1>6
  <2>4. \A k \in DOMAIN tickets : tickets'[k].item = tickets[k].item /\ tickets'[k].incident = tickets[k].incident
    BY <1>3, <1>6
  <2>5. NoKey # NoKey => MadeFor(tickets', NoKey, b, b.n) /\ (NoKey \notin DOMAIN tickets \/ NoKey = b.key)
    BY <1>3, <1>6
  <2>6. unknown \subseteq unknown' /\ (unknown' \ unknown) \cap DOMAIN tickets = {}
    BY <1>3, <1>6
  <2>7. DOMAIN tickets' = DOMAIN tickets \cup unknown' \cup ({NoKey} \ {NoKey})
    BY <1>2, <1>3, <1>6
  <2> QED  BY <2>1, <2>2, <2>3, <2>4, <2>5, <2>6, <2>7, ReportKeeps
<1>7. CASE tickets' = tickets /\ unknown' = unknown /\ batch' = [batch EXCEPT ![r] = Reported(b, NoKey)]
  <2>1. b = batch[r] /\ b.at \in {"item", "link"} /\ NoKey \in Nat /\ b.key \in {NoKey, NoKey}
    BY <1>1, <1>2, <1>7 DEF b
  <2>2. batch' = [batch EXCEPT ![r] = Reported(b, NoKey)] /\ (\E S : tickets' \in Seq(S))
    BY <1>2, <1>7
  <2>3. DOMAIN tickets \subseteq DOMAIN tickets' /\ NoKey \notin unknown'
    BY <1>2, <1>7
  <2>4. \A k \in DOMAIN tickets : tickets'[k].item = tickets[k].item /\ tickets'[k].incident = tickets[k].incident
    BY <1>7
  <2>5. NoKey # NoKey => MadeFor(tickets', NoKey, b, b.n) /\ (NoKey \notin DOMAIN tickets \/ NoKey = b.key)
    BY <1>7
  <2>6. unknown \subseteq unknown' /\ (unknown' \ unknown) \cap DOMAIN tickets = {}
    BY <1>7
  <2>7. DOMAIN tickets' = DOMAIN tickets \cup unknown' \cup ({NoKey} \ {NoKey})
    BY <1>2, <1>7
  <2> QED  BY <2>1, <2>2, <2>3, <2>4, <2>5, <2>6, <2>7, ReportKeeps
<1> QED  BY <1>1, <1>4, <1>5, <1>6, <1>7

LEMMA LinkEpicKeeps == ASSUME TicketsInv, NEW r \in Reviewers, LinkEpic(r) PROVE TicketsInv'
<1> DEFINE b == batch[r]
           key == b.key
           linked == [tickets EXCEPT ![key].epic = TRUE]
<1>1. /\ b.at = "link" /\ BatchTypes(b) /\ unknown' = unknown /\ tickets' \in {linked, tickets}
      /\ batch' = [batch EXCEPT ![r] = Reported(b, key)] /\ MadeFor(tickets, key, b, b.n)
  BY DEF LinkEpic, TicketsInv
<1>2. key \in Nat /\ key # NoKey /\ key \in KeysOf(b) /\ key \in DOMAIN tickets
  BY <1>1 DEF BatchTypes, KeysOf, MadeFor
<1>3. key \notin unknown
  BY <1>2 DEF TicketsInv, Keys
<1>4. /\ \E S : tickets' \in Seq(S)
      /\ DOMAIN tickets' = DOMAIN tickets
      /\ \A k \in DOMAIN tickets : tickets'[k].item = tickets[k].item /\ tickets'[k].incident = tickets[k].incident
  <2>1. PICK S : tickets \in Seq(S)
    BY DEF TicketsInv
  <2> DEFINE t == [tickets[key] EXCEPT !.epic = TRUE]
  <2>2. t.item = tickets[key].item /\ t.incident = tickets[key].incident /\ linked = [tickets EXCEPT ![key] = t]
    OBVIOUS
  <2> HIDE DEF t
  <2>3. tickets \in Seq(S \cup {t})
    <3>1. S \subseteq S \cup {t}
      OBVIOUS
    <3> QED  BY <2>1, <3>1, SeqMonotonic
  <2>4. linked \in Seq(S \cup {t})
    BY <1>2, <2>2, <2>3, ExceptSeq
  <2>5. DOMAIN linked = DOMAIN tickets /\ \A k \in DOMAIN tickets : linked[k] = IF k = key THEN t ELSE tickets[k]
    BY <2>2
  <2> HIDE DEF linked
  <2> QED  BY <1>1, <2>1, <2>2, <2>4, <2>5
<1>5. MadeFor(tickets', key, b, b.n) /\ unknown \subseteq DOMAIN tickets
  <2>1. unknown \subseteq DOMAIN tickets
    BY DEF TicketsInv
  <2> HIDE DEF linked, b, key
  <2>2. MadeFor(tickets', key, b, b.n)
    BY <1>1, <1>4, StillMade
  <2> QED  BY <2>1, <2>2
<1>6. b = batch[r] /\ key = b.key
  OBVIOUS
<1> HIDE DEF b, key, linked
<1>7. /\ \E S : tickets' \in Seq(S)
      /\ DOMAIN tickets \subseteq DOMAIN tickets'
      /\ b.key \in {NoKey, key} /\ b.at \in {"item", "link"}
      /\ key # NoKey => MadeFor(tickets', key, b, b.n) /\ (key \notin DOMAIN tickets \/ key = b.key)
  BY <1>1, <1>4, <1>5, <1>6
<1>8. /\ key \notin unknown' /\ unknown \subseteq unknown' /\ (unknown' \ unknown) \cap DOMAIN tickets = {}
      /\ DOMAIN tickets' = DOMAIN tickets \cup unknown' \cup ({key} \ {NoKey})
  BY <1>1, <1>2, <1>3, <1>4, <1>5
<1>9. \A k \in DOMAIN tickets : tickets'[k].item = tickets[k].item /\ tickets'[k].incident = tickets[k].incident
  BY <1>4
<1> QED  BY <1>1, <1>2, <1>6, <1>7, <1>8, <1>9, ReportKeeps

LEMMA TicketsStep == TicketsInv /\ TicketsNext => TicketsInv'
BY PostItemsKeeps, CreateTicketKeeps, LinkEpicKeeps DEF TicketsNext

----------------------------------------------------------------------------
(* Blamed deployments (Deploys)                                            *)

\* The deployments d before the incident, less than the window.
Before(d) == {n \in DOMAIN d : 0 < trouble - d[n] /\ trouble - d[n] < BlameWindow}

\* The last of them is blamed, or the query fails, or it is out of the window or of the page by then.
Judged(d, b) ==
    IF Before(d) = {} THEN b.deploy = Nothing
    ELSE \E last \in Before(d) :
            /\ \A m \in Before(d) : last <= m
            /\ \/ b.deploy = d[last]
               \/ /\ b.deploy = Nothing
                  /\ \/ b.failed
                     \/ d[last] < b.at - BlameWindow
                     \/ last > DeployPage /\ \A n \in last - DeployPage .. last - 1 : d[n] <= b.at

DeploysInv ==
    /\ minute \in Nat /\ deploys \in Seq(Nat) /\ trouble \in Nat \cup {NotYet} /\ trouble <= minute
    /\ \A n \in DOMAIN deploys : deploys[n] <= minute
    /\ \A m, n \in DOMAIN deploys : m < n => deploys[n] < deploys[m]
    /\ blamed.at # NotYet => /\ blamed.at \in Nat /\ trouble # NotYet
                             /\ Judged(deploys, blamed)

LEMMA DeploysInitInv == DeploysInit => DeploysInv
BY DEF DeploysInit, DeploysInv, Unasked, NotYet

LEMMA DeploysUnchanged == DeploysInv /\ UNCHANGED deployVars => DeploysInv'
BY DEF DeploysInv, deployVars, Judged, Before

LEMMA DeploysInvSound == DeploysInv => BlameSound
<1> SUFFICES ASSUME DeploysInv, blamed.at # NotYet
             PROVE  LET before == {n \in DOMAIN deploys : 0 < trouble - deploys[n] /\ trouble - deploys[n] < BlameWindow}
                        last == CHOOSE n \in before : \A m \in before : n <= m
                    IN IF blamed.deploy # Nothing
                       THEN before # {} /\ blamed.deploy = deploys[last]
                       ELSE before # {} => \/ blamed.failed
                                           \/ deploys[last] < blamed.at - BlameWindow
                                           \/ Cardinality({n \in 1 .. last - 1 : deploys[n] <= blamed.at}) >= DeployPage
  BY DEF BlameSound
<1> DEFINE before == {n \in DOMAIN deploys : 0 < trouble - deploys[n] /\ trouble - deploys[n] < BlameWindow}
           last == CHOOSE n \in before : \A m \in before : n <= m
<1>1. before = Before(deploys) /\ Judged(deploys, blamed) /\ blamed.at \in Nat
  BY DEF DeploysInv, Before
<1>2. before \subseteq 1 .. Len(deploys) /\ DOMAIN deploys = 1 .. Len(deploys) /\ Len(deploys) \in Nat
  BY LenProperties DEF DeploysInv
<1>3. \A n \in DOMAIN deploys : deploys[n] \in Nat
  BY ElementOfSeq, <1>2 DEF DeploysInv
<1> HIDE DEF before
<1>4. CASE before = {}
  BY <1>1, <1>4 DEF Judged, before
<1>5. CASE before # {}
  <2>1. PICK l \in before :
          /\ \A m \in before : l <= m
          /\ \/ blamed.deploy = deploys[l]
             \/ /\ blamed.deploy = Nothing
                /\ \/ blamed.failed
                   \/ deploys[l] < blamed.at - BlameWindow
                   \/ l > DeployPage /\ \A n \in l - DeployPage .. l - 1 : deploys[n] <= blamed.at
    BY <1>1, <1>5 DEF Judged
  <2>2. last \in before /\ \A m \in before : last <= m
    BY <2>1
  <2> HIDE DEF last
  <2>3. last = l /\ l \in 1 .. Len(deploys)
    <3>1. last \in Nat /\ l \in Nat /\ last <= l /\ l <= last
      BY <1>2, <2>1, <2>2
    <3> QED  BY <1>2, <2>1, <3>1
  <2>4. DeployPage \in Nat \ {0}
    BY DeploysAssumption
  <2>5. ASSUME l > DeployPage, \A n \in l - DeployPage .. l - 1 : deploys[n] <= blamed.at
        PROVE  Cardinality({n \in 1 .. l - 1 : deploys[n] <= blamed.at}) >= DeployPage
    <3> DEFINE page == l - DeployPage .. l - 1
               all == {n \in 1 .. l - 1 : deploys[n] <= blamed.at}
    <3>1. l - DeployPage \in Int /\ l - 1 \in Int /\ page \subseteq 1 .. l - 1
      BY <1>2, <2>3, <2>4, <2>5
    <3>2. IsFiniteSet(page) /\ Cardinality(page) = DeployPage
      <4>1. l - DeployPage <= l - 1 /\ (l - 1) - (l - DeployPage) + 1 = DeployPage
        BY <1>2, <2>3, <2>4
      <4>2. /\ IsFiniteSet(page)
            /\ Cardinality(page) = IF l - DeployPage > l - 1 THEN 0 ELSE (l - 1) - (l - DeployPage) + 1
        BY <3>1, FS_Interval
      <4> QED  BY <3>1, <4>1, <4>2
    <3>3. page \subseteq all
      BY <2>5, <3>1
    <3>4. IsFiniteSet(1 .. l - 1)
      BY <3>1, FS_Interval
    <3>5. IsFiniteSet(all)
      BY <3>4, FS_Subset
    <3> HIDE DEF page, all
    <3>6. Cardinality(page) <= Cardinality(all) /\ Cardinality(all) \in Nat
      BY <3>3, <3>5, FS_Subset, FS_CardinalityType
    <3>7. Cardinality(all) >= DeployPage
      BY <2>4, <3>2, <3>6
    <3> QED  BY <3>7 DEF all
  <2>6. deploys[l] # Nothing
    BY <1>2, <1>3, <2>3 DEF Nothing
  <2> QED  BY <1>5, <2>1, <2>3, <2>5, <2>6 DEF before, last
<1> QED  BY <1>4, <1>5

LEMMA PassMinuteKeeps == ASSUME DeploysInv, PassMinute PROVE DeploysInv'
<1>1. minute' = minute + 1 /\ UNCHANGED <<deploys, trouble, blamed>>
  BY DEF PassMinute
<1>2. \A n \in DOMAIN deploys : deploys[n] \in Nat
  BY ElementOfSeq, LenProperties DEF DeploysInv
<1>3. Judged(deploys, blamed) => Judged(deploys, blamed)'
  BY <1>1 DEF Judged, Before
<1> QED  BY <1>1, <1>2, <1>3 DEF DeploysInv, NotYet

LEMMA StartTroubleKeeps == ASSUME DeploysInv, StartTrouble PROVE DeploysInv'
<1>1. trouble' = minute /\ trouble = NotYet /\ UNCHANGED <<deploys, minute, blamed>>
  BY DEF StartTrouble
<1> QED  BY <1>1 DEF DeploysInv
LEMMA DeployNowKeeps == ASSUME DeploysInv, DeployNow PROVE DeploysInv'
<1>1. /\ \A n \in DOMAIN deploys : deploys[n] < minute
      /\ deploys' = <<minute>> \o deploys /\ UNCHANGED <<minute, trouble, blamed>>
  BY DEF DeployNow
<1>2. minute \in Nat /\ deploys \in Seq(Nat) /\ Len(deploys) \in Nat /\ DOMAIN deploys = 1 .. Len(deploys)
  BY LenProperties DEF DeploysInv
<1>3. <<minute>> \in Seq(Nat) /\ Len(<<minute>>) = 1 /\ <<minute>>[1] = minute
  BY <1>2
<1>4. /\ deploys' \in Seq(Nat) /\ Len(deploys') = 1 + Len(deploys)
      /\ \A i \in 1 .. 1 + Len(deploys) : deploys'[i] = IF i <= 1 THEN <<minute>>[i] ELSE deploys[i - 1]
  BY <1>1, <1>2, <1>3, ConcatProperties
<1>5. DOMAIN deploys' = 1 .. 1 + Len(deploys)
  BY <1>4, LenProperties
<1>6. deploys'[1] = minute /\ \A i \in 1 .. Len(deploys) : i + 1 \in DOMAIN deploys' /\ deploys'[i + 1] = deploys[i]
  <2>1. 1 \in 1 .. 1 + Len(deploys)
    BY <1>2
  <2>2. ASSUME NEW i \in 1 .. Len(deploys) PROVE i + 1 \in DOMAIN deploys' /\ deploys'[i + 1] = deploys[i]
    <3>1. i + 1 \in 1 .. 1 + Len(deploys) /\ ~(i + 1 <= 1) /\ (i + 1) - 1 = i
      BY <1>2
    <3> QED  BY <1>4, <1>5, <3>1
  <2> QED  BY <1>3, <1>4, <2>1, <2>2
<1>7. \A j \in DOMAIN deploys' : j = 1 \/ (j - 1 \in 1 .. Len(deploys) /\ deploys'[j] = deploys[j - 1])
  BY <1>2, <1>4, <1>5
<1>8. \A n \in DOMAIN deploys' : deploys'[n] <= minute
  BY <1>1, <1>2, <1>6, <1>7 DEF DeploysInv
<1>9. \A m, n \in DOMAIN deploys' : m < n => deploys'[n] < deploys'[m]
  <2> SUFFICES ASSUME NEW m \in DOMAIN deploys', NEW n \in DOMAIN deploys', m < n PROVE deploys'[n] < deploys'[m]
    OBVIOUS
  <2>1. n # 1 /\ m \in Nat /\ n \in Nat
    BY <1>2, <1>5
  <2>2. n - 1 \in 1 .. Len(deploys) /\ deploys'[n] = deploys[n - 1]
    BY <1>7, <2>1
  <2>3. CASE m = 1
    BY <1>1, <1>2, <1>6, <2>2, <2>3
  <2>4. CASE m # 1
    <3>1. m - 1 \in 1 .. Len(deploys) /\ deploys'[m] = deploys[m - 1] /\ m - 1 < n - 1
      BY <1>7, <2>1, <2>4
    <3> QED  BY <1>2, <2>2, <3>1 DEF DeploysInv
  <2> QED  BY <2>3, <2>4
<1>10. ASSUME blamed.at # NotYet PROVE Judged(deploys', blamed)
  <2>1. Judged(deploys, blamed) /\ trouble \in Nat /\ trouble <= minute /\ blamed.at \in Nat
    BY <1>10 DEF DeploysInv
  <2> DEFINE old == Before(deploys)
             new == {n \in DOMAIN deploys' : 0 < trouble - deploys'[n] /\ trouble - deploys'[n] < BlameWindow}
  <2>2. new = Before(deploys')
    BY <1>1 DEF Before
  <2>3. old \subseteq 1 .. Len(deploys)
    BY <1>2 DEF Before
  <2>4. \A n \in old : n + 1 \in new
    BY <1>2, <1>6 DEF Before
  <2>5. \A n \in new : n - 1 \in old /\ n \in Nat
    <3> SUFFICES ASSUME NEW n \in new PROVE n - 1 \in old /\ n \in Nat
      OBVIOUS
    <3>1. n \in Nat
      BY <1>2, <1>5
    <3>2. n # 1
      BY <1>2, <1>6, <2>1
    <3>3. n - 1 \in 1 .. Len(deploys) /\ deploys'[n] = deploys[n - 1]
      BY <1>7, <3>2
    <3> QED  BY <1>2, <3>1, <3>3 DEF Before
  <2> HIDE DEF new, old
  <2>6. CASE old = {}
    <3>1. new = {} /\ blamed.deploy = Nothing
      BY <2>1, <2>5, <2>6 DEF Judged, old
    <3> QED  BY <2>2, <3>1 DEF Judged
  <2>7. CASE old # {}
    <3>1. PICK l \in old :
            /\ \A m \in old : l <= m
            /\ \/ blamed.deploy = deploys[l]
               \/ /\ blamed.deploy = Nothing
                  /\ \/ blamed.failed
                     \/ deploys[l] < blamed.at - BlameWindow
                     \/ l > DeployPage /\ \A n \in l - DeployPage .. l - 1 : deploys[n] <= blamed.at
      BY <2>1, <2>7 DEF Judged, old
    <3>2. l \in 1 .. Len(deploys) /\ l + 1 \in new /\ deploys'[l + 1] = deploys[l]
      BY <1>6, <2>3, <2>4
    <3>3. \A m \in new : l + 1 <= m
      <4> SUFFICES ASSUME NEW m \in new PROVE l + 1 <= m
        OBVIOUS
      <4>1. m - 1 \in old /\ m \in Nat /\ l <= m - 1
        BY <2>5, <3>1
      <4> QED  BY <1>2, <3>2, <4>1
    <3>4. ASSUME l > DeployPage, \A n \in l - DeployPage .. l - 1 : deploys[n] <= blamed.at
          PROVE  l + 1 > DeployPage /\ \A n \in (l + 1) - DeployPage .. (l + 1) - 1 : deploys'[n] <= blamed.at
      <4>1. DeployPage \in Nat \ {0} /\ l \in Nat /\ l <= Len(deploys)
        BY <1>2, <3>2, DeploysAssumption
      <4>2. ASSUME NEW n \in (l + 1) - DeployPage .. (l + 1) - 1 PROVE deploys'[n] <= blamed.at
        <5>1. n - 1 \in l - DeployPage .. l - 1 /\ n - 1 \in 1 .. Len(deploys) /\ (n - 1) + 1 = n
          BY <1>2, <3>4, <4>1
        <5> DEFINE k == n - 1
        <5>2. k \in l - DeployPage .. l - 1 /\ k \in 1 .. Len(deploys) /\ k + 1 = n
          BY <5>1
        <5> HIDE DEF k
        <5>3. deploys'[k + 1] = deploys[k] /\ deploys[k] <= blamed.at
          BY <1>6, <3>4, <5>2
        <5> QED  BY <5>2, <5>3
      <4> QED  BY <3>4, <4>1, <4>2
    <3>5. new # {}
      BY <3>2
    <3>6. \/ blamed.deploy = deploys'[l + 1]
          \/ /\ blamed.deploy = Nothing
             /\ \/ blamed.failed
                \/ deploys'[l + 1] < blamed.at - BlameWindow
                \/ l + 1 > DeployPage /\ \A n \in (l + 1) - DeployPage .. (l + 1) - 1 : deploys'[n] <= blamed.at
      BY <3>1, <3>2, <3>4
    <3> QED  BY <2>2, <3>2, <3>3, <3>5, <3>6 DEF Judged
  <2> QED  BY <2>6, <2>7
<1>11. blamed.at # NotYet => Judged(deploys, blamed)'
  <2>1. Judged(deploys, blamed)' <=> Judged(deploys', blamed)
    BY <1>1 DEF Judged, Before
  <2> QED  BY <1>10, <2>1
<1> QED  BY <1>1, <1>2, <1>4, <1>8, <1>9, <1>11 DEF DeploysInv
\* The steps of the search.
SearchOf(failed, k, g) ==
    [n \in 0 .. k |-> IF n = 0 THEN Nothing
                     ELSE IF n \in RecentDeploys(failed) THEN Suspect(g[n - 1], deploys[n]) ELSE g[n - 1]]

LEMMA SearchExists == ASSUME NEW failed PROVE \A k \in Nat : \E g : g = SearchOf(failed, k, g)
<1> DEFINE Bad == {k \in Nat : ~ \E g : g = SearchOf(failed, k, g)}
<1> SUFFICES ASSUME Bad # {} PROVE FALSE
  OBVIOUS
<1>1. PICK k \in Bad : \A j \in Bad : k <= j
  BY LeastExists
<1>2. k \in Nat /\ ~ \E g : g = SearchOf(failed, k, g)
  BY <1>1
<1>3. CASE k = 0
  <2> DEFINE g == [n \in 0 .. 0 |-> Nothing]
  <2>1. g = SearchOf(failed, 0, g)
    BY DEF SearchOf
  <2> QED  BY <1>2, <1>3, <2>1
<1>4. CASE k # 0
  <2>1. k - 1 \in Nat
    BY <1>2, <1>4
  <2>2. k - 1 \notin Bad
    <3> HIDE DEF Bad
    <3> QED  BY <1>1, <1>2, <2>1
  <2>3. PICK f : f = SearchOf(failed, k - 1, f)
    BY <2>1, <2>2
  <2> DEFINE last == IF k \in RecentDeploys(failed) THEN Suspect(f[k - 1], deploys[k]) ELSE f[k - 1]
             g == [n \in 0 .. k |-> IF n = k THEN last ELSE f[n]]
  <2>4. \A n \in 0 .. k - 1 : g[n] = f[n]
    BY <1>2
  <2>5. \A n \in 0 .. k - 1 : f[n] = IF n = 0 THEN Nothing
                     ELSE IF n \in RecentDeploys(failed) THEN Suspect(f[n - 1], deploys[n]) ELSE f[n - 1]
    BY <2>3 DEF SearchOf
  <2>6. g[k] = last
    BY <1>2
  <2>7. ASSUME NEW n \in 0 .. k
        PROVE  g[n] = IF n = 0 THEN Nothing
                      ELSE IF n \in RecentDeploys(failed) THEN Suspect(g[n - 1], deploys[n]) ELSE g[n - 1]
    <3>1. CASE n = k
      <4>1. g[k - 1] = f[k - 1]
        BY <2>1, <2>4
      <4> HIDE DEF g
      <4> QED  BY <1>4, <2>6, <3>1, <4>1
    <3>2. CASE n # k
      <4>1. n \in 0 .. k - 1 /\ (n # 0 => n - 1 \in 0 .. k - 1)
        BY <1>2, <3>2
      <4> HIDE DEF g
      <4> QED  BY <2>4, <2>5, <4>1
    <3> QED  BY <3>1, <3>2
  <2>8. g = SearchOf(failed, k, g)
    BY <2>7 DEF SearchOf
  <2> QED  BY <1>2, <2>8
<1> QED  BY <1>2, <1>3, <1>4

\* What the search finds: the first in the list that is recent and before the incident.
LEMMA SearchFinds ==
  ASSUME NEW failed, DeploysInv, trouble # NotYet
  PROVE  LET wanted == {n \in RecentDeploys(failed) : n \in Before(deploys)}
         IN \/ wanted = {} /\ SuspiciousDeploy(failed) = Nothing
            \/ \E k \in wanted : SuspiciousDeploy(failed) = deploys[k] /\ \A m \in wanted : k <= m
<1> DEFINE size == Len(deploys)
           best == CHOOSE g : g = SearchOf(failed, size, g)
           wanted == {n \in RecentDeploys(failed) : n \in Before(deploys)}
           Least(n) == \/ wanted \cap 1 .. n = {} /\ best[n] = Nothing
                       \/ \E k \in wanted \cap 1 .. n : best[n] = deploys[k] /\ \A m \in wanted \cap 1 .. n : k <= m
<1>1. size \in Nat /\ DOMAIN deploys = 1 .. size /\ \A n \in 1 .. size : deploys[n] \in Nat
  BY LenProperties, ElementOfSeq DEF DeploysInv
<1>2. best = SearchOf(failed, size, best)
  BY <1>1, SearchExists
<1>3. SuspiciousDeploy(failed) = best[size]
  BY DEF SuspiciousDeploy, SearchOf
<1>4. trouble \in Nat /\ \A m, n \in DOMAIN deploys : m < n => deploys[n] < deploys[m]
  BY DEF DeploysInv
<1>5. wanted \subseteq 1 .. size /\ \A n \in wanted : 0 < trouble - deploys[n] /\ trouble - deploys[n] < BlameWindow
  BY <1>1 DEF Before
<1>6. \A n \in 1 .. size : n \in RecentDeploys(failed) /\ n \notin wanted =>
            ~(0 < trouble - deploys[n] /\ trouble - deploys[n] < BlameWindow)
  BY <1>1 DEF Before
<1>13. wanted \subseteq RecentDeploys(failed)
  OBVIOUS
<1> HIDE DEF best, wanted, size
<1>7. \A n \in 0 .. size : best[n] = IF n = 0 THEN Nothing
                     ELSE IF n \in RecentDeploys(failed) THEN Suspect(best[n - 1], deploys[n]) ELSE best[n - 1]
  BY <1>2 DEF SearchOf
<1>8. Least(0)
  BY <1>1, <1>7
<1>9. ASSUME NEW n \in 1 .. size, Least(n - 1) PROVE Least(n)
  <2>1. n \in Nat /\ n \in 0 .. size /\ n # 0 /\ deploys[n] \in Nat /\ 1 .. n = (1 .. n - 1) \cup {n}
    BY <1>1
  <2>2. best[n] = IF n \in RecentDeploys(failed) THEN Suspect(best[n - 1], deploys[n]) ELSE best[n - 1]
    BY <1>7, <2>1
  <2>3. CASE n \notin wanted
    <3>1. best[n] = best[n - 1]
      BY <1>6, <2>2, <2>3 DEF Suspect
    <3>2. wanted \cap 1 .. n = wanted \cap 1 .. n - 1
      BY <2>1, <2>3
    <3> QED  BY <1>9, <3>1, <3>2
  <2>4. CASE n \in wanted
    <3>1. 0 < trouble - deploys[n] /\ trouble - deploys[n] < BlameWindow /\ n \in RecentDeploys(failed)
      BY <1>5, <1>13, <2>4
    <3>2. CASE wanted \cap 1 .. n - 1 = {}
      <4>1. best[n - 1] = Nothing
        BY <1>9, <3>2
      <4>2. best[n] = deploys[n]
        BY <2>2, <3>1, <4>1 DEF Suspect
      <4>3. wanted \cap 1 .. n = {n}
        BY <2>1, <2>4, <3>2
      <4> QED  BY <2>1, <4>2, <4>3
    <3>3. CASE wanted \cap 1 .. n - 1 # {}
      <4>1. PICK k \in wanted \cap 1 .. n - 1 : best[n - 1] = deploys[k] /\ \A m \in wanted \cap 1 .. n - 1 : k <= m
        BY <1>9, <3>3
      <4>2. k \in Nat /\ k < n /\ k \in 1 .. size /\ deploys[k] \in Nat
        BY <1>1, <2>1, <4>1
      <4>3. deploys[n] < deploys[k]
        BY <1>1, <1>4, <4>2
      <4>4. ~(trouble - deploys[n] < trouble - best[n - 1]) /\ best[n - 1] # Nothing
        BY <1>4, <2>1, <4>1, <4>2, <4>3 DEF Nothing
      <4>5. best[n] = best[n - 1]
        BY <2>2, <4>4 DEF Suspect
      <4>6. \A m \in wanted \cap 1 .. n : k <= m
        BY <2>1, <4>1, <4>2
      <4>7. k \in wanted \cap 1 .. n
        BY <2>1, <4>1
      <4> QED  BY <4>1, <4>5, <4>6, <4>7
    <3> QED  BY <3>2, <3>3
  <2> QED  BY <2>3, <2>4
<1> DEFINE Bad == {n \in 0 .. size : ~Least(n)}
<1>10. Bad = {}
  <2> SUFFICES ASSUME Bad # {} PROVE FALSE
    OBVIOUS
  <2>1. Bad \subseteq Nat
    BY <1>1
  <2>2. PICK n \in Bad : \A m \in Bad : n <= m
    <3> HIDE DEF Bad
    <3> QED  BY <2>1, LeastExists
  <2>3. n \in 0 .. size /\ ~Least(n)
    BY <2>2
  <2> HIDE DEF Least
  <2>4. n \in 1 .. size /\ n - 1 \in 0 .. size
    BY <1>1, <1>8, <2>3
  <2>5. n - 1 \notin Bad
    <3> HIDE DEF Bad
    <3> QED  BY <1>1, <2>2, <2>4
  <2>6. Least(n - 1)
    BY <2>4, <2>5
  <2> QED  BY <1>9, <2>3, <2>4, <2>6
<1>11. Least(size)
  <2>1. size \in 0 .. size
    BY <1>1
  <2> HIDE DEF Least
  <2> QED  BY <1>10, <2>1
<1>12. wanted \cap 1 .. size = wanted
  BY <1>5
<1> QED  BY <1>3, <1>11, <1>12 DEF wanted

LEMMA CorrelateKeeps ==
  ASSUME NEW failed \in BOOLEAN, DeploysInv, Correlate(failed)
  PROVE  DeploysInv'
<1> DEFINE b == [deploy |-> SuspiciousDeploy(failed), at |-> minute, failed |-> failed]
<1>1. trouble # NotYet /\ blamed' = b /\ UNCHANGED <<minute, deploys, trouble>>
  BY DEF Correlate
<1>2. b.deploy = SuspiciousDeploy(failed) /\ b.at = minute /\ b.failed = failed
  OBVIOUS
<1> HIDE DEF b
<1> DEFINE wanted == {n \in RecentDeploys(failed) : n \in Before(deploys)}
<1>3. \/ wanted = {} /\ SuspiciousDeploy(failed) = Nothing
      \/ \E k \in wanted : SuspiciousDeploy(failed) = deploys[k] /\ \A m \in wanted : k <= m
  BY <1>1, SearchFinds
<1>4. /\ minute \in Nat /\ Len(deploys) \in Nat /\ DOMAIN deploys = 1 .. Len(deploys)
      /\ \A n \in 1 .. Len(deploys) : deploys[n] \in Nat /\ deploys[n] <= minute
      /\ BlameWindow \in Nat /\ DeployPage \in Nat \ {0}
  BY LenProperties, ElementOfSeq, DeploysAssumption DEF DeploysInv
<1>5. Before(deploys) \subseteq 1 .. Len(deploys)
  BY <1>4 DEF Before
<1>6. \A n \in Before(deploys) : n \in wanted \/ failed \/ n > DeployPage \/ deploys[n] < minute - BlameWindow
  BY <1>4, <1>5 DEF RecentDeploys
<1>7. \A n \in wanted : ~failed /\ n <= DeployPage /\ deploys[n] >= minute - BlameWindow /\ n \in Before(deploys)
  BY DEF RecentDeploys
<1> HIDE DEF wanted
<1>8. Judged(deploys, b)
  <2>1. CASE Before(deploys) = {}
    BY <1>2, <1>3, <1>7, <2>1 DEF Judged
  <2>2. CASE Before(deploys) # {}
    <3>1. PICK last \in Before(deploys) : \A m \in Before(deploys) : last <= m
      <4>1. Before(deploys) \subseteq Nat
        BY <1>4, <1>5
      <4> QED  BY <2>2, <4>1, LeastExists
    <3>2. last \in 1 .. Len(deploys)
      BY <1>5
    <3>3. CASE wanted = {}
      <4>1. last > DeployPage => \A n \in last - DeployPage .. last - 1 : deploys[n] <= b.at
        <5> SUFFICES ASSUME last > DeployPage, NEW n \in last - DeployPage .. last - 1 PROVE deploys[n] <= minute
          BY <1>2
        <5>1. n \in 1 .. Len(deploys)
          BY <1>4, <3>2
        <5> QED  BY <1>4, <5>1
      <4>2. b.failed \/ last > DeployPage \/ deploys[last] < b.at - BlameWindow
        BY <1>2, <1>6, <3>1, <3>3
      <4>3. b.deploy = Nothing
        BY <1>2, <1>3, <3>3
      <4> QED  BY <2>2, <3>1, <4>1, <4>2, <4>3 DEF Judged
    <3>4. CASE wanted # {}
      <4>1. PICK k \in wanted : SuspiciousDeploy(failed) = deploys[k] /\ \A m \in wanted : k <= m
        BY <1>3, <3>4
      <4>2. k \in 1 .. Len(deploys) /\ k <= DeployPage /\ deploys[k] >= minute - BlameWindow /\ last <= k
        BY <1>5, <1>7, <3>1, <4>1
      <4>3. CASE last = k
        BY <1>2, <2>2, <3>1, <4>1, <4>3 DEF Judged
      <4>4. CASE last # k
        <5>1. last < k
          BY <3>2, <4>2, <4>4
        <5>2. deploys[k] < deploys[last]
          BY <1>4, <3>2, <4>2, <5>1 DEF DeploysInv
        <5>3. last <= DeployPage
          BY <1>4, <3>2, <4>2, <5>1
        <5>4. ~(deploys[last] < minute - BlameWindow)
          BY <1>4, <3>2, <4>2, <5>2
        <5>5. ~(last > DeployPage)
          BY <1>4, <3>2, <5>3
        <5>6. last \in wanted
          <6>1. ~failed
            BY <1>7, <4>1
          <6> QED  BY <1>6, <3>1, <5>4, <5>5, <6>1
        <5>7. k <= last
          BY <4>1, <5>6
        <5> QED  BY <3>2, <4>2, <5>1, <5>7
      <4> QED  BY <4>3, <4>4
    <3> QED  BY <3>3, <3>4
  <2> QED  BY <2>1, <2>2
<1>9. Judged(deploys, blamed)'
  BY <1>1, <1>8 DEF Judged, Before
<1> QED  BY <1>1, <1>2, <1>4, <1>9 DEF DeploysInv

LEMMA DeploysStep == DeploysInv /\ DeploysNext => DeploysInv'
BY PassMinuteKeeps, StartTroubleKeeps, DeployNowKeeps, CorrelateKeeps DEF DeploysNext

----------------------------------------------------------------------------
(* The life of the process (Lifespan)                                      *)

Startup == {"database", "redis", "session", "rehydrate"}
Phases == Startup \cup {"serving", "watcher", "client", "dispose", "ended"}
Answers == {"idle", "healthy", "not found", "200", "503"}
ProbeStates ==
    [at : Answers] \cup [at : {"checking"}, results : [Checks -> {Pending, "pass", "warn", "fail"}]]

LifeTypes ==
    /\ phase \in Phases
    /\ well \in [Services -> BOOLEAN]
    /\ attached \subseteq {"database", "redis"}
    /\ work \in [Loops \cup Jobs -> {"off", "resting", "calling"}]
    /\ probe \in [Probes -> ProbeStates]
    /\ seen \in [Probes -> SUBSET (Services \X BOOLEAN)]

\* A loop that was stopped is off, and nothing starts it again.
LoopsStopped ==
    /\ phase \in {"watcher", "client", "dispose", "ended"} => work["center"] = "off"
    /\ phase \in {"client", "dispose", "ended"} => work["watcher"] = "off"

\* The client is closed from then on, unless a pipeline opened another.
ClientClosed == phase \in {"dispose", "ended"} => (http = "closed" \/ afterwards)

\* Requests are served between startup and shutdown.
ProbesInTime ==
    /\ phase \in Startup => \A p \in Probes : probe[p].at = "idle"
    /\ \A p \in Probes : probe[p].at = "checking" => phase = "serving"

\* What each result of a probe's checks says of the services during the probe.
Told(p) ==
    LET r(c) == probe[p].results[c]
    IN /\ \A s \in Services : <<s, well[s]>> \in seen[p]
       /\ \A s \in {"database", "redis"} :
             /\ r(s) = "pass" => <<s, TRUE>> \in seen[p]
             /\ r(s) = "warn" => s \notin attached
             /\ r(s) = "fail" => s \in attached /\ <<s, FALSE>> \in seen[p]
       /\ r("disk_space") \in {"pass", "warn"} => <<"disk", TRUE>> \in seen[p]
       /\ r("disk_space") = "fail" => <<"disk", FALSE>> \in seen[p]
       /\ r("notion_mcp") # "fail" /\ r("celery") # "fail"

ChecksTold == \A p \in Probes : probe[p].at = "checking" => Told(p)

LifeInv == LifeTypes /\ LoopsStopped /\ ClientClosed /\ ProbesInTime /\ ChecksTold /\ ReadyMeans

----------------------------------------------------------------------------
\* The process starts with nothing attached, no loop and no probe.
LEMMA LifeInitInv == LifeInit => LifeInv
BY DEF LifeInit, LifeInv, LifeTypes, LoopsStopped, ClientClosed, ProbesInTime, ChecksTold, ReadyMeans,
       Phases, Startup, Loops, ProbeStates, Answers, Services

\* What LifeInv says implies the three parts of ProcessSound.
LEMMA LifeInvSound == LifeInv => ProcessSound
BY DEF LifeInv, LoopsStopped, ClientClosed, ProcessSound, LoopsQuiet, ClientReleased, Loops

----------------------------------------------------------------------------
(* Steps that leave the probes, the services and what is attached alone    *)

\* Such a step need only keep the loops, the client and the times of the probes.
LEMMA LifeQuiet ==
  ASSUME LifeInv, UNCHANGED <<well, attached, probe, seen>>,
         phase' \in Phases, phase' = "ended" \/ phase # "ended",
         work' \in [Loops \cup Jobs -> {"off", "resting", "calling"}],
         LoopsStopped', ClientClosed', ProbesInTime'
  PROVE  LifeInv'
BY DEF LifeInv, LifeTypes, ChecksTold, Told, ReadyMeans

\* A state in which no variable of the process differs is as good.
LEMMA LifeUnchanged == LifeInv /\ UNCHANGED lifeVars => LifeInv'
BY LifeQuiet DEF LifeInv, LifeTypes, LoopsStopped, ClientClosed, ProbesInTime, lifeVars

\* The steps of startup that attach nothing.
LEMMA LifeOpen == ASSUME LifeInv, OpenSession \/ StartLoops PROVE LifeInv'
<1>1. CASE OpenSession
  BY <1>1, LifeQuiet DEF OpenSession, LifeInv, LifeTypes, LoopsStopped, ClientClosed, ProbesInTime, Phases,
     Startup, outside, probing
<1>2. CASE StartLoops
  <2>1. work' \in [Loops \cup Jobs -> {"off", "resting", "calling"}]
    BY <1>2 DEF StartLoops, LifeInv, LifeTypes
  <2>2. UNCHANGED <<well, attached, probe, seen>> /\ phase = "rehydrate" /\ phase' = "serving"
    BY <1>2 DEF StartLoops, outside, probing
  <2> QED  BY <2>1, <2>2, LifeQuiet DEF LifeInv, LifeTypes, LoopsStopped, ClientClosed, ProbesInTime, Phases, Startup
<1> QED  BY <1>1, <1>2

\* The loops and the pipelines: none that is off calls, and a call opens a client.
LEMMA LifeWork ==
  ASSUME LifeInv, (\E j \in Jobs : StartJob(j)) \/ (\E w \in DOMAIN work : CallNotion(w) \/ AnswerNotion(w))
  PROVE  LifeInv'
<1> USE DEF LifeInv, LifeTypes, LoopsStopped, ClientClosed, ProbesInTime, outside, probing
<1>1. ASSUME NEW j \in Jobs, StartJob(j) PROVE LifeInv'
  <2>1. work' \in [Loops \cup Jobs -> {"off", "resting", "calling"}]
    BY <1>1 DEF StartJob
  <2>2. phase = "serving" /\ UNCHANGED <<phase, well, attached, http, afterwards, probe, seen>>
    BY <1>1 DEF StartJob
  <2>3. LoopsStopped' /\ ClientClosed' /\ ProbesInTime' /\ phase' \in Phases
    BY <2>2
  <2> QED  BY <2>1, <2>2, <2>3, LifeQuiet
<1>2. ASSUME NEW w \in Loops \cup Jobs, CallNotion(w) PROVE LifeInv'
  <2>1. work' \in [Loops \cup Jobs -> {"off", "resting", "calling"}] /\ work[w] = "resting"
    BY <1>2 DEF CallNotion
  <2>2. UNCHANGED <<phase, well, attached, probe, seen>> /\ phase # "ended"
    BY <1>2 DEF CallNotion
  <2>3. \A l \in Loops : work[l] = "off" => work'[l] = "off"
    BY <1>2, <2>1 DEF CallNotion
  <2>4. ClientClosed'
    BY <1>2 DEF CallNotion
  <2>5. LoopsStopped' /\ ProbesInTime' /\ phase' \in Phases
    BY <2>2, <2>3 DEF Loops
  <2> QED  BY <2>1, <2>2, <2>4, <2>5, LifeQuiet
<1>3. ASSUME NEW w \in Loops \cup Jobs, AnswerNotion(w) PROVE LifeInv'
  <2>1. work' \in [Loops \cup Jobs -> {"off", "resting", "calling"}] /\ work[w] = "calling"
    BY <1>3 DEF AnswerNotion
  <2>2. UNCHANGED <<phase, well, attached, http, afterwards, probe, seen>>
    BY <1>3 DEF AnswerNotion
  <2>3. \A l \in Loops : work[l] = "off" => work'[l] = "off"
    BY <1>3, <2>1 DEF AnswerNotion
  <2>4. LoopsStopped' /\ ProbesInTime' /\ phase' \in Phases /\ ClientClosed'
    BY <2>2, <2>3 DEF Loops
  <2> QED  BY <2>1, <2>2, <2>4, LifeQuiet
<1>4. DOMAIN work = Loops \cup Jobs
  OBVIOUS
<1> QED  BY <1>1, <1>2, <1>3, <1>4

\* The shutdown: the loops end before the client, the client before the process, and no
\* probe is left.
LEMMA LifeShutdown ==
  ASSUME LifeInv, StopCenter \/ StopWatcher \/ CloseClient \/ EndProcess
  PROVE  LifeInv'
<1> USE DEF LifeInv, LifeTypes, LoopsStopped, ClientClosed, ProbesInTime, Phases, Startup, outside, probing
<1>1. CASE StopCenter
  <2>1. work' \in [Loops \cup Jobs -> {"off", "resting", "calling"}] /\ work'["center"] = "off"
    BY <1>1 DEF StopCenter, Stop, Loops
  <2>2. \A p \in Probes : probe[p].at # "checking"
    BY <1>1 DEF StopCenter, Drained
  <2>3. UNCHANGED <<well, attached, probe, seen>> /\ phase' = "watcher" /\ phase = "serving"
    BY <1>1 DEF StopCenter
  <2> QED  BY <2>1, <2>2, <2>3, LifeQuiet
<1>2. CASE StopWatcher
  <2>1. /\ work' \in [Loops \cup Jobs -> {"off", "resting", "calling"}]
        /\ work'["center"] = "off" /\ work'["watcher"] = "off"
    BY <1>2 DEF StopWatcher, Stop, Loops
  <2>2. UNCHANGED <<well, attached, probe, seen>> /\ phase' = "client" /\ phase = "watcher"
    BY <1>2 DEF StopWatcher
  <2> QED  BY <2>1, <2>2, LifeQuiet
<1>3. CASE CloseClient
  <2>1. /\ work' \in [Loops \cup Jobs -> {"off", "resting", "calling"}]
        /\ work'["center"] = "off" /\ work'["watcher"] = "off"
    BY <1>3 DEF CloseClient, Loops
  <2>2. /\ UNCHANGED <<well, attached, probe, seen>> /\ phase' = "dispose" /\ phase = "client"
        /\ http' = "closed"
    BY <1>3 DEF CloseClient
  <2> QED  BY <2>1, <2>2, LifeQuiet
<1>4. CASE EndProcess
  <2>1. /\ work' \in [Loops \cup Jobs -> {"off", "resting", "calling"}]
        /\ work'["center"] = "off" /\ work'["watcher"] = "off"
    BY <1>4 DEF EndProcess, Loops
  <2>2. /\ UNCHANGED <<well, http, afterwards, probe, seen>> /\ phase' = "ended" /\ phase = "dispose"
        /\ attached' = {}
    BY <1>4 DEF EndProcess
  <2>3. \A p \in Probes : probe[p].at # "checking"
    BY <2>2
  <2>4. LifeTypes' /\ LoopsStopped' /\ ClientClosed' /\ ProbesInTime'
    BY <2>1, <2>2, <2>3
  <2>5. ChecksTold' /\ ReadyMeans'
    BY <2>2, <2>3 DEF ChecksTold, ReadyMeans
  <2> QED  BY <2>4, <2>5
<1> QED  BY <1>1, <1>2, <1>3, <1>4

----------------------------------------------------------------------------
(* Steps that attach a service, change one, or answer a probe              *)

\* While a service is attached no probe has asked for anything.
LEMMA LifeAttach ==
  ASSUME LifeInv, Attach("database", "redis") \/ Attach("redis", "session")
  PROVE  LifeInv'
<1>1. \A p \in Probes : probe[p].at = "idle"
  BY DEF LifeInv, ProbesInTime, Attach, Startup
<1>2. UNCHANGED <<well, work, http, afterwards, probe, seen>> /\ phase' \in {"redis", "session"}
  BY DEF Attach, outside, probing
<1>3. attached' \subseteq {"database", "redis"}
  BY DEF Attach, LifeInv, LifeTypes
<1>4. LifeTypes' /\ LoopsStopped' /\ ClientClosed' /\ ProbesInTime'
  BY <1>1, <1>2, <1>3 DEF LifeInv, LifeTypes, LoopsStopped, ClientClosed, ProbesInTime, Phases, Startup
<1>5. ChecksTold' /\ ReadyMeans'
  BY <1>1, <1>2 DEF ChecksTold, ReadyMeans
<1> QED  BY <1>4, <1>5 DEF LifeInv

\* A change of a service is seen by the probes that are being answered.
LEMMA LifeChange == ASSUME LifeInv, NEW s \in Services, Change(s) PROVE LifeInv'
<1> USE DEF Change
<1>1. UNCHANGED <<phase, attached, work, http, afterwards, probe>>
  OBVIOUS
<1>2. well' \in [Services -> BOOLEAN] /\ seen' \in [Probes -> SUBSET (Services \X BOOLEAN)]
  <2>1. well' \in [Services -> BOOLEAN]
    BY DEF LifeInv, LifeTypes
  <2>2. <<s, ~well[s]>> \in Services \X BOOLEAN
    BY DEF LifeInv, LifeTypes
  <2>3. \A p \in Probes : seen[p] \in SUBSET (Services \X BOOLEAN)
    BY DEF LifeInv, LifeTypes
  <2>4. seen' \in [Probes -> SUBSET (Services \X BOOLEAN)]
    BY <2>2, <2>3
  <2> QED  BY <2>1, <2>4
<1>3. \A p \in Probes : seen[p] \subseteq seen'[p]
  BY DEF LifeInv, LifeTypes
<1>4. ASSUME NEW p \in Probes, probe[p].at = "checking", NEW t \in Services
      PROVE  <<t, well'[t]>> \in seen'[p]
  <2>1. <<t, well[t]>> \in seen[p]
    BY <1>4 DEF LifeInv, ChecksTold, Told
  <2>2. CASE t = s
    BY <1>4, <2>2 DEF LifeInv, LifeTypes
  <2>3. CASE t # s
    BY <1>3, <1>4, <2>1, <2>3 DEF LifeInv, LifeTypes
  <2> QED  BY <2>2, <2>3
<1>5. LifeTypes' /\ LoopsStopped' /\ ClientClosed' /\ ProbesInTime'
  BY <1>1, <1>2 DEF LifeInv, LifeTypes, LoopsStopped, ClientClosed, ProbesInTime
<1>6. ChecksTold'
  <2> SUFFICES ASSUME NEW p \in Probes, probe[p].at = "checking" PROVE Told(p)'
    BY <1>1 DEF ChecksTold
  <2>1. Told(p) /\ seen[p] \subseteq seen'[p] /\ \A t \in Services : <<t, well'[t]>> \in seen'[p]
    BY <1>3, <1>4 DEF LifeInv, ChecksTold
  <2> HIDE DEF Change
  <2> QED  BY <1>1, <2>1 DEF Told
<1>7. ReadyMeans'
  <2> HIDE DEF Change
  <2> QED  BY <1>1, <1>3 DEF LifeInv, ReadyMeans
<1> QED  BY <1>5, <1>6, <1>7 DEF LifeInv

\* A probe that is answered at once tells nothing.
LEMMA LifeAsk == ASSUME LifeInv, NEW p \in Probes, Health(p) \/ Ask(p) PROVE LifeInv'
<1>1. UNCHANGED <<phase, well, attached, work, http, afterwards>> /\ phase = "serving"
  BY DEF Health, Ask, outside
<1>2. /\ probe' \in [Probes -> ProbeStates] /\ seen' \in [Probes -> SUBSET (Services \X BOOLEAN)]
      /\ \A q \in Probes \ {p} : probe'[q] = probe[q] /\ seen'[q] = seen[q]
      /\ probe'[p].at \in {"healthy", "not found", "checking"}
      /\ probe'[p].at = "checking" => /\ \A c \in Checks : probe'[p].results[c] = Pending
                                     /\ \A s \in Services : <<s, well[s]>> \in seen'[p]
  <2>1. CASE Health(p)
    BY <2>1 DEF Health, LifeInv, LifeTypes, ProbeStates, Answers
  <2>2. CASE Ask(p)
    <3> DEFINE asked == [at |-> "checking", results |-> [c \in Checks |-> Pending]]
    <3>1. asked \in ProbeStates /\ \A c \in Checks : asked.results[c] = Pending
      BY DEF ProbeStates
    <3>2. [at |-> "not found"] \in ProbeStates
      BY DEF ProbeStates, Answers
    <3>3. /\ probe' = [probe EXCEPT ![p] = IF mounted THEN [at |-> "not found"] ELSE asked]
          /\ seen' = [seen EXCEPT ![p] = {<<s, well[s]>> : s \in Services}]
      BY <2>2 DEF Ask
    <3>4. {<<s, well[s]>> : s \in Services} \in SUBSET (Services \X BOOLEAN)
      BY DEF LifeInv, LifeTypes
    <3>5. seen' \in [Probes -> SUBSET (Services \X BOOLEAN)] /\ \A s \in Services : <<s, well[s]>> \in seen'[p]
      BY <3>3, <3>4 DEF LifeInv, LifeTypes
    <3>6. asked.at = "checking"
      OBVIOUS
    <3> HIDE DEF asked
    <3> QED  BY <3>1, <3>2, <3>3, <3>5, <3>6 DEF LifeInv, LifeTypes
  <2> QED  BY <2>1, <2>2
<1>3. LifeTypes' /\ LoopsStopped' /\ ClientClosed' /\ ProbesInTime'
  BY <1>1, <1>2 DEF LifeInv, LifeTypes, LoopsStopped, ClientClosed, ProbesInTime, Startup
<1>4. ChecksTold'
  <2> SUFFICES ASSUME NEW q \in Probes, probe'[q].at = "checking" PROVE Told(q)'
    BY DEF ChecksTold
  <2>1. CASE q = p
    BY <1>1, <1>2, <2>1 DEF Told, Pending, Checks
  <2>2. CASE q # p
    <3>1. Told(q)
      BY <1>2, <2>2 DEF LifeInv, ChecksTold
    <3> QED  BY <1>1, <1>2, <2>2, <3>1 DEF Told
  <2> QED  BY <2>1, <2>2
<1>5. ReadyMeans'
  BY <1>1, <1>2 DEF LifeInv, ReadyMeans
<1> QED  BY <1>3, <1>4, <1>5 DEF LifeInv

\* A check that is made tells how its service is.
LEMMA LifeCheck ==
  ASSUME LifeInv, NEW p \in Probes, NEW c \in Checks, RunCheck(p, c)
  PROVE  LifeInv'
<1>1. UNCHANGED <<phase, well, attached, work, http, afterwards, seen>>
  BY DEF RunCheck, outside
<1>2. PICK r \in Results(c) : probe' = [probe EXCEPT ![p].results[c] = r]
  BY DEF RunCheck
<1>3. r \in {"pass", "warn", "fail"}
  BY DEF Results, Backed, Checks
<1>4. /\ probe[p] \in [at : {"checking"}, results : [Checks -> {Pending, "pass", "warn", "fail"}]]
      /\ Told(p)
  BY DEF RunCheck, LifeInv, LifeTypes, ProbeStates, Answers, ChecksTold
<1>5. /\ probe' \in [Probes -> ProbeStates]
      /\ probe'[p].at = "checking"
      /\ \A q \in Probes \ {p} : probe'[q] = probe[q]
      /\ \A d \in Checks \ {c} : probe'[p].results[d] = probe[p].results[d]
      /\ probe'[p].results[c] = r
  BY <1>2, <1>3, <1>4 DEF LifeInv, LifeTypes, ProbeStates
<1>6. LifeTypes' /\ LoopsStopped' /\ ClientClosed' /\ ProbesInTime'
  BY <1>1, <1>4, <1>5 DEF LifeInv, LifeTypes, LoopsStopped, ClientClosed, ProbesInTime
<1>7. ChecksTold'
  <2> SUFFICES ASSUME NEW q \in Probes, probe'[q].at = "checking" PROVE Told(q)'
    BY DEF ChecksTold
  <2>1. CASE q = p
    <3>1. CASE c \in {"database", "redis"}
      <4>1. r \in Backed(c)
        BY <3>1 DEF Results
      <4>2. /\ r = "pass" => well[c]
            /\ r = "warn" => c \notin attached
            /\ r = "fail" => c \in attached /\ ~well[c]
        BY <4>1 DEF Backed
      <4>3. /\ r = "pass" => <<c, TRUE>> \in seen[p]
            /\ r = "fail" => <<c, FALSE>> \in seen[p]
        BY <1>4, <3>1, <4>2 DEF Told, LifeInv, LifeTypes, Services
      <4>4. \A s \in {"database", "redis"} :
               /\ probe'[p].results[s] = "pass" => <<s, TRUE>> \in seen[p]
               /\ probe'[p].results[s] = "warn" => s \notin attached
               /\ probe'[p].results[s] = "fail" => s \in attached /\ <<s, FALSE>> \in seen[p]
        <5> TAKE s \in {"database", "redis"}
        <5>1. CASE s = c
          BY <1>5, <4>2, <4>3, <5>1
        <5>2. CASE s # c
          <6>1. probe'[p].results[s] = probe[p].results[s]
            BY <1>5, <5>2 DEF Checks
          <6> QED  BY <1>4, <6>1 DEF Told
        <5> QED  BY <5>1, <5>2
      <4>5. \A d \in {"disk_space", "notion_mcp", "celery"} : probe'[p].results[d] = probe[p].results[d]
        BY <1>5, <3>1 DEF Checks
      <4> QED  BY <1>1, <1>4, <2>1, <4>4, <4>5 DEF Told
    <3>2. CASE c = "disk_space"
      <4>1. /\ r \in {"pass", "warn"} => <<"disk", TRUE>> \in seen[p]
            /\ r = "fail" => <<"disk", FALSE>> \in seen[p]
        BY <1>4, <3>2 DEF Results, Told, LifeInv, LifeTypes, Services
      <4> QED  BY <1>1, <1>4, <1>5, <2>1, <3>2, <4>1 DEF Told, Checks
    <3>3. CASE c \in {"notion_mcp", "celery"}
      <4>1. r # "fail"
        BY <3>3 DEF Results
      <4> QED  BY <1>1, <1>4, <1>5, <2>1, <3>3, <4>1 DEF Told, Checks
    <3> QED  BY <3>1, <3>2, <3>3 DEF Checks
  <2>2. CASE q # p
    <3>1. Told(q)
      BY <1>5, <2>2 DEF LifeInv, ChecksTold
    <3> QED  BY <1>1, <1>5, <2>2, <3>1 DEF Told
  <2> QED  BY <2>1, <2>2
<1>8. ReadyMeans'
  BY <1>1, <1>5 DEF LifeInv, ReadyMeans
<1> QED  BY <1>6, <1>7, <1>8 DEF LifeInv

\* What a probe answers follows from what its checks told.
LEMMA LifeReport == ASSUME LifeInv, NEW p \in Probes, Report(p) PROVE LifeInv'
<1> DEFINE answer == IF Overall(probe[p].results) = "unhealthy" THEN "503" ELSE "200"
<1>1. UNCHANGED <<phase, well, attached, work, http, afterwards, seen>>
  BY DEF Report, outside
<1>2. probe' = [probe EXCEPT ![p] = [at |-> answer]]
  BY DEF Report
<1>3. answer \in {"200", "503"}
  OBVIOUS
<1>4. /\ probe[p] \in [at : {"checking"}, results : [Checks -> {Pending, "pass", "warn", "fail"}]]
      /\ \A c \in Checks : probe[p].results[c] \in {"pass", "warn", "fail"}
      /\ Told(p)
  <2>1. probe[p].at = "checking" /\ probe[p] \in ProbeStates /\ Told(p)
    BY DEF Report, LifeInv, LifeTypes, ChecksTold
  <2>2. probe[p] \in [at : {"checking"}, results : [Checks -> {Pending, "pass", "warn", "fail"}]]
    BY <2>1 DEF ProbeStates, Answers
  <2>3. \A c \in Checks : probe[p].results[c] # Pending
    BY DEF Report
  <2>4. \A c \in Checks : probe[p].results[c] \in {Pending, "pass", "warn", "fail"}
    BY <2>2
  <2> QED  BY <2>1, <2>2, <2>3, <2>4
<1>5. answer = "503" <=> \E c \in Checks : probe[p].results[c] = "fail"
  BY DEF Overall
<1>6. answer = "200" => \A s \in attached \cup {"disk"} : <<s, TRUE>> \in seen[p]
  BY <1>3, <1>4, <1>5 DEF Told, Checks, LifeInv, LifeTypes
<1>7. answer = "503" => \E s \in attached \cup {"disk"} : <<s, FALSE>> \in seen[p]
  BY <1>3, <1>4, <1>5 DEF Told, Checks
<1>8. /\ probe' \in [Probes -> ProbeStates] /\ probe'[p].at = answer
      /\ \A q \in Probes \ {p} : probe'[q] = probe[q]
  <2> HIDE DEF answer
  <2> QED  BY <1>2, <1>3 DEF LifeInv, LifeTypes, ProbeStates, Answers
<1> HIDE DEF answer
<1>9. phase = "serving"
  BY <1>4 DEF LifeInv, ProbesInTime
<1>10. LifeTypes' /\ LoopsStopped' /\ ClientClosed' /\ ProbesInTime'
  BY <1>1, <1>3, <1>8, <1>9 DEF LifeInv, LifeTypes, LoopsStopped, ClientClosed, ProbesInTime, Startup
<1>11. ChecksTold'
  <2> SUFFICES ASSUME NEW q \in Probes, probe'[q].at = "checking" PROVE Told(q)'
    BY DEF ChecksTold
  <2>1. q # p
    BY <1>3, <1>8
  <2>2. Told(q)
    BY <1>8, <2>1 DEF LifeInv, ChecksTold
  <2> QED  BY <1>1, <1>8, <2>1, <2>2 DEF Told
<1>12. ReadyMeans'
  BY <1>1, <1>6, <1>7, <1>8 DEF LifeInv, ReadyMeans
<1> QED  BY <1>10, <1>11, <1>12 DEF LifeInv

\* Every step of the process keeps LifeInv.
LEMMA LifeStep == LifeInv /\ LifeNext => LifeInv'
BY LifeOpen, LifeWork, LifeShutdown, LifeAttach, LifeChange, LifeAsk, LifeCheck, LifeReport DEF LifeNext

----------------------------------------------------------------------------
(* All parts                                                               *)

\* Each part keeps its own invariant and leaves the state of the others alone.
PlatformInv ==
    /\ TasksInv /\ BroadcastInv /\ KnowledgeInv /\ AccountsInv /\ SessionsInv
    /\ SlackInv /\ TicketsInv /\ DeploysInv /\ LifeInv

LEMMA PlatformInit == Init => PlatformInv
BY TasksInitInv, BroadcastInitInv, KnowledgeInitInv, AccountsInitInv, SessionsInitInv, SlackInitInv, TicketsInitInv,
   DeploysInitInv, LifeInitInv DEF Init, PlatformInv

\* A step is one of the part that is followed, or leaves a part alone.
LEMMA PlatformStep == PlatformInv /\ [Next]_vars => PlatformInv'
<1> SUFFICES ASSUME PlatformInv, [Next]_vars PROVE PlatformInv'
  OBVIOUS
<1>1. CASE UNCHANGED vars
  <2>1. /\ UNCHANGED taskVars /\ UNCHANGED broadcastVars /\ UNCHANGED knowledgeVars /\ UNCHANGED accountVars
        /\ UNCHANGED sessionVars /\ UNCHANGED slackVars /\ UNCHANGED ticketVars /\ UNCHANGED deployVars
        /\ UNCHANGED lifeVars
    BY <1>1 DEF vars
  <2> QED  BY <2>1, TasksUnchanged, BroadcastUnchanged, KnowledgeUnchanged, AccountsUnchanged, SessionsUnchanged,
              SlackUnchanged, TicketsUnchanged, DeploysUnchanged, LifeUnchanged DEF PlatformInv
<1>2. CASE Next
  <2>1. /\ TasksNext \/ UNCHANGED taskVars
        /\ BroadcastNext \/ UNCHANGED broadcastVars
        /\ KnowledgeNext \/ UNCHANGED knowledgeVars
        /\ AccountsNext \/ UNCHANGED accountVars
        /\ SessionsNext \/ UNCHANGED sessionVars
        /\ SlackNext \/ UNCHANGED slackVars
        /\ TicketsNext \/ UNCHANGED ticketVars
        /\ DeploysNext \/ UNCHANGED deployVars
        /\ LifeNext \/ UNCHANGED lifeVars
    BY <1>2 DEF Next, TasksPart, BroadcastPart, KnowledgePart, AccountsPart, SessionsPart, SlackPart, TicketsPart,
       DeploysPart, LifePart
  <2>2. TasksInv' /\ BroadcastInv' /\ KnowledgeInv'
    BY <2>1, TasksStep, TasksUnchanged, BroadcastStep, BroadcastUnchanged, KnowledgeStep, KnowledgeUnchanged DEF PlatformInv
  <2>3. AccountsInv' /\ SessionsInv' /\ LifeInv'
    BY <2>1, AccountsStep, AccountsUnchanged, SessionsStep, SessionsUnchanged, LifeStep, LifeUnchanged DEF PlatformInv
  <2>4. SlackInv' /\ TicketsInv' /\ DeploysInv'
    BY <2>1, SlackStep, SlackUnchanged, TicketsStep, TicketsUnchanged, DeploysStep, DeploysUnchanged DEF PlatformInv
  <2> QED  BY <2>2, <2>3, <2>4 DEF PlatformInv
<1> QED  BY <1>1, <1>2

\* The states of the tasks, the fan-out, the knowledge base, accounts, sessions, Slack,
\* tickets, deployments and the process are always those of PlatformInv.
THEOREM PlatformInvariant == Spec => []PlatformInv
BY PlatformInit, PlatformStep, PTL DEF Spec

\* A webhook can be retried and redelivered at any point: what is acknowledged without an
\* error is recorded, and a fingerprint gets a second active incident only from two workers at
\* once (tasks/webhook_tasks.py:process_webhook, tasks/celery_app.py).
THEOREM RedeliveryIsSafe == Spec => []RedeliverySafe
<1>1. PlatformInv => RedeliverySafe
  BY TasksInvSound DEF PlatformInv
<1> QED  BY <1>1, PlatformInvariant, PTL

\* A broadcast reaches every client that was connected throughout, unless the walk lost its
\* place (main.py:ConnectionManager.broadcast).
THEOREM BroadcastsReach == Spec => []BroadcastReaches
<1>1. PlatformInv => BroadcastReaches
  BY DEF PlatformInv, BroadcastInv
<1> QED  BY <1>1, PlatformInvariant, PTL

\* What was learned stays, in its newest version, up to the losses that the history names
\* (integrations/knowledge_base.py).
THEOREM KnowledgeIsKept == Spec => []KnowledgeKept
<1>1. PlatformInv => KnowledgeKept
  BY KnowledgeInvSound DEF PlatformInv
<1> QED  BY <1>1, PlatformInvariant, PTL

\* One first administrator, one that remains, a refresh token exchanged once, a sign-out that
\* lasts and no wait for nobody, up to the races that the histories record
\* (auth/router.py:register, update_user_role, refresh_token; authStore.js; client.js).
THEOREM AuthIsSound == Spec => []AuthSound
<1>1. PlatformInv => AuthSound
  BY AccountsInvSound, SessionsInvSound DEF PlatformInv, AuthSound
<1> QED  BY <1>1, PlatformInvariant, PTL

\* Updates stand in the threads of their incident's cards, incidents are announced, the answer
\* to a list of items is right about each ticket, and the deployment blamed is the last one
\* before the incident, if GitHub answers and in time (integrations/slack_integration.py, jira_integration.py,
\* github_integration.py).
THEOREM CollaborationIsSound == Spec => []CollaborationSound
<1>1. PlatformInv => CollaborationSound
  BY SlackInvSound, TicketsInvSound, DeploysInvSound DEF PlatformInv, CollaborationSound
<1> QED  BY <1>1, PlatformInvariant, PTL

\* Loops end before the client they call, the client is closed unless a pipeline opened
\* another, and an answer of the readiness probe tells how the services were
\* (main.py:lifespan, observability/health.py:check_all).
THEOREM ProcessIsSound == Spec => []ProcessSound
<1>1. PlatformInv => ProcessSound
  BY LifeInvSound DEF PlatformInv
<1> QED  BY <1>1, PlatformInvariant, PTL
=============================================================================
