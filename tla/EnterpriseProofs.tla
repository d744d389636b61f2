-------------------------- MODULE EnterpriseProofs --------------------------
(***************************************************************************)
(* Theorems about the enterprise features, for any workers, rosters,       *)
(* periods, scripts, conditions and alerts: escalations reach those they   *)
(* list, the duty rotates fairly, runbooks run their steps in order, and   *)
(* windows count the alerts they should.                                   *)
(***************************************************************************)
EXTENDS Enterprise, FiniteSetTheorems, SequenceTheorems, WellFoundedInduction, TLAPS

----------------------------------------------------------------------------
(* Escalation                                                              *)

\* The chain lists nobody on a level whom an escalation to that level does not tell.
LEMMA ListedAreTold ==
  ASSUME NEW row, NEW level \in Int
  PROVE  {c[2] : c \in {d \in Chain(row) : d[1] <= level}} \subseteq Notified(row, level)
<1> SUFFICES ASSUME NEW c \in Chain(row), c[1] <= level PROVE c[2] \in Notified(row, level)
  OBVIOUS
<1>1. row.members # <<>>
  BY DEF Chain
<1>2. \/ c = <<0, OnDuty(row)>>
      \/ \E e \in Leads(row) \ {OnDuty(row)} : c = <<1, e>>
      \/ Leads(row) = {} /\ c = <<1, Backup(row)>>
      \/ \E e \in Emails(row.members) : c = <<2, e>>
      \/ Manager # "" /\ c = <<3, Manager>>
  BY <1>1 DEF Chain
<1>3. CASE c = <<0, OnDuty(row)>>
  BY <1>1, <1>3 DEF Notified
<1>4. CASE \E e \in Leads(row) \ {OnDuty(row)} : c = <<1, e>>
  <2>1. PICK e \in Leads(row) \ {OnDuty(row)} : c = <<1, e>>
    BY <1>4
  <2>2. e \in FirstLevel(row) /\ level >= 1 /\ c[2] = e
    BY <2>1 DEF FirstLevel
  <2> QED  BY <1>1, <2>2 DEF Notified
<1>5. CASE Leads(row) = {} /\ c = <<1, Backup(row)>>
  <2>1. Backup(row) \in FirstLevel(row) /\ level >= 1 /\ c[2] = Backup(row)
    BY <1>5 DEF FirstLevel
  <2> QED  BY <1>1, <2>1 DEF Notified
<1>6. CASE \E e \in Emails(row.members) : c = <<2, e>>
  <2>1. PICK e \in Emails(row.members) : c = <<2, e>>
    BY <1>6
  <2>2. level >= 2 /\ c[2] = e
    BY <2>1
  <2> QED  BY <1>1, <2>1, <2>2 DEF Notified
<1>7. CASE Manager # "" /\ c = <<3, Manager>>
  BY <1>1, <1>7 DEF Notified
<1> QED  BY <1>2, <1>3, <1>4, <1>5, <1>6, <1>7

----------------------------------------------------------------------------
(* The schedule                                                            *)

Rows == [members : Rosters \cup {<<>>}, index : Nat, updated : Nat]
Duties == [at : {"free", "read"}, job : {"none", "task", "request", "escalation"}, row : Rows,
           time : Nat, level : Int]

OnCallTypes ==
    /\ schedule \in Rows /\ clock \in Nat /\ duty \in [Workers -> Duties]
    /\ mixed \in BOOLEAN /\ turned \in Int /\ turned <= clock

\* Nobody works on what he has not read, nor longer than a transaction may take.
InTime == \A w \in Workers :
    /\ duty[w].at = "free" <=> duty[w].job = "none"
    /\ duty[w].at = "read" => duty[w].time <= clock /\ clock - duty[w].time <= Limit

\* An escalation by a task is one level above the first escalation.
Above(w) == duty[w].job = "escalation" /\ duty[w].level > 0 =>
    escalations # <<>> /\ escalations[1].level = duty[w].level - 1

EscalationInv ==
    /\ \E S : escalations \in Seq(S)
    /\ \A i \in DOMAIN escalations : escalations[i].level \in Int
    /\ EscalationSound
    /\ \A w \in Workers : Above(w)

\* Two tasks that overlap agree: a task whose schedule was turned since it read it would
\* turn it to the member who has the duty now.
Untouched(row) == row.index = schedule.index /\ row.updated = schedule.updated
Agrees(w) ==
    LET row == duty[w].row
    IN duty[w].job = "task" /\ Due(row, duty[w].time) =>
        \/ Untouched(row)
        \/ /\ schedule.index = (row.index + 1) % Len(row.members)
           /\ schedule.updated >= duty[w].time - Limit

\* As long as no rotation by hand overlapped one by a task.
Unmixed ==
    /\ \A v, w \in Workers : ~ (duty[v].job = "task" /\ duty[w].job = "request")
    /\ \A w \in Workers : duty[w].job = "request" => turned <= duty[w].time
    /\ \A w \in Workers : Agrees(w)
    /\ turned <= schedule.updated + Limit

OnCallInv ==
    /\ OnCallTypes /\ InTime /\ EscalationInv
    /\ \A w \in Workers : duty[w].row.members # <<>> => duty[w].row.members = schedule.members
    /\ mixed \/ Unmixed

LEMMA RosterType ==
  ASSUME NEW r \in Rosters \cup {<<>>}
  PROVE  Len(r) \in Nat /\ (r # <<>> => Len(r) > 0)
<1>1. CASE r = <<>>
  BY <1>1
<1>2. CASE r # <<>>
  <2>1. r \in Seq([email : STRING, lead : BOOLEAN])
    BY <1>2, RosterAssumption
  <2> QED  BY <2>1, <1>2, LenProperties, EmptySeq
<1> QED  BY <1>1, <1>2

LEMMA TurnedType ==
  ASSUME NEW row \in Rows, row.members # <<>>, NEW time \in Nat
  PROVE  /\ Turned(row, time) \in Rows /\ Turned(row, time).members = row.members
         /\ Turned(row, time).index = (row.index + 1) % Len(row.members)
         /\ Turned(row, time).updated = time
<1>1. Len(row.members) \in Nat /\ Len(row.members) > 0
  BY RosterType DEF Rows
<1>2. (row.index + 1) % Len(row.members) \in Nat
  BY <1>1 DEF Rows
<1> QED  BY <1>2 DEF Turned, Rows

LEMMA FreeType == Free \in Duties
BY DEF Free, Duties, Rows

\* A step that adds no escalation and starts none.
LEMMA SameEscalations ==
  ASSUME OnCallInv, escalations' = escalations,
         \A v \in Workers : duty'[v] = duty[v] \/ duty'[v].job # "escalation"
  PROVE  EscalationInv'
<1>1. EscalationSound'
  BY DEF OnCallInv, EscalationInv, EscalationSound
<1>2. \A w \in Workers : Above(w)'
  BY DEF OnCallInv, EscalationInv, Above
<1> QED  BY <1>1, <1>2 DEF OnCallInv, EscalationInv

\* Worker w is done, and the schedule as it was.
LEMMA DoneKeeps ==
  ASSUME OnCallInv, NEW w \in Workers, Done(w), UNCHANGED <<schedule, clock, mixed, turned, escalations>>
  PROVE  OnCallInv'
<1>1. duty' = [duty EXCEPT ![w] = Free] /\ duty \in [Workers -> Duties]
  BY DEF Done, OnCallInv, OnCallTypes
<1>2. Free \in Duties
  BY FreeType
<1>3. duty' \in [Workers -> Duties] /\ duty'[w] = Free /\ \A v \in Workers \ {w} : duty'[v] = duty[v]
  BY <1>1, <1>2
<1>4. Free.job = "none" /\ Free.at = "free" /\ Free.row.members = <<>>
  BY DEF Free
<1>5. EscalationInv'
  <2>1. \A v \in Workers : duty'[v] = duty[v] \/ duty'[v].job # "escalation"
    BY <1>3, <1>4
  <2>2. escalations' = escalations
    OBVIOUS
  <2> QED  BY <2>1, <2>2, SameEscalations
<1>6. OnCallTypes'
  BY <1>3 DEF OnCallInv, OnCallTypes
<1>7. InTime'
  BY <1>3, <1>4 DEF OnCallInv, InTime
<1>8. \A v \in Workers : duty'[v].row.members # <<>> => duty'[v].row.members = schedule'.members
  BY <1>3, <1>4 DEF OnCallInv
<1>9. Unmixed => Unmixed'
  <2> SUFFICES ASSUME Unmixed PROVE Unmixed'
    OBVIOUS
  <2>1. \A v \in Workers : Agrees(v)'
    BY <1>3, <1>4 DEF Unmixed, Agrees, Untouched, Due
  <2> QED  BY <1>3, <1>4, <2>1 DEF Unmixed
<1> QED  BY <1>5, <1>6, <1>7, <1>8, <1>9 DEF OnCallInv

\* Worker w has read the schedule.
LEMMA ReadKeeps ==
  ASSUME OnCallInv, NEW w \in Workers, NEW job \in {"task", "request"}, Read(w, job),
         mixed' = (mixed \/ \E v \in Workers : duty[v].job = IF job = "task" THEN "request" ELSE "task")
  PROVE  OnCallInv'
<1> DEFINE d == [Free EXCEPT !.at = "read", !.job = job, !.row = schedule, !.time = clock]
<1>1. /\ duty[w].at = "free" /\ duty' = [duty EXCEPT ![w] = d] /\ duty \in [Workers -> Duties]
      /\ UNCHANGED <<schedule, clock, escalations, turned>> /\ schedule \in Rows /\ clock \in Nat
  BY DEF Read, OnCallInv, OnCallTypes
<1>2. d.at = "read" /\ d.job = job /\ d.row = schedule /\ d.time = clock /\ d.level = 0
  BY DEF Free
<1>3. d \in Duties
  <2> HIDE DEF Rows
  <2> QED  BY <1>1, FreeType DEF Duties
<1> HIDE DEF d
<1>4. duty' \in [Workers -> Duties] /\ duty'[w] = d /\ \A v \in Workers \ {w} : duty'[v] = duty[v]
  BY <1>1, <1>3
<1>5. EscalationInv'
  <2>1. \A v \in Workers : duty'[v] = duty[v] \/ duty'[v].job # "escalation"
    BY <1>2, <1>4
  <2>2. escalations' = escalations
    BY <1>1
  <2> QED  BY <2>1, <2>2, SameEscalations
<1>6. OnCallTypes'
  BY <1>1, <1>4 DEF OnCallInv, OnCallTypes
<1>7. InTime'
  BY <1>1, <1>2, <1>4, PeriodAssumption DEF OnCallInv, InTime
<1>8. \A v \in Workers : duty'[v].row.members # <<>> => duty'[v].row.members = schedule'.members
  BY <1>1, <1>2, <1>4 DEF OnCallInv
<1>9. ASSUME ~mixed' PROVE Unmixed'
  <2>1. Unmixed /\ \A v \in Workers : duty[v].job # (IF job = "task" THEN "request" ELSE "task")
    BY <1>9 DEF OnCallInv
  <2>2. \A v \in Workers : Agrees(v)'
    BY <1>1, <1>2, <1>4, <2>1 DEF Unmixed, Agrees, Untouched, Due
  <2>3. \A v, u \in Workers : ~ (duty'[v].job = "task" /\ duty'[u].job = "request")
    BY <1>2, <1>4, <2>1 DEF Unmixed
  <2>4. \A v \in Workers : duty'[v].job = "request" => turned' <= duty'[v].time
    BY <1>1, <1>2, <1>4, <2>1 DEF Unmixed, OnCallInv, OnCallTypes
  <2> QED  BY <1>1, <2>1, <2>2, <2>3, <2>4 DEF Unmixed
<1> QED  BY <1>5, <1>6, <1>7, <1>8, <1>9 DEF OnCallInv

\* The new member has the duty, whoever reads the schedule next.
LEMMA CreateKeeps ==
  ASSUME OnCallInv, CreateSchedule
  PROVE  OnCallInv'
<1>1. PICK r \in Rosters : schedule' = [members |-> r, index |-> 0, updated |-> clock]
  BY DEF CreateSchedule
<1>2. schedule.members = <<>> /\ UNCHANGED <<clock, duty, escalations, mixed, turned>>
  BY DEF CreateSchedule
<1>3. EscalationInv'
  BY <1>2, SameEscalations
<1>4. OnCallTypes'
  BY <1>1, <1>2 DEF OnCallInv, OnCallTypes, Rows
<1>5. InTime'
  BY <1>2 DEF OnCallInv, InTime
<1>6. \A v \in Workers : duty'[v].row.members = <<>>
  BY <1>2 DEF OnCallInv
<1>7. Unmixed => Unmixed'
  <2>1. \A v \in Workers : Agrees(v)'
    BY <1>6 DEF Agrees, Due
  <2>2. turned' <= schedule'.updated + Limit
    BY <1>1, <1>2, PeriodAssumption DEF OnCallInv, OnCallTypes
  <2> QED  BY <1>2, <2>1, <2>2 DEF Unmixed
<1> QED  BY <1>2, <1>3, <1>4, <1>5, <1>6, <1>7 DEF OnCallInv

LEMMA PassKeeps ==
  ASSUME OnCallInv, Pass
  PROVE  OnCallInv'
<1>1. /\ clock' = clock + 1 /\ UNCHANGED <<schedule, duty, escalations, mixed, turned>>
      /\ \A w \in Workers : duty[w].at = "read" => clock - duty[w].time < Limit
  BY DEF Pass
<1>2. EscalationInv'
  BY <1>1, SameEscalations
<1>3. OnCallTypes'
  BY <1>1 DEF OnCallInv, OnCallTypes
<1>4. InTime'
  <2> SUFFICES ASSUME NEW w \in Workers
               PROVE  /\ duty'[w].at = "free" <=> duty'[w].job = "none"
                      /\ duty'[w].at = "read" => duty'[w].time <= clock' /\ clock' - duty'[w].time <= Limit
    BY DEF InTime
  <2>1. clock \in Nat /\ duty[w].time \in Nat
    BY DEF OnCallInv, OnCallTypes, Duties
  <2> QED  BY <1>1, <2>1, PeriodAssumption DEF OnCallInv, InTime
<1>5. Unmixed => Unmixed'
  BY <1>1 DEF Unmixed, Agrees, Untouched, Due
<1> QED  BY <1>1, <1>2, <1>3, <1>4, <1>5 DEF OnCallInv

LEMMA SameDuties ==
  ASSUME OnCallInv, UNCHANGED <<schedule, clock, duty, mixed, turned>>, EscalationInv'
  PROVE  OnCallInv'
BY DEF OnCallInv, OnCallTypes, InTime, Unmixed, Agrees, Untouched, Due

\* One event more, of a level its maker may choose.
LEMMA EscalatedKeeps ==
  ASSUME OnCallInv, NEW level \in Int, NEW automatic \in BOOLEAN, Escalated(level, automatic, schedule),
         automatic /\ level > 0 => escalations # <<>> /\ escalations[1].level = level - 1,
         \A v \in Workers : duty'[v] = duty[v] \/ duty'[v].job # "escalation"
  PROVE  EscalationInv'
<1> DEFINE listed == {c[2] : c \in {d \in Chain(schedule) : d[1] <= level}}
           e == [level |-> level, automatic |-> automatic,
                 told |-> IF automatic THEN {} ELSE Notified(schedule, level),
                 listed |-> listed]
<1>1. escalations' = Append(escalations, e)
  BY DEF Escalated
<1>2. listed \subseteq Notified(schedule, level)
  BY ListedAreTold
<1>3. e.level = level /\ e.automatic = automatic /\ (~automatic => e.listed \subseteq e.told)
  BY <1>2
<1> HIDE DEF e
<1>4. PICK S : escalations \in Seq(S)
  BY DEF OnCallInv, EscalationInv
<1>5. escalations \in Seq(S \cup {e}) /\ Len(escalations) \in Nat
  BY <1>4, ElementOfSeq, LenProperties, SeqDef
<1>6. /\ escalations' \in Seq(S \cup {e}) /\ Len(escalations') = Len(escalations) + 1
      /\ \A i \in 1 .. Len(escalations) : escalations'[i] = escalations[i]
      /\ escalations'[Len(escalations) + 1] = e
  BY <1>1, <1>5, AppendProperties
<1>7. DOMAIN escalations = 1 .. Len(escalations) /\ DOMAIN escalations' = 1 .. Len(escalations) + 1
  BY <1>5, <1>6, LenProperties
<1>8. \A i \in DOMAIN escalations' : escalations'[i].level \in Int
  BY <1>3, <1>5, <1>6, <1>7 DEF OnCallInv, EscalationInv
<1>9. EscalationSound'
  <2> SUFFICES ASSUME NEW i \in DOMAIN escalations'
               PROVE  /\ ~escalations'[i].automatic => escalations'[i].listed \subseteq escalations'[i].told
                      /\ escalations'[i].automatic /\ escalations'[i].level > 0 =>
                           \E j \in 1 .. i - 1 : escalations'[j].level = escalations'[i].level - 1
    BY DEF EscalationSound
  <2>1. CASE i \in DOMAIN escalations
    <3>1. \A j \in 1 .. i - 1 : j \in 1 .. Len(escalations)
      BY <1>5, <1>7, <2>1
    <3>2. /\ ~escalations[i].automatic => escalations[i].listed \subseteq escalations[i].told
          /\ escalations[i].automatic /\ escalations[i].level > 0 =>
               \E j \in 1 .. i - 1 : escalations[j].level = escalations[i].level - 1
      BY <2>1 DEF OnCallInv, EscalationInv, EscalationSound
    <3>3. escalations'[i] = escalations[i] /\ \A j \in 1 .. i - 1 : escalations'[j] = escalations[j]
      BY <1>6, <1>7, <2>1, <3>1
    <3> QED  BY <3>2, <3>3
  <2>2. CASE i = Len(escalations) + 1
    <3> SUFFICES ASSUME automatic, level > 0 PROVE \E j \in 1 .. i - 1 : escalations'[j].level = level - 1
      BY <1>3, <1>6, <2>2
    <3>1. 1 \in 1 .. Len(escalations)
      BY <1>4, <1>5, EmptySeq
    <3> QED  BY <1>5, <1>6, <2>2, <3>1
  <2> QED  BY <1>5, <1>7, <2>1, <2>2
<1>10. \A v \in Workers : Above(v)'
  <2> SUFFICES ASSUME NEW v \in Workers, duty'[v].job = "escalation", duty'[v].level > 0
               PROVE  escalations' # <<>> /\ escalations'[1].level = duty'[v].level - 1
    BY DEF Above
  <2>1. escalations # <<>> /\ escalations[1].level = duty'[v].level - 1
    BY DEF OnCallInv, EscalationInv, Above
  <2>2. 1 \in 1 .. Len(escalations)
    BY <1>4, <1>5, <2>1, EmptySeq
  <2> QED  BY <1>6, <1>7, <2>1, <2>2
<1> QED  BY <1>6, <1>8, <1>9, <1>10 DEF EscalationInv

LEMMA StartEscalationKeeps ==
  ASSUME OnCallInv, NEW w \in Workers, StartEscalation(w)
  PROVE  OnCallInv'
<1> DEFINE level == IF escalations = <<>> THEN 0 ELSE escalations[1].level + 1
           d == [Free EXCEPT !.at = "read", !.job = "escalation", !.level = level, !.time = clock]
<1>1. /\ duty' = [duty EXCEPT ![w] = d] /\ duty \in [Workers -> Duties] /\ clock \in Nat
      /\ UNCHANGED <<schedule, clock, escalations, mixed, turned>>
  BY DEF StartEscalation, OnCallInv, OnCallTypes
<1>2. level \in Int /\ (level > 0 => escalations # <<>> /\ escalations[1].level = level - 1)
  <2>1. CASE escalations = <<>>
    BY <2>1
  <2>2. CASE escalations # <<>>
    <3>1. PICK S : escalations \in Seq(S)
      BY DEF OnCallInv, EscalationInv
    <3>2. 1 \in DOMAIN escalations
      BY <2>2, <3>1, EmptySeq, LenProperties
    <3>3. escalations[1].level \in Int
      BY <3>2 DEF OnCallInv, EscalationInv
    <3> QED  BY <2>2, <3>3
  <2> QED  BY <2>1, <2>2
<1> HIDE DEF level
<1>3. d.at = "read" /\ d.job = "escalation" /\ d.level = level /\ d.time = clock /\ d.row.members = <<>>
  BY DEF Free
<1>4. d \in Duties
  <2> HIDE DEF Rows
  <2> QED  BY <1>1, <1>2, FreeType DEF Duties
<1> HIDE DEF d
<1>5. duty' \in [Workers -> Duties] /\ duty'[w] = d /\ \A v \in Workers \ {w} : duty'[v] = duty[v]
  BY <1>1, <1>4
<1>6. EscalationInv'
  <2>1. \A v \in Workers : Above(v)'
    BY <1>1, <1>2, <1>3, <1>5 DEF OnCallInv, EscalationInv, Above
  <2>2. EscalationSound'
    BY <1>1 DEF OnCallInv, EscalationInv, EscalationSound
  <2> QED  BY <1>1, <2>1, <2>2 DEF OnCallInv, EscalationInv
<1>7. OnCallTypes'
  BY <1>1, <1>5 DEF OnCallInv, OnCallTypes
<1>8. InTime'
  BY <1>1, <1>3, <1>5, PeriodAssumption DEF OnCallInv, InTime
<1>9. \A v \in Workers : duty'[v].row.members # <<>> => duty'[v].row.members = schedule'.members
  BY <1>1, <1>3, <1>5 DEF OnCallInv
<1>10. Unmixed => Unmixed'
  <2> SUFFICES ASSUME Unmixed PROVE Unmixed'
    OBVIOUS
  <2>1. \A v \in Workers : Agrees(v)'
    BY <1>1, <1>3, <1>5 DEF Unmixed, Agrees, Untouched, Due
  <2> QED  BY <1>1, <1>3, <1>5, <2>1 DEF Unmixed
<1> QED  BY <1>1, <1>6, <1>7, <1>8, <1>9, <1>10 DEF OnCallInv

\* Worker w is done with an escalation.
LEMMA CommitEscalationKeeps ==
  ASSUME OnCallInv, NEW w \in Workers, CommitEscalation(w)
  PROVE  OnCallInv'
<1>1. /\ duty[w].job = "escalation" /\ Done(w) /\ Escalated(duty[w].level, TRUE, schedule)
      /\ UNCHANGED <<schedule, clock, mixed, turned>> /\ duty[w].level \in Int
      /\ duty' = [duty EXCEPT ![w] = Free] /\ duty \in [Workers -> Duties]
  BY DEF CommitEscalation, Done, OnCallInv, OnCallTypes, Duties
<1>2. /\ duty' \in [Workers -> Duties] /\ duty'[w] = Free /\ \A v \in Workers \ {w} : duty'[v] = duty[v]
      /\ Free.job = "none" /\ Free.at = "free" /\ Free.row.members = <<>>
  <2>1. Free.job = "none" /\ Free.at = "free" /\ Free.row.members = <<>>
    BY DEF Free
  <2> QED  BY <1>1, <2>1, FreeType
<1>3. EscalationInv'
  <2>1. \A v \in Workers : duty'[v] = duty[v] \/ duty'[v].job # "escalation"
    BY <1>2
  <2>2. duty[w].level > 0 => escalations # <<>> /\ escalations[1].level = duty[w].level - 1
    BY <1>1 DEF OnCallInv, EscalationInv, Above
  <2> QED  BY <1>1, <2>1, <2>2, EscalatedKeeps
<1>4. OnCallTypes'
  BY <1>1, <1>2 DEF OnCallInv, OnCallTypes
<1>5. InTime'
  BY <1>1, <1>2 DEF OnCallInv, InTime
<1>6. \A v \in Workers : duty'[v].row.members # <<>> => duty'[v].row.members = schedule'.members
  BY <1>1, <1>2 DEF OnCallInv
<1>7. Unmixed => Unmixed'
  <2> SUFFICES ASSUME Unmixed PROVE Unmixed'
    OBVIOUS
  <2>1. \A v \in Workers : Agrees(v)'
    BY <1>1, <1>2 DEF Unmixed, Agrees, Untouched, Due
  <2> QED  BY <1>1, <1>2, <2>1 DEF Unmixed
<1> QED  BY <1>1, <1>3, <1>4, <1>5, <1>6, <1>7 DEF OnCallInv

LEMMA EscalateKeeps ==
  ASSUME OnCallInv, NEW level \in 0 .. 3, Escalate(level)
  PROVE  OnCallInv'
<1>1. Escalated(level, FALSE, schedule) /\ UNCHANGED <<schedule, clock, duty, mixed, turned>>
  BY DEF Escalate
<1>2. EscalationInv'
  <2>1. level \in Int /\ FALSE \in BOOLEAN /\ \A v \in Workers : duty'[v] = duty[v] \/ duty'[v].job # "escalation"
    BY <1>1
  <2> QED  BY <1>1, <2>1, EscalatedKeeps
<1> QED  BY <1>1, <1>2, SameDuties

\* Worker w is done, and the row it read was turned.
TurnedRow(w) ==
    /\ schedule' \in Rows /\ schedule'.members = schedule.members
    /\ schedule'.index = (duty[w].row.index + 1) % Len(schedule.members)
    /\ schedule'.updated = duty[w].time
    /\ duty' \in [Workers -> Duties] /\ duty'[w] = Free
    /\ \A v \in Workers \ {w} : duty'[v] = duty[v]

LEMMA TurnsRow ==
  ASSUME OnCallInv, NEW w \in Workers, Done(w), duty[w].row.members # <<>>,
         schedule' = Turned(duty[w].row, duty[w].time)
  PROVE  TurnedRow(w)
<1>1. duty' = [duty EXCEPT ![w] = Free] /\ duty \in [Workers -> Duties]
  BY DEF Done, OnCallInv, OnCallTypes
<1>2. duty[w].row \in Rows /\ duty[w].time \in Nat /\ duty[w].row.members = schedule.members
  BY DEF OnCallInv, OnCallTypes, Duties
<1>3. /\ schedule' \in Rows /\ schedule'.members = duty[w].row.members
      /\ schedule'.index = (duty[w].row.index + 1) % Len(duty[w].row.members)
      /\ schedule'.updated = duty[w].time
  BY <1>2, TurnedType
<1> QED  BY <1>1, <1>2, <1>3, FreeType DEF TurnedRow

\* What holds after any such commit.
LEMMA TurnedKeeps ==
  ASSUME OnCallInv, NEW w \in Workers, TurnedRow(w), duty[w].job # "none",
         UNCHANGED <<clock, escalations, mixed>>, turned' \in {turned, duty[w].time}
  PROVE  /\ EscalationInv' /\ OnCallTypes' /\ InTime'
         /\ \A v \in Workers : duty'[v].row.members # <<>> => duty'[v].row.members = schedule'.members
<1>1. Free.job = "none" /\ Free.at = "free" /\ Free.row.members = <<>>
  BY DEF Free
<1>2. EscalationInv'
  <2>1. \A v \in Workers : duty'[v] = duty[v] \/ duty'[v].job # "escalation"
    BY <1>1 DEF TurnedRow
  <2> QED  BY <2>1, SameEscalations
<1>3. duty[w].time \in Nat /\ duty[w].time <= clock
  <2>1. duty[w] \in Duties
    BY DEF OnCallInv, OnCallTypes
  <2> QED  BY <2>1 DEF OnCallInv, InTime, Duties
<1>4. OnCallTypes'
  BY <1>3 DEF OnCallInv, OnCallTypes, TurnedRow
<1>5. InTime'
  BY <1>1 DEF OnCallInv, InTime, TurnedRow
<1>6. \A v \in Workers : duty'[v].row.members # <<>> => duty'[v].row.members = schedule'.members
  BY <1>1 DEF OnCallInv, TurnedRow
<1> QED  BY <1>2, <1>4, <1>5, <1>6

\* The times of two workers, as numbers.
LEMMA DutyTimes ==
  ASSUME OnCallInv, NEW v \in Workers, duty[v].job # "none"
  PROVE  /\ duty[v].time \in Nat /\ clock \in Nat /\ turned \in Int /\ schedule.updated \in Nat
         /\ duty[v].row.updated \in Nat /\ Period \in Nat /\ Limit \in Nat /\ Period > 2 * Limit
         /\ duty[v].time <= clock /\ clock - duty[v].time <= Limit /\ turned <= clock
<1>1. duty[v] \in Duties /\ schedule \in Rows
  BY DEF OnCallInv, OnCallTypes
<1>2. duty[v].at = "read"
  BY <1>1 DEF OnCallInv, InTime, Duties
<1> QED  BY <1>1, <1>2, PeriodAssumption DEF OnCallInv, OnCallTypes, InTime, Duties, Rows

\* A task that is due, and the one before which it was read.
LEMMA DueTask ==
  ASSUME OnCallInv, Unmixed, NEW v \in Workers, duty[v].job = "task", Due(duty[v].row, duty[v].time)
  PROVE  /\ duty[v].row.members = schedule.members
         /\ \/ Untouched(duty[v].row) /\ duty[v].time - schedule.updated >= Period
            \/ /\ schedule.index = (duty[v].row.index + 1) % Len(schedule.members)
               /\ schedule.updated >= duty[v].time - Limit
<1>1. duty[v].row.members = schedule.members
  BY DEF OnCallInv, Due
<1>2. Agrees(v)
  BY DEF Unmixed
<1> QED  BY <1>1, <1>2 DEF Agrees, Untouched, Due

\* Of two tasks that are due, both read before the duty was turned, or both after.
LEMMA BothOrNeither ==
  ASSUME OnCallInv, Unmixed, NEW v \in Workers, NEW w \in Workers,
         duty[v].job = "task", Due(duty[v].row, duty[v].time),
         duty[w].job = "task", Due(duty[w].row, duty[w].time)
  PROVE  schedule.updated >= duty[v].time - Limit => ~ (duty[w].time - schedule.updated >= Period)
<1>1. /\ duty[v].time \in Nat /\ clock \in Nat /\ schedule.updated \in Nat
      /\ Period \in Nat /\ Limit \in Nat /\ Period > 2 * Limit
      /\ clock - duty[v].time <= Limit
  BY DutyTimes
<1>2. duty[w].time \in Nat /\ duty[w].time <= clock
  BY DutyTimes
<1> QED  BY <1>1, <1>2

LEMMA CommitTaskKeeps ==
  ASSUME OnCallInv, NEW w \in Workers, CommitTask(w)
  PROVE  OnCallInv'
<1>1. /\ duty[w].job = "task" /\ Done(w) /\ UNCHANGED <<clock, escalations, mixed>>
  BY DEF CommitTask
<1>2. CASE ~Due(duty[w].row, duty[w].time)
  <2>1. UNCHANGED <<schedule, clock, mixed, turned, escalations>>
    BY <1>2 DEF CommitTask
  <2> QED  BY <1>1, <2>1, DoneKeeps
<1>3. CASE Due(duty[w].row, duty[w].time)
  <2>1. /\ schedule' = Turned(duty[w].row, duty[w].time)
        /\ turned' = IF schedule'.index = schedule.index THEN turned ELSE duty[w].time
    BY <1>3 DEF CommitTask
  <2>2. duty[w].row.members # <<>>
    BY <1>3 DEF Due
  <2>3. TurnedRow(w)
    BY <1>1, <2>1, <2>2, TurnsRow
  <2>4. /\ EscalationInv' /\ OnCallTypes' /\ InTime'
        /\ \A v \in Workers : duty'[v].row.members # <<>> => duty'[v].row.members = schedule'.members
    BY <1>1, <2>1, <2>3, TurnedKeeps
  <2>5. ASSUME Unmixed PROVE Unmixed'
    <3>1. /\ \A v \in Workers \ {w} : duty'[v] = duty[v]
          /\ duty'[w].job = "none" /\ \A v \in Workers : duty[v].job # "request"
      BY <1>1, <2>3, <2>5 DEF TurnedRow, Free, Unmixed
    <3>2. \A v \in Workers : duty'[v].job # "request"
      BY <3>1
    <3>3. turned' <= schedule'.updated + Limit
      <4>1. /\ duty[w].time \in Nat /\ Limit \in Nat /\ turned \in Int /\ clock \in Nat
            /\ clock - duty[w].time <= Limit /\ turned <= clock
        BY <1>1, DutyTimes
      <4>2. schedule'.updated = duty[w].time
        BY <2>3 DEF TurnedRow
      <4> QED  BY <2>1, <4>1, <4>2
    <3>4. ASSUME NEW v \in Workers PROVE Agrees(v)'
      <4> SUFFICES ASSUME duty'[v].job = "task", Due(duty'[v].row, duty'[v].time)
                   PROVE  /\ schedule'.index = (duty'[v].row.index + 1) % Len(duty'[v].row.members)
                          /\ schedule'.updated >= duty'[v].time - Limit
        BY DEF Agrees
      <4>1. duty'[v] = duty[v] /\ duty[v].job = "task" /\ Due(duty[v].row, duty[v].time)
        BY <3>1
      <4>2. schedule'.updated = duty[w].time /\ schedule'.index = (duty[w].row.index + 1) % Len(schedule.members)
        BY <2>3 DEF TurnedRow
      <4>3. schedule'.updated >= duty'[v].time - Limit
        <5>1. duty[v].time \in Nat /\ clock \in Nat /\ Limit \in Nat /\ duty[v].time <= clock
          BY <4>1, DutyTimes
        <5>2. duty[w].time \in Nat /\ clock - duty[w].time <= Limit
          BY <1>1, DutyTimes
        <5> QED  BY <4>1, <4>2, <5>1, <5>2
      <4>4. schedule'.index = (duty[v].row.index + 1) % Len(schedule.members)
        <5>1. \/ duty[w].row.index = schedule.index /\ duty[w].time - schedule.updated >= Period
              \/ /\ schedule.index = (duty[w].row.index + 1) % Len(schedule.members)
                 /\ schedule.updated >= duty[w].time - Limit
          BY <1>1, <1>3, <2>5, DueTask DEF Untouched
        <5>2. \/ duty[v].row.index = schedule.index /\ duty[v].time - schedule.updated >= Period
              \/ /\ schedule.index = (duty[v].row.index + 1) % Len(schedule.members)
                 /\ schedule.updated >= duty[v].time - Limit
          BY <2>5, <4>1, DueTask DEF Untouched
        <5>3. /\ schedule.updated >= duty[v].time - Limit => ~ (duty[w].time - schedule.updated >= Period)
              /\ schedule.updated >= duty[w].time - Limit => ~ (duty[v].time - schedule.updated >= Period)
          BY <1>1, <1>3, <2>5, <4>1, BothOrNeither
        <5> QED  BY <4>2, <5>1, <5>2, <5>3
      <4>5. duty[v].row.members = schedule.members
        BY <2>5, <4>1, DueTask
      <4> QED  BY <4>1, <4>3, <4>4, <4>5
    <3> QED  BY <3>2, <3>3, <3>4 DEF Unmixed
  <2> QED  BY <1>1, <2>4, <2>5 DEF OnCallInv
<1> QED  BY <1>2, <1>3

LEMMA CommitRequestKeeps ==
  ASSUME OnCallInv, NEW w \in Workers, CommitRequest(w)
  PROVE  OnCallInv'
<1>1. duty[w].job = "request" /\ Done(w) /\ UNCHANGED <<clock, escalations, mixed, turned>>
  BY DEF CommitRequest
<1>2. CASE duty[w].row.members = <<>>
  <2>1. UNCHANGED <<schedule, clock, mixed, turned, escalations>>
    BY <1>2 DEF CommitRequest
  <2> QED  BY <1>1, <2>1, DoneKeeps
<1>3. CASE duty[w].row.members # <<>>
  <2>1. schedule' = Turned(duty[w].row, duty[w].time)
    BY <1>3 DEF CommitRequest
  <2>2. TurnedRow(w)
    BY <1>1, <1>3, <2>1, TurnsRow
  <2>3. /\ EscalationInv' /\ OnCallTypes' /\ InTime'
        /\ \A v \in Workers : duty'[v].row.members # <<>> => duty'[v].row.members = schedule'.members
    BY <1>1, <2>2, TurnedKeeps
  <2>4. ASSUME Unmixed PROVE Unmixed'
    <3>1. /\ \A v \in Workers \ {w} : duty'[v] = duty[v] /\ duty'[v].job # "task"
          /\ duty'[w].job = "none"
      BY <1>1, <2>2, <2>4 DEF TurnedRow, Free, Unmixed
    <3>2. \A v \in Workers : duty'[v].job # "task" /\ Agrees(v)'
      BY <3>1 DEF Agrees
    <3>3. turned' <= schedule'.updated + Limit
      <4>1. /\ duty[w].time \in Nat /\ Limit \in Nat /\ turned \in Int /\ turned <= duty[w].time
        BY <1>1, <2>4, DutyTimes DEF Unmixed
      <4>2. schedule'.updated = duty[w].time /\ turned' = turned
        BY <1>1, <2>2 DEF TurnedRow
      <4> QED  BY <4>1, <4>2
    <3>4. \A v \in Workers : duty'[v].job = "request" => turned' <= duty'[v].time
      BY <1>1, <2>4, <3>1 DEF Unmixed
    <3> QED  BY <3>2, <3>3, <3>4 DEF Unmixed
  <2> QED  BY <1>1, <2>3, <2>4 DEF OnCallInv
<1> QED  BY <1>2, <1>3

LEMMA OnCallInitial == OnCallInit => OnCallInv
<1> SUFFICES ASSUME OnCallInit PROVE OnCallInv
  OBVIOUS
<1>1. /\ schedule = [members |-> <<>>, index |-> 0, updated |-> 0] /\ clock = 0
      /\ duty = [w \in Workers |-> Free] /\ escalations = <<>> /\ mixed = FALSE /\ turned = -Period
  BY DEF OnCallInit
<1>2. \A w \in Workers : duty[w] = Free
  BY <1>1
<1>3. Free.job = "none" /\ Free.at = "free" /\ Free.row.members = <<>>
  BY DEF Free
<1>4. OnCallTypes
  <2>1. schedule \in Rows
    BY <1>1 DEF Rows
  <2>2. duty \in [Workers -> Duties]
    BY <1>1, FreeType
  <2>3. turned \in Int /\ turned <= clock /\ clock \in Nat
    <3>1. -Period \in Int /\ -Period <= 0
      BY PeriodAssumption
    <3> QED  BY <1>1, <3>1
  <2>4. mixed \in BOOLEAN
    BY <1>1
  <2> QED  BY <2>1, <2>2, <2>3, <2>4 DEF OnCallTypes
<1>5. EscalationInv
  <2>1. escalations \in Seq({1}) /\ DOMAIN escalations = {}
    BY <1>1
  <2> QED  BY <1>2, <1>3, <2>1 DEF EscalationInv, EscalationSound, Above
<1>6. Unmixed
  BY <1>1, <1>2, <1>3, PeriodAssumption DEF Unmixed, Agrees
<1> QED  BY <1>2, <1>3, <1>4, <1>5, <1>6 DEF OnCallInv, InTime

LEMMA OnCallSteps == OnCallInv /\ (RotationNext \/ EscalationNext) => OnCallInv'
<1> SUFFICES ASSUME OnCallInv, RotationNext \/ EscalationNext PROVE OnCallInv'
  OBVIOUS
<1>1. CASE CreateSchedule
  BY <1>1, CreateKeeps
<1>2. CASE Pass
  BY <1>2, PassKeeps
<1>3. CASE Acknowledge
  <2>1. UNCHANGED <<schedule, clock, duty, mixed, turned>> /\ escalations' = escalations
    BY <1>3 DEF Acknowledge
  <2>2. EscalationInv'
    BY <2>1, SameEscalations
  <2> QED  BY <2>1, <2>2, SameDuties
<1>4. CASE \E level \in 0 .. 3 : Escalate(level)
  BY <1>4, EscalateKeeps
<1>5. ASSUME NEW w \in Workers,
             \/ StartTask(w) \/ StartRequest(w) \/ CommitTask(w) \/ CommitRequest(w) \/ Rollback(w)
             \/ StartEscalation(w) \/ CommitEscalation(w)
      PROVE  OnCallInv'
  <2>1. CASE StartTask(w)
    BY <2>1, ReadKeeps DEF StartTask
  <2>2. CASE StartRequest(w)
    BY <2>2, ReadKeeps DEF StartRequest
  <2>3. CASE CommitTask(w)
    BY <2>3, CommitTaskKeeps
  <2>4. CASE CommitRequest(w)
    BY <2>4, CommitRequestKeeps
  <2>5. CASE Rollback(w)
    BY <2>5, DoneKeeps DEF Rollback
  <2>6. CASE StartEscalation(w)
    BY <2>6, StartEscalationKeeps
  <2>7. CASE CommitEscalation(w)
    BY <2>7, CommitEscalationKeeps
  <2> QED  BY <1>5, <2>1, <2>2, <2>3, <2>4, <2>5, <2>6, <2>7
<1> QED  BY <1>1, <1>2, <1>3, <1>4, <1>5 DEF RotationNext, EscalationNext

LEMMA OnCallRests == OnCallInv /\ UNCHANGED onCallVars => OnCallInv'
<1> SUFFICES ASSUME OnCallInv, UNCHANGED onCallVars PROVE OnCallInv'
  OBVIOUS
<1>1. UNCHANGED <<schedule, clock, duty, mixed, turned>> /\ escalations' = escalations
  BY DEF onCallVars
<1>2. EscalationInv'
  BY <1>1, SameEscalations
<1> QED  BY <1>1, <1>2, SameDuties

\* Only a task that found the schedule as it still is moves the duty.
LEMMA TurnIsFair ==
  ASSUME OnCallInv, RotationNext \/ EscalationNext, turned' # turned, ~mixed, ~mixed'
  PROVE  /\ turned' - turned >= Period - Limit
         /\ schedule'.index = (schedule.index + 1) % Len(schedule.members)
<1>1. PICK w \in Workers : CommitTask(w)
  BY DEF RotationNext, EscalationNext, CreateSchedule, Pass, StartTask, StartRequest, Read, CommitRequest,
         Rollback, Acknowledge, Escalate, StartEscalation, CommitEscalation
<1>2. /\ duty[w].job = "task" /\ Done(w) /\ Due(duty[w].row, duty[w].time)
      /\ schedule' = Turned(duty[w].row, duty[w].time)
      /\ schedule'.index # schedule.index /\ turned' = duty[w].time
  BY <1>1 DEF CommitTask
<1>3. duty[w].row.members # <<>>
  BY <1>2 DEF Due
<1>4. schedule'.index = (duty[w].row.index + 1) % Len(schedule.members)
  BY <1>2, <1>3, TurnsRow DEF TurnedRow
<1>5. Unmixed
  BY DEF OnCallInv
<1>6. duty[w].row.index = schedule.index /\ duty[w].time - schedule.updated >= Period
  BY <1>2, <1>4, <1>5, DueTask DEF Untouched
<1>7. /\ duty[w].time \in Nat /\ turned \in Int /\ schedule.updated \in Nat /\ Period \in Nat /\ Limit \in Nat
      /\ turned <= schedule.updated + Limit
  BY <1>2, <1>5, DutyTimes DEF Unmixed
<1> QED  BY <1>2, <1>4, <1>6, <1>7

\* No other part of the enterprise features touches a schedule.
LEMMA OnCallAlone == [Next]_vars => RotationNext \/ EscalationNext \/ UNCHANGED onCallVars
BY DEF Next, vars, OnCallPart, SlaPart, RunbookPart, AlertPart

\* The inductive invariant of schedules and escalations: of two tasks that overlap,
\* the one whose schedule was turned meanwhile would turn it to the same member.
THEOREM OnCallInvariant == Spec => []OnCallInv
<1>1. Init => OnCallInv
  BY OnCallInitial DEF Init
<1>2. OnCallInv /\ [Next]_vars => OnCallInv'
  BY OnCallAlone, OnCallSteps, OnCallRests
<1> QED  BY <1>1, <1>2, PTL DEF Spec

\* An escalation by request reaches everyone the chain lists up to its level; the task,
\* which notifies nobody, escalates to the first level or one above an escalation before it
\* (enterprise/oncall.py:escalate, tasks/enterprise_tasks.py:auto_escalate_task).
THEOREM EscalationsReach == Spec => []EscalationSound
<1>1. OnCallInv => EscalationSound
  BY DEF OnCallInv, EscalationInv
<1> QED  BY <1>1, OnCallInvariant, PTL

\* The rotation task moves the duty to the next member, nobody is skipped, and not
\* again before the period has passed but for the length of one transaction.
THEOREM RotationIsFair == Spec => RotationFair
<1> DEFINE Fair == turned' # turned /\ ~mixed /\ ~mixed' =>
                      /\ turned' - turned >= Period - Limit
                      /\ schedule'.index = (schedule.index + 1) % Len(schedule.members)
<1>1. OnCallInv /\ [Next]_vars => [Fair]_onCallVars
  BY OnCallAlone, TurnIsFair
<1> QED  BY <1>1, OnCallInvariant, PTL DEF Spec, RotationFair

----------------------------------------------------------------------------
(* Runbooks                                                                *)

Steps == [type : StepTypes, text : Texts \cup Actions]
IsRow(row) == DOMAIN row = {"status", "done", "shown"}

RunbookTypes ==
    /\ IsRow(execution) /\ IsRow(driver.row)
    /\ DOMAIN driver = {"row", "steps", "results", "pending"}
    /\ driver.steps \in Seq(Steps)
    /\ \A n \in DOMAIN driver.results : driver.results[n] \in BOOLEAN
    /\ DOMAIN desk = Desks /\ \A d \in Desks : IsRow(desk[d].row)
    /\ ran \in Seq([step : Nat, ok : BOOLEAN])
    /\ process = Idle \/ process \in DOMAIN driver.steps

\* Before an execution starts nothing has run.
NotStarted == execution.status = "none" =>
    driver.row.status = "none" /\ ran = <<>> /\ process = Idle /\ orphans = {}

Runs(n) == n \in DOMAIN driver.steps /\ driver.steps[n].type \notin Human
Settled(n) == n \in DOMAIN driver.results

\* The results of a running execution are those of the commands that ran.
Recorded ==
    /\ \A n : n \in driver.pending \/ Awaits(driver.row, n) =>
         n \in DOMAIN driver.steps /\ driver.steps[n].type \in Human
    /\ \A i \in DOMAIN ran :
         /\ Runs(ran[i].step)
         /\ \A m \in 1 .. ran[i].step : Settled(m)
         /\ driver.results[ran[i].step] <=> ran[i].ok
    /\ \A n \in DOMAIN driver.results : Runs(n) /\ driver.results[n] =>
         \E i \in DOMAIN ran : ran[i] = [step |-> n, ok |-> TRUE]

Ordered == \A i, j \in DOMAIN ran : i < j => ran[i].step < ran[j].step /\ ran[i].ok

\* A command may start only after all before it succeeded.
Alone == process # Idle =>
    /\ driver.row.status = "RUNNING" /\ Runs(process) /\ ~Settled(process)
    /\ \A m \in 1 .. process - 1 : Settled(m)
    /\ \A i \in DOMAIN ran : ran[i].ok /\ ran[i].step < process
    /\ orphans = {}

\* What has ended well has run all its commands.
Finished == execution.status = "COMPLETED" =>
    \A n \in DOMAIN driver.steps : driver.steps[n].type \notin Human =>
        \E i \in DOMAIN ran : ran[i] = [step |-> n, ok |-> TRUE]

RunbookInv ==
    /\ RunbookTypes /\ NotStarted
    /\ driver.row.status = "RUNNING" => Recorded
    /\ Ordered /\ Alone /\ Finished
    /\ orphans # {} => \E i \in DOMAIN ran : ~ran[i].ok

\* Every nonempty set of numbers has a least one.
LEMMA LeastExists ==
  ASSUME NEW T, T \subseteq Nat, T # {}
  PROVE  \E m \in T : \A k \in T : m <= k
<1> DEFINE R == {p \in Nat \X Nat : p[1] < p[2]}
<1>1. IsWellFoundedOn(R, Nat)
  BY NatLessThanWellFounded DEF OpToRel
<1> HIDE DEF R
<1>2. PICK m \in T : \A k \in T : ~ (<<k, m>> \in R)
  BY <1>1, WFMin
<1>3. \A k \in T : k \in Nat /\ m \in Nat /\ ~ (k < m)
  BY <1>2 DEF R
<1> QED  BY <1>3

\* The step the loop stops at.
LEMMA ReachedMeans ==
  ASSUME RunbookTypes
  PROVE  /\ Reached \in 1 .. Len(driver.steps) + 1 /\ Len(driver.steps) \in Nat
         /\ DOMAIN driver.steps = 1 .. Len(driver.steps)
         /\ Reached <= Len(driver.steps) => Stops(Reached)
         /\ \A m \in 1 .. Reached - 1 : ~Stops(m)
<1> DEFINE l == Len(driver.steps)
           T == {n \in 1 .. l + 1 : n <= l => Stops(n)}
<1>1. l \in Nat /\ DOMAIN driver.steps = 1 .. l
  BY LenProperties DEF RunbookTypes
<1>2. l + 1 \in T /\ T \subseteq Nat
  BY <1>1
<1> HIDE DEF T
<1>3. PICK n \in T : \A k \in T : n <= k
  BY <1>2, LeastExists
<1>4. /\ n \in 1 .. l + 1 /\ (n <= l => Stops(n))
      /\ \A m \in 1 .. n - 1 : ~Stops(m)
  BY <1>1, <1>3 DEF T
<1>5. \E k \in 1 .. Len(driver.steps) + 1 :
        /\ k <= Len(driver.steps) => Stops(k)
        /\ \A m \in 1 .. k - 1 : ~Stops(m)
  BY <1>4
<1>6. /\ Reached \in 1 .. Len(driver.steps) + 1
      /\ Reached <= Len(driver.steps) => Stops(Reached)
      /\ \A m \in 1 .. Reached - 1 : ~Stops(m)
  <2> DEFINE P(k) == /\ k <= Len(driver.steps) => Stops(k)
                     /\ \A m \in 1 .. k - 1 : ~Stops(m)
  <2>1. \E k \in 1 .. Len(driver.steps) + 1 : P(k)
    BY <1>5
  <2>2. Reached = CHOOSE k \in 1 .. Len(driver.steps) + 1 : P(k)
    BY DEF Reached
  <2> HIDE DEF P
  <2>3. Reached \in 1 .. Len(driver.steps) + 1 /\ P(Reached)
    BY <2>1, <2>2
  <2> QED  BY <2>3 DEF P
<1> QED  BY <1>1, <1>6

LEMMA LaunchesRuns ==
  ASSUME NEW step, Launches(step)
  PROVE  step.type \notin Human
BY DEF Launches, Human

\* What a row shows, and what is left of it.
LEMMA ShowMeans ==
  ASSUME NEW row, IsRow(row), NEW n, NEW what
  PROVE  /\ IsRow(Show(row, n, what)) /\ Show(row, n, what).status = row.status
         /\ DOMAIN Show(row, n, what).shown = DOMAIN row.shown
         /\ \A m : Awaits(Show(row, n, what), m) => Awaits(row, m) \/ (m = n /\ what = "awaiting_approval")
BY DEF Show, IsRow, Awaits

LEMMA OneMoreMeans ==
  ASSUME NEW row, IsRow(row)
  PROVE  /\ IsRow(OneMore(row)) /\ OneMore(row).status = row.status
         /\ OneMore(row).shown = row.shown
BY DEF OneMore, IsRow

\* A flush changes the status to the new one, or not at all.
LEMMA FlushMeans ==
  ASSUME NEW old, NEW new, IsRow(execution)
  PROVE  /\ IsRow(Flushed(old, new))
         /\ Flushed(old, new).status = IF new.status # old.status THEN new.status ELSE execution.status
BY DEF Flushed, IsRow

LEMMA NotedTypes ==
  ASSUME RunbookTypes, NEW n, NEW ok \in BOOLEAN
  PROVE  \A m \in DOMAIN Noted(driver.results, n, ok) : Noted(driver.results, n, ok)[m] \in BOOLEAN
<1> SUFFICES ASSUME NEW m \in DOMAIN Noted(driver.results, n, ok)
             PROVE  Noted(driver.results, n, ok)[m] \in BOOLEAN
  OBVIOUS
<1>1. CASE m = n
  BY <1>1 DEF Noted
<1>2. CASE m # n
  <2>1. m \in DOMAIN driver.results \ {n}
    BY <1>2 DEF Noted
  <2> QED  BY <2>1 DEF RunbookTypes, Noted
<1> QED  BY <1>1, <1>2

\* The driver's parts after a step that keeps the steps.
DriverIs(row, results, pending) ==
    /\ DOMAIN driver' = {"row", "steps", "results", "pending"}
    /\ driver'.row = row /\ driver'.steps = driver.steps
    /\ driver'.results = results /\ driver'.pending = pending

LEMMA SamePlace ==
  ASSUME RunbookInv, execution'.status = "COMPLETED" => execution.status = "COMPLETED",
         driver'.steps = driver.steps, ran' = ran
  PROVE  Finished'
BY DEF RunbookInv, Finished

\* A step that runs nothing and leaves the driver alone.
LEMMA DriverRests ==
  ASSUME RunbookInv, UNCHANGED <<driver, process, ran>>, IsRow(execution'), orphans' \subseteq orphans,
         \/ execution'.status = execution.status
         \/ execution'.status \in {"FAILED", "CANCELLED"},
         DOMAIN desk' = Desks, \A d \in Desks : IsRow(desk'[d].row)
  PROVE  RunbookInv'
<1>1. RunbookTypes'
  BY DEF RunbookInv, RunbookTypes
<1>2. NotStarted'
  BY DEF RunbookInv, NotStarted
<1>3. driver'.row.status = "RUNNING" => Recorded'
  BY DEF RunbookInv, Recorded, Runs, Settled, Awaits
<1>4. Ordered'
  BY DEF RunbookInv, Ordered
<1>5. Alone'
  BY DEF RunbookInv, Alone, Runs, Settled
<1>6. Finished'
  BY SamePlace
<1>7. orphans' # {} => \E i \in DOMAIN ran' : ~ran'[i].ok
  BY DEF RunbookInv
<1> QED  BY <1>1, <1>2, <1>3, <1>4, <1>5, <1>6, <1>7 DEF RunbookInv

LEMMA StartKeeps ==
  ASSUME RunbookInv, NEW script \in Scripts, StartExecution(script)
  PROVE  RunbookInv'
<1> DEFINE row == [status |-> "RUNNING", done |-> 0, shown |-> [n \in DOMAIN script |-> "pending"]]
<1>1. /\ execution.status = "none" /\ execution' = row /\ UNCHANGED <<desk, process, orphans, ran>>
      /\ driver' = [row |-> row, steps |-> script, results |-> [n \in {} |-> TRUE], pending |-> {}]
  BY DEF StartExecution
<1>2. ran = <<>> /\ process = Idle /\ orphans = {} /\ DOMAIN ran = {}
  BY <1>1 DEF RunbookInv, NotStarted
<1>3. IsRow(row) /\ row.status = "RUNNING" /\ \A n : ~Awaits(row, n)
  BY DEF IsRow, Awaits
<1> HIDE DEF row
<1>4. /\ DOMAIN driver' = {"row", "steps", "results", "pending"} /\ driver'.row = row
      /\ driver'.steps = script /\ DOMAIN driver'.results = {} /\ driver'.pending = {}
  BY <1>1
<1>5. script \in Seq(Steps)
  BY ScriptAssumption DEF Steps
<1>6. RunbookTypes'
  BY <1>1, <1>2, <1>3, <1>4, <1>5 DEF RunbookInv, RunbookTypes
<1>7. Recorded'
  BY <1>1, <1>2, <1>3, <1>4 DEF Recorded
<1>8. NotStarted' /\ Ordered' /\ Alone' /\ Finished'
  BY <1>1, <1>2, <1>3 DEF NotStarted, Ordered, Alone, Finished
<1> QED  BY <1>1, <1>2, <1>6, <1>7, <1>8 DEF RunbookInv

\* Where the loop stops, all commands before it succeeded.
LEMMA BeforeReached ==
  ASSUME RunbookInv, Advancing
  PROVE  /\ Recorded /\ process = Idle
         /\ \A m \in 1 .. Reached - 1 : Settled(m) /\ (Runs(m) => driver.results[m])
         /\ \A i \in DOMAIN ran : ran[i].step \in Nat /\ ran[i].step >= 1
         /\ ~Settled(Reached) =>
              \A i \in DOMAIN ran : ran[i].ok /\ ran[i].step < Reached
<1>1. Recorded /\ process = Idle /\ RunbookTypes
  BY DEF Advancing, RunbookInv
<1>2. /\ Reached \in 1 .. Len(driver.steps) + 1 /\ Len(driver.steps) \in Nat
      /\ DOMAIN driver.steps = 1 .. Len(driver.steps)
      /\ \A m \in 1 .. Reached - 1 : ~Stops(m)
  BY <1>1, ReachedMeans
<1>3. \A m \in 1 .. Reached - 1 : Settled(m) /\ (Runs(m) => driver.results[m])
  BY <1>2 DEF Stops, Settled, Runs
<1>4. \A i \in DOMAIN ran : ran[i].step \in Nat /\ ran[i].step >= 1
  BY <1>1, <1>2 DEF Recorded, Runs
<1>5. ASSUME ~Settled(Reached), NEW i \in DOMAIN ran PROVE ran[i].ok /\ ran[i].step < Reached
  <2>1. /\ Runs(ran[i].step) /\ \A m \in 1 .. ran[i].step : Settled(m)
        /\ driver.results[ran[i].step] <=> ran[i].ok
    BY <1>1 DEF Recorded
  <2>2. ran[i].step < Reached
    BY <1>2, <1>4, <1>5, <2>1
  <2>3. driver.results[ran[i].step]
    BY <1>2, <1>3, <1>4, <2>1, <2>2
  <2> QED  BY <2>1, <2>2, <2>3
<1> QED  BY <1>1, <1>3, <1>4, <1>5

LEMMA LaunchKeeps ==
  ASSUME RunbookInv, Launch
  PROVE  RunbookInv'
<1> DEFINE n == Reached
           row == Show(driver.row, n, "running")
<1>1. /\ Advancing /\ n \in DOMAIN driver.steps /\ n \notin DOMAIN driver.results
      /\ Launches(driver.steps[n]) /\ process' = n /\ driver' = [driver EXCEPT !.row = row]
      /\ UNCHANGED <<execution, desk, orphans, ran>>
  BY DEF Launch
<1>2. /\ IsRow(row) /\ row.status = driver.row.status /\ \A m : Awaits(row, m) => Awaits(driver.row, m)
  BY ShowMeans DEF RunbookInv, RunbookTypes
<1> HIDE DEF row
<1>3. DriverIs(row, driver.results, driver.pending)
  BY <1>1 DEF DriverIs, RunbookInv, RunbookTypes
<1>4. Recorded /\ driver.row.status = "RUNNING" /\ Runs(n) /\ ~Settled(n)
  BY <1>1, BeforeReached, LaunchesRuns DEF Advancing, Runs, Settled
<1>5. /\ \A m \in 1 .. n - 1 : Settled(m)
      /\ \A i \in DOMAIN ran : ran[i].ok /\ ran[i].step < n
  BY <1>1, <1>4, BeforeReached
<1>6. orphans = {}
  BY <1>5 DEF RunbookInv
<1> HIDE DEF n
<1>7. RunbookTypes'
  BY <1>1, <1>2, <1>3 DEF RunbookInv, RunbookTypes, DriverIs
<1>8. NotStarted'
  BY <1>1, <1>4 DEF RunbookInv, NotStarted
<1>9. Recorded'
  BY <1>1, <1>2, <1>3, <1>4 DEF Recorded, DriverIs, Runs, Settled
<1>10. Ordered'
  BY <1>1 DEF RunbookInv, Ordered
<1>11. Alone'
  BY <1>1, <1>2, <1>3, <1>4, <1>5, <1>6 DEF Alone, DriverIs, Runs, Settled
<1>12. Finished'
  BY <1>1, <1>3, SamePlace DEF DriverIs
<1> QED  BY <1>1, <1>6, <1>7, <1>8, <1>9, <1>10, <1>11, <1>12 DEF RunbookInv

LEMMA AskKeeps ==
  ASSUME RunbookInv, Ask
  PROVE  RunbookInv'
<1> DEFINE n == Reached
           human == driver.steps[n].type \in Human
           row == Show(driver.row, n, IF human THEN "awaiting_approval" ELSE "failed")
           results == Noted(driver.results, n, human)
           pending == IF human THEN driver.pending \cup {n} ELSE driver.pending
<1>1. /\ Advancing /\ n \in DOMAIN driver.steps /\ n \notin DOMAIN driver.results
      /\ driver' = [driver EXCEPT !.results = results, !.pending = pending, !.row = row]
      /\ UNCHANGED <<execution, desk, process, orphans, ran>>
  BY DEF Ask
<1>2. /\ IsRow(row) /\ row.status = driver.row.status
      /\ \A m : Awaits(row, m) => Awaits(driver.row, m) \/ (m = n /\ human)
  BY ShowMeans DEF RunbookInv, RunbookTypes
<1>3. /\ DOMAIN results = DOMAIN driver.results \cup {n} /\ (results[n] <=> human)
      /\ \A m \in DOMAIN driver.results : results[m] = driver.results[m]
      /\ \A m \in DOMAIN results : results[m] \in BOOLEAN
  <2>1. RunbookTypes /\ human \in BOOLEAN /\ \A m \in DOMAIN driver.results : m # n
    BY <1>1 DEF RunbookInv
  <2>2. \A m \in DOMAIN results : results[m] \in BOOLEAN
    BY <2>1, NotedTypes
  <2>3. /\ DOMAIN results = DOMAIN driver.results \cup {n} /\ results[n] = human
        /\ \A m \in DOMAIN driver.results \ {n} : results[m] = driver.results[m]
    BY DEF Noted
  <2> QED  BY <2>1, <2>2, <2>3
<1>4. \A m \in pending : m \in driver.pending \/ (m = n /\ human)
  OBVIOUS
<1> HIDE DEF row, results, pending
<1>5. DriverIs(row, results, pending)
  BY <1>1 DEF DriverIs, RunbookInv, RunbookTypes
<1>6. Recorded /\ process = Idle /\ driver.row.status = "RUNNING"
  BY <1>1, BeforeReached DEF Advancing
<1>7. RunbookTypes'
  BY <1>1, <1>2, <1>3, <1>5 DEF RunbookInv, RunbookTypes, DriverIs
<1>8. NotStarted' /\ Ordered' /\ Alone'
  BY <1>1, <1>6 DEF RunbookInv, NotStarted, Ordered, Alone
<1>9. Recorded'
  <2>1. \A m : m \in pending \/ Awaits(row, m) => m \in DOMAIN driver.steps /\ driver.steps[m].type \in Human
    BY <1>1, <1>2, <1>4, <1>6 DEF Recorded
  <2>2. ASSUME NEW i \in DOMAIN ran
        PROVE  /\ Runs(ran[i].step)
               /\ \A m \in 1 .. ran[i].step : m \in DOMAIN results
               /\ results[ran[i].step] <=> ran[i].ok
    <3>1. ran[i].step \in Nat /\ ran[i].step >= 1
      BY <1>1, BeforeReached
    <3>2. /\ Runs(ran[i].step) /\ \A m \in 1 .. ran[i].step : m \in DOMAIN driver.results
          /\ driver.results[ran[i].step] <=> ran[i].ok
      BY <1>6 DEF Recorded, Settled
    <3> QED  BY <1>3, <3>1, <3>2
  <2>3. \A m \in DOMAIN results : Runs(m) /\ results[m] => m \in DOMAIN driver.results /\ driver.results[m]
    BY <1>3 DEF Runs
  <2> QED  BY <1>1, <1>5, <1>6, <2>1, <2>2, <2>3 DEF Recorded, DriverIs, Runs, Settled
<1>10. Finished'
  BY <1>1, <1>5, SamePlace DEF DriverIs
<1> QED  BY <1>1, <1>7, <1>8, <1>9, <1>10 DEF RunbookInv

\* A command ends.
LEMMA LandKeeps ==
  ASSUME RunbookInv, NEW ok \in BOOLEAN, NEW late \in BOOLEAN, late => ~ok, Land(ok, late)
  PROVE  RunbookInv'
<1> DEFINE n == process
           row == IF ok THEN OneMore(Show(driver.row, n, "completed")) ELSE Show(driver.row, n, "failed")
           results == Noted(driver.results, n, ok)
           e == [step |-> n, ok |-> ok]
<1>1. /\ process # Idle /\ process' = Idle /\ ran' = Append(ran, e) /\ UNCHANGED desk
      /\ driver' = [driver EXCEPT !.results = results, !.row = row]
      /\ execution' = Flushed(driver.row, row)
      /\ orphans' = IF late /\ driver.steps[n].type # "api_call" THEN orphans \cup {n} ELSE orphans
  BY DEF Land
<1>2. RunbookTypes /\ Alone /\ Ordered /\ driver.row.status = "RUNNING" /\ Recorded
  BY <1>1 DEF RunbookInv, Alone
<1>3. IsRow(row) /\ row.status = driver.row.status /\ \A m : Awaits(row, m) => Awaits(driver.row, m)
  <2>1. CASE ok
    <3> DEFINE shown == Show(driver.row, n, "completed")
    <3>1. IsRow(shown) /\ shown.status = driver.row.status /\ \A m : Awaits(shown, m) => Awaits(driver.row, m)
      BY <1>2, ShowMeans DEF RunbookTypes
    <3> HIDE DEF shown
    <3>2. IsRow(OneMore(shown)) /\ OneMore(shown).status = shown.status /\ OneMore(shown).shown = shown.shown
      BY <3>1, OneMoreMeans
    <3>3. row = OneMore(shown)
      BY <2>1 DEF shown
    <3> HIDE DEF row
    <3> QED  BY <3>1, <3>2, <3>3 DEF Awaits
  <2>2. CASE ~ok
    <3>1. row = Show(driver.row, n, "failed")
      BY <2>2
    <3> HIDE DEF row
    <3> QED  BY <1>2, <3>1, ShowMeans DEF RunbookTypes
  <2> QED  BY <2>1, <2>2
<1>4. /\ DOMAIN results = DOMAIN driver.results \cup {n} /\ (results[n] <=> ok)
      /\ \A m \in DOMAIN driver.results : m # n => results[m] = driver.results[m]
      /\ \A m \in DOMAIN results : results[m] \in BOOLEAN
  <2>1. \A m \in DOMAIN results : results[m] \in BOOLEAN
    BY <1>2, NotedTypes
  <2>2. /\ DOMAIN results = DOMAIN driver.results \cup {n} /\ results[n] = ok
        /\ \A m \in DOMAIN driver.results : m # n => results[m] = driver.results[m]
    BY DEF Noted
  <2> QED  BY <2>1, <2>2
<1> HIDE DEF row, results
<1>5. DriverIs(row, results, driver.pending)
  BY <1>1, <1>2 DEF DriverIs, RunbookTypes
<1>6. /\ Runs(n) /\ ~Settled(n) /\ \A m \in 1 .. n - 1 : Settled(m)
      /\ \A i \in DOMAIN ran : ran[i].ok /\ ran[i].step < n
      /\ orphans = {}
  BY <1>1, <1>2 DEF Alone
<1>7. n \in Nat /\ n >= 1
  <2>1. n \in 1 .. Len(driver.steps) /\ Len(driver.steps) \in Nat
    BY <1>2, <1>6, LenProperties DEF RunbookTypes, Runs
  <2> QED  BY <2>1
<1>8. e \in [step : Nat, ok : BOOLEAN] /\ e.step = n /\ e.ok = ok
  BY <1>7
<1>9. e = [step |-> n, ok |-> ok]
  OBVIOUS
<1> HIDE DEF e, n
<1>10. /\ ran' \in Seq([step : Nat, ok : BOOLEAN]) /\ Len(ran) \in Nat
       /\ DOMAIN ran = 1 .. Len(ran) /\ DOMAIN ran' = 1 .. Len(ran) + 1
       /\ \A i \in DOMAIN ran : ran'[i] = ran[i]
       /\ ran'[Len(ran) + 1] = e
  <2>1. ran \in Seq([step : Nat, ok : BOOLEAN])
    BY <1>2 DEF RunbookTypes
  <2>2. /\ ran' \in Seq([step : Nat, ok : BOOLEAN]) /\ Len(ran') = Len(ran) + 1
        /\ \A i \in 1 .. Len(ran) : ran'[i] = ran[i]
        /\ ran'[Len(ran) + 1] = e
    BY <1>1, <1>8, <2>1, AppendProperties
  <2> QED  BY <2>1, <2>2, LenProperties
<1>11. \A i \in DOMAIN ran' : i \in DOMAIN ran \/ i = Len(ran) + 1
  BY <1>10
<1>12. /\ IsRow(execution') /\ execution'.status = execution.status
  BY <1>1, <1>2, <1>3, FlushMeans DEF RunbookTypes
<1>13. RunbookTypes'
  BY <1>1, <1>2, <1>3, <1>4, <1>5, <1>10, <1>12 DEF RunbookTypes, DriverIs
<1>14. NotStarted'
  BY <1>1, <1>12 DEF RunbookInv, NotStarted
<1>15. Recorded'
  <2>1. \A m : m \in driver.pending \/ Awaits(row, m) => m \in DOMAIN driver.steps /\ driver.steps[m].type \in Human
    BY <1>2, <1>3 DEF Recorded
  <2>2. ASSUME NEW i \in DOMAIN ran'
        PROVE  /\ Runs(ran'[i].step)
               /\ \A m \in 1 .. ran'[i].step : m \in DOMAIN results
               /\ results[ran'[i].step] <=> ran'[i].ok
    <3>1. CASE i \in DOMAIN ran
      <4>1. /\ Runs(ran[i].step) /\ \A m \in 1 .. ran[i].step : m \in DOMAIN driver.results
            /\ driver.results[ran[i].step] <=> ran[i].ok
        BY <1>2, <3>1 DEF Recorded, Settled
      <4>2. ran[i].step \in Nat /\ ran[i].step < n
        <5>1. ran[i] \in [step : Nat, ok : BOOLEAN]
          BY <1>2, <1>10, <3>1, ElementOfSeq DEF RunbookTypes
        <5> QED  BY <1>6, <3>1, <5>1
      <4>3. ran[i].step \in DOMAIN driver.results
        <5>1. ran[i].step \in 1 .. Len(driver.steps) /\ Len(driver.steps) \in Nat
          BY <1>2, <4>1, LenProperties DEF RunbookTypes, Runs
        <5> QED  BY <4>1, <5>1
      <4>4. results[ran[i].step] = driver.results[ran[i].step]
        BY <1>4, <1>7, <4>2, <4>3
      <4> QED  BY <1>4, <1>10, <3>1, <4>1, <4>4
    <3>2. CASE i = Len(ran) + 1
      <4>1. \A m \in 1 .. n : m \in DOMAIN results
        BY <1>4, <1>6, <1>7 DEF Settled
      <4> QED  BY <1>4, <1>6, <1>8, <1>10, <3>2, <4>1
    <3> QED  BY <1>11, <3>1, <3>2
  <2>3. ASSUME NEW m \in DOMAIN results, Runs(m), results[m]
        PROVE  \E i \in DOMAIN ran' : ran'[i] = [step |-> m, ok |-> TRUE]
    <3>1. CASE m = n
      <4>1. ok = TRUE
        BY <1>4, <2>3, <3>1
      <4>2. Len(ran) + 1 \in DOMAIN ran'
        BY <1>10
      <4> QED  BY <1>9, <1>10, <3>1, <4>1, <4>2
    <3>2. CASE m # n
      <4>1. m \in DOMAIN driver.results /\ driver.results[m]
        BY <1>4, <2>3, <3>2
      <4>2. PICK i \in DOMAIN ran : ran[i] = [step |-> m, ok |-> TRUE]
        BY <1>2, <2>3, <4>1 DEF Recorded
      <4>3. i \in DOMAIN ran' /\ ran'[i] = ran[i]
        BY <1>10
      <4> QED  BY <4>2, <4>3
    <3> QED  BY <3>1, <3>2
  <2> QED  BY <1>5, <2>1, <2>2, <2>3 DEF Recorded, DriverIs, Runs, Settled
<1>16. Ordered'
  <2> SUFFICES ASSUME NEW i \in DOMAIN ran', NEW j \in DOMAIN ran', i < j
               PROVE  ran'[i].step < ran'[j].step /\ ran'[i].ok
    BY DEF Ordered
  <2>1. i \in DOMAIN ran
    BY <1>10
  <2>2. CASE j \in DOMAIN ran
    BY <1>2, <1>10, <2>1, <2>2 DEF Ordered
  <2>3. CASE j = Len(ran) + 1
    BY <1>6, <1>8, <1>10, <2>1, <2>3
  <2> QED  BY <1>11, <2>2, <2>3
<1>17. Alone'
  BY <1>1 DEF Alone
<1>18. Finished'
  <2> SUFFICES ASSUME execution.status = "COMPLETED", NEW m \in DOMAIN driver.steps,
                      driver.steps[m].type \notin Human
               PROVE  \E i \in DOMAIN ran' : ran'[i] = [step |-> m, ok |-> TRUE]
    BY <1>5, <1>12 DEF Finished, DriverIs
  <2>1. PICK i \in DOMAIN ran : ran[i] = [step |-> m, ok |-> TRUE]
    BY DEF RunbookInv, Finished
  <2>2. i \in DOMAIN ran' /\ ran'[i] = ran[i]
    BY <1>10
  <2> QED  BY <2>1, <2>2
<1>19. orphans' # {} => \E i \in DOMAIN ran' : ~ran'[i].ok
  <2>1. Len(ran) + 1 \in DOMAIN ran'
    BY <1>10
  <2> QED  BY <1>1, <1>6, <1>8, <1>10, <2>1
<1> QED  BY <1>13, <1>14, <1>15, <1>16, <1>17, <1>18, <1>19 DEF RunbookInv

LEMMA ConcludeKeeps ==
  ASSUME RunbookInv, Conclude
  PROVE  RunbookInv'
<1> DEFINE n == Reached
           row == IF n \in DOMAIN driver.steps THEN [driver.row EXCEPT !.status = "FAILED"]
                  ELSE [driver.row EXCEPT !.status = "COMPLETED", !.done = Len(driver.steps)]
<1>1. /\ Advancing /\ (n \in DOMAIN driver.steps => n \in DOMAIN driver.results)
      /\ driver' = [driver EXCEPT !.row = row] /\ execution' = Flushed(driver.row, row)
      /\ UNCHANGED <<desk, process, orphans, ran>>
  BY DEF Conclude
<1>2. RunbookTypes /\ process = Idle /\ driver.row.status = "RUNNING" /\ Recorded
  BY <1>1, BeforeReached DEF RunbookInv, Advancing
<1>3. IsRow(row) /\ row.status = IF n \in DOMAIN driver.steps THEN "FAILED" ELSE "COMPLETED"
  BY <1>2 DEF RunbookTypes, IsRow
<1> HIDE DEF row
<1>4. DriverIs(row, driver.results, driver.pending)
  BY <1>1, <1>2 DEF DriverIs, RunbookTypes
<1>5. IsRow(execution') /\ execution'.status = row.status
  BY <1>1, <1>2, <1>3, FlushMeans DEF RunbookTypes
<1>6. Finished'
  <2>1. CASE n \in DOMAIN driver.steps
    BY <1>3, <1>5, <2>1 DEF Finished
  <2>2. CASE n \notin DOMAIN driver.steps
    <3> SUFFICES ASSUME NEW m \in DOMAIN driver.steps, driver.steps[m].type \notin Human
                 PROVE  \E i \in DOMAIN ran : ran[i] = [step |-> m, ok |-> TRUE]
      BY <1>1, <1>4 DEF Finished, DriverIs
    <3>1. m \in 1 .. n - 1
      BY <1>2, <2>2, ReachedMeans
    <3>2. Settled(m) /\ Runs(m) /\ driver.results[m]
      BY <1>1, <3>1, BeforeReached DEF Runs
    <3> QED  BY <1>2, <3>2 DEF Recorded, Settled
  <2> QED  BY <2>1, <2>2
<1>7. RunbookTypes'
  BY <1>1, <1>2, <1>3, <1>4, <1>5 DEF RunbookTypes, DriverIs
<1>8. NotStarted' /\ Ordered' /\ Alone'
  BY <1>1, <1>2, <1>3, <1>5 DEF RunbookInv, NotStarted, Ordered, Alone
<1> QED  BY <1>1, <1>3, <1>4, <1>6, <1>7, <1>8 DEF RunbookInv, DriverIs

LEMMA ApproveKeeps ==
  ASSUME RunbookInv, NEW n, ApproveOwn(n)
  PROVE  RunbookInv'
<1> DEFINE shown == Show(driver.row, n, "completed")
           row == OneMore(shown)
           results == Noted(driver.results, n, TRUE)
           pending == driver.pending \ {n}
<1>1. /\ process = Idle /\ (n \in driver.pending \/ Awaits(driver.row, n))
      /\ driver' = [driver EXCEPT !.results = results, !.pending = pending, !.row = row]
      /\ execution' = Flushed(driver.row, row)
      /\ UNCHANGED <<desk, process, orphans, ran>>
  BY DEF ApproveOwn
<1>2. RunbookTypes
  BY DEF RunbookInv
<1>3. IsRow(row) /\ row.status = driver.row.status /\ \A m : Awaits(row, m) => Awaits(driver.row, m)
  <2>1. IsRow(shown) /\ shown.status = driver.row.status /\ \A m : Awaits(shown, m) => Awaits(driver.row, m)
    BY <1>2, ShowMeans DEF RunbookTypes
  <2> HIDE DEF shown
  <2>2. IsRow(row) /\ row.status = shown.status /\ row.shown = shown.shown
    BY <2>1, OneMoreMeans
  <2> HIDE DEF row
  <2> QED  BY <2>1, <2>2 DEF Awaits
<1>4. /\ DOMAIN results = DOMAIN driver.results \cup {n}
      /\ \A m \in DOMAIN driver.results : m # n => results[m] = driver.results[m]
      /\ \A m \in DOMAIN results : results[m] \in BOOLEAN
  <2>1. \A m \in DOMAIN results : results[m] \in BOOLEAN
    BY <1>2, NotedTypes
  <2> QED  BY <2>1 DEF Noted
<1> HIDE DEF row, results, shown
<1>5. DriverIs(row, results, pending)
  BY <1>1, <1>2 DEF DriverIs, RunbookTypes
<1>6. IsRow(execution') /\ execution'.status = execution.status
  BY <1>1, <1>2, <1>3, FlushMeans DEF RunbookTypes
<1>7. RunbookTypes'
  BY <1>1, <1>2, <1>3, <1>4, <1>5, <1>6 DEF RunbookTypes, DriverIs
<1>8. NotStarted' /\ Ordered' /\ Alone'
  BY <1>1, <1>3, <1>5, <1>6 DEF RunbookInv, NotStarted, Ordered, Alone, DriverIs
<1>9. ASSUME driver.row.status = "RUNNING" PROVE Recorded'
  <2>1. Recorded /\ n \in DOMAIN driver.steps /\ driver.steps[n].type \in Human
    BY <1>1, <1>9 DEF RunbookInv, Recorded
  <2>2. \A m : m \in pending \/ Awaits(row, m) => m \in DOMAIN driver.steps /\ driver.steps[m].type \in Human
    BY <1>3, <2>1 DEF Recorded
  <2>3. ASSUME NEW i \in DOMAIN ran
        PROVE  /\ Runs(ran[i].step)
               /\ \A m \in 1 .. ran[i].step : m \in DOMAIN results
               /\ results[ran[i].step] <=> ran[i].ok
    <3>1. /\ Runs(ran[i].step) /\ \A m \in 1 .. ran[i].step : m \in DOMAIN driver.results
          /\ driver.results[ran[i].step] <=> ran[i].ok
      BY <2>1 DEF Recorded, Settled
    <3>2. ran[i].step \in 1 .. Len(driver.steps) /\ Len(driver.steps) \in Nat /\ ran[i].step # n
      BY <1>2, <2>1, <3>1, LenProperties DEF RunbookTypes, Runs
    <3>3. ran[i].step \in DOMAIN driver.results
      BY <3>1, <3>2
    <3> QED  BY <1>4, <3>1, <3>2, <3>3
  <2>4. \A m \in DOMAIN results : Runs(m) /\ results[m] => m \in DOMAIN driver.results /\ driver.results[m]
    BY <1>4, <2>1 DEF Runs
  <2> QED  BY <1>1, <1>5, <2>1, <2>2, <2>3, <2>4 DEF Recorded, DriverIs, Runs, Settled
<1>10. Finished'
  BY <1>1, <1>5, <1>6, SamePlace DEF DriverIs
<1> QED  BY <1>1, <1>3, <1>5, <1>7, <1>8, <1>9, <1>10 DEF RunbookInv, DriverIs

LEMMA RejectKeeps ==
  ASSUME RunbookInv, NEW n, RejectOwn(n)
  PROVE  RunbookInv'
<1> DEFINE shown == Show(driver.row, n, "rejected")
           row == [shown EXCEPT !.status = "FAILED"]
           results == Noted(driver.results, n, FALSE)
           pending == driver.pending \ {n}
<1>1. /\ process = Idle /\ driver.row.status # "none"
      /\ driver' = [driver EXCEPT !.results = results, !.pending = pending, !.row = row]
      /\ execution' = Flushed(driver.row, row)
      /\ UNCHANGED <<desk, process, orphans, ran>>
  BY DEF RejectOwn
<1>2. RunbookTypes
  BY DEF RunbookInv
<1>3. IsRow(row) /\ row.status = "FAILED"
  <2>1. IsRow(shown)
    BY <1>2, ShowMeans DEF RunbookTypes
  <2> HIDE DEF shown
  <2> QED  BY <2>1 DEF IsRow
<1>4. \A m \in DOMAIN results : results[m] \in BOOLEAN
  BY <1>2, NotedTypes
<1> HIDE DEF row, results, shown
<1>5. DriverIs(row, results, pending)
  BY <1>1, <1>2 DEF DriverIs, RunbookTypes
<1>6. IsRow(execution') /\ execution'.status \in {execution.status, "FAILED"}
  BY <1>1, <1>2, <1>3, FlushMeans DEF RunbookTypes
<1>7. RunbookTypes'
  BY <1>1, <1>2, <1>3, <1>4, <1>5, <1>6 DEF RunbookTypes, DriverIs
<1>8. NotStarted' /\ Ordered' /\ Alone'
  BY <1>1, <1>6 DEF RunbookInv, NotStarted, Ordered, Alone
<1>9. Finished'
  BY <1>1, <1>5, <1>6, SamePlace DEF DriverIs
<1> QED  BY <1>1, <1>3, <1>5, <1>7, <1>8, <1>9 DEF RunbookInv, DriverIs

LEMMA CancelKeeps ==
  ASSUME RunbookInv, CancelOwn
  PROVE  RunbookInv'
<1> DEFINE new == [driver.row EXCEPT !.status = "CANCELLED"]
           flushed == Flushed(driver.row, new)
<1>1. /\ process = Idle /\ driver.row.status = "RUNNING"
      /\ execution' = [flushed EXCEPT !.shown = driver.row.shown]
      /\ driver' = [row |-> execution', steps |-> <<>>, results |-> [n \in {} |-> TRUE], pending |-> {}]
      /\ UNCHANGED <<desk, process, orphans, ran>>
  BY DEF CancelOwn
<1>2. RunbookTypes
  BY DEF RunbookInv
<1>3. new.status = "CANCELLED"
  BY <1>2 DEF RunbookTypes, IsRow
<1> HIDE DEF new
<1>4. IsRow(flushed) /\ flushed.status = "CANCELLED"
  BY <1>1, <1>2, <1>3, FlushMeans DEF RunbookTypes
<1> HIDE DEF flushed
<1>5. IsRow(execution') /\ execution'.status = "CANCELLED"
  BY <1>1, <1>4 DEF IsRow
<1>6. /\ DOMAIN driver' = {"row", "steps", "results", "pending"} /\ driver'.row = execution'
      /\ driver'.steps = <<>> /\ DOMAIN driver'.results = {}
  BY <1>1
<1>7. RunbookTypes'
  BY <1>1, <1>2, <1>5, <1>6 DEF RunbookTypes
<1>8. NotStarted' /\ Ordered' /\ Alone' /\ Finished'
  BY <1>1, <1>5 DEF RunbookInv, NotStarted, Ordered, Alone, Finished
<1> QED  BY <1>1, <1>5, <1>6, <1>7, <1>8 DEF RunbookInv

LEMMA CommitDeskKeeps ==
  ASSUME RunbookInv, NEW d \in Desks, CommitDesk(d)
  PROVE  RunbookInv'
<1> DEFINE old == desk[d].row
           n == desk[d].step
           failed == [old EXCEPT !.status = "FAILED"]
           cancelled == [old EXCEPT !.status = "CANCELLED"]
<1>1. /\ desk' = [desk EXCEPT ![d] = NoDesk] /\ UNCHANGED <<driver, process, orphans, ran>>
      /\ \/ execution' = Flushed(old, OneMore(old))
         \/ execution' = Flushed(old, failed)
         \/ execution' = [Flushed(old, cancelled) EXCEPT !.shown = old.shown]
         \/ execution' = execution
  BY DEF CommitDesk
<1>2. RunbookTypes /\ IsRow(old) /\ IsRow(execution)
  BY DEF RunbookInv, RunbookTypes
<1>3. failed.status = "FAILED" /\ cancelled.status = "CANCELLED" /\ OneMore(old).status = old.status
  BY <1>2, OneMoreMeans DEF IsRow
<1> HIDE DEF failed, cancelled, old
<1>4. IsRow(execution') /\ (execution'.status = execution.status \/ execution'.status \in {"FAILED", "CANCELLED"})
  <2>1. /\ IsRow(Flushed(old, OneMore(old))) /\ Flushed(old, OneMore(old)).status = execution.status
        /\ IsRow(Flushed(old, failed)) /\ Flushed(old, failed).status \in {execution.status, "FAILED"}
        /\ IsRow(Flushed(old, cancelled)) /\ Flushed(old, cancelled).status \in {execution.status, "CANCELLED"}
    BY <1>2, <1>3, FlushMeans
  <2> QED  BY <1>1, <1>2, <2>1 DEF IsRow
<1>5. DOMAIN desk' = Desks /\ \A e \in Desks : IsRow(desk'[e].row)
  <2>1. IsRow(NoDesk.row)
    BY DEF NoDesk, NoRun, IsRow
  <2> QED  BY <1>1, <1>2, <2>1 DEF RunbookTypes
<1> QED  BY <1>1, <1>4, <1>5, DriverRests

LEMMA OpenDeskKeeps ==
  ASSUME RunbookInv, NEW d \in Desks, NEW job, NEW n, OpenDesk(d, job, n)
  PROVE  RunbookInv'
<1>1. /\ desk' = [desk EXCEPT ![d] = [at |-> "read", row |-> execution, job |-> job, step |-> n]]
      /\ UNCHANGED <<execution, driver, process, orphans, ran>>
  BY DEF OpenDesk
<1>2. DOMAIN desk = Desks /\ \A e \in Desks : IsRow(desk[e].row) /\ IsRow(execution)
  BY DEF RunbookInv, RunbookTypes
<1>3. DOMAIN desk' = Desks /\ (\A e \in Desks : IsRow(desk'[e].row)) /\ IsRow(execution') /\ orphans' \subseteq orphans
  BY <1>1, <1>2
<1> QED  BY <1>1, <1>3, DriverRests

LEMMA RunbookInitial == RunbookInit => RunbookInv
<1> SUFFICES ASSUME RunbookInit PROVE RunbookInv
  OBVIOUS
<1>1. /\ execution = NoRun /\ desk = [d \in Desks |-> NoDesk] /\ process = Idle /\ orphans = {} /\ ran = <<>>
      /\ driver = [row |-> NoRun, steps |-> <<>>, results |-> <<>>, pending |-> {}]
  BY DEF RunbookInit
<1>2. IsRow(NoRun) /\ IsRow(NoDesk.row) /\ NoRun.status = "none"
  BY DEF NoRun, NoDesk, IsRow
<1>3. /\ DOMAIN driver = {"row", "steps", "results", "pending"} /\ driver.row = NoRun
      /\ driver.steps = <<>> /\ DOMAIN driver.results = {} /\ DOMAIN ran = {}
  BY <1>1
<1>4. RunbookTypes
  BY <1>1, <1>2, <1>3 DEF RunbookTypes
<1> QED  BY <1>1, <1>2, <1>3, <1>4 DEF RunbookInv, NotStarted, Ordered, Alone, Finished

LEMMA RunbookRests == RunbookInv /\ UNCHANGED runbookVars => RunbookInv'
<1> SUFFICES ASSUME RunbookInv, UNCHANGED runbookVars PROVE RunbookInv'
  OBVIOUS
<1>1. UNCHANGED <<execution, driver, desk, process, orphans, ran>>
  BY DEF runbookVars
<1>2. /\ IsRow(execution') /\ DOMAIN desk' = Desks /\ \A d \in Desks : IsRow(desk'[d].row)
  BY <1>1 DEF RunbookInv, RunbookTypes
<1> QED  BY <1>1, <1>2, DriverRests

LEMMA RunbookSteps == RunbookInv /\ RunbookNext => RunbookInv'
<1> SUFFICES ASSUME RunbookInv, RunbookNext PROVE RunbookInv'
  OBVIOUS
<1>1. CASE \E script \in Scripts : StartExecution(script)
  BY <1>1, StartKeeps
<1>2. CASE Launch
  BY <1>2, LaunchKeeps
<1>3. CASE Ask
  BY <1>3, AskKeeps
<1>4. CASE Conclude
  BY <1>4, ConcludeKeeps
<1>5. CASE CancelOwn
  BY <1>5, CancelKeeps
<1>6. CASE StepTask
  BY <1>6, RunbookRests DEF StepTask
<1>7. CASE \E ok \in BOOLEAN : Land(ok, FALSE)
  BY <1>7, LandKeeps
<1>8. CASE Land(FALSE, TRUE)
  BY <1>8, LandKeeps
<1>9. CASE \E n \in orphans : Expire(n)
  <2>1. UNCHANGED <<execution, driver, desk, process, ran>> /\ orphans' \subseteq orphans
    BY <1>9 DEF Expire
  <2>2. /\ IsRow(execution') /\ DOMAIN desk' = Desks /\ \A d \in Desks : IsRow(desk'[d].row)
    BY <2>1 DEF RunbookInv, RunbookTypes
  <2> QED  BY <2>1, <2>2, DriverRests
<1>10. CASE \E n \in DOMAIN driver.row.shown : ApproveOwn(n) \/ RejectOwn(n)
  BY <1>10, ApproveKeeps, RejectKeeps
<1>11. CASE \E d \in Desks, job \in {"approve", "reject", "cancel"} :
              \E n \in DOMAIN execution.shown : OpenDesk(d, job, n)
  BY <1>11, OpenDeskKeeps
<1>12. CASE \E d \in Desks : CommitDesk(d)
  BY <1>12, CommitDeskKeeps
<1> QED  BY <1>1, <1>2, <1>3, <1>4, <1>5, <1>6, <1>7, <1>8, <1>9, <1>10, <1>11, <1>12 DEF RunbookNext

\* No other part of the enterprise features touches an execution.
LEMMA RunbooksAlone == [Next]_vars => RunbookNext \/ UNCHANGED runbookVars
BY DEF Next, vars, OnCallPart, SlaPart, RunbookPart, AlertPart

\* The inductive invariant of runbook executions: the results an executor keeps are
\* those of the commands that ran, and all of them precede the one that runs.
THEOREM RunbookInvariant == Spec => []RunbookInv
<1>1. Init => RunbookInv
  BY RunbookInitial DEF Init
<1>2. RunbookInv /\ [Next]_vars => RunbookInv'
  BY RunbooksAlone, RunbookSteps, RunbookRests
<1> QED  BY <1>1, <1>2, PTL DEF Spec

\* Whatever is approved, rejected or cancelled meanwhile, commands run in the order of
\* the steps, each once, one at a time, none after a failure, and a COMPLETED execution
\* ran them all.
THEOREM RunbooksInOrder == Spec => []StepsInOrder
<1>1. RunbookInv => StepsInOrder
  BY DEF RunbookInv, Ordered, Alone, Finished, StepsInOrder
<1> QED  BY <1>1, RunbookInvariant, PTL

----------------------------------------------------------------------------
(* Alert rules                                                             *)

\* The times of a list that are not before another one.
Since(q, from) == {i \in DOMAIN q : q[i] >= from}

\* One more time is one more of them, or none.
LEMMA SinceAppend ==
  ASSUME NEW q \in Seq(Int), NEW t \in Int, NEW from \in Int
  PROVE  /\ Cardinality(Since(q, from)) \in Nat
         /\ Append(q, t) \in Seq(Int)
         /\ Cardinality(Since(Append(q, t), from)) = Cardinality(Since(q, from)) + (IF t >= from THEN 1 ELSE 0)
<1> DEFINE more == Append(q, t)
           S == Since(q, from)
<1>1. Len(q) \in Nat /\ DOMAIN q = 1 .. Len(q)
  BY LenProperties
<1>2. /\ more \in Seq(Int) /\ DOMAIN more = 1 .. Len(q) + 1 /\ more[Len(q) + 1] = t
      /\ \A i \in 1 .. Len(q) : more[i] = q[i]
  BY <1>1, AppendProperties, LenProperties
<1>3. IsFiniteSet(S) /\ Cardinality(S) \in Nat
  <2>1. IsFiniteSet(1 .. Len(q))
    BY <1>1, FS_Interval
  <2>2. S \subseteq 1 .. Len(q)
    BY <1>1 DEF Since
  <2> QED  BY <2>1, <2>2, FS_Subset, FS_CardinalityType
<1> HIDE DEF more
<1>4. CASE t >= from
  <2>1. Since(more, from) = S \cup {Len(q) + 1}
    BY <1>1, <1>2, <1>4 DEF Since
  <2>2. Len(q) + 1 \notin S
    BY <1>1 DEF Since
  <2> HIDE DEF S
  <2>3. Cardinality(Since(more, from)) = Cardinality(S) + 1
    BY <1>3, <2>1, <2>2, FS_AddElement
  <2> QED  BY <1>2, <1>3, <1>4, <2>3 DEF S, more
<1>5. CASE ~ (t >= from)
  <2>1. Since(more, from) = S
    BY <1>1, <1>2, <1>5 DEF Since
  <2> HIDE DEF S
  <2>2. Cardinality(Since(more, from)) = Cardinality(S) + 0
    BY <1>3, <2>1
  <2> QED  BY <1>2, <1>3, <1>5, <2>2 DEF S, more
<1> QED  BY <1>4, <1>5

\* The steps of the loop that prunes.
Pruning(times, from, kept) ==
    [n \in 0 .. Len(times) |->
        IF n = 0 THEN <<>> ELSE IF times[n] >= from THEN Append(kept[n - 1], times[n]) ELSE kept[n - 1]]

LEMMA PruningExists ==
  ASSUME NEW times, Len(times) \in Nat, NEW from
  PROVE  \E kept : kept = Pruning(times, from, kept)
<1> DEFINE Round(n, f) == IF n = 0 THEN <<>>
                          ELSE IF times[n] >= from THEN Append(f[n - 1], times[n]) ELSE f[n - 1]
           Loop(k, f) == [n \in 0 .. k |-> Round(n, f)]
           Bad == {k \in Nat : ~ \E f : f = Loop(k, f)}
<1>1. Bad = {}
  <2> SUFFICES ASSUME Bad # {} PROVE FALSE
    OBVIOUS
  <2>1. PICK k \in Bad : \A j \in Bad : k <= j
    BY LeastExists
  <2>2. k \in Nat /\ ~ \E f : f = Loop(k, f)
    BY <2>1
  <2>3. CASE k = 0
    <3> DEFINE g == [n \in 0 .. 0 |-> <<>>]
    <3>1. g = Loop(0, g)
      OBVIOUS
    <3> QED  BY <2>2, <2>3, <3>1
  <2>4. CASE k # 0
    <3>1. k - 1 \in Nat
      BY <2>2, <2>4
    <3>2. k - 1 \notin Bad
      <4> HIDE DEF Bad
      <4> QED  BY <2>1, <2>2, <3>1
    <3>3. PICK f : f = Loop(k - 1, f)
      BY <3>1, <3>2
    <3>4. \A n \in 0 .. k - 1 : f[n] = Round(n, f)
      BY <3>3
    <3> DEFINE g == [n \in 0 .. k |-> IF n = k THEN Round(k, f) ELSE f[n]]
    <3>5. g[k] = Round(k, f) /\ \A n \in 0 .. k - 1 : g[n] = f[n]
      BY <2>2
    <3> HIDE DEF g
    <3>6. ASSUME NEW n \in 0 .. k PROVE g[n] = Round(n, g)
      <4>1. n # 0 => g[n - 1] = f[n - 1]
        BY <2>2, <3>5
      <4>2. Round(n, g) = Round(n, f)
        BY <4>1
      <4> HIDE DEF Round
      <4> QED  BY <2>2, <3>4, <3>5, <4>2
    <3>7. g = Loop(k, g)
      <4> HIDE DEF Round
      <4> QED  BY <3>6 DEF g
    <3> QED  BY <2>2, <3>7
  <2> QED  BY <2>2, <2>3, <2>4
<1>2. \E f : f = Loop(Len(times), f)
  BY <1>1
<1> QED  BY <1>2 DEF Pruning

\* Pruning leaves what is recent, all of it and nothing else.
LEMMA RecentIs ==
  ASSUME NEW times \in Seq(Int), NEW from \in Int
  PROVE  /\ Recent(times, from) \in Seq(Int)
         /\ \A i \in DOMAIN Recent(times, from) : Recent(times, from)[i] >= from
         /\ \A t \in Int : t >= from =>
              Cardinality(Since(Recent(times, from), t)) = Cardinality(Since(times, t))
<1> DEFINE kept == CHOOSE f : f = Pruning(times, from, f)
           L == Len(times)
           First(n) == SubSeq(times, 1, n)
<1>1. L \in Nat /\ DOMAIN times = 1 .. L /\ \A n \in 1 .. L : times[n] \in Int
  BY LenProperties, ElementOfSeq
<1>2. kept = Pruning(times, from, kept)
  BY <1>1, PruningExists
<1>3. Recent(times, from) = kept[L]
  BY DEF Recent, Pruning
<1> HIDE DEF kept
<1>4. \A n \in 0 .. L : kept[n] = IF n = 0 THEN <<>>
          ELSE IF times[n] >= from THEN Append(kept[n - 1], times[n]) ELSE kept[n - 1]
  BY <1>2 DEF Pruning
<1> DEFINE Good(n) == /\ kept[n] \in Seq(Int)
                      /\ \A i \in DOMAIN kept[n] : kept[n][i] >= from
                      /\ \A t \in Int : t >= from =>
                            Cardinality(Since(kept[n], t)) = Cardinality(Since(First(n), t))
           Bad == {n \in 0 .. L : ~Good(n)}
<1>5. First(0) = <<>> /\ First(L) = times
      /\ \A n \in 1 .. L : First(n - 1) \in Seq(Int) /\ First(n) = Append(First(n - 1), times[n])
  <2>1. First(0) = <<>> /\ First(L) = times
    BY <1>1
  <2>2. ASSUME NEW n \in 1 .. L PROVE First(n - 1) \in Seq(Int) /\ First(n) = Append(First(n - 1), times[n])
    BY <1>1
  <2> QED  BY <2>1, <2>2
<1> HIDE DEF First
<1>6. Good(0)
  <2>1. kept[0] = <<>> /\ <<>> \in Seq(Int) /\ DOMAIN <<>> = {}
    BY <1>1, <1>4
  <2> QED  BY <1>5, <2>1
<1>7. ASSUME NEW n \in 1 .. L, Good(n - 1) PROVE Good(n)
  <2> DEFINE a == kept[n - 1]
             b == First(n - 1)
             x == times[n]
  <2>1. kept[n] = (IF x >= from THEN Append(a, x) ELSE a) /\ First(n) = Append(b, x) /\ x \in Int /\ b \in Seq(Int)
    <3>1. n \in 0 .. L /\ n # 0
      BY <1>1
    <3>2. kept[n] = IF x >= from THEN Append(a, x) ELSE a
      BY <1>4, <3>1
    <3>3. First(n) = Append(b, x) /\ b \in Seq(Int)
      BY <1>5
    <3> QED  BY <1>1, <3>2, <3>3
  <2>2. /\ a \in Seq(Int) /\ (\A i \in DOMAIN a : a[i] >= from)
        /\ \A t \in Int : t >= from => Cardinality(Since(a, t)) = Cardinality(Since(b, t))
    BY <1>7
  <2> HIDE DEF a, b, x
  <2>3. CASE x >= from
    <3>1. kept[n] = Append(a, x)
      BY <2>1, <2>3
    <3>2. Append(a, x) \in Seq(Int) /\ \A i \in DOMAIN Append(a, x) : Append(a, x)[i] >= from
      <4>1. /\ Append(a, x) \in Seq(Int) /\ Len(a) \in Nat /\ DOMAIN a = 1 .. Len(a)
            /\ DOMAIN Append(a, x) = 1 .. Len(a) + 1
            /\ (\A i \in 1 .. Len(a) : Append(a, x)[i] = a[i]) /\ Append(a, x)[Len(a) + 1] = x
        BY <2>1, <2>2, AppendProperties, LenProperties
      <4> QED  BY <2>2, <2>3, <4>1
    <3>3. ASSUME NEW t \in Int, t >= from
          PROVE  Cardinality(Since(Append(a, x), t)) = Cardinality(Since(Append(b, x), t))
      <4>1. Cardinality(Since(Append(a, x), t)) = Cardinality(Since(a, t)) + (IF x >= t THEN 1 ELSE 0)
        BY <2>1, <2>2, SinceAppend
      <4>2. Cardinality(Since(Append(b, x), t)) = Cardinality(Since(b, t)) + (IF x >= t THEN 1 ELSE 0)
        BY <2>1, SinceAppend
      <4> QED  BY <2>2, <3>3, <4>1, <4>2
    <3> QED  BY <2>1, <3>1, <3>2, <3>3
  <2>4. CASE ~ (x >= from)
    <3>1. kept[n] = a
      BY <2>1, <2>4
    <3>2. ASSUME NEW t \in Int, t >= from
          PROVE  Cardinality(Since(a, t)) = Cardinality(Since(Append(b, x), t))
      <4>1. /\ Cardinality(Since(b, t)) \in Nat
            /\ Cardinality(Since(Append(b, x), t)) = Cardinality(Since(b, t)) + (IF x >= t THEN 1 ELSE 0)
        BY <2>1, SinceAppend
      <4>2. ~ (x >= t)
        BY <2>1, <2>4, <3>2
      <4> QED  BY <2>2, <3>2, <4>1, <4>2
    <3> QED  BY <2>1, <2>2, <3>1, <3>2
  <2> QED  BY <2>3, <2>4
<1> HIDE DEF Good
<1>8. Bad = {}
  <2> SUFFICES ASSUME Bad # {} PROVE FALSE
    OBVIOUS
  <2>1. Bad \subseteq Nat
    BY <1>1
  <2>2. PICK n \in Bad : \A j \in Bad : n <= j
    BY <2>1, LeastExists
  <2>3. n # 0 /\ n \in 1 .. L
    BY <1>1, <1>6, <2>2
  <2>4. Good(n - 1)
    BY <1>1, <2>2, <2>3
  <2> QED  BY <1>7, <2>2, <2>3, <2>4
<1>9. Good(L)
  BY <1>1, <1>8
<1> QED  BY <1>3, <1>5, <1>9 DEF Good

\* What a window counts is what it had kept of the alerts within it, and this one.
LEMMA CountedIs ==
  ASSUME NEW times \in Seq(Int), NEW leaf, leaf.window \in Nat, hour \in Nat
  PROVE  LET more == Counted(times, leaf, hour)
         IN /\ more \in Seq(Int)
            /\ Len(more) = Cardinality(Since(times, hour - leaf.window)) + 1
            /\ \A t \in Int : t >= hour - leaf.window =>
                 Cardinality(Since(more, t)) = Cardinality(Since(times, t)) + (IF hour >= t THEN 1 ELSE 0)
<1> DEFINE from == hour - leaf.window
           q == Recent(times, from)
           more == Append(q, hour)
<1>1. Counted(times, leaf, hour) = more
  BY DEF Counted
<1>2. from \in Int /\ hour \in Int /\ from <= hour
  OBVIOUS
<1> HIDE DEF from
<1>3. /\ q \in Seq(Int) /\ \A i \in DOMAIN q : q[i] >= from
      /\ \A t \in Int : t >= from => Cardinality(Since(q, t)) = Cardinality(Since(times, t))
  BY <1>2, RecentIs
<1> HIDE DEF q
<1>4. Cardinality(Since(q, from)) = Len(q)
  <2>1. Since(q, from) = 1 .. Len(q) /\ Len(q) \in Nat
    BY <1>3, LenProperties DEF Since
  <2>2. Cardinality(1 .. Len(q)) = Len(q)
    <3> DEFINE l == Len(q)
    <3>1. l \in Int /\ 1 \in Int /\ (1 > l => l = 0)
      BY <2>1
    <3> HIDE DEF l
    <3>2. Cardinality(1 .. l) = IF 1 > l THEN 0 ELSE l - 1 + 1
      BY <3>1, FS_Interval
    <3> QED  BY <3>1, <3>2 DEF l
  <2> QED  BY <2>1, <2>2
<1>5. more \in Seq(Int) /\ Len(more) = Len(q) + 1
  BY <1>2, <1>3, AppendProperties
<1>6. ASSUME NEW t \in Int, t >= from
      PROVE  Cardinality(Since(more, t)) = Cardinality(Since(times, t)) + (IF hour >= t THEN 1 ELSE 0)
  <2>1. Cardinality(Since(more, t)) = Cardinality(Since(q, t)) + (IF hour >= t THEN 1 ELSE 0)
    BY <1>2, <1>3, SinceAppend
  <2> QED  BY <1>3, <1>6, <2>1
<1>7. Cardinality(Since(q, from)) = Cardinality(Since(times, from))
  BY <1>2, <1>3
<1> HIDE DEF more
<1>8. Len(more) = Cardinality(Since(times, from)) + 1
  BY <1>4, <1>5, <1>7
<1> QED  BY <1>1, <1>5, <1>6, <1>8 DEF from

\* The tracker keeps lists of times.
TracksTimes(all) == \A key \in DOMAIN all : all[key] \in Seq(Int)

LEMMA TimesType ==
  ASSUME NEW all, TracksTimes(all), NEW key
  PROVE  Times(all, key) \in Seq(Int)
<1>1. <<>> \in Seq(Int)
  BY EmptySeq
<1> QED  BY <1>1 DEF Times, TracksTimes

\* A leaf touches the entry of its window, if it is one, and no other.
LEMMA LeafIs ==
  ASSUME NEW r, NEW alert, NEW acc, NEW leaf, TracksTimes(acc.tracker), hour \in Nat,
         leaf.type = "time_window" => leaf.window \in Nat
  PROVE  LET next == Leaf(r, alert, acc, leaf)
             key == <<r, Group(alert, leaf)>>
             times == Counted(Times(acc.tracker, key), leaf, hour)
         IN /\ next.found = Append(acc.found, Matches(alert, leaf, Len(times)))
            /\ TracksTimes(next.tracker)
            /\ leaf.type # "time_window" => next.tracker = acc.tracker
            /\ leaf.type = "time_window" =>
                 \A k : Times(next.tracker, k) = IF k = key THEN times ELSE Times(acc.tracker, k)
<1> DEFINE next == Leaf(r, alert, acc, leaf)
           key == <<r, Group(alert, leaf)>>
           times == Counted(Times(acc.tracker, key), leaf, hour)
           all == acc.tracker
           changed == [k \in DOMAIN all \cup {key} |-> IF k = key THEN times ELSE all[k]]
<1>1. /\ next.found = Append(acc.found, Matches(alert, leaf, Len(times)))
      /\ next.tracker = IF leaf.type # "time_window" THEN all ELSE changed
  BY DEF Leaf
<1>2. ASSUME leaf.type = "time_window" PROVE times \in Seq(Int)
  <2>1. Times(all, key) \in Seq(Int) /\ leaf.window \in Nat
    BY <1>2, TimesType
  <2> QED  BY <2>1, CountedIs
<1> HIDE DEF next, times, key, all
<1>3. \A k : Times(changed, k) = IF k = key THEN times ELSE Times(all, k)
  <2> SUFFICES ASSUME NEW k PROVE Times(changed, k) = IF k = key THEN times ELSE Times(all, k)
    OBVIOUS
  <2>1. DOMAIN changed = DOMAIN all \cup {key}
    OBVIOUS
  <2>2. \A j \in DOMAIN all \cup {key} : changed[j] = IF j = key THEN times ELSE all[j]
    OBVIOUS
  <2> HIDE DEF changed
  <2> QED  BY <2>1, <2>2 DEF Times
<1>4. leaf.type = "time_window" => TracksTimes(changed)
  BY <1>2 DEF TracksTimes, all
<1> HIDE DEF changed
<1> QED  BY <1>1, <1>3, <1>4 DEF next, times, key, all

\* Only a window looks at how many alerts it counts.
LEMMA MatchesIgnores ==
  ASSUME NEW alert, NEW leaf, NEW n, NEW m, leaf.type # "time_window"
  PROVE  Matches(alert, leaf, n) = Matches(alert, leaf, m)
BY DEF Matches

\* The steps of the loop over the leaves.
Judging(rule, alert, all, upTo) ==
    [n \in 0 .. Len(rule.condition.parts) |->
        IF n = 0 THEN [found |-> <<>>, tracker |-> all]
        ELSE Leaf(rule.id, alert, upTo[n - 1], rule.condition.parts[n])]

LEMMA JudgingExists ==
  ASSUME NEW rule, Len(rule.condition.parts) \in Nat, NEW alert, NEW all
  PROVE  \E upTo : upTo = Judging(rule, alert, all, upTo)
<1> DEFINE Round(n, f) == IF n = 0 THEN [found |-> <<>>, tracker |-> all]
                          ELSE Leaf(rule.id, alert, f[n - 1], rule.condition.parts[n])
           Loop(k, f) == [n \in 0 .. k |-> Round(n, f)]
           Bad == {k \in Nat : ~ \E f : f = Loop(k, f)}
<1>1. Bad = {}
  <2> SUFFICES ASSUME Bad # {} PROVE FALSE
    OBVIOUS
  <2>1. PICK k \in Bad : \A j \in Bad : k <= j
    BY LeastExists
  <2>2. k \in Nat /\ ~ \E f : f = Loop(k, f)
    BY <2>1
  <2>3. CASE k = 0
    <3> DEFINE g == [n \in 0 .. 0 |-> [found |-> <<>>, tracker |-> all]]
    <3>1. g = Loop(0, g)
      OBVIOUS
    <3> QED  BY <2>2, <2>3, <3>1
  <2>4. CASE k # 0
    <3>1. k - 1 \in Nat
      BY <2>2, <2>4
    <3>2. k - 1 \notin Bad
      <4> HIDE DEF Bad
      <4> QED  BY <2>1, <2>2, <3>1
    <3>3. PICK f : f = Loop(k - 1, f)
      BY <3>1, <3>2
    <3>4. \A n \in 0 .. k - 1 : f[n] = Round(n, f)
      BY <3>3
    <3> DEFINE g == [n \in 0 .. k |-> IF n = k THEN Round(k, f) ELSE f[n]]
    <3>5. g[k] = Round(k, f) /\ \A n \in 0 .. k - 1 : g[n] = f[n]
      BY <2>2
    <3> HIDE DEF g
    <3>6. ASSUME NEW n \in 0 .. k PROVE g[n] = Round(n, g)
      <4>1. n # 0 => g[n - 1] = f[n - 1]
        BY <2>2, <3>5
      <4>2. Round(n, g) = Round(n, f)
        BY <4>1
      <4> HIDE DEF Round
      <4> QED  BY <2>2, <3>4, <3>5, <4>2
    <3>7. g = Loop(k, g)
      <4> HIDE DEF Round
      <4> QED  BY <3>6 DEF g
    <3> QED  BY <2>2, <3>7
  <2> QED  BY <2>2, <2>3, <2>4
<1>2. \E f : f = Loop(Len(rule.condition.parts), f)
  BY <1>1
<1> QED  BY <1>2 DEF Judging

IsCondition(c) ==
    /\ Len(c.parts) \in Nat /\ DOMAIN c.parts = 1 .. Len(c.parts)
    /\ \A n \in DOMAIN c.parts : c.parts[n].type = "time_window" => c.parts[n].window \in Nat

\* What comes of a rule whose only window is leaf p.
Counts(rule, alert, all, last, p) ==
    LET leaf == rule.condition.parts[p]
        key == <<rule.id, Group(alert, leaf)>>
        times == Counted(Times(all, key), leaf, hour)
    IN /\ \A k : Times(last.tracker, k) = IF k = key THEN times ELSE Times(all, k)
       /\ last.found = [m \in 1 .. Len(rule.condition.parts) |->
                          Matches(alert, rule.condition.parts[m], Len(times))]

\* A condition leaves the entries of other rules alone; one with a single window keeps in
\* it what the window counts, and each leaf is judged by that.
LEMMA CompositeIs ==
  ASSUME NEW rule, IsCondition(rule.condition), NEW alert, NEW all, TracksTimes(all), hour \in Nat
  PROVE  LET last == Composite(rule, alert, all)
         IN /\ TracksTimes(last.tracker)
            /\ \A k : k[1] # rule.id => Times(last.tracker, k) = Times(all, k)
            /\ \A p : Windows(rule.condition) = {p} => Counts(rule, alert, all, last, p)
<1> DEFINE parts == rule.condition.parts
           L == Len(parts)
           upTo == CHOOSE f : f = Judging(rule, alert, all, f)
<1>1. L \in Nat /\ DOMAIN parts = 1 .. L
      /\ \A n \in 1 .. L : parts[n].type = "time_window" => parts[n].window \in Nat
  BY DEF IsCondition
<1>2. upTo = Judging(rule, alert, all, upTo)
  BY <1>1, JudgingExists
<1>3. Composite(rule, alert, all) = upTo[L]
  BY DEF Composite, Judging
<1> HIDE DEF upTo
<1>4. /\ upTo[0] = [found |-> <<>>, tracker |-> all]
      /\ \A n \in 1 .. L : upTo[n] = Leaf(rule.id, alert, upTo[n - 1], parts[n])
  <2>1. \A n \in 0 .. L : upTo[n] = IF n = 0 THEN [found |-> <<>>, tracker |-> all]
                                    ELSE Leaf(rule.id, alert, upTo[n - 1], parts[n])
    BY <1>2 DEF Judging
  <2> QED  BY <1>1, <2>1
<1> DEFINE Key(p) == <<rule.id, Group(alert, parts[p])>>
           Now(p) == Counted(Times(all, Key(p)), parts[p], hour)
           M(p, m) == Matches(alert, parts[m], Len(Now(p)))
           Good(n) == /\ TracksTimes(upTo[n].tracker)
                      /\ \A k : k[1] # rule.id => Times(upTo[n].tracker, k) = Times(all, k)
                      /\ \A p : Windows(rule.condition) = {p} =>
                           /\ \A k : Times(upTo[n].tracker, k) = IF k = Key(p) /\ n >= p THEN Now(p) ELSE Times(all, k)
                           /\ upTo[n].found = [m \in 1 .. n |-> M(p, m)]
           Bad == {n \in 0 .. L : ~Good(n)}
<1>5. \A p : Windows(rule.condition) = {p} =>
        /\ p \in 1 .. L /\ parts[p].type = "time_window"
        /\ \A n \in 1 .. L : parts[n].type = "time_window" => n = p
  BY <1>1 DEF Windows
<1>6. Good(0)
  <2>1. upTo[0].found = <<>> /\ upTo[0].tracker = all
    BY <1>4
  <2>2. \A p : Windows(rule.condition) = {p} => ~ (0 >= p)
    BY <1>1, <1>5
  <2>3. \A p : [m \in 1 .. 0 |-> M(p, m)] = <<>>
    OBVIOUS
  <2> HIDE DEF M, Now, Key
  <2> QED  BY <2>1, <2>2, <2>3
<1>7. ASSUME NEW n \in 1 .. L, Good(n - 1) PROVE Good(n)
  <2> DEFINE acc == upTo[n - 1]
             leaf == parts[n]
             key == <<rule.id, Group(alert, leaf)>>
             times == Counted(Times(acc.tracker, key), leaf, hour)
  <2>1. upTo[n] = Leaf(rule.id, alert, acc, leaf) /\ n \in Nat /\ (leaf.type = "time_window" => leaf.window \in Nat)
    BY <1>1, <1>4
  <2>2. /\ TracksTimes(acc.tracker)
        /\ \A k : k[1] # rule.id => Times(acc.tracker, k) = Times(all, k)
        /\ \A p : Windows(rule.condition) = {p} =>
             /\ \A k : Times(acc.tracker, k) = IF k = Key(p) /\ n - 1 >= p THEN Now(p) ELSE Times(all, k)
             /\ acc.found = [m \in 1 .. n - 1 |-> M(p, m)]
    BY <1>7
  <2>3. /\ upTo[n].found = Append(acc.found, Matches(alert, leaf, Len(times)))
        /\ TracksTimes(upTo[n].tracker)
        /\ leaf.type # "time_window" => upTo[n].tracker = acc.tracker
        /\ leaf.type = "time_window" =>
             \A k : Times(upTo[n].tracker, k) = IF k = key THEN times ELSE Times(acc.tracker, k)
    <3>1. TracksTimes(acc.tracker)
      BY <2>2
    <3> HIDE DEF acc, leaf
    <3> QED  BY <2>1, <3>1, LeafIs
  <2>4. ASSUME NEW k, k[1] # rule.id PROVE Times(upTo[n].tracker, k) = Times(all, k)
    <3>1. k # key
      BY <2>4
    <3> HIDE DEF key, times, leaf
    <3> QED  BY <2>2, <2>3, <2>4, <3>1
  <2>5. ASSUME NEW p, Windows(rule.condition) = {p}
        PROVE  /\ \A k : Times(upTo[n].tracker, k) = IF k = Key(p) /\ n >= p THEN Now(p) ELSE Times(all, k)
               /\ upTo[n].found = [m \in 1 .. n |-> M(p, m)]
    <3>1. /\ \A k : Times(acc.tracker, k) = IF k = Key(p) /\ n - 1 >= p THEN Now(p) ELSE Times(all, k)
          /\ acc.found = [m \in 1 .. n - 1 |-> M(p, m)]
      BY <2>2, <2>5
    <3>2. p \in 1 .. L /\ (leaf.type = "time_window" <=> n = p)
      BY <1>5, <2>5
    <3>3. n = p => key = Key(p) /\ times = Now(p)
      <4>1. ASSUME n = p PROVE Times(acc.tracker, key) = Times(all, key)
        <5>1. ~ (n - 1 >= p)
          BY <1>1, <4>1
        <5> HIDE DEF Now, Key, key
        <5> QED  BY <3>1, <5>1
      <4> QED  BY <4>1
    <3>4. Matches(alert, leaf, Len(times)) = M(p, n)
      <4>1. CASE n = p
        BY <3>3, <4>1
      <4>2. CASE n # p
        BY <3>2, <4>2, MatchesIgnores
      <4> QED  BY <4>1, <4>2
    <3> HIDE DEF key, times, leaf, Now, Key, M, acc
    <3>5. ASSUME NEW k PROVE Times(upTo[n].tracker, k) = IF k = Key(p) /\ n >= p THEN Now(p) ELSE Times(all, k)
      <4>1. CASE n = p
        BY <1>1, <2>3, <3>1, <3>2, <3>3, <4>1
      <4>2. CASE n # p
        <5>1. n - 1 >= p <=> n >= p
          BY <1>1, <3>2, <4>2
        <5> QED  BY <2>3, <3>1, <3>2, <4>2, <5>1
      <4> QED  BY <4>1, <4>2
    <3>6. upTo[n].found = [m \in 1 .. n |-> M(p, m)]
      <4> DEFINE V == {M(p, m) : m \in 1 .. L}
                 q == [m \in 1 .. n - 1 |-> M(p, m)]
      <4>1. upTo[n].found = Append(q, M(p, n))
        BY <2>3, <3>1, <3>4
      <4>2. q \in Seq(V) /\ M(p, n) \in V /\ Len(q) = n - 1
        <5>1. \A m \in 1 .. n - 1 : M(p, m) \in V
          BY <1>1
        <5>2. n - 1 \in Nat
          BY <1>1
        <5> HIDE DEF V
        <5> QED  BY <5>1, <5>2 DEF V
      <4> HIDE DEF V
      <4>3. /\ Append(q, M(p, n)) \in Seq(V) /\ Len(Append(q, M(p, n))) = n /\ Append(q, M(p, n))[n] = M(p, n)
            /\ \A m \in 1 .. n - 1 : Append(q, M(p, n))[m] = q[m]
        BY <2>1, <4>2, AppendProperties
      <4>4. \A m \in 1 .. n - 1 : q[m] = M(p, m)
        OBVIOUS
      <4> HIDE DEF q
      <4> DEFINE a == Append(q, M(p, n))
                 b == [m \in 1 .. n |-> M(p, m)]
      <4>5. \A m \in 1 .. n : a[m] = M(p, m)
        BY <2>1, <4>3, <4>4
      <4>6. \A m \in 1 .. n : M(p, m) \in V
        BY <1>1 DEF V
      <4>7. b \in Seq(V) /\ Len(b) = n /\ \A m \in 1 .. n : b[m] = M(p, m)
        BY <2>1, <4>6
      <4>8. a \in Seq(V) /\ Len(a) = n
        BY <4>3
      <4> HIDE DEF a, b
      <4>9. a = b
        BY <4>5, <4>7, <4>8, SeqEqual
      <4> QED  BY <4>1, <4>9 DEF a, b
    <3> QED  BY <3>5, <3>6
  <2> HIDE DEF Now, Key, M
  <2> QED  BY <2>3, <2>4, <2>5
<1> HIDE DEF Good
<1>8. Bad = {}
  <2> SUFFICES ASSUME Bad # {} PROVE FALSE
    OBVIOUS
  <2>1. Bad \subseteq Nat
    BY <1>1
  <2>2. PICK n \in Bad : \A j \in Bad : n <= j
    BY <2>1, LeastExists
  <2>3. n # 0 /\ n \in 1 .. L
    BY <1>1, <1>6, <2>2
  <2>4. Good(n - 1)
    BY <1>1, <2>2, <2>3
  <2> QED  BY <1>7, <2>2, <2>3, <2>4
<1>9. Good(L)
  BY <1>1, <1>8
<1>10. ASSUME NEW p, Windows(rule.condition) = {p}
       PROVE  /\ \A k : Times(upTo[L].tracker, k) = IF k = Key(p) THEN Now(p) ELSE Times(all, k)
              /\ upTo[L].found = [m \in 1 .. L |-> M(p, m)]
  <2>1. L >= p
    BY <1>1, <1>5, <1>10
  <2>2. /\ \A k : Times(upTo[L].tracker, k) = IF k = Key(p) /\ L >= p THEN Now(p) ELSE Times(all, k)
        /\ upTo[L].found = [m \in 1 .. L |-> M(p, m)]
    BY <1>9, <1>10 DEF Good
  <2> HIDE DEF Now, Key, M
  <2> QED  BY <2>1, <2>2
<1>11. TracksTimes(upTo[L].tracker) /\ \A k : k[1] # rule.id => Times(upTo[L].tracker, k) = Times(all, k)
  BY <1>9 DEF Good
<1>12. ASSUME NEW p, Windows(rule.condition) = {p} PROVE Counts(rule, alert, all, upTo[L], p)
  BY <1>10, <1>12 DEF Counts
<1> HIDE DEF Key, Now, M
<1> QED  BY <1>3, <1>11, <1>12

IsList(q) == \E S : q \in Seq(S)

\* One more look is one more of those that count, or none.
LEMMA LooksAppend ==
  ASSUME NEW all, IsList(all), NEW e, NEW r, NEW g, NEW from
  PROVE  /\ IsList(Append(all, e))
         /\ Cardinality(Looks(all, r, g, from)) \in Nat
         /\ Cardinality(Looks(Append(all, e), r, g, from)) = Cardinality(Looks(all, r, g, from))
              + (IF e.rule = r /\ g \in e.groups /\ e.time >= from THEN 1 ELSE 0)
         /\ ~ (e.rule = r /\ g \in e.groups) => Looks(Append(all, e), r, g, from) = Looks(all, r, g, from)
<1> DEFINE more == Append(all, e)
           S == Looks(all, r, g, from)
           Fits == e.rule = r /\ g \in e.groups /\ e.time >= from
<1>1. PICK V : all \in Seq(V)
  BY DEF IsList
<1>2. all \in Seq(V \cup {e}) /\ e \in V \cup {e} /\ Len(all) \in Nat /\ DOMAIN all = 1 .. Len(all)
  BY <1>1, LenProperties
<1>3. /\ more \in Seq(V \cup {e}) /\ DOMAIN more = 1 .. Len(all) + 1 /\ more[Len(all) + 1] = e
      /\ \A i \in 1 .. Len(all) : more[i] = all[i]
  <2>1. /\ more \in Seq(V \cup {e}) /\ Len(more) = Len(all) + 1 /\ more[Len(all) + 1] = e
        /\ \A i \in 1 .. Len(all) : more[i] = all[i]
    BY <1>2, AppendProperties
  <2> QED  BY <2>1, LenProperties
<1>4. IsFiniteSet(S) /\ Cardinality(S) \in Nat
  <2>1. IsFiniteSet(1 .. Len(all))
    BY <1>2, FS_Interval
  <2>2. S \subseteq 1 .. Len(all)
    BY <1>2 DEF Looks
  <2> QED  BY <2>1, <2>2, FS_Subset, FS_CardinalityType
<1>5. IsList(more)
  BY <1>3 DEF IsList
<1> HIDE DEF more
<1>6. CASE Fits
  <2>1. Looks(more, r, g, from) = S \cup {Len(all) + 1}
    BY <1>2, <1>3, <1>6 DEF Looks
  <2>2. Len(all) + 1 \notin S
    BY <1>2 DEF Looks
  <2> HIDE DEF S
  <2>3. Cardinality(Looks(more, r, g, from)) = Cardinality(S) + 1
    BY <1>4, <2>1, <2>2, FS_AddElement
  <2> QED  BY <1>4, <1>5, <1>6, <2>3 DEF S, more
<1>7. CASE ~Fits
  <2>1. Looks(more, r, g, from) = S
    BY <1>2, <1>3, <1>7 DEF Looks
  <2> HIDE DEF S
  <2>2. Cardinality(Looks(more, r, g, from)) = Cardinality(S) + 0
    BY <1>4, <2>1
  <2> QED  BY <1>4, <1>5, <1>7, <2>1, <2>2 DEF S, more
<1> QED  BY <1>6, <1>7

\* The tracker holds as many times of a rule's group as there were looks.
Balanced(all, looks, r, from) ==
    \A g : \A t \in Int : t >= from =>
        Cardinality(Since(Times(all, <<r, g>>), t)) = Cardinality(Looks(looks, r, g, t))

\* What a rule with these looks should find.
Expected(looks, rule, alert, now) ==
    [m \in DOMAIN rule.condition.parts |-> LET leaf == rule.condition.parts[m] IN
        Matches(alert, leaf, InWindow(looks, rule.id, alert, leaf, now))]

Verdict(of, matched, looks, rule, alert, now) ==
    rule.id \in of => (rule.id \in matched <=> Holds(rule.condition, Expected(looks, rule, alert, now)))

\* A rule with one window, on what has been judged so far.
Kept(acc, rule, alert) ==
    \A p : Windows(rule.condition) = {p} =>
        /\ Balanced(acc.tracker, acc.seen, rule.id, hour - rule.condition.parts[p].window)
        /\ Verdict(acc.of, acc.matched, acc.seen, rule, alert, hour)

IsAccount(acc) == TracksTimes(acc.tracker) /\ IsList(acc.seen) /\ acc.matched \subseteq acc.of

\* A rule more has been judged, and only that one.
Adds(rule, acc, next) ==
    /\ IsAccount(next)
    /\ next.of = acc.of \cup {rule.id}
    /\ next.matched \subseteq acc.matched \cup {rule.id} /\ acc.matched \subseteq next.matched
    /\ \A r, g : r # rule.id => Times(next.tracker, <<r, g>>) = Times(acc.tracker, <<r, g>>)
    /\ \A r, g, t : r # rule.id => Looks(next.seen, r, g, t) = Looks(acc.seen, r, g, t)

LEMMA JudgeIs ==
  ASSUME NEW rule, IsCondition(rule.condition), NEW alert, NEW acc, IsAccount(acc), hour \in Nat
  PROVE  Adds(rule, acc, Judge(rule, alert, acc))
<1> DEFINE next == Judge(rule, alert, acc)
           last == Composite(rule, alert, acc.tracker)
           e == [rule |-> rule.id, time |-> hour,
                 groups |-> {Group(alert, rule.condition.parts[n]) : n \in Windows(rule.condition)}]
<1>1. /\ next.of = acc.of \cup {rule.id} /\ next.tracker = last.tracker
      /\ next.seen = Looked(rule, alert, acc.seen)
      /\ next.matched = IF Holds(rule.condition, last.found) THEN acc.matched \cup {rule.id} ELSE acc.matched
  BY DEF Judge
<1>2. /\ TracksTimes(acc.tracker) /\ IsList(acc.seen) /\ acc.matched \subseteq acc.of
  BY DEF IsAccount
<1>3. TracksTimes(last.tracker) /\ \A k : k[1] # rule.id => Times(last.tracker, k) = Times(acc.tracker, k)
  BY <1>2, CompositeIs
<1>4. Looked(rule, alert, acc.seen) = IF Windows(rule.condition) = {} THEN acc.seen ELSE Append(acc.seen, e)
  BY DEF Looked
<1>5. e.rule = rule.id
  OBVIOUS
<1> HIDE DEF last, e, next
<1>6. IsList(next.seen) /\ \A r, g, t : r # rule.id => Looks(next.seen, r, g, t) = Looks(acc.seen, r, g, t)
  <2>1. IsList(Append(acc.seen, e))
    BY <1>2, LooksAppend
  <2>2. \A r, g, t : r # rule.id => Looks(Append(acc.seen, e), r, g, t) = Looks(acc.seen, r, g, t)
    BY <1>2, <1>5, LooksAppend
  <2> QED  BY <1>1, <1>2, <1>4, <2>1, <2>2
<1>7. \A r, g : r # rule.id => Times(next.tracker, <<r, g>>) = Times(acc.tracker, <<r, g>>)
  BY <1>1, <1>3
<1>8. next.matched \subseteq acc.matched \cup {rule.id} /\ acc.matched \subseteq next.matched /\ next.matched \subseteq next.of
  BY <1>1, <1>2
<1>9. IsAccount(next)
  BY <1>1, <1>3, <1>6, <1>8 DEF IsAccount
<1>10. Adds(rule, acc, next)
  BY <1>1, <1>6, <1>7, <1>8, <1>9 DEF Adds
<1> QED  BY <1>10 DEF next

\* So what is known of another rule stays true.
LEMMA JudgeOthers ==
  ASSUME NEW rule, IsCondition(rule.condition), NEW alert, NEW acc, IsAccount(acc), hour \in Nat,
         NEW other, other.id # rule.id, Kept(acc, other, alert)
  PROVE  Kept(Judge(rule, alert, acc), other, alert)
<1> DEFINE next == Judge(rule, alert, acc)
           r == other.id
<1>1. /\ next.of = acc.of \cup {rule.id}
      /\ next.matched \subseteq acc.matched \cup {rule.id} /\ acc.matched \subseteq next.matched
      /\ \A g : Times(next.tracker, <<r, g>>) = Times(acc.tracker, <<r, g>>)
      /\ \A g, t : Looks(next.seen, r, g, t) = Looks(acc.seen, r, g, t)
  <2>1. Adds(rule, acc, next)
    BY JudgeIs
  <2> HIDE DEF next
  <2> QED  BY <2>1 DEF Adds
<1> HIDE DEF next
<1>2. ASSUME NEW p, Windows(other.condition) = {p}
      PROVE  /\ Balanced(next.tracker, next.seen, r, hour - other.condition.parts[p].window)
             /\ Verdict(next.of, next.matched, next.seen, other, alert, hour)
  <2>1. /\ Balanced(acc.tracker, acc.seen, r, hour - other.condition.parts[p].window)
        /\ Verdict(acc.of, acc.matched, acc.seen, other, alert, hour)
    BY <1>2 DEF Kept
  <2>2. Balanced(next.tracker, next.seen, r, hour - other.condition.parts[p].window)
    BY <1>1, <2>1 DEF Balanced
  <2>3. Expected(next.seen, other, alert, hour) = Expected(acc.seen, other, alert, hour)
    BY <1>1 DEF Expected, InWindow
  <2>4. (r \in next.of <=> r \in acc.of) /\ (r \in next.matched <=> r \in acc.matched)
    BY <1>1
  <2> QED  BY <2>1, <2>2, <2>3, <2>4 DEF Verdict
<1> QED  BY <1>2 DEF Kept, next

\* And the judged rule is judged by what its window should count.
LEMMA JudgeItself ==
  ASSUME NEW rule, IsCondition(rule.condition), NEW alert, NEW acc, IsAccount(acc), hour \in Nat,
         rule.id \notin acc.of, Kept(acc, rule, alert)
  PROVE  Kept(Judge(rule, alert, acc), rule, alert)
<1> DEFINE next == Judge(rule, alert, acc)
           last == Composite(rule, alert, acc.tracker)
<1> SUFFICES ASSUME NEW p, Windows(rule.condition) = {p}
             PROVE  /\ Balanced(next.tracker, next.seen, rule.id, hour - rule.condition.parts[p].window)
                    /\ Verdict(next.of, next.matched, next.seen, rule, alert, hour)
  BY DEF Kept
<1> DEFINE parts == rule.condition.parts
           leaf == parts[p]
           g0 == Group(alert, leaf)
           key == <<rule.id, g0>>
           before == Times(acc.tracker, key)
           times == Counted(before, leaf, hour)
           from == hour - leaf.window
           e == [rule |-> rule.id, time |-> hour, groups |-> {Group(alert, parts[n]) : n \in Windows(rule.condition)}]
<1>1. /\ next.of = acc.of \cup {rule.id} /\ next.tracker = last.tracker
      /\ next.seen = Looked(rule, alert, acc.seen)
      /\ next.matched = IF Holds(rule.condition, last.found) THEN acc.matched \cup {rule.id} ELSE acc.matched
  BY DEF Judge
<1>2. /\ TracksTimes(acc.tracker) /\ IsList(acc.seen) /\ acc.matched \subseteq acc.of
  BY DEF IsAccount
<1>3. /\ p \in DOMAIN parts /\ leaf.type = "time_window" /\ leaf.window \in Nat
      /\ DOMAIN parts = 1 .. Len(parts)
      /\ \A n \in DOMAIN parts : n # p => parts[n].type # "time_window"
  <2>1. p \in DOMAIN parts /\ leaf.type = "time_window" /\ \A n \in DOMAIN parts : n # p => parts[n].type # "time_window"
    BY DEF Windows
  <2> QED  BY <2>1 DEF IsCondition
<1>4. /\ \A k : Times(last.tracker, k) = IF k = key THEN times ELSE Times(acc.tracker, k)
      /\ last.found = [m \in DOMAIN parts |-> Matches(alert, parts[m], Len(times))]
  <2>1. Counts(rule, alert, acc.tracker, last, p)
    BY <1>2, CompositeIs
  <2>2. /\ \A k : Times(last.tracker, k) = IF k = key THEN times ELSE Times(acc.tracker, k)
        /\ last.found = [m \in 1 .. Len(parts) |-> Matches(alert, parts[m], Len(times))]
    <3> HIDE DEF last
    <3> QED  BY <2>1 DEF Counts
  <2> HIDE DEF times, last, key
  <2> QED  BY <1>3, <2>2
<1>5. next.seen = Append(acc.seen, e) /\ e.rule = rule.id /\ e.time = hour /\ e.groups = {g0}
  <2>1. {Group(alert, parts[n]) : n \in Windows(rule.condition)} = {g0}
    OBVIOUS
  <2>2. Windows(rule.condition) # {}
    OBVIOUS
  <2> QED  BY <1>1, <2>1, <2>2 DEF Looked
<1>6. before \in Seq(Int)
  BY <1>2, TimesType
<1>7. Balanced(acc.tracker, acc.seen, rule.id, hour - leaf.window)
  BY DEF Kept
<1> HIDE DEF next, last, e, times, before, g0, leaf, parts
<1>8. /\ Len(times) = Cardinality(Since(before, from)) + 1
      /\ \A t \in Int : t >= from =>
           Cardinality(Since(times, t)) = Cardinality(Since(before, t)) + (IF hour >= t THEN 1 ELSE 0)
  BY <1>3, <1>6, CountedIs DEF times
<1>9. \A g, t : /\ Cardinality(Looks(acc.seen, rule.id, g, t)) \in Nat
                /\ Cardinality(Looks(next.seen, rule.id, g, t)) = Cardinality(Looks(acc.seen, rule.id, g, t))
                     + (IF g = g0 /\ hour >= t THEN 1 ELSE 0)
  <2> SUFFICES ASSUME NEW g, NEW t
               PROVE  /\ Cardinality(Looks(acc.seen, rule.id, g, t)) \in Nat
                      /\ Cardinality(Looks(next.seen, rule.id, g, t)) = Cardinality(Looks(acc.seen, rule.id, g, t))
                           + (IF g = g0 /\ hour >= t THEN 1 ELSE 0)
    OBVIOUS
  <2>1. /\ Cardinality(Looks(acc.seen, rule.id, g, t)) \in Nat
        /\ Cardinality(Looks(Append(acc.seen, e), rule.id, g, t)) = Cardinality(Looks(acc.seen, rule.id, g, t))
             + (IF e.rule = rule.id /\ g \in e.groups /\ e.time >= t THEN 1 ELSE 0)
    BY <1>2, LooksAppend
  <2>2. (e.rule = rule.id /\ g \in e.groups /\ e.time >= t) <=> (g = g0 /\ hour >= t)
    BY <1>5
  <2> QED  BY <1>5, <2>1, <2>2
<1>10. \A g : \A t \in Int : t >= from =>
         Cardinality(Since(Times(acc.tracker, <<rule.id, g>>), t)) = Cardinality(Looks(acc.seen, rule.id, g, t))
  BY <1>7 DEF Balanced
<1>11. Balanced(next.tracker, next.seen, rule.id, hour - leaf.window)
  <2> SUFFICES ASSUME NEW g, NEW t \in Int, t >= from
               PROVE  Cardinality(Since(Times(next.tracker, <<rule.id, g>>), t)) = Cardinality(Looks(next.seen, rule.id, g, t))
    BY DEF Balanced
  <2>1. Cardinality(Since(Times(acc.tracker, <<rule.id, g>>), t)) = Cardinality(Looks(acc.seen, rule.id, g, t))
    BY <1>10
  <2>2. CASE g = g0
    <3>1. Times(next.tracker, <<rule.id, g>>) = times /\ Times(acc.tracker, <<rule.id, g>>) = before
      BY <1>1, <1>4, <2>2 DEF before
    <3>2. Cardinality(Since(times, t)) = Cardinality(Since(before, t)) + (IF hour >= t THEN 1 ELSE 0)
      BY <1>8
    <3>3. Cardinality(Looks(next.seen, rule.id, g, t)) = Cardinality(Looks(acc.seen, rule.id, g, t)) + (IF hour >= t THEN 1 ELSE 0)
      BY <1>9, <2>2
    <3> QED  BY <2>1, <3>1, <3>2, <3>3
  <2>3. CASE g # g0
    <3>1. <<rule.id, g>> # key
      BY <2>3
    <3>2. Times(next.tracker, <<rule.id, g>>) = Times(acc.tracker, <<rule.id, g>>)
      <4> HIDE DEF key
      <4> QED  BY <1>1, <1>4, <3>1
    <3>3. Cardinality(Looks(next.seen, rule.id, g, t)) = Cardinality(Looks(acc.seen, rule.id, g, t)) + 0
      BY <1>9, <2>3
    <3>4. Cardinality(Looks(acc.seen, rule.id, g, t)) \in Nat
      BY <1>9
    <3> QED  BY <2>1, <3>2, <3>3, <3>4
  <2> QED  BY <2>2, <2>3
<1>12. Len(times) = InWindow(next.seen, rule.id, alert, leaf, hour)
  <2>1. from \in Int /\ hour >= from
    BY <1>3
  <2>2. Cardinality(Since(before, from)) = Cardinality(Looks(acc.seen, rule.id, g0, from))
    BY <1>10, <2>1 DEF before
  <2>3. Cardinality(Looks(next.seen, rule.id, g0, from)) = Cardinality(Looks(acc.seen, rule.id, g0, from)) + 1
    BY <1>9, <2>1
  <2>4. InWindow(next.seen, rule.id, alert, leaf, hour) = Cardinality(Looks(next.seen, rule.id, g0, from))
    BY DEF InWindow, g0
  <2> QED  BY <1>8, <2>2, <2>3, <2>4
<1>13. last.found = Expected(next.seen, rule, alert, hour)
  <2>1. Expected(next.seen, rule, alert, hour) =
          [m \in DOMAIN parts |-> Matches(alert, parts[m], InWindow(next.seen, rule.id, alert, parts[m], hour))]
    BY DEF Expected, parts
  <2>2. ASSUME NEW m \in DOMAIN parts
        PROVE  Matches(alert, parts[m], Len(times)) = Matches(alert, parts[m], InWindow(next.seen, rule.id, alert, parts[m], hour))
    <3>1. CASE m = p
      BY <1>12, <3>1 DEF leaf
    <3>2. CASE m # p
      BY <1>3, <3>2, MatchesIgnores
    <3> QED  BY <3>1, <3>2
  <2> QED  BY <1>4, <2>1, <2>2
<1>14. Verdict(next.of, next.matched, next.seen, rule, alert, hour)
  <2>1. rule.id \notin acc.matched
    BY <1>2
  <2>2. rule.id \in next.matched <=> Holds(rule.condition, last.found)
    BY <1>1, <2>1
  <2> QED  BY <1>13, <2>2 DEF Verdict
<1> QED  BY <1>11, <1>14 DEF leaf, parts

\* The steps of the loop over the rules.
Evaluating(alert, suppressing, upTo) ==
    [n \in 0 .. Len(rules) |->
        IF n = 0 THEN Unjudged
        ELSE IF /\ rules[n].active
                /\ suppressing => /\ rules[n].action = "suppress"
                                  /\ \A m \in 1 .. n - 1 : ~Suppresses(rules[m], upTo[n - 1])
             THEN Judge(rules[n], alert, upTo[n - 1]) ELSE upTo[n - 1]]

LEMMA EvaluatingExists ==
  ASSUME Len(rules) \in Nat, NEW alert, NEW suppressing
  PROVE  \E upTo : upTo = Evaluating(alert, suppressing, upTo)
<1> DEFINE Next1(n, acc) ==
             IF /\ rules[n].active
                /\ suppressing => /\ rules[n].action = "suppress"
                                  /\ \A m \in 1 .. n - 1 : ~Suppresses(rules[m], acc)
             THEN Judge(rules[n], alert, acc) ELSE acc
           Round(n, f) == IF n = 0 THEN Unjudged ELSE Next1(n, f[n - 1])
           Loop(k, f) == [n \in 0 .. k |-> Round(n, f)]
           Bad == {k \in Nat : ~ \E f : f = Loop(k, f)}
<1>1. Bad = {}
  <2> HIDE DEF Next1
  <2> SUFFICES ASSUME Bad # {} PROVE FALSE
    OBVIOUS
  <2>1. PICK k \in Bad : \A j \in Bad : k <= j
    BY LeastExists
  <2>2. k \in Nat /\ ~ \E f : f = Loop(k, f)
    BY <2>1
  <2>3. CASE k = 0
    <3> DEFINE g == [n \in 0 .. 0 |-> Unjudged]
    <3>1. g = Loop(0, g)
      OBVIOUS
    <3> QED  BY <2>2, <2>3, <3>1
  <2>4. CASE k # 0
    <3>1. k - 1 \in Nat
      BY <2>2, <2>4
    <3>2. k - 1 \notin Bad
      <4> HIDE DEF Bad
      <4> QED  BY <2>1, <2>2, <3>1
    <3>3. PICK f : f = Loop(k - 1, f)
      BY <3>1, <3>2
    <3>4. \A n \in 0 .. k - 1 : f[n] = Round(n, f)
      BY <3>3
    <3> DEFINE g == [n \in 0 .. k |-> IF n = k THEN Round(k, f) ELSE f[n]]
    <3>5. g[k] = Round(k, f) /\ \A n \in 0 .. k - 1 : g[n] = f[n]
      BY <2>2
    <3> HIDE DEF g
    <3>6. ASSUME NEW n \in 0 .. k PROVE g[n] = Round(n, g)
      <4>1. n # 0 => g[n - 1] = f[n - 1]
        BY <2>2, <3>5
      <4>2. Round(n, g) = Round(n, f)
        BY <4>1
      <4> HIDE DEF Round
      <4> QED  BY <2>2, <3>4, <3>5, <4>2
    <3>7. g = Loop(k, g)
      <4> HIDE DEF Round
      <4> QED  BY <3>6 DEF g
    <3> QED  BY <2>2, <3>7
  <2> QED  BY <2>2, <2>3, <2>4
<1>2. \E f : f = Loop(Len(rules), f)
  BY <1>1
<1> QED  BY <1>2 DEF Evaluating

IsRules(q) ==
    /\ IsList(q) /\ \A n \in DOMAIN q : IsCondition(q[n].condition)
    /\ \A m, n \in DOMAIN q : q[m].id = q[n].id => m = n

RulesBalanced(q, all, looks, gone, now) == \A n \in DOMAIN q : q[n].id \notin gone =>
    \A p : Windows(q[n].condition) = {p} => Balanced(all, looks, q[n].id, now - q[n].condition.parts[p].window)

\* What an evaluation leaves behind.
Reviews(all, alert) ==
    /\ IsAccount(all) /\ all.of \subseteq {rules[n].id : n \in DOMAIN rules}
    /\ \A n \in DOMAIN rules : rules[n].id \notin rewound => Kept(all, rules[n], alert)
    /\ \A r : r \notin {rules[n].id : n \in DOMAIN rules} =>
         /\ \A g : Times(all.tracker, <<r, g>>) = Times(tracker, <<r, g>>)
         /\ \A g, t : Looks(all.seen, r, g, t) = Looks(seen, r, g, t)

\* Whatever an evaluation judges, it keeps what each rule is entitled to.
LEMMA EvaluatedIs ==
  ASSUME IsRules(rules), NEW alert, NEW suppressing, hour \in Nat, TracksTimes(tracker), IsList(seen),
         RulesBalanced(rules, tracker, seen, rewound, hour)
  PROVE  Reviews(Evaluated(alert, suppressing), alert)
<1> DEFINE L == Len(rules)
           Ids == {rules[n].id : n \in DOMAIN rules}
           upTo == CHOOSE f : f = Evaluating(alert, suppressing, f)
<1>1. /\ L \in Nat /\ DOMAIN rules = 1 .. L
      /\ \A n \in 1 .. L : IsCondition(rules[n].condition)
      /\ \A m, n \in 1 .. L : rules[m].id = rules[n].id => m = n
  <2>1. PICK S : rules \in Seq(S)
    BY DEF IsRules, IsList
  <2> QED  BY <2>1, LenProperties DEF IsRules
<1>2. upTo = Evaluating(alert, suppressing, upTo)
  BY <1>1, EvaluatingExists
<1>3. Evaluated(alert, suppressing) = upTo[L]
  BY DEF Evaluated, Evaluating
<1> HIDE DEF upTo
<1>4. /\ upTo[0] = Unjudged
      /\ \A n \in 1 .. L : upTo[n] = Judge(rules[n], alert, upTo[n - 1]) \/ upTo[n] = upTo[n - 1]
  <2>1. \A n \in 0 .. L : upTo[n] = Evaluating(alert, suppressing, upTo)[n]
    BY <1>2
  <2>2. upTo[0] = Unjudged
    BY <1>1, <2>1 DEF Evaluating
  <2>3. ASSUME NEW n \in 1 .. L PROVE upTo[n] = Judge(rules[n], alert, upTo[n - 1]) \/ upTo[n] = upTo[n - 1]
    <3>1. n \in 0 .. L /\ n # 0
      BY <1>1
    <3> QED  BY <2>1, <3>1 DEF Evaluating
  <2> QED  BY <2>2, <2>3
<1> DEFINE Good(n) == /\ IsAccount(upTo[n])
                      /\ upTo[n].of \subseteq {rules[m].id : m \in 1 .. n}
                      /\ \A m \in 1 .. L : rules[m].id \notin rewound => Kept(upTo[n], rules[m], alert)
                      /\ \A r : r \notin Ids =>
                           /\ \A g : Times(upTo[n].tracker, <<r, g>>) = Times(tracker, <<r, g>>)
                           /\ \A g, t : Looks(upTo[n].seen, r, g, t) = Looks(seen, r, g, t)
           Bad == {n \in 0 .. L : ~Good(n)}
<1>5. Good(0)
  <2>1. upTo[0].of = {} /\ upTo[0].matched = {} /\ upTo[0].tracker = tracker /\ upTo[0].seen = seen
    BY <1>4 DEF Unjudged
  <2>2. IsAccount(upTo[0])
    BY <2>1 DEF IsAccount
  <2>3. ASSUME NEW m \in 1 .. L, rules[m].id \notin rewound PROVE Kept(upTo[0], rules[m], alert)
    BY <1>1, <2>1, <2>3 DEF Kept, RulesBalanced, Verdict
  <2> QED  BY <2>1, <2>2, <2>3
<1>6. ASSUME NEW n \in 1 .. L, Good(n - 1) PROVE Good(n)
  <2> DEFINE acc == upTo[n - 1]
             rule == rules[n]
             next == Judge(rule, alert, acc)
  <2>1. n \in Nat /\ IsCondition(rule.condition) /\ rule.id \in Ids
    BY <1>1
  <2>2. /\ IsAccount(acc) /\ acc.of \subseteq {rules[m].id : m \in 1 .. n - 1}
        /\ \A m \in 1 .. L : rules[m].id \notin rewound => Kept(acc, rules[m], alert)
        /\ \A r : r \notin Ids =>
             /\ \A g : Times(acc.tracker, <<r, g>>) = Times(tracker, <<r, g>>)
             /\ \A g, t : Looks(acc.seen, r, g, t) = Looks(seen, r, g, t)
    BY <1>6
  <2>3. {rules[m].id : m \in 1 .. n - 1} \subseteq {rules[m].id : m \in 1 .. n}
        /\ rule.id \in {rules[m].id : m \in 1 .. n}
    BY <2>1
  <2>4. \A m \in 1 .. L : m # n => rules[m].id # rule.id
    BY <1>1
  <2>5. rule.id \notin acc.of
    <3>1. \A m \in 1 .. n - 1 : m \in 1 .. L /\ m # n
      BY <1>1
    <3> QED  BY <2>2, <2>4, <3>1
  <2>6. \A m \in 1 .. L : m = n => rules[m] = rule
    OBVIOUS
  <2>7. upTo[n] = next \/ upTo[n] = acc
    BY <1>4
  <2> HIDE DEF acc, Ids, rule
  <2>8. CASE upTo[n] = acc
    BY <2>2, <2>3, <2>8
  <2>9. CASE upTo[n] = next
    <3>1. /\ IsAccount(next) /\ next.of = acc.of \cup {rule.id}
          /\ \A r, g : r # rule.id => Times(next.tracker, <<r, g>>) = Times(acc.tracker, <<r, g>>)
          /\ \A r, g, t : r # rule.id => Looks(next.seen, r, g, t) = Looks(acc.seen, r, g, t)
      <4>1. IsCondition(rule.condition) /\ IsAccount(acc) /\ hour \in Nat
        BY <2>1, <2>2
      <4>2. Adds(rule, acc, next)
        BY <4>1, JudgeIs
      <4> HIDE DEF next
      <4> QED  BY <4>2 DEF Adds
    <3>2. ASSUME NEW m \in 1 .. L, rules[m].id \notin rewound PROVE Kept(next, rules[m], alert)
      <4>1. Kept(acc, rules[m], alert)
        BY <2>2, <3>2
      <4>2. CASE m = n
        <5>1. Kept(acc, rule, alert) /\ rules[m] = rule
          BY <2>6, <4>1, <4>2
        <5>2. Kept(next, rule, alert)
          BY <2>1, <2>2, <2>5, <5>1, JudgeItself
        <5> QED  BY <5>1, <5>2
      <4>3. CASE m # n
        <5> DEFINE other == rules[m]
        <5>1. other.id # rule.id /\ Kept(acc, other, alert)
          BY <2>4, <4>1, <4>3
        <5> HIDE DEF other
        <5>2. Kept(next, other, alert)
          BY <2>1, <2>2, <5>1, JudgeOthers
        <5> QED  BY <5>2 DEF other
      <4> QED  BY <4>2, <4>3
    <3> HIDE DEF next
    <3>3. next.of \subseteq {rules[m].id : m \in 1 .. n}
      BY <2>2, <2>3, <3>1
    <3>4. ASSUME NEW r, r \notin Ids
          PROVE  /\ \A g : Times(next.tracker, <<r, g>>) = Times(tracker, <<r, g>>)
                 /\ \A g, t : Looks(next.seen, r, g, t) = Looks(seen, r, g, t)
      <4>1. r # rule.id
        BY <2>1, <3>4
      <4> QED  BY <2>2, <3>1, <3>4, <4>1
    <3> QED  BY <2>9, <3>1, <3>2, <3>3, <3>4
  <2> QED  BY <2>7, <2>8, <2>9
<1> HIDE DEF Good
<1>7. Bad = {}
  <2> SUFFICES ASSUME Bad # {} PROVE FALSE
    OBVIOUS
  <2>1. Bad \subseteq Nat
    BY <1>1
  <2>2. PICK n \in Bad : \A j \in Bad : n <= j
    BY <2>1, LeastExists
  <2>3. n # 0 /\ n \in 1 .. L
    BY <1>1, <1>5, <2>2
  <2>4. Good(n - 1)
    BY <1>1, <2>2, <2>3
  <2> QED  BY <1>6, <2>2, <2>3, <2>4
<1>8. Good(L)
  BY <1>1, <1>7
<1>9. /\ IsAccount(upTo[L]) /\ upTo[L].of \subseteq {rules[m].id : m \in 1 .. L}
      /\ \A m \in 1 .. L : rules[m].id \notin rewound => Kept(upTo[L], rules[m], alert)
      /\ \A r : r \notin Ids =>
           /\ \A g : Times(upTo[L].tracker, <<r, g>>) = Times(tracker, <<r, g>>)
           /\ \A g, t : Looks(upTo[L].seen, r, g, t) = Looks(seen, r, g, t)
  BY <1>8 DEF Good
<1> QED  BY <1>1, <1>3, <1>9 DEF Reviews

Known == RuleIds \cup rewound

AlertTypes ==
    /\ IsRules(rules) /\ hour \in Nat /\ TracksTimes(tracker) /\ IsList(seen)
    /\ judged.of \subseteq Known

\* Nothing is known of a rule that is yet to be made.
Fresh == \A r : r \notin Known => \A g, t :
    Times(tracker, <<r, g>>) = <<>> /\ Looks(seen, r, g, t) = {}

\* The rules last judged were judged by what their windows should count.
RulesJudged(q, last, looks, gone) == \A n \in DOMAIN q : q[n].id \notin gone =>
    \A p : Windows(q[n].condition) = {p} =>
        Verdict(last.of, last.matched, looks, q[n], last.alert, last.time)

AlertInv == AlertTypes /\ Fresh /\ RulesBalanced(rules, tracker, seen, rewound, hour) /\ RulesJudged(rules, judged, seen, rewound)

LEMMA AlertImplies == AlertInv => WindowCounts
<1> SUFFICES ASSUME AlertInv, NEW n \in DOMAIN rules,
                    rules[n].id \in judged.of \ rewound, Cardinality(Windows(rules[n].condition)) = 1
             PROVE  rules[n].id \in judged.matched <=>
                      Holds(rules[n].condition, Expected(seen, rules[n], judged.alert, judged.time))
  BY DEF WindowCounts, Expected
<1>1. IsCondition(rules[n].condition)
  BY DEF AlertInv, AlertTypes, IsRules
<1>2. IsFiniteSet(Windows(rules[n].condition))
  <2> DEFINE l == Len(rules[n].condition.parts)
  <2>1. l \in Nat /\ Windows(rules[n].condition) \subseteq 1 .. l
    BY <1>1 DEF IsCondition, Windows
  <2> HIDE DEF l
  <2>2. IsFiniteSet(1 .. l)
    BY <2>1, FS_Interval
  <2> QED  BY <2>1, <2>2, FS_Subset
<1>3. PICK p : Windows(rules[n].condition) = {p}
  BY <1>2, FS_Singleton
<1>4. Verdict(judged.of, judged.matched, seen, rules[n], judged.alert, judged.time)
  BY <1>3 DEF AlertInv, RulesJudged
<1> QED  BY <1>4 DEF Verdict

LEMMA AlertInitial == AlertInit => AlertInv
<1> SUFFICES ASSUME AlertInit PROVE AlertInv
  OBVIOUS
<1>1. /\ rules = <<>> /\ hour = 0 /\ seen = <<>> /\ DOMAIN tracker = {} /\ judged.of = {}
      /\ <<>> \in Seq({}) /\ DOMAIN <<>> = {}
  BY DEF AlertInit, NoVerdict
<1>2. AlertTypes
  BY <1>1 DEF AlertTypes, IsRules, IsList, TracksTimes
<1>3. Fresh
  BY <1>1 DEF Fresh, Times, Looks
<1>4. RulesBalanced(rules, tracker, seen, rewound, hour) /\ RulesJudged(rules, judged, seen, rewound)
  BY <1>1 DEF RulesBalanced, RulesJudged
<1> QED  BY <1>2, <1>3, <1>4 DEF AlertInv

\* An evaluation judges by what it finds, and leaves the rules what they are entitled to.
LEMMA EvaluationKeeps ==
  ASSUME AlertInv, NEW alert, NEW suppressing, Judged(Evaluated(alert, suppressing), alert)
  PROVE  AlertInv'
<1> DEFINE all == Evaluated(alert, suppressing)
<1>1. /\ IsRules(rules) /\ hour \in Nat /\ TracksTimes(tracker) /\ IsList(seen)
      /\ RulesBalanced(rules, tracker, seen, rewound, hour) /\ Fresh
  BY DEF AlertInv, AlertTypes
<1>2. Reviews(all, alert)
  BY <1>1, EvaluatedIs
<1>3. /\ tracker' = all.tracker /\ seen' = all.seen /\ judged'.of = all.of /\ judged'.matched = all.matched
      /\ judged'.alert = alert /\ judged'.time = hour /\ UNCHANGED <<rules, hour, rewound>>
  BY DEF Judged
<1> HIDE DEF all
<1>4. /\ TracksTimes(all.tracker) /\ IsList(all.seen) /\ all.of \subseteq RuleIds
      /\ \A n \in DOMAIN rules : rules[n].id \notin rewound => Kept(all, rules[n], alert)
      /\ \A r : r \notin RuleIds =>
           /\ \A g : Times(all.tracker, <<r, g>>) = Times(tracker, <<r, g>>)
           /\ \A g, t : Looks(all.seen, r, g, t) = Looks(seen, r, g, t)
  BY <1>2 DEF Reviews, IsAccount, RuleIds
<1>5. Known' = Known /\ RuleIds \subseteq Known
  BY <1>3 DEF Known, RuleIds
<1>6. AlertTypes'
  BY <1>1, <1>3, <1>4, <1>5 DEF AlertTypes, IsRules, IsCondition, IsList, TracksTimes
<1>7. Fresh'
  <2>1. ASSUME NEW r, r \notin Known, NEW g, NEW t
        PROVE  Times(all.tracker, <<r, g>>) = <<>> /\ Looks(all.seen, r, g, t) = {}
    <3>1. Times(tracker, <<r, g>>) = <<>> /\ Looks(seen, r, g, t) = {}
      BY <1>1, <2>1 DEF Fresh
    <3> QED  BY <1>4, <1>5, <2>1, <3>1
  <2>2. \A r : r \notin Known' => \A g, t :
          Times(tracker', <<r, g>>) = <<>> /\ Looks(seen', r, g, t) = {}
    BY <1>3, <1>5, <2>1
  <2> QED  BY <2>2 DEF Fresh
<1>8. RulesBalanced(rules, tracker, seen, rewound, hour)'
  <2>1. RulesBalanced(rules, all.tracker, all.seen, rewound, hour)
    BY <1>4 DEF RulesBalanced, Kept
  <2> QED  BY <1>3, <2>1
<1>9. RulesJudged(rules, judged, seen, rewound)'
  <2>1. RulesJudged(rules, judged', all.seen, rewound)
    BY <1>3, <1>4 DEF RulesJudged, Kept
  <2> QED  BY <1>3, <2>1
<1> QED  BY <1>6, <1>7, <1>8, <1>9 DEF AlertInv

\* Time only takes alerts out of the windows.
LEMMA StrikeKeeps ==
  ASSUME AlertInv, ClockStrikes
  PROVE  AlertInv'
<1>1. hour \in Nat /\ hour' = hour + 1 /\ UNCHANGED <<rules, tracker, judged, seen, rewound>>
  BY DEF AlertInv, AlertTypes, ClockStrikes
<1>2. AlertTypes'
  BY <1>1 DEF AlertInv, AlertTypes, Known, RuleIds
<1>3. Fresh'
  BY <1>1 DEF AlertInv, Fresh, Known, RuleIds
<1>4. RulesJudged(rules, judged, seen, rewound)'
  BY <1>1 DEF AlertInv
<1>5. ASSUME NEW n \in DOMAIN rules, rules[n].id \notin rewound, NEW p, Windows(rules[n].condition) = {p}
      PROVE  Balanced(tracker, seen, rules[n].id, hour' - rules[n].condition.parts[p].window)
  <2> DEFINE w == rules[n].condition.parts[p].window
             r == rules[n].id
  <2>1. w \in Nat
    <3>1. p \in Windows(rules[n].condition)
      BY <1>5
    <3> QED  BY <3>1 DEF AlertInv, AlertTypes, IsRules, IsCondition, Windows
  <2>2. Balanced(tracker, seen, r, hour - w)
    BY <1>5 DEF AlertInv, RulesBalanced
  <2> HIDE DEF w, r
  <2>3. \A t \in Int : t >= hour' - w => t >= hour - w
    BY <1>1, <2>1
  <2>4. Balanced(tracker, seen, r, hour' - w)
    BY <2>2, <2>3 DEF Balanced
  <2> QED  BY <2>4 DEF w, r
<1>6. RulesBalanced(rules, tracker, seen, rewound, hour)'
  <2>1. RulesBalanced(rules, tracker, seen, rewound, hour')
    BY <1>5 DEF RulesBalanced
  <2> QED  BY <1>1, <2>1
<1> QED  BY <1>2, <1>3, <1>4, <1>6 DEF AlertInv

\* An edit that leaves each rule its condition, or makes it new, or takes it out of the account.
LEMMA EditKeeps ==
  ASSUME AlertInv, UNCHANGED <<tracker, hour, judged, seen>>,
         rewound \subseteq rewound', Known \subseteq Known', IsRules(rules'),
         \A m \in DOMAIN rules' : rules'[m].id \notin rewound' =>
            \/ rules'[m].id \notin Known
            \/ \E n \in DOMAIN rules : rules[n].id = rules'[m].id /\ rules[n].condition = rules'[m].condition
  PROVE  AlertInv'
<1>1. tracker' = tracker /\ hour' = hour /\ judged' = judged /\ seen' = seen
  OBVIOUS
<1>2. AlertTypes'
  <2>1. hour \in Nat /\ TracksTimes(tracker) /\ IsList(seen) /\ judged.of \subseteq Known
    BY DEF AlertInv, AlertTypes
  <2>2. TracksTimes(tracker') /\ IsList(seen') /\ IsRules(rules')
    BY <1>1, <2>1
  <2> QED  BY <1>1, <2>1, <2>2 DEF AlertTypes
<1>3. Fresh'
  <2>1. \A r : r \notin Known' => \A g, t : Times(tracker, <<r, g>>) = <<>> /\ Looks(seen, r, g, t) = {}
    BY DEF AlertInv, Fresh
  <2> QED  BY <1>1, <2>1 DEF Fresh
<1>4. ASSUME NEW m \in DOMAIN rules', rules'[m].id \notin rewound', NEW p, Windows(rules'[m].condition) = {p}
      PROVE  /\ Balanced(tracker, seen, rules'[m].id, hour - rules'[m].condition.parts[p].window)
             /\ Verdict(judged.of, judged.matched, seen, rules'[m], judged.alert, judged.time)
  <2> DEFINE rule == rules'[m]
  <2>1. CASE rule.id \notin Known
    <3>1. \A g, t : Times(tracker, <<rule.id, g>>) = <<>> /\ Looks(seen, rule.id, g, t) = {}
      BY <2>1 DEF AlertInv, Fresh
    <3>2. \A t : Since(<<>>, t) = {}
      BY DEF Since
    <3>3. rule.id \notin judged.of
      BY <2>1 DEF AlertInv, AlertTypes
    <3> HIDE DEF rule
    <3>4. Balanced(tracker, seen, rule.id, hour - rule.condition.parts[p].window)
      BY <3>1, <3>2 DEF Balanced
    <3>5. Verdict(judged.of, judged.matched, seen, rule, judged.alert, judged.time)
      BY <3>3 DEF Verdict
    <3> QED  BY <3>4, <3>5 DEF rule
  <2>2. CASE \E n \in DOMAIN rules : rules[n].id = rule.id /\ rules[n].condition = rule.condition
    <3>1. PICK n \in DOMAIN rules : rules[n].id = rule.id /\ rules[n].condition = rule.condition
      BY <2>2
    <3>2. rules[n].id \notin rewound /\ Windows(rules[n].condition) = {p}
      BY <1>4, <3>1
    <3>3. Balanced(tracker, seen, rules[n].id, hour - rules[n].condition.parts[p].window)
      BY <3>2 DEF AlertInv, RulesBalanced
    <3>4. Verdict(judged.of, judged.matched, seen, rules[n], judged.alert, judged.time)
      BY <3>2 DEF AlertInv, RulesJudged
    <3> HIDE DEF rule
    <3>5. Verdict(judged.of, judged.matched, seen, rule, judged.alert, judged.time)
      BY <3>1, <3>4 DEF Verdict, Expected
    <3> QED  BY <3>1, <3>3, <3>5 DEF rule
  <2> QED  BY <1>4, <2>1, <2>2
<1>5. RulesBalanced(rules, tracker, seen, rewound, hour)'
  <2>1. RulesBalanced(rules', tracker, seen, rewound', hour)
    BY <1>4 DEF RulesBalanced
  <2> QED  BY <1>1, <2>1
<1>6. RulesJudged(rules, judged, seen, rewound)'
  <2>1. RulesJudged(rules', judged, seen, rewound')
    BY <1>4 DEF RulesJudged
  <2> QED  BY <1>1, <2>1
<1> QED  BY <1>2, <1>3, <1>5, <1>6 DEF AlertInv

LEMMA AlertRests == AlertInv /\ UNCHANGED alertVars => AlertInv'
<1> SUFFICES ASSUME AlertInv, UNCHANGED alertVars PROVE AlertInv'
  OBVIOUS
<1>1. rules' = rules /\ rewound' = rewound /\ UNCHANGED <<tracker, hour, judged, seen>>
  BY DEF alertVars
<1>2. Known' = Known /\ IsRules(rules')
  <2>1. IsRules(rules)
    BY DEF AlertInv, AlertTypes
  <2> QED  BY <1>1, <2>1 DEF Known, RuleIds
<1>3. \A m \in DOMAIN rules' : \E n \in DOMAIN rules : rules[n].id = rules'[m].id /\ rules[n].condition = rules'[m].condition
  BY <1>1
<1> QED  BY <1>1, <1>2, <1>3, EditKeeps

\* A new rule is one nothing is known of.
LEMMA CreateRuleKeeps ==
  ASSUME AlertInv, NEW condition \in Conditions, NEW action, CreateRule(condition, action)
  PROVE  AlertInv'
<1> DEFINE id == CHOOSE i \in Rules \ (RuleIds \cup rewound) : TRUE
           new == [id |-> id, condition |-> condition, action |-> action, active |-> TRUE, created |-> hour]
           more == <<new>> \o rules
<1>1. id \notin Known /\ rules' = more /\ rewound' = rewound /\ UNCHANGED <<tracker, hour, judged, seen>>
  BY DEF CreateRule, Edit, Known
<1>2. new.id = id /\ new.condition = condition
  OBVIOUS
<1> HIDE DEF id, new
<1>3. IsRules(rules) /\ \A n \in DOMAIN rules : rules[n].id \in Known /\ rules[n].id # id
  <2>1. \A n \in DOMAIN rules : rules[n].id \in Known
    BY DEF Known, RuleIds
  <2> QED  BY <1>1, <2>1 DEF AlertInv, AlertTypes
<1>4. PICK S : rules \in Seq(S)
  BY <1>3 DEF IsRules, IsList
<1>5. Len(rules) \in Nat /\ DOMAIN rules = 1 .. Len(rules) /\ rules \in Seq(S \cup {new}) /\ <<new>> \in Seq(S \cup {new})
      /\ Len(<<new>>) = 1 /\ <<new>>[1] = new
  BY <1>4, LenProperties
<1>6. more \in Seq(S \cup {new}) /\ Len(more) = 1 + Len(rules)
      /\ \A i \in 1 .. 1 + Len(rules) : more[i] = IF i <= 1 THEN new ELSE rules[i - 1]
  <2> DEFINE one == <<new>>
  <2>1. one \in Seq(S \cup {new}) /\ Len(one) = 1 /\ one[1] = new
    BY <1>5
  <2>2. more = one \o rules
    OBVIOUS
  <2> HIDE DEF one, more
  <2>3. more \in Seq(S \cup {new}) /\ Len(more) = Len(one) + Len(rules)
        /\ \A i \in 1 .. Len(one) + Len(rules) : more[i] = IF i <= Len(one) THEN one[i] ELSE rules[i - Len(one)]
    <3>1. rules \in Seq(S \cup {new})
      BY <1>5
    <3> HIDE DEF IsRules
    <3> QED  BY <2>1, <2>2, <3>1, ConcatProperties
  <2>4. more \in Seq(S \cup {new}) /\ Len(more) = 1 + Len(rules)
    <3>1. more \in Seq(S \cup {new}) /\ Len(more) = Len(one) + Len(rules)
      BY <2>3
    <3> QED  BY <2>1, <3>1
  <2>5. ASSUME NEW i \in 1 .. 1 + Len(rules) PROVE more[i] = IF i <= 1 THEN new ELSE rules[i - 1]
    <3>1. i \in 1 .. Len(one) + Len(rules)
      BY <2>1
    <3>2. more[i] = IF i <= Len(one) THEN one[i] ELSE rules[i - Len(one)]
      BY <2>3, <3>1
    <3>3. i <= 1 => i = 1
      BY <1>5
    <3> QED  BY <2>1, <3>2, <3>3
  <2> QED  BY <2>4, <2>5
<1>7. DOMAIN more = 1 .. 1 + Len(rules)
  BY <1>6, LenProperties
<1> HIDE DEF more
<1>8. more[1] = new /\ \A i \in DOMAIN more : i = 1 \/ (i - 1 \in DOMAIN rules /\ more[i] = rules[i - 1])
  BY <1>5, <1>6, <1>7
<1>9. IsRules(more)
  <2>1. IsCondition(condition)
    BY AlertAssumption DEF IsCondition
  <2>2. \A n \in DOMAIN more : IsCondition(more[n].condition)
    BY <1>2, <1>3, <1>8, <2>1 DEF IsRules
  <2>3. ASSUME NEW m \in DOMAIN more, NEW n \in DOMAIN more, more[m].id = more[n].id PROVE m = n
    <3>1. CASE m = 1 \/ n = 1
      BY <1>2, <1>3, <1>8, <2>3, <3>1
    <3>2. CASE m # 1 /\ n # 1
      <4>1. rules[m - 1].id = rules[n - 1].id /\ m - 1 \in DOMAIN rules /\ n - 1 \in DOMAIN rules
        BY <1>8, <2>3, <3>2
      <4>2. m - 1 = n - 1
        BY <1>3, <4>1 DEF IsRules
      <4> QED  BY <1>5, <1>7, <4>2
    <3> QED  BY <3>1, <3>2
  <2>4. IsList(more)
    BY <1>6 DEF IsList
  <2> QED  BY <2>2, <2>3, <2>4 DEF IsRules
<1>10. Known \subseteq Known'
  <2>1. ASSUME NEW n \in DOMAIN rules PROVE rules[n].id \in RuleIds'
    <3>1. n + 1 \in DOMAIN more /\ more[n + 1] = rules[n]
      BY <1>5, <1>6, <1>7
    <3> QED  BY <1>1, <3>1 DEF RuleIds
  <2> QED  BY <1>1, <2>1 DEF Known, RuleIds
<1>11. \A m \in DOMAIN more : \/ more[m].id \notin Known
         \/ \E n \in DOMAIN rules : rules[n].id = more[m].id /\ rules[n].condition = more[m].condition
  BY <1>1, <1>2, <1>8
<1> QED  BY <1>1, <1>9, <1>10, <1>11, EditKeeps

\* A rule given another condition leaves the account; one switched on or off stays.
LEMMA RewriteKeeps ==
  ASSUME AlertInv, NEW k \in DOMAIN rules, NEW new, new.id = rules[k].id, IsCondition(new.condition),
         rules' = [rules EXCEPT ![k] = new], UNCHANGED <<tracker, hour, judged, seen>>,
         rewound' = rewound \cup (IF new.condition = rules[k].condition THEN {} ELSE {rules[k].id})
  PROVE  AlertInv'
<1>1. IsRules(rules)
  BY DEF AlertInv, AlertTypes
<1>2. DOMAIN rules' = DOMAIN rules /\ rules'[k] = new /\ \A n \in DOMAIN rules : n # k => rules'[n] = rules[n]
  OBVIOUS
<1>3. IsList(rules')
  <2>1. PICK S : rules \in Seq(S)
    BY <1>1 DEF IsRules, IsList
  <2>2. rules \in Seq(S \cup {new}) /\ k \in 1 .. Len(rules)
    BY <2>1, LenProperties
  <2>3. rules' \in Seq(S \cup {new})
    BY <2>2, ExceptSeq
  <2> QED  BY <2>3 DEF IsList
<1>4. \A n \in DOMAIN rules : rules'[n].id = rules[n].id /\ IsCondition(rules'[n].condition)
  BY <1>1, <1>2 DEF IsRules
<1>5. IsRules(rules')
  BY <1>1, <1>2, <1>3, <1>4 DEF IsRules
<1>6. Known \subseteq Known' /\ rewound \subseteq rewound'
  BY <1>2, <1>4 DEF Known, RuleIds
<1>7. \A m \in DOMAIN rules' : rules'[m].id \notin rewound' => rules[m].id = rules'[m].id /\ rules[m].condition = rules'[m].condition
  BY <1>2, <1>4
<1> QED  BY <1>2, <1>5, <1>6, <1>7, EditKeeps

\* A rule that is deleted leaves the account too.
LEMMA DeleteKeeps ==
  ASSUME AlertInv, NEW k \in DOMAIN rules, DeleteRule(k)
  PROVE  AlertInv'
<1> DEFINE l == Len(rules)
           a == SubSeq(rules, 1, k - 1)
           b == SubSeq(rules, k + 1, l)
           rest == a \o b
<1>1. rules' = rest /\ rewound' = rewound \cup {rules[k].id} /\ UNCHANGED <<tracker, hour, judged, seen>>
  BY DEF DeleteRule, Edit, RemoveAt
<1>2. IsRules(rules)
  BY DEF AlertInv, AlertTypes
<1>3. PICK S : rules \in Seq(S)
  BY <1>2 DEF IsRules, IsList
<1>4. l \in Nat /\ DOMAIN rules = 1 .. l /\ k \in 1 .. l /\ \A n \in 1 .. l : rules[n] \in S
  BY <1>3, LenProperties, ElementOfSeq
<1>5. a \in Seq(S) /\ Len(a) = k - 1 /\ \A i \in 1 .. k - 1 : a[i] = rules[i]
  <2> HIDE DEF l
  <2>1. 1 \in Int /\ k - 1 \in Int /\ \A i \in 1 .. k - 1 : rules[i] \in S
    BY <1>4
  <2>2. /\ a \in Seq(S) /\ Len(a) = (IF 1 <= k - 1 THEN k - 1 - 1 + 1 ELSE 0)
        /\ \A i \in 1 .. k - 1 - 1 + 1 : a[i] = rules[1 + i - 1]
    BY <2>1, SubSeqProperties
  <2> HIDE DEF a
  <2>3. k - 1 - 1 + 1 = k - 1 /\ (1 <= k - 1 <=> k # 1)
    BY <1>4
  <2>4. ASSUME NEW i \in 1 .. k - 1 PROVE a[i] = rules[i]
    <3>1. 1 + i - 1 = i
      BY <1>4
    <3> QED  BY <2>2, <2>3, <3>1
  <2> QED  BY <1>4, <2>2, <2>3, <2>4
<1>6. b \in Seq(S) /\ Len(b) = l - k /\ \A i \in 1 .. l - k : b[i] = rules[k + i]
  <2> HIDE DEF l
  <2>1. k + 1 \in Int /\ l \in Int /\ \A i \in k + 1 .. l : rules[i] \in S
    BY <1>4
  <2>2. /\ b \in Seq(S) /\ Len(b) = (IF k + 1 <= l THEN l - (k + 1) + 1 ELSE 0)
        /\ \A i \in 1 .. l - (k + 1) + 1 : b[i] = rules[k + 1 + i - 1]
    BY <2>1, SubSeqProperties
  <2> HIDE DEF b
  <2>3. l - (k + 1) + 1 = l - k /\ (k + 1 <= l <=> k # l) /\ l - k \in Nat
    BY <1>4
  <2>4. ASSUME NEW i \in 1 .. l - k PROVE b[i] = rules[k + i]
    <3>1. k + 1 + i - 1 = k + i
      BY <1>4
    <3> QED  BY <2>2, <2>3, <3>1
  <2> QED  BY <1>4, <2>2, <2>3, <2>4
<1> HIDE DEF a, b, l
<1>7. /\ rest \in Seq(S) /\ DOMAIN rest = 1 .. l - 1
      /\ \A i \in 1 .. l - 1 : rest[i] = IF i <= k - 1 THEN rules[i] ELSE rules[i + 1]
  <2>1. /\ rest \in Seq(S) /\ Len(rest) = Len(a) + Len(b)
        /\ \A i \in 1 .. Len(a) + Len(b) : rest[i] = IF i <= Len(a) THEN a[i] ELSE b[i - Len(a)]
    BY <1>5, <1>6, ConcatProperties
  <2>2. DOMAIN rest = 1 .. Len(rest)
    BY <2>1, LenProperties
  <2> HIDE DEF rest
  <2>3. Len(a) + Len(b) = l - 1
    BY <1>4, <1>5, <1>6
  <2>4. ASSUME NEW i \in 1 .. l - 1, ~ (i <= k - 1) PROVE rest[i] = rules[i + 1]
    <3> DEFINE j == i - (k - 1)
    <3>1. rest[i] = b[j]
      BY <1>5, <2>1, <2>3, <2>4
    <3>2. j \in 1 .. l - k /\ k + j = i + 1
      BY <1>4, <2>4
    <3> HIDE DEF j
    <3>3. b[j] = rules[k + j]
      BY <1>6, <3>2
    <3> QED  BY <3>1, <3>2, <3>3
  <2>5. ASSUME NEW i \in 1 .. l - 1, i <= k - 1 PROVE rest[i] = rules[i]
    <3>1. i \in 1 .. k - 1
      BY <1>4, <2>5
    <3> QED  BY <1>5, <2>1, <2>3, <2>5, <3>1
  <2> QED  BY <2>1, <2>2, <2>3, <2>4, <2>5
<1> HIDE DEF rest
<1> DEFINE From(i) == IF i <= k - 1 THEN i ELSE i + 1
<1>8. \A i \in DOMAIN rest : From(i) \in DOMAIN rules /\ From(i) # k /\ rest[i] = rules[From(i)]
  BY <1>4, <1>7
<1>9. \A i, j \in DOMAIN rest : From(i) = From(j) => i = j
  BY <1>4, <1>7
<1>10. ASSUME NEW n \in DOMAIN rules, n # k PROVE \E i \in DOMAIN rest : From(i) = n
  <2>1. CASE n <= k - 1
    <3>1. n \in DOMAIN rest /\ From(n) = n
      BY <1>4, <1>7, <2>1
    <3> QED  BY <3>1
  <2>2. CASE ~ (n <= k - 1)
    <3>1. n - 1 \in DOMAIN rest /\ From(n - 1) = n
      BY <1>4, <1>7, <1>10, <2>2
    <3> QED  BY <3>1
  <2> QED  BY <2>1, <2>2
<1> HIDE DEF From
<1>11. IsRules(rest)
  BY <1>2, <1>7, <1>8, <1>9 DEF IsRules, IsList
<1>12. Known \subseteq Known' /\ rewound \subseteq rewound'
  <2>1. ASSUME NEW n \in DOMAIN rules PROVE rules[n].id \in Known'
    <3>1. CASE n = k
      BY <1>1, <3>1 DEF Known
    <3>2. CASE n # k
      <4>1. PICK i \in DOMAIN rest : From(i) = n
        BY <1>10, <3>2
      <4>2. rest[i].id = rules[n].id
        BY <1>8, <4>1
      <4> QED  BY <1>1, <4>2 DEF Known, RuleIds
    <3> QED  BY <3>1, <3>2
  <2> QED  BY <1>1, <2>1 DEF Known, RuleIds
<1>13. \A m \in DOMAIN rest : \E n \in DOMAIN rules : rules[n].id = rest[m].id /\ rules[n].condition = rest[m].condition
  BY <1>8
<1> QED  BY <1>1, <1>11, <1>12, <1>13, EditKeeps

LEMMA AlertSteps == AlertInv /\ AlertNext => AlertInv'
<1> SUFFICES ASSUME AlertInv, AlertNext PROVE AlertInv'
  OBVIOUS
<1>1. CASE ClockStrikes
  BY <1>1, StrikeKeeps
<1>2. CASE \E alert \in Alerts : EvaluateAlert(alert) \/ EvaluateSuppression(alert)
  BY <1>2, EvaluationKeeps DEF EvaluateAlert, EvaluateSuppression
<1>3. ASSUME NEW condition \in Conditions, NEW action \in ActionTypes, CreateRule(condition, action)
      PROVE  AlertInv'
  BY <1>3, CreateRuleKeeps
<1>4. ASSUME NEW condition \in Conditions, NEW action \in ActionTypes,
             NEW n \in DOMAIN rules, UpdateRule(n, condition, action)
      PROVE  AlertInv'
  <2> DEFINE new == [rules[n] EXCEPT !.condition = condition, !.action = action]
  <2>1. IsCondition(condition)
    BY AlertAssumption DEF IsCondition
  <2>2. rules' = [rules EXCEPT ![n] = new] /\ UNCHANGED <<tracker, hour, judged, seen>>
        /\ rewound' = rewound \cup (IF condition = rules[n].condition THEN {} ELSE {rules[n].id})
    BY <1>4 DEF UpdateRule, Edit
  <2>3. new.id = rules[n].id /\ new.condition = condition
    OBVIOUS
  <2> HIDE DEF new
  <2> QED  BY <2>1, <2>2, <2>3, RewriteKeeps
<1>5. ASSUME NEW n \in DOMAIN rules, ToggleRule(n) PROVE AlertInv'
  <2> DEFINE new == [rules[n] EXCEPT !.active = ~@]
  <2>1. IsCondition(rules[n].condition)
    BY DEF AlertInv, AlertTypes, IsRules
  <2>2. rules' = [rules EXCEPT ![n] = new] /\ rewound' = rewound /\ UNCHANGED <<tracker, hour, judged, seen>>
    BY <1>5 DEF ToggleRule, Edit
  <2>3. new.id = rules[n].id /\ new.condition = rules[n].condition
    OBVIOUS
  <2> HIDE DEF new
  <2> QED  BY <2>1, <2>2, <2>3, RewriteKeeps
<1>6. ASSUME NEW n \in DOMAIN rules, DeleteRule(n) PROVE AlertInv'
  BY <1>6, DeleteKeeps
<1> QED  BY <1>1, <1>2, <1>3, <1>4, <1>5, <1>6 DEF AlertNext

\* No other part of the enterprise features touches a rule.
LEMMA AlertsAlone == [Next]_vars => AlertNext \/ UNCHANGED alertVars
BY DEF Next, vars, OnCallPart, SlaPart, RunbookPart, AlertPart

\* The inductive invariant of alert rules: of every rule whose condition was not changed,
\* a window keeps as many times as there were looks within it, in every group, and the
\* last verdict is the one those looks call for.
THEOREM AlertInvariant == Spec => []AlertInv
<1>1. Init => AlertInv
  BY AlertInitial DEF Init
<1>2. AlertInv /\ [Next]_vars => AlertInv'
  BY AlertsAlone, AlertSteps, AlertRests
<1> QED  BY <1>1, <1>2, PTL DEF Spec

\* Whatever is pruned, switched off, edited or judged as a suppression meanwhile, a rule
\* with one window matches exactly if the alerts it was given say so.
THEOREM WindowsCountAll == Spec => []WindowCounts
<1> QED  BY AlertImplies, AlertInvariant, PTL
=============================================================================
