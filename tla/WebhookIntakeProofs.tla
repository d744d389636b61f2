------------------------ MODULE WebhookIntakeProofs ------------------------
(***************************************************************************)
(* Proofs about the circuit breaker, and that webhook intake implements    *)
(* it: what the breaker promises its callers holds for any number of       *)
(* batches, any threshold and any timeout.                                 *)
(***************************************************************************)
EXTENDS WebhookIntake, FiniteSetTheorems, WellFoundedInduction, TLAPS

(* Every step of the breaker keeps its variables in their ranges.          *)
LEMMA TypeStep ==
  ASSUME TypeOK, [Next]_breakerVars
  PROVE  TypeOK'
<1> USE BreakerAssumption DEF TypeOK, State
<1>1. ASSUME NEW c \in Callers, Admit(c)
      PROVE  TypeOK'
  BY <1>1 DEF Admit, Rejects
<1>2. ASSUME NEW c \in Callers, Succeed(c)
      PROVE  TypeOK'
  BY <1>2 DEF Succeed
<1>3. ASSUME NEW c \in Callers, Fail(c)
      PROVE  TypeOK'
  BY <1>3 DEF Fail
<1>4. ASSUME NEW c \in Callers, Abort(c)
      PROVE  TypeOK'
  BY <1>4 DEF Abort
<1>5. CASE Reset
  BY <1>5 DEF Reset
<1>6. CASE Tick
  BY <1>6 DEF Tick
<1>7. CASE UNCHANGED breakerVars
  BY <1>7 DEF breakerVars
<1> QED
  BY <1>1, <1>2, <1>3, <1>4, <1>5, <1>6, <1>7 DEF Next

(* The breaker's variables stay in their ranges.                           *)
THEOREM BreakerTypeCorrect == Spec => []TypeOK
<1>1. Init => TypeOK
  BY BreakerAssumption DEF Init, TypeOK
<1>2. TypeOK /\ [Next]_breakerVars => TypeOK'
  BY TypeStep
<1> QED
  BY <1>1, <1>2, PTL DEF Spec

(* The failure streak and the state of the circuit move together.          *)
LEMMA StreakStep ==
  ASSUME TypeOK, StreakMatchesState, [Next]_breakerVars
  PROVE  StreakMatchesState'
<1> USE BreakerAssumption DEF TypeOK, StreakMatchesState
<1>1. ASSUME NEW c \in Callers, Admit(c)
      PROVE  StreakMatchesState'
  BY <1>1 DEF Admit
<1>2. ASSUME NEW c \in Callers, Succeed(c)
      PROVE  StreakMatchesState'
  BY <1>2 DEF Succeed
<1>3. ASSUME NEW c \in Callers, Fail(c)
      PROVE  StreakMatchesState'
  <2>1. CASE Trips
    <3>1. stored' = "open" /\ consecutive' = consecutive + 1
      BY <1>3, <2>1 DEF Fail
    <3>2. consecutive + 1 >= FailureThreshold
      BY <2>1 DEF Trips, State
    <3> QED
      BY <3>1, <3>2
  <2>2. CASE ~Trips
    <3>1. stored' = stored /\ consecutive' = consecutive + 1
      BY <1>3, <2>2 DEF Fail
    <3>2. stored = "closed" => consecutive + 1 < FailureThreshold
      BY <2>2 DEF Trips
    <3> QED
      BY <3>1, <3>2
  <2> QED
    BY <2>1, <2>2
<1>4. ASSUME NEW c \in Callers, Abort(c)
      PROVE  StreakMatchesState'
  BY <1>4 DEF Abort
<1>5. CASE Reset
  BY <1>5 DEF Reset
<1>6. CASE Tick
  BY <1>6 DEF Tick
<1>7. CASE UNCHANGED breakerVars
  BY <1>7 DEF breakerVars
<1> QED
  BY <1>1, <1>2, <1>3, <1>4, <1>5, <1>6, <1>7 DEF Next

(* For every threshold and timeout, and whatever mixture of calls is in    *)
(* flight, the circuit is open exactly while the failure streak stands at  *)
(* the threshold or above.                                                 *)
THEOREM BreakerStreak == Spec => []StreakMatchesState
<1>1. Init => TypeOK /\ StreakMatchesState
  BY BreakerAssumption DEF Init, TypeOK, StreakMatchesState
<1>2. TypeOK /\ StreakMatchesState /\ [Next]_breakerVars
        => TypeOK' /\ StreakMatchesState'
  BY TypeStep, StreakStep
<1> QED
  BY <1>1, <1>2, PTL DEF Spec

(* A call that fails while the circuit is open and its timeout is running  *)
(* leaves the end of the timeout where it was.                             *)
THEOREM BreakerDeadline == Spec => StragglersKeepDeadline
<1>1. ASSUME TypeOK, [Next]_breakerVars,
             stored = "open", elapsed < RecoveryTimeout, stored' = "open"
      PROVE  elapsed' >= elapsed
  <2> USE <1>1, BreakerAssumption DEF TypeOK
  <2>1. ~Trips
    BY DEF Trips, State
  <2>2. ASSUME NEW c \in Callers, Admit(c) \/ Succeed(c) \/ Fail(c) \/ Abort(c)
        PROVE  elapsed' >= elapsed
    BY <2>1, <2>2 DEF Admit, Succeed, Fail, Abort
  <2>3. CASE Reset
    BY <2>3 DEF Reset
  <2>4. CASE Tick
    BY <2>4 DEF Tick
  <2>5. CASE UNCHANGED breakerVars
    BY <2>5 DEF breakerVars
  <2> QED
    BY <2>2, <2>3, <2>4, <2>5 DEF Next
<1>2. TypeOK /\ [Next]_breakerVars
        => [stored = "open" /\ elapsed < RecoveryTimeout /\ stored' = "open"
              => elapsed' >= elapsed]_breakerVars
  BY <1>1
<1> QED
  BY <1>2, BreakerTypeCorrect, PTL DEF Spec, StragglersKeepDeadline

(* Webhook intake is a client of the breaker: each of its steps is a step  *)
(* of the breaker or leaves the breaker alone.                             *)
THEOREM IntakeUsesBreaker == IntakeSpec => Spec
<1>1. IntakeInit => Init
  BY DEF IntakeInit
<1>2. [IntakeNext]_vars => [Next]_breakerVars
  BY DEF IntakeNext, vars, breakerVars, Next, Receive, Start, Drop,
         Handled, Errored, Cancelled
<1> QED
  BY <1>1, <1>2, PTL DEF IntakeSpec, Spec

(* So the streak of failures and the state of the circuit agree in every   *)
(* state of webhook intake.                                                *)
THEOREM IntakeStreak == IntakeSpec => []StreakMatchesState
  BY IntakeUsesBreaker, BreakerStreak, PTL

(* The batches' own variables stay in their ranges, for any number of      *)
(* batches of any size.                                                    *)
THEOREM IntakeTypeCorrect == IntakeSpec => []IntakeTypeOK
<1> DEFINE BatchesOK == /\ accepted \in [Callers -> 0 .. MaxAlerts]
                        /\ pending \in [Callers -> 0 .. MaxAlerts]
                        /\ outcome \in [Callers -> [Outcomes -> Nat]]
<1>1. IntakeInit => BatchesOK
  BY IntakeAssumption DEF IntakeInit
<1>2. BatchesOK /\ [IntakeNext]_vars => BatchesOK'
  <2> SUFFICES ASSUME BatchesOK, [IntakeNext]_vars PROVE BatchesOK'
    OBVIOUS
  <2> USE IntakeAssumption
  <2>0. ASSUME NEW b \in Callers, NEW o \in Outcomes, NEW k \in Nat,
               outcome' = [outcome EXCEPT ![b][o] = @ + k]
        PROVE  outcome' \in [Callers -> [Outcomes -> Nat]]
    <3>1. outcome[b][o] + k \in Nat
      OBVIOUS
    <3> QED BY <2>0, <3>1
  <2>1. ASSUME NEW b \in Callers, NEW n \in 1 .. MaxAlerts, Receive(b, n) PROVE BatchesOK'
    BY <2>1 DEF Receive
  <2>2. ASSUME NEW b \in Callers, Start(b) PROVE BatchesOK'
    BY <2>2 DEF Start
  <2>3. ASSUME NEW b \in Callers, Drop(b) PROVE BatchesOK'
    <3>1. outcome' = [outcome EXCEPT ![b]["dropped"] = @ + 1]
      BY <2>3 DEF Drop
    <3>2. outcome' \in [Callers -> [Outcomes -> Nat]]
      BY <2>0, <3>1 DEF Outcomes
    <3> QED BY <2>3, <3>2 DEF Drop
  <2>4. ASSUME NEW b \in Callers, Handled(b) PROVE BatchesOK'
    <3>1. outcome' = [outcome EXCEPT ![b]["handled"] = @ + 1]
      BY <2>4 DEF Handled
    <3>2. outcome' \in [Callers -> [Outcomes -> Nat]]
      BY <2>0, <3>1 DEF Outcomes
    <3> QED BY <2>4, <3>2 DEF Handled
  <2>5. ASSUME NEW b \in Callers, Errored(b) PROVE BatchesOK'
    <3>1. outcome' = [outcome EXCEPT ![b]["errored"] = @ + 1]
      BY <2>5 DEF Errored
    <3>2. outcome' \in [Callers -> [Outcomes -> Nat]]
      BY <2>0, <3>1 DEF Outcomes
    <3> QED BY <2>5, <3>2 DEF Errored
  <2>6. ASSUME NEW b \in Callers, Cancelled(b) PROVE BatchesOK'
    <3>1. 1 + pending[b] \in Nat /\ outcome[b]["cancelled"] \in Nat
      BY DEF Outcomes
    <3>2. outcome' = [outcome EXCEPT ![b]["cancelled"] = @ + (1 + pending[b])]
      BY <2>6 DEF Cancelled
    <3>3. outcome' \in [Callers -> [Outcomes -> Nat]]
      BY <2>0, <3>1, <3>2 DEF Outcomes
    <3> QED BY <2>6, <3>3 DEF Cancelled
  <2>7. CASE UNCHANGED intakeVars
    BY <2>7 DEF intakeVars
  <2> QED BY <2>1, <2>2, <2>3, <2>4, <2>5, <2>6, <2>7 DEF IntakeNext, vars
<1>3. IntakeSpec => []BatchesOK
  BY <1>1, <1>2, PTL DEF IntakeSpec
<1>4. TypeOK /\ BatchesOK => IntakeTypeOK
  BY DEF IntakeTypeOK
<1> QED
  BY <1>3, <1>4, IntakeUsesBreaker, BreakerTypeCorrect, PTL

-----------------------------------------------------------------------------
(* No alert is dropped before the handler has failed often enough.  The    *)
(* property counts failures over all batches, with a fold; that a fold     *)
(* adds up what it should takes an induction over sets of batches, by the  *)
(* least size for which it fails.                                          *)

(* A set of naturals that is not empty has a least element.                *)
LEMMA LeastExists ==
  ASSUME NEW T, T \subseteq Nat, T # {}
  PROVE  \E m \in T : \A k \in T : m <= k
<1> DEFINE R == {p \in Nat \X Nat : p[1] < p[2]}
<1>1. IsWellFoundedOn(R, Nat)
  BY NatLessThanWellFounded DEF OpToRel
<1> HIDE DEF R
<1>2. PICK m \in T : \A k \in T : ~ (<<k, m>> \in R)
  BY <1>1, WFMin
<1>3. \A k \in T : k \in Nat /\ m \in Nat /\ ~ (k < m)
  BY <1>2 DEF R
<1> QED  BY <1>3

Errors(o) == MapThenSumSet(LAMBDA b : o[b]["errored"], Callers)

(* The batch the fold takes out of a set first.                            *)
Pick(s) == CHOOSE b \in s : TRUE

(* One round of the fold, on the sums of the smaller sets.                 *)
Sum(f, g, s) == IF s = {} THEN 0 ELSE f[Pick(s)] + g[s \ {Pick(s)}]

Sums(f) == CHOOSE g : g = [s \in SUBSET Callers |-> Sum(f, g, s)]

Failures(o) == [b \in Callers |-> o[b]["errored"]]

(* Taking a batch out of a set makes it smaller by one.                    *)
LEMMA Smaller ==
  ASSUME NEW s \in SUBSET Callers, s # {}
  PROVE  /\ IsFiniteSet(s) /\ Cardinality(s) \in Nat
         /\ Pick(s) \in s /\ s \ {Pick(s)} \in SUBSET Callers
         /\ Cardinality(s \ {Pick(s)}) \in Nat
         /\ Cardinality(s) = Cardinality(s \ {Pick(s)}) + 1
<1>1. IsFiniteSet(s) /\ Cardinality(s) \in Nat
  BY FS_Subset, FS_CardinalityType, IntakeAssumption
<1>2. Pick(s) \in s
  BY DEF Pick
<1>3. IsFiniteSet(s \ {Pick(s)}) /\ Cardinality(s \ {Pick(s)}) = Cardinality(s) - 1
  BY <1>1, <1>2, FS_RemoveElement
<1>4. Cardinality(s \ {Pick(s)}) \in Nat
  BY <1>3, FS_CardinalityType
<1> QED  BY <1>1, <1>2, <1>3, <1>4

(* The sums over subsets are well defined.                                 *)
LEMMA SumsExist ==
  ASSUME NEW f
  PROVE  \A s \in SUBSET Callers : Sums(f)[s] = Sum(f, Sums(f), s)
<1> DEFINE Upto(n) == {s \in SUBSET Callers : Cardinality(s) <= n}
           Good(g, n) == g = [s \in Upto(n) |-> Sum(f, g, s)]
           Bad == {n \in Nat : ~ \E g : Good(g, n)}
<1>1. ASSUME Bad # {} PROVE FALSE
  <2>1. PICK n \in Bad : \A k \in Bad : n <= k
    BY <1>1, LeastExists
  <2>2. n # 0
    <3> DEFINE g == [s \in Upto(0) |-> 0]
    <3>1. ASSUME NEW s \in Upto(0) PROVE s = {}
      <4>1. s \in SUBSET Callers /\ Cardinality(s) <= 0
        OBVIOUS
      <4>2. s # {} => Cardinality(s) \in Nat /\ Cardinality(s \ {Pick(s)}) \in Nat
                      /\ Cardinality(s) = Cardinality(s \ {Pick(s)}) + 1
        BY <4>1, Smaller
      <4> QED BY <4>1, <4>2
    <3>2. Good(g, 0)
      <4>1. \A s \in Upto(0) : Sum(f, g, s) = 0
        BY <3>1 DEF Sum
      <4> QED BY <4>1
    <3>3. 0 \in Nat /\ \E h : Good(h, 0)
      BY <3>2
    <3> HIDE DEF Good, g
    <3> QED BY <3>3, <2>1
  <2>3. n - 1 \in Nat /\ n - 1 \notin Bad
    <3>1. n \in Nat
      BY <2>1
    <3> HIDE DEF Bad
    <3> QED BY <2>1, <2>2, <3>1
  <2>4. PICK g : Good(g, n - 1)
    BY <2>3
  <2> DEFINE h == [s \in Upto(n) |-> Sum(f, g, s)]
  <2>5. ASSUME NEW s \in Upto(n), s # {} PROVE s \ {Pick(s)} \in Upto(n - 1) /\ s \ {Pick(s)} \in Upto(n)
    <3>1. s \in SUBSET Callers /\ Cardinality(s) <= n
      OBVIOUS
    <3>2. /\ s \ {Pick(s)} \in SUBSET Callers /\ Cardinality(s) \in Nat /\ Cardinality(s \ {Pick(s)}) \in Nat
          /\ Cardinality(s) = Cardinality(s \ {Pick(s)}) + 1
      BY <3>1, <2>5, Smaller
    <3> QED BY <3>1, <3>2, <2>1
  <2>6. \A s \in Upto(n - 1) : s \in Upto(n) => h[s] = g[s]
    <3>1. \A s \in Upto(n - 1) : g[s] = Sum(f, g, s)
      BY <2>4
    <3> QED BY <3>1
  <2>7. ASSUME NEW s \in Upto(n) PROVE Sum(f, g, s) = Sum(f, h, s)
    <3>1. CASE s = {}
      BY <3>1 DEF Sum
    <3>2. CASE s # {}
      <4>1. h[s \ {Pick(s)}] = g[s \ {Pick(s)}]
        BY <2>5, <2>6, <3>2
      <4> HIDE DEF h
      <4> QED BY <4>1, <3>2 DEF Sum
    <3> QED BY <3>1, <3>2
  <2>8. Good(h, n)
    <3>1. [s \in Upto(n) |-> Sum(f, g, s)] = [s \in Upto(n) |-> Sum(f, h, s)]
      <4> HIDE DEF h
      <4> QED BY <2>7
    <3> QED BY <3>1
  <2> QED BY <2>1, <2>8
<1>2. Cardinality(Callers) \in Nat
  BY FS_CardinalityType, IntakeAssumption
<1>3. PICK g : Good(g, Cardinality(Callers))
  BY <1>1, <1>2
<1>4. Upto(Cardinality(Callers)) = SUBSET Callers
  BY FS_Subset, FS_CardinalityType, IntakeAssumption
<1>5. g = [s \in SUBSET Callers |-> Sum(f, g, s)]
  BY <1>3, <1>4
<1>6. Sums(f) = [s \in SUBSET Callers |-> Sum(f, Sums(f), s)]
  <2> DEFINE Is(q) == q = [s \in SUBSET Callers |-> Sum(f, q, s)]
  <2>1. Is(g)
    BY <1>5
  <2> HIDE DEF Is
  <2>2. Is(CHOOSE q : Is(q))
    BY <2>1
  <2> QED BY <2>2 DEF Is, Sums
<1> DEFINE S == Sums(f)
<1>7. S = [s \in SUBSET Callers |-> Sum(f, S, s)]
  BY <1>6
<1> HIDE DEF S
<1>8. \A s \in SUBSET Callers : S[s] = Sum(f, S, s)
  BY <1>7
<1> QED BY <1>8 DEF S

(* One more failure of one batch adds one to the sum.                      *)
LEMMA SumsCount ==
  ASSUME NEW f \in [Callers -> Nat], NEW h \in [Callers -> Nat], NEW b \in Callers, NEW k \in Nat,
         \A c \in Callers : h[c] = f[c] + (IF c = b THEN k ELSE 0)
  PROVE  Sums(f)[Callers] \in Nat /\ Sums(h)[Callers] = Sums(f)[Callers] + k
<1> DEFINE F == Sums(f)
           H == Sums(h)
           Adds(s) == F[s] \in Nat /\ H[s] = F[s] + (IF b \in s THEN k ELSE 0)
           Bad == {n \in Nat : \E s \in SUBSET Callers : Cardinality(s) = n /\ ~Adds(s)}
<1>0. \A s \in SUBSET Callers : F[s] = Sum(f, F, s) /\ H[s] = Sum(h, H, s)
  BY SumsExist
<1> HIDE DEF F, H
<1>1. ASSUME Bad # {} PROVE FALSE
  <2>1. PICK n \in Bad : \A j \in Bad : n <= j
    BY <1>1, LeastExists
  <2>2. PICK s \in SUBSET Callers : Cardinality(s) = n /\ ~Adds(s)
    BY <2>1
  <2>3. s # {}
    <3>1. ASSUME s = {} PROVE FALSE
      <4>1. F[s] = 0 /\ H[s] = 0
        BY <1>0, <3>1 DEF Sum
      <4> QED BY <4>1, <3>1, <2>2
    <3> QED BY <3>1
  <2> DEFINE x == Pick(s)
             r == s \ {x}
  <2>4. x \in s /\ r \in SUBSET Callers /\ Cardinality(r) \in Nat /\ n = Cardinality(r) + 1
    BY <2>2, <2>3, Smaller
  <2>5. Adds(r)
    <3>1. n \in Nat
      BY <2>1
    <3>2. Cardinality(r) \notin Bad
      <4> DEFINE j == Cardinality(r)
      <4>1. j \in Nat /\ n = j + 1
        BY <2>4
      <4> HIDE DEF Bad, j
      <4>2. j \notin Bad
        BY <2>1, <3>1, <4>1
      <4> QED BY <4>2 DEF j
    <3> HIDE DEF Adds, r
    <3> QED BY <2>4, <3>2
  <2>6. F[s] = f[x] + F[r] /\ H[s] = h[x] + H[r]
    BY <1>0, <2>3 DEF Sum
  <2>7. b \in r <=> b \in s /\ b # x
    OBVIOUS
  <2>8. f[x] \in Nat /\ h[x] = IF b = x THEN f[x] + k ELSE f[x]
    BY <2>4
  <2> HIDE DEF x, r
  <2>9. Adds(s)
    <3>1. CASE b = x
      BY <3>1, <2>4, <2>5, <2>6, <2>7, <2>8
    <3>2. CASE b # x
      BY <3>2, <2>5, <2>6, <2>7, <2>8
    <3> QED BY <3>1, <3>2
  <2> QED BY <2>2, <2>9
<1>2. Cardinality(Callers) \in Nat
  BY FS_CardinalityType, IntakeAssumption
<1>3. Adds(Callers)
  BY <1>1, <1>2
<1> QED BY <1>3 DEF F, H

(* The fold of the property is the sum over all batches.                   *)
LEMMA ErrorsIsSum ==
  ASSUME NEW o
  PROVE  Errors(o) = Sums(Failures(o))[Callers]
<1> DEFINE g == CHOOSE q : q = [s \in SUBSET Callers |->
                 IF s = {} THEN 0 ELSE o[CHOOSE b \in s : TRUE]["errored"] + q[s \ {CHOOSE b \in s : TRUE}]]
<1>1. Errors(o) = g[Callers]
  BY DEF Errors, MapThenSumSet, MapThenFoldSet
<1>2. ASSUME NEW q
      PROVE  [s \in SUBSET Callers |-> IF s = {} THEN 0 ELSE o[CHOOSE b \in s : TRUE]["errored"] + q[s \ {CHOOSE b \in s : TRUE}]]
               = [s \in SUBSET Callers |-> Sum(Failures(o), q, s)]
  <2>1. \A s \in SUBSET Callers : s # {} => Failures(o)[Pick(s)] = o[Pick(s)]["errored"]
    BY Smaller DEF Failures
  <2> QED BY <2>1 DEF Sum, Pick
<1>3. g = Sums(Failures(o))
  BY <1>2 DEF Sums
<1> QED BY <1>1, <1>3

(* Failures of one batch are failures of all.                              *)
LEMMA ErrorsCount ==
  ASSUME NEW o \in [Callers -> [Outcomes -> Nat]], NEW p \in [Callers -> [Outcomes -> Nat]],
         NEW b \in Callers, NEW k \in Nat,
         \A c \in Callers : p[c]["errored"] = o[c]["errored"] + (IF c = b THEN k ELSE 0)
  PROVE  Errors(o) \in Nat /\ Errors(p) = Errors(o) + k
<1> DEFINE F == Failures(o)
           H == Failures(p)
<1>1. \A c \in Callers : o[c]["errored"] \in Nat /\ p[c]["errored"] \in Nat
  BY DEF Outcomes
<1>2. /\ F = [c \in Callers |-> o[c]["errored"]] /\ F \in [Callers -> Nat]
      /\ H = [c \in Callers |-> p[c]["errored"]] /\ H \in [Callers -> Nat]
  BY <1>1 DEF Failures
<1>3. Errors(o) = Sums(F)[Callers] /\ Errors(p) = Sums(H)[Callers]
  BY ErrorsIsSum
<1> HIDE DEF F, H
<1>4. \A c \in Callers : H[c] = F[c] + (IF c = b THEN k ELSE 0)
  BY <1>2
<1>5. F \in [Callers -> Nat] /\ H \in [Callers -> Nat]
  BY <1>2
<1>6. Sums(F)[Callers] \in Nat /\ Sums(H)[Callers] = Sums(F)[Callers] + k
  BY <1>4, <1>5, SumsCount
<1> QED BY <1>3, <1>6

(* The number of failures is a number, without any batch too.              *)
LEMMA ErrorsNumber ==
  ASSUME NEW o \in [Callers -> [Outcomes -> Nat]]
  PROVE  Errors(o) \in Nat
<1>1. CASE Callers = {}
  <2>1. Sums(Failures(o))[Callers] = 0
    BY <1>1, SumsExist DEF Sum
  <2> QED BY <2>1, ErrorsIsSum
<1>2. ASSUME NEW b \in Callers PROVE Errors(o) \in Nat
  <2>1. ASSUME NEW c \in Callers PROVE o[c]["errored"] = o[c]["errored"] + (IF c = b THEN 0 ELSE 0)
    <3>1. "errored" \in Outcomes
      BY DEF Outcomes
    <3>2. o[c] \in [Outcomes -> Nat]
      OBVIOUS
    <3>3. o[c]["errored"] \in Nat
      BY <3>1, <3>2
    <3> QED  BY <3>3
  <2>2. \A c \in Callers : o[c]["errored"] = o[c]["errored"] + (IF c = b THEN 0 ELSE 0)
    BY <2>1
  <2>3. 0 \in Nat
    OBVIOUS
  <2> QED BY <2>2, <2>3, ErrorsCount
<1> QED BY <1>1, <1>2

(* What the property counts is at least the streak, and at least the       *)
(* threshold once an alert was dropped.                                    *)
DropInv ==
  /\ Errors(outcome) \in Nat
  /\ Errors(outcome) >= consecutive
  /\ (\E b \in Callers : outcome[b]["dropped"] > 0) => Errors(outcome) >= FailureThreshold

(* It holds at first: nothing is dropped and there is no streak.           *)
LEMMA DropFirst ==
  ASSUME IntakeInit
  PROVE  DropInv
<1>1. outcome \in [Callers -> [Outcomes -> Nat]] /\ consecutive = 0
      /\ \A b \in Callers : outcome[b]["dropped"] = 0
  BY DEF IntakeInit, Init, Outcomes
<1>2. Errors(outcome) \in Nat
  BY <1>1, ErrorsNumber
<1> QED BY <1>1, <1>2 DEF DropInv

(* A failure adds to the streak and to the sum; an alert is dropped only   *)
(* while the circuit is open, and then the streak is at the threshold.     *)
LEMMA DropStep ==
  ASSUME IntakeTypeOK, IntakeTypeOK', StreakMatchesState, DropInv, [IntakeNext]_vars
  PROVE  DropInv'
<1> DEFINE E == Errors(outcome)
           F == Errors(outcome')
           Dropped == \E b \in Callers : outcome[b]["dropped"] > 0
<1>0. /\ outcome \in [Callers -> [Outcomes -> Nat]] /\ outcome' \in [Callers -> [Outcomes -> Nat]]
      /\ consecutive \in Nat /\ FailureThreshold \in Nat
      /\ E \in Nat /\ E >= consecutive /\ (Dropped => E >= FailureThreshold)
  BY BreakerAssumption DEF IntakeTypeOK, TypeOK, DropInv
<1>1. ASSUME F \in Nat, F >= consecutive', Dropped' => F >= FailureThreshold PROVE DropInv'
  BY <1>1 DEF DropInv
<1> HIDE DEF E, F
<1>2. ASSUME NEW b \in Callers, Errored(b) PROVE DropInv'
  <2>1. outcome' = [outcome EXCEPT ![b]["errored"] = @ + 1] /\ consecutive' = consecutive + 1
    BY <1>2 DEF Errored, Fail
  <2>2. /\ \A c \in Callers : outcome'[c]["errored"] = outcome[c]["errored"] + (IF c = b THEN 1 ELSE 0)
        /\ \A c \in Callers : outcome'[c]["dropped"] = outcome[c]["dropped"]
    BY <1>0, <2>1 DEF Outcomes
  <2>3. F = E + 1
    BY <1>0, <2>2, ErrorsCount DEF E, F
  <2>4. Dropped' => Dropped
    BY <2>2
  <2> QED BY <1>0, <1>1, <2>1, <2>3, <2>4
<1>3. ASSUME \A c \in Callers : outcome'[c]["errored"] = outcome[c]["errored"]
      PROVE  F = E
  <2>1. Failures(outcome') = Failures(outcome)
    BY <1>3 DEF Failures
  <2> QED BY <2>1, ErrorsIsSum DEF E, F
<1>4. ASSUME NEW b \in Callers, Drop(b) PROVE DropInv'
  <2>1. outcome' = [outcome EXCEPT ![b]["dropped"] = @ + 1] /\ consecutive' = consecutive /\ Rejects
    BY <1>4 DEF Drop, breakerVars
  <2>2. \A c \in Callers : outcome'[c]["errored"] = outcome[c]["errored"]
    BY <1>0, <2>1 DEF Outcomes
  <2>3. F = E
    BY <1>3, <2>2
  <2>4. consecutive >= FailureThreshold
    BY <2>1 DEF Rejects, State, StreakMatchesState
  <2> QED BY <1>0, <1>1, <2>1, <2>3, <2>4
<1>5. ASSUME \A c \in Callers : outcome'[c]["errored"] = outcome[c]["errored"],
             \A c \in Callers : outcome'[c]["dropped"] = outcome[c]["dropped"],
             consecutive' <= consecutive, consecutive' \in Nat
      PROVE  DropInv'
  <2>2. F = E
    BY <1>3, <1>5
  <2>3. Dropped' => Dropped
    BY <1>5
  <2> QED BY <1>0, <1>1, <1>5, <2>2, <2>3
<1>6. ASSUME NEW b \in Callers, Handled(b) PROVE DropInv'
  <2>1. outcome' = [outcome EXCEPT ![b]["handled"] = @ + 1] /\ consecutive' = 0
    BY <1>6 DEF Handled, Succeed
  <2>2. \A c \in Callers : outcome'[c]["errored"] = outcome[c]["errored"]
    BY <1>0, <2>1 DEF Outcomes
  <2>3. \A c \in Callers : outcome'[c]["dropped"] = outcome[c]["dropped"]
    BY <1>0, <2>1 DEF Outcomes
  <2> QED BY <1>0, <1>5, <2>1, <2>2, <2>3
<1>7. ASSUME NEW b \in Callers, Cancelled(b) PROVE DropInv'
  <2>1. outcome' = [outcome EXCEPT ![b]["cancelled"] = @ + (1 + pending[b])] /\ consecutive' = consecutive
    BY <1>7 DEF Cancelled, Abort
  <2>2. \A c \in Callers : outcome'[c]["errored"] = outcome[c]["errored"]
    BY <1>0, <2>1 DEF Outcomes
  <2>3. \A c \in Callers : outcome'[c]["dropped"] = outcome[c]["dropped"]
    BY <1>0, <2>1 DEF Outcomes
  <2> QED BY <1>0, <1>5, <2>1, <2>2, <2>3
<1>8. ASSUME UNCHANGED outcome, consecutive' <= consecutive, consecutive' \in Nat PROVE DropInv'
  <2>1. F = E /\ (Dropped' => Dropped)
    BY <1>8 DEF E, F
  <2> QED BY <1>0, <1>1, <1>8, <2>1
<1>9. ASSUME NEW b \in Callers, NEW n \in 1 .. MaxAlerts, Receive(b, n) PROVE DropInv'
  <2>1. UNCHANGED outcome /\ consecutive' = consecutive
    BY <1>9 DEF Receive, breakerVars
  <2> QED BY <1>0, <1>8, <2>1
<1>10. CASE Reset /\ UNCHANGED intakeVars
  BY <1>0, <1>8, <1>10 DEF Reset, intakeVars
<1>11. CASE Tick /\ UNCHANGED intakeVars
  BY <1>0, <1>8, <1>11 DEF Tick, intakeVars
<1>12. CASE UNCHANGED vars
  BY <1>0, <1>8, <1>12 DEF vars, breakerVars, intakeVars
<1>13. ASSUME NEW b \in Callers, Start(b) PROVE DropInv'
  <2>1. UNCHANGED outcome /\ consecutive' = consecutive
    BY <1>13 DEF Start, Admit
  <2> QED BY <1>0, <1>8, <2>1
<1> QED
  BY <1>2, <1>4, <1>6, <1>7, <1>9, <1>10, <1>11, <1>12, <1>13 DEF IntakeNext

(* For any number and size of batches, whatever calls of an outage are     *)
(* still in flight when it ends: nobody's alert is refused unless the      *)
(* handler has failed as often as the threshold says.                      *)
THEOREM DropsAreEarned == IntakeSpec => []DropsNeedFailures
<1>1. IntakeInit => DropInv
  BY DropFirst
<1>2. IntakeTypeOK /\ IntakeTypeOK' /\ StreakMatchesState /\ DropInv /\ [IntakeNext]_vars => DropInv'
  BY DropStep
<1>3. DropInv => DropsNeedFailures
  BY DEF DropInv, DropsNeedFailures, Errors
<1> QED
  BY <1>1, <1>2, <1>3, IntakeTypeCorrect, IntakeStreak, PTL DEF IntakeSpec
=============================================================================
