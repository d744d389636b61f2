-------------------------- MODULE McpClientProofs --------------------------
(***************************************************************************)
(* Theorems about McpClient, for any number of callers, any limits and any *)
(* number of tries and sessions.                                           *)
(***************************************************************************)
EXTENDS McpClient, FiniteSetTheorems, SequenceTheorems, WellFoundedInduction, TLAPS

USE DEF NoSession, Sessions, Ages

PcValues == {"idle", "ready", "wait", "initialize", "notify", "sleep", "call"}
StageValues == {"lock", "pre", "post", "first", "again"}

----------------------------------------------------------------------------
(* The limiter's lists                                                     *)

\* The entries that are left are entries.
LEMMA YoungType ==
  ASSUME NEW ages \in Seq(Ages)
  PROVE  Young(ages) \in Seq(Ages)
<1>1. Old(ages) \in SUBSET (1 .. Len(ages)) /\ Len(ages) \in Nat
  BY LenProperties DEF Old
<1>2. Cardinality(Old(ages)) \in Nat
  <2>1. IsFiniteSet(1 .. Len(ages))
    BY <1>1, FS_Interval
  <2>2. IsFiniteSet(Old(ages))
    BY <1>1, <2>1, FS_Subset
  <2> QED  BY <2>2, FS_CardinalityType
<1>3. \A i \in Cardinality(Old(ages)) + 1 .. Len(ages) : ages[i] \in Ages
  <2> SUFFICES ASSUME NEW i \in Cardinality(Old(ages)) + 1 .. Len(ages) PROVE ages[i] \in Ages
    OBVIOUS
  <2>1. i \in 1 .. Len(ages)
    BY <1>1, <1>2
  <2> QED  BY <2>1, ElementOfSeq
<1> DEFINE first == Cardinality(Old(ages)) + 1
           last == Len(ages)
<1>4. first \in Int /\ last \in Int /\ \A i \in first .. last : ages[i] \in Ages
  BY <1>1, <1>2, <1>3
<1> HIDE DEF first, last
<1>5. SubSeq(ages, first, last) \in Seq(Ages)
  BY <1>4, SubSeqProperties
<1> QED  BY <1>5 DEF Young, first, last

LEMMA OlderType ==
  ASSUME NEW ages \in Seq(Ages)
  PROVE  Older(ages) \in Seq(Ages)
BY WindowAssumption DEF Older

\* A sleep has a length.
LEMMA WaitType ==
  ASSUME NEW ages \in Seq(Ages), NEW limit \in Nat \ {0}
  PROVE  Wait(ages, limit) \in Nat
<1>1. CASE Len(ages) >= limit
  <2>1. ages # <<>>
    BY <1>1, EmptySeq
  <2>2. Head(ages) \in 0 .. Window
    BY <2>1, HeadTailProperties
  <2> QED  BY <1>1, <2>2, WindowAssumption DEF Wait
<1>2. CASE ~ (Len(ages) >= limit)
  BY <1>2 DEF Wait
<1> QED  BY <1>1, <1>2

----------------------------------------------------------------------------
(* What the building blocks of the actions do to the types                 *)

LEMMA PostType ==
  ASSUME RequestType, NEW c \in Callers, NEW to \in PcValues, NEW in \in StageValues,
         NEW id \in Sessions \cup {NoSession}, NEW sessions, Post(c, to, in, id, sessions)
  PROVE  RequestType'
BY DEF RequestType, Post, PcValues, StageValues

LEMMA HomeType ==
  ASSUME RequestType, NEW c \in Callers, NEW to \in PcValues, Home(c, to)
  PROVE  RequestType'
BY DEF RequestType, Home, PcValues

LEMMA RaiseType ==
  ASSUME RequestType, attempt \in [Callers -> 1 .. Attempts], tool \in [Callers -> Tools],
         NEW c \in Callers, NEW again \in BOOLEAN, Raise(c, again)
  PROVE  /\ RequestType'
         /\ attempt' \in [Callers -> 1 .. Attempts]
         /\ tool' \in [Callers -> Tools]
<1>1. Home(c, "ready") \/ Home(c, "idle")
  BY DEF Raise
<1>2. RequestType'
  BY <1>1, HomeType DEF PcValues
<1>3. attempt' \in [Callers -> 1 .. Attempts]
  BY AttemptsAssumption DEF Raise
<1> QED  BY <1>2, <1>3 DEF Raise

\* Letting a caller through keeps the lists lists of ages.
LEMMA PassType ==
  ASSUME RequestType, ClientType, NEW c \in Callers,
         passes \in Seq(Ages), searches \in Seq(Ages), searchStamps \in Seq(Ages),
         NEW kept \in Seq(Ages), NEW keptSearches \in Seq(Ages),
         Pass(c, kept, keptSearches)
  PROVE  /\ stamps' \in Seq(Ages) /\ searchStamps' \in Seq(Ages)
         /\ passes' \in Seq(Ages) /\ searches' \in Seq(Ages)
         /\ RequestType'
<1>1. 0 \in Ages
  BY WindowAssumption
<1>2. RequestType'
  BY PostType DEF Pass, ClientType, PcValues, StageValues
<1>3. stamps' \in Seq(Ages) /\ passes' \in Seq(Ages)
  BY <1>1 DEF Pass
<1>4. searchStamps' \in Seq(Ages)
  <2>1. searchStamps' = Append(keptSearches, 0) \/ searchStamps' = searchStamps
    BY DEF Pass
  <2>2. Append(keptSearches, 0) \in Seq(Ages)
    BY <1>1
  <2> HIDE DEF Ages
  <2> QED  BY <2>1, <2>2, Zenon
<1>5. searches' \in Seq(Ages)
  <2>1. searches' = Append(searches, 0) \/ searches' = searches
    BY DEF Pass
  <2>2. Append(searches, 0) \in Seq(Ages)
    BY <1>1
  <2> HIDE DEF Ages
  <2> QED  BY <2>1, <2>2, Zenon
<1> QED  BY <1>2, <1>3, <1>4, <1>5

LEMMA LimiterTypes ==
  ASSUME McpTypeOK, NEW c \in Callers, EnterLimiter(c)
  PROVE  LimiterType' /\ RequestType'
<1> DEFINE kept == Young(stamps)
           keptSearches == IF IsSearch(tool[c]) THEN Young(searchStamps) ELSE searchStamps
           wait == Wait(kept, RequestLimit)
                     + (IF IsSearch(tool[c]) THEN Wait(keptSearches, SearchLimit) ELSE 0)
<1>1. kept \in Seq(Ages) /\ keptSearches \in Seq(Ages)
  BY YoungType DEF McpTypeOK, LimiterType
<1>2. wait \in Nat
  <2>1. Wait(kept, RequestLimit) \in Nat /\ Wait(keptSearches, SearchLimit) \in Nat
    BY <1>1, WaitType, LimitsAssumption
  <2> QED  BY <2>1
<1>3. overlap' \in BOOLEAN
  BY DEF EnterLimiter
<1>4. CASE Pass(c, kept, keptSearches) /\ UNCHANGED due
  BY <1>1, <1>3, <1>4, PassType DEF McpTypeOK, LimiterType
<1>5. CASE /\ stamps' = kept
           /\ searchStamps' = keptSearches
           /\ due' = [due EXCEPT ![c] = wait]
           /\ Home(c, "sleep")
           /\ UNCHANGED <<passes, searches>>
  <2>1. RequestType'
    BY <1>5, HomeType DEF McpTypeOK, PcValues
  <2>2. due' \in [Callers -> Nat]
    BY <1>2, <1>5 DEF McpTypeOK, LimiterType
  <2> QED  BY <1>1, <1>3, <1>5, <2>1, <2>2 DEF McpTypeOK, LimiterType
<1> QED  BY <1>4, <1>5 DEF EnterLimiter

----------------------------------------------------------------------------
(* The types are invariant                                                 *)

LEMMA McpInitTypes == McpInit => McpTypeOK
<1> SUFFICES ASSUME McpInit PROVE McpTypeOK
  OBVIOUS
<1>1. opened \in 0 .. 1 /\ session = opened /\ live = 1 .. opened /\ mayOpen = 1 - opened
  BY DEF McpInit
<1>2. ClientType /\ ServerType
  BY <1>1, SessionsAssumption DEF McpInit, ClientType, ServerType
<1>3. <<>> \in Seq(Ages) /\ <<>> \in Seq(Callers)
  BY EmptySeq
<1>4. LocksType /\ LimiterType
  BY <1>3 DEF McpInit, LocksType, LimiterType
<1>5. RequestType
  BY DEF McpInit, RequestType
<1>6. CallsType
  BY AttemptsAssumption DEF McpInit, CallsType
<1> QED  BY <1>2, <1>4, <1>5, <1>6 DEF McpTypeOK

\* What the actions of one caller keep.
LEMMA ServeTypes ==
  ASSUME McpTypeOK, NEW c \in Callers, Serve(c)
  PROVE  McpTypeOK'
<1> USE DEF McpTypeOK
<1>1. CASE Begin(c)
  <2>1. CASE initialized /\ EnterLimiter(c) /\ UNCHANGED locks
    BY <1>1, <2>1, LimiterTypes
       DEF Begin, locks, client, calls, server, ClientType, LocksType, CallsType, ServerType
  <2>2. CASE Ask(c, "lock", session, live) /\ lock' = c /\ UNCHANGED <<waiting, limiter>>
    <3>1. RequestType'
      BY <2>2, PostType DEF Ask, ClientType, PcValues, StageValues
    <3> QED
      BY <1>1, <2>2, <3>1 DEF Begin, client, calls, server, limiter,
         ClientType, LocksType, LimiterType, CallsType, ServerType
  <2>3. CASE waiting' = Append(waiting, c) /\ Home(c, "wait") /\ UNCHANGED <<lock, limiter>>
    <3>1. RequestType'
      BY <2>3, HomeType DEF PcValues
    <3>2. LocksType'
      <4>1. lock' = lock /\ waiting' = Append(waiting, c) /\ waiting \in Seq(Callers)
        BY <2>3 DEF LocksType
      <4>2. Append(waiting, c) \in Seq(Callers)
        BY <4>1, AppendProperties
      <4> QED  BY <4>1, <4>2 DEF LocksType
    <3>3. LimiterType'
      BY <2>3 DEF limiter, LimiterType
    <3>4. ClientType' /\ CallsType' /\ ServerType'
      BY <1>1 DEF Begin, client, calls, server, ClientType, CallsType, ServerType
    <3> QED  BY <3>1, <3>2, <3>3, <3>4
  <2> QED  BY <1>1, <2>1, <2>2, <2>3 DEF Begin
<1>2. CASE Locked(c)
  <2>0. waiting' \in Seq(Callers)
    BY <1>2, HeadTailProperties DEF Locked, LocksType
  <2>1. CASE EnterLimiter(c) /\ UNCHANGED lock
    BY <1>2, <2>0, <2>1, LimiterTypes
       DEF Locked, client, calls, server, ClientType, LocksType, CallsType, ServerType
  <2>2. CASE Ask(c, "lock", session, live) /\ lock' = c /\ UNCHANGED limiter
    <3>1. RequestType'
      BY <2>2, PostType DEF Ask, ClientType, PcValues, StageValues
    <3> QED
      BY <1>2, <2>0, <2>2, <3>1 DEF Locked, client, calls, server, limiter,
         ClientType, LocksType, LimiterType, CallsType, ServerType
  <2> QED  BY <1>2, <2>1, <2>2 DEF Locked
<1>3. CASE Wake(c)
  BY <1>3, PassType DEF Wake, client, locks, calls, server,
     ClientType, LocksType, LimiterType, CallsType, ServerType
<1>4. CASE InitializeOk(c)
  <2>1. opened + 1 \in Sessions
    BY <1>4, SessionsAssumption DEF InitializeOk, ServerType
  <2>2. RequestType'
    <3>1. Post(c, "notify", stage[c], opened + 1, live') /\ stage[c] \in StageValues
      BY <1>4 DEF InitializeOk, RequestType, StageValues
    <3> QED  BY <2>1, <3>1, PostType DEF PcValues
  <2>3. ClientType' /\ ServerType'
    BY <1>4, <2>1, SessionsAssumption DEF InitializeOk, ClientType, ServerType
  <2>4. LocksType' /\ LimiterType' /\ CallsType'
    BY <1>4 DEF InitializeOk, locks, limiter, calls, LocksType, LimiterType, CallsType
  <2> QED  BY <2>2, <2>3, <2>4
<1>5. CASE InitializeGone(c)
  <2>1. RequestType' /\ CallsType'
    <3>1. CASE Ask(c, "pre", NoSession, live) /\ UNCHANGED calls
      BY <3>1, PostType DEF Ask, PcValues, StageValues, calls, CallsType
    <3>2. CASE Raise(c, FALSE) /\ UNCHANGED mayRun
      BY <3>2, RaiseType DEF CallsType
    <3> QED  BY <1>5, <3>1, <3>2 DEF InitializeGone
  <2>2. mayOpen' \in Int
    BY <1>5, SessionsAssumption DEF InitializeGone, Excused, ServerType
  <2> QED
    BY <1>5, <2>1, <2>2 DEF InitializeGone, Forget, Leave, limiter,
       ClientType, LocksType, LimiterType, ServerType
<1>6. CASE InitializeFails(c)
  <2>1. RequestType' /\ attempt' \in [Callers -> 1 .. Attempts] /\ tool' \in [Callers -> Tools]
    BY <1>6, RaiseType DEF InitializeFails, CallsType
  <2>2. ServerType'
    <3>1. CASE UNCHANGED server
      BY <3>1 DEF server, ServerType
    <3>2. CASE /\ opened < MaxSessions
               /\ opened' = opened + 1
               /\ live' = live \cup {opened + 1}
               /\ UNCHANGED mayOpen
      BY <3>2, SessionsAssumption DEF ServerType
    <3> QED  BY <1>6, <3>1, <3>2 DEF InitializeFails
  <2> QED
    BY <1>6, <2>1, <2>2 DEF InitializeFails, client, limiter, Leave,
       ClientType, LocksType, LimiterType, CallsType
<1>7. CASE Notified(c)
  <2>1. LimiterType' /\ RequestType'
    <3>1. CASE EnterLimiter(c)
      BY <3>1, LimiterTypes
    <3>2. CASE Post(c, "call", "again", session, live) /\ UNCHANGED limiter
      BY <3>2, PostType DEF limiter, ClientType, LimiterType, PcValues, StageValues
    <3> QED  BY <1>7, <3>1, <3>2 DEF Notified
  <2> QED
    BY <1>7, <2>1 DEF Notified, Leave, client, calls, server,
       ClientType, LocksType, CallsType, ServerType
<1>8. CASE NotifyFails(c)
  <2>1. RequestType' /\ attempt' \in [Callers -> 1 .. Attempts] /\ tool' \in [Callers -> Tools]
    BY <1>8, RaiseType DEF NotifyFails, CallsType
  <2> QED
    BY <1>8, <2>1 DEF NotifyFails, Leave, client, limiter, server,
       ClientType, LocksType, LimiterType, CallsType, ServerType
<1>9. CASE CallOk(c)
  <2>1. RequestType'
    BY <1>9, HomeType DEF CallOk, PcValues
  <2>2. session' \in Sessions \cup {NoSession}
    BY <1>9 DEF CallOk, Echo, ClientType, RequestType
  <2>3. mayRun' \in [Callers -> Int]
    BY <1>9 DEF CallOk, Runs, CallsType
  <2> QED
    BY <1>9, <2>1, <2>2, <2>3 DEF CallOk, locks, limiter, server,
       ClientType, LocksType, LimiterType, CallsType, ServerType
<1>10. CASE CallGone(c)
  <2>1. RequestType' /\ CallsType'
    <3>1. CASE Ask(c, "post", NoSession, live) /\ UNCHANGED calls
      BY <3>1, PostType DEF Ask, PcValues, StageValues, calls, CallsType
    <3>2. CASE Raise(c, FALSE) /\ UNCHANGED mayRun
      BY <3>2, RaiseType DEF CallsType
    <3> QED  BY <1>10, <3>1, <3>2 DEF CallGone
  <2>2. mayOpen' \in Int
    BY <1>10, SessionsAssumption DEF CallGone, Excused, ServerType
  <2> QED
    BY <1>10, <2>1, <2>2 DEF CallGone, Forget, locks, limiter,
       ClientType, LocksType, LimiterType, ServerType
<1>11. CASE CallLimited(c)
  <2>1. RequestType' /\ attempt' \in [Callers -> 1 .. Attempts] /\ tool' \in [Callers -> Tools]
    BY <1>11, RaiseType DEF CallLimited, CallsType
  <2> QED
    BY <1>11, <2>1 DEF CallLimited, client, locks, limiter, server,
       ClientType, LocksType, LimiterType, CallsType, ServerType
<1>12. CASE CallLost(c)
  <2>1. RequestType' /\ attempt' \in [Callers -> 1 .. Attempts] /\ tool' \in [Callers -> Tools]
    BY <1>12, RaiseType DEF CallLost, CallsType
  <2>2. mayRun' \in [Callers -> Int]
    BY <1>12 DEF CallLost, CallsType
  <2> QED
    BY <1>12, <2>1, <2>2 DEF CallLost, client, locks, limiter, server,
       ClientType, LocksType, LimiterType, CallsType, ServerType
<1>13. CASE CallError(c)
  <2>1. RequestType' /\ attempt' \in [Callers -> 1 .. Attempts] /\ tool' \in [Callers -> Tools]
    BY <1>13, RaiseType DEF CallError, CallsType
  <2>2. mayRun' \in [Callers -> Int]
    BY <1>13 DEF CallError, Runs, CallsType
  <2>3. session' \in Sessions \cup {NoSession}
    BY <1>13 DEF CallError, Echo, ClientType, RequestType
  <2> QED
    BY <1>13, <2>1, <2>2, <2>3 DEF CallError, locks, limiter, server,
       ClientType, LocksType, LimiterType, CallsType, ServerType
<1> QED
  BY <1>1, <1>2, <1>3, <1>4, <1>5, <1>6, <1>7, <1>8, <1>9, <1>10, <1>11, <1>12, <1>13 DEF Serve

LEMMA McpNextTypes == McpTypeOK /\ [McpNext]_mcpVars => McpTypeOK'
<1> SUFFICES ASSUME McpTypeOK, [McpNext]_mcpVars PROVE McpTypeOK'
  OBVIOUS
<1>1. CASE \E c \in Callers : Serve(c)
  BY <1>1, ServeTypes
<1>2. CASE \E c \in Callers : \E t \in Tools : Start(c, t)
  <2>1. PICK c \in Callers, t \in Tools : Start(c, t)
    BY <1>2
  <2>2. RequestType'
    BY <2>1, HomeType DEF Start, McpTypeOK, PcValues
  <2>3. CallsType'
    BY <2>1, AttemptsAssumption DEF Start, McpTypeOK, CallsType
  <2> QED
    BY <2>1, <2>2, <2>3 DEF Start, client, locks, limiter, server,
       McpTypeOK, ClientType, LocksType, LimiterType, ServerType
<1>3. CASE \E s \in Sessions : Expire(s)
  BY <1>3 DEF Expire, client, locks, limiter, request, calls, McpTypeOK, ClientType,
     LocksType, LimiterType, RequestType, CallsType, ServerType
<1>4. CASE Tick
  <2>1. stamps' \in Seq(Ages) /\ searchStamps' \in Seq(Ages)
    BY <1>4, OlderType DEF Tick, McpTypeOK, LimiterType
  <2>2. passes' \in Seq(Ages) /\ searches' \in Seq(Ages)
    BY <1>4, OlderType, YoungType DEF Tick, McpTypeOK, LimiterType
  <2>3. due' \in [Callers -> Nat]
    BY <1>4 DEF Tick, McpTypeOK, LimiterType
  <2> QED
    BY <1>4, <2>1, <2>2, <2>3 DEF Tick, client, locks, request, calls, server, McpTypeOK,
       ClientType, LocksType, LimiterType, RequestType, CallsType, ServerType
<1>5. CASE UNCHANGED mcpVars
  BY <1>5 DEF mcpVars, client, locks, limiter, request, calls, server, McpTypeOK,
     ClientType, LocksType, LimiterType, RequestType, CallsType, ServerType
<1> QED  BY <1>1, <1>2, <1>3, <1>4, <1>5 DEF McpNext

\* McpTypeOK holds for every number of callers, limit, window and number of
\* tries; in particular no call is tried more often than Attempts.
THEOREM McpTypeCorrect == McpSpec => []McpTypeOK
BY McpInitTypes, McpNextTypes, PTL DEF McpSpec

----------------------------------------------------------------------------
(* An initialized client has a session                                     *)

LEMMA ServeKeepsSession ==
  ASSUME McpTypeOK, InitializedHasSession, NEW c \in Callers, Serve(c)
  PROVE  InitializedHasSession'
<1>1. CASE InitializeOk(c)
  BY <1>1 DEF InitializeOk, McpTypeOK, ServerType, InitializedHasSession
<1>2. CASE InitializeGone(c) \/ CallGone(c)
  BY <1>2 DEF InitializeGone, CallGone, Forget, InitializedHasSession
<1>3. CASE CallOk(c)
  BY <1>3 DEF CallOk, Echo, InitializedHasSession
<1>4. CASE CallError(c)
  BY <1>4 DEF CallError, Echo, InitializedHasSession
<1>5. CASE UNCHANGED client
  BY <1>5 DEF client, InitializedHasSession
<1> QED
  BY <1>1, <1>2, <1>3, <1>4, <1>5 DEF Serve, Begin, Locked, Wake, InitializeFails,
     Notified, NotifyFails, CallLimited, CallLost

\* No answer, however late, leaves the client initialized without a session:
\* McpTypeOK is the strengthening that makes this inductive, for the ids of
\* new sessions are never the empty one.
THEOREM SessionsKept == McpSpec => []InitializedHasSession
<1>1. McpInit => InitializedHasSession
  BY DEF McpInit, InitializedHasSession
<1>2. McpTypeOK /\ InitializedHasSession /\ [McpNext]_mcpVars => InitializedHasSession'
  BY ServeKeepsSession DEF McpNext, Start, Expire, Tick, mcpVars, client, InitializedHasSession
<1> QED  BY <1>1, <1>2, McpTypeCorrect, PTL DEF McpSpec

----------------------------------------------------------------------------
(* Work is repeated only after a lost answer                               *)

\* What makes it inductive: a call under way may always be executed once more,
\* because an execution that is answered ends it.
MayStillRun == \A c \in Callers : mayRun[c] >= IF pc[c] = "idle" THEN 0 ELSE 1

LEMMA ServeKeepsRuns ==
  ASSUME McpTypeOK, MayStillRun, NEW c \in Callers, Serve(c)
  PROVE  MayStillRun'
<1> USE DEF MayStillRun, McpTypeOK, RequestType, CallsType
<1>0. \A d \in Callers : mayRun[d] \in Int
  OBVIOUS
<1>1. CASE pc[c] # "idle" /\ UNCHANGED mayRun /\ \E v \in PcValues : pc' = [pc EXCEPT ![c] = v]
  BY <1>0, <1>1
<1>2. CASE CallOk(c) \/ CallError(c)
  <2>1. /\ pc[c] = "call" /\ pc' = [pc EXCEPT ![c] = "idle"]
        /\ mayRun' = mayRun \/ mayRun' = [mayRun EXCEPT ![c] = @ - 1]
    BY <1>2 DEF CallOk, CallError, Runs, Home, Raise
  <2> QED  BY <1>0, <2>1
<1>3. CASE CallLost(c)
  <2>1. /\ pc[c] = "call"
        /\ \E v \in PcValues : pc' = [pc EXCEPT ![c] = v]
        /\ mayRun' = mayRun \/ mayRun' = [mayRun EXCEPT ![c] = @ + 1]
    BY <1>3 DEF CallLost, Home, Raise, PcValues
  <2> QED  BY <1>0, <2>1
<1>4. ASSUME EnterLimiter(c)
      PROVE  \E v \in PcValues : pc' = [pc EXCEPT ![c] = v]
  BY <1>4 DEF EnterLimiter, Pass, Post, Home, PcValues
<1>5. ASSUME NEW again \in BOOLEAN, Raise(c, again)
      PROVE  \E v \in PcValues : pc' = [pc EXCEPT ![c] = v]
  BY <1>5 DEF Raise, Home, PcValues
<1>6. CASE Begin(c)
  BY <1>1, <1>4, <1>6 DEF Begin, Ask, Post, Home, calls, PcValues
<1>7. CASE Locked(c)
  BY <1>1, <1>4, <1>7 DEF Locked, Ask, Post, calls, PcValues
<1>8. CASE Wake(c)
  BY <1>1, <1>8 DEF Wake, Pass, Post, calls, PcValues
<1>9. CASE InitializeOk(c)
  BY <1>1, <1>9 DEF InitializeOk, Post, calls, PcValues
<1>10. CASE InitializeGone(c) \/ CallGone(c)
  BY <1>1, <1>5, <1>10 DEF InitializeGone, CallGone, Ask, Post, calls, PcValues
<1>11. CASE InitializeFails(c)
  BY <1>1, <1>5, <1>11 DEF InitializeFails
<1>12. CASE Notified(c)
  BY <1>1, <1>4, <1>12 DEF Notified, Post, calls, PcValues
<1>13. CASE NotifyFails(c) \/ CallLimited(c)
  BY <1>1, <1>5, <1>13 DEF NotifyFails, CallLimited
<1> QED
  BY <1>2, <1>3, <1>6, <1>7, <1>8, <1>9, <1>10, <1>11, <1>12, <1>13 DEF Serve

\* For any number of callers and tries the server executes a call again only
\* when an answer of the same call was lost before.
THEOREM RepeatsExcused == McpSpec => []RepeatsOnlyAfterLoss
<1>1. McpInit => MayStillRun
  BY DEF McpInit, MayStillRun
<1>2. McpTypeOK /\ MayStillRun /\ [McpNext]_mcpVars => MayStillRun'
  <2> SUFFICES ASSUME McpTypeOK, MayStillRun, [McpNext]_mcpVars PROVE MayStillRun'
    OBVIOUS
  <2>1. CASE \E c \in Callers : Serve(c)
    BY <2>1, ServeKeepsRuns
  <2>2. CASE \E c \in Callers : \E t \in Tools : Start(c, t)
    BY <2>2 DEF Start, Home, MayStillRun, McpTypeOK, RequestType, CallsType
  <2>3. CASE UNCHANGED <<pc, mayRun>>
    BY <2>3 DEF MayStillRun
  <2> QED
    BY <2>1, <2>2, <2>3 DEF McpNext, Expire, Tick, mcpVars, request, calls
<1>3. McpTypeOK /\ MayStillRun => RepeatsOnlyAfterLoss
  BY DEF McpTypeOK, CallsType, MayStillRun, RepeatsOnlyAfterLoss
<1> QED  BY <1>1, <1>2, <1>3, McpTypeCorrect, PTL DEF McpSpec

----------------------------------------------------------------------------
(* The window                                                              *)

\* Every nonempty set of numbers has a least one.
LEMMA LeastExists ==
  ASSUME NEW T, T \subseteq Nat, T # {}
  PROVE  \E m \in T : \A k \in T : m <= k
<1> DEFINE R == {ss \in Nat \X Nat : ss[1] < ss[2]}
<1>1. IsWellFoundedOn(R, Nat)
  BY NatLessThanWellFounded DEF OpToRel
<1> HIDE DEF R
<1>2. PICK m \in T : \A k \in T : ~ (<<k, m>> \in R)
  BY <1>1, WFMin
<1>3. \A k \in T : k \in Nat /\ m \in Nat /\ ~ (k < m)
  BY <1>2 DEF R
<1> QED  BY <1>3

\* The oldest entries come first.
Sorted(ages) == \A i, j \in DOMAIN ages : i <= j => ages[j] <= ages[i]

\* In a sorted list the old entries are the first ones.
LEMMA OldIsPrefix ==
  ASSUME NEW ages \in Seq(Ages), Sorted(ages)
  PROVE  /\ Cardinality(Old(ages)) \in 0 .. Len(ages)
         /\ \A i \in 1 .. Len(ages) : ages[i] >= Window <=> i <= Cardinality(Old(ages))
<1> DEFINE n == Len(ages)
           T == {i \in 1 .. n : ages[i] < Window}
<1>1. n \in Nat /\ DOMAIN ages = 1 .. n /\ \A i \in 1 .. n : ages[i] \in Int
  BY LenProperties, ElementOfSeq, WindowAssumption
<1> HIDE DEF n
<1>2. \E k \in 0 .. n : Old(ages) = 1 .. k
  <2>1. CASE T = {}
    BY <1>1, <2>1, WindowAssumption DEF Old
  <2>2. CASE T # {}
    <3>1. T \subseteq Nat
      BY <1>1
    <3>2. PICK m \in T : \A k \in T : m <= k
      BY <2>2, <3>1, LeastExists
    <3>3. ASSUME NEW i \in 1 .. n PROVE ages[i] >= Window <=> i < m
      <4>1. m \in 1 .. n /\ ages[m] \in Int /\ ages[i] \in Int /\ Window \in Int /\ ages[m] < Window
        BY <1>1, <3>2, WindowAssumption
      <4>2. i < m => ~ (ages[i] < Window)
        BY <3>2, <4>1
      <4>3. m <= i => ages[i] <= ages[m]
        BY <1>1, <4>1 DEF Sorted
      <4> QED  BY <4>1, <4>2, <4>3
    <3>4. Old(ages) = 1 .. (m - 1) /\ m - 1 \in 0 .. n
      BY <1>1, <3>2, <3>3 DEF Old
    <3> QED  BY <3>4
  <2> QED  BY <2>1, <2>2
<1>3. PICK k \in 0 .. n : Old(ages) = 1 .. k
  BY <1>2
<1>4. Cardinality(Old(ages)) = k
  <2>1. 1 \in Int /\ k \in Int /\ 1 <= k + 1
    BY <1>1, <1>3
  <2> QED  BY <1>3, <2>1, FS_Interval
<1>5. \A i \in 1 .. n : i \in Old(ages) <=> i <= k
  BY <1>1, <1>3
<1>6. \A i \in 1 .. n : i \in Old(ages) <=> ages[i] >= Window
  BY <1>1 DEF Old
<1> QED  BY <1>3, <1>4, <1>5, <1>6 DEF n

\* What the filter leaves of a sorted list.
LEMMA YoungMeans ==
  ASSUME NEW ages \in Seq(Ages), Sorted(ages)
  PROVE  LET k == Cardinality(Old(ages))
         IN /\ Young(ages) \in Seq(Ages) /\ Len(Young(ages)) = Len(ages) - k
            /\ \A j \in 1 .. (Len(ages) - k) : Young(ages)[j] = ages[k + j]
<1> DEFINE k == Cardinality(Old(ages))
<1>1. k \in 0 .. Len(ages) /\ Len(ages) \in Nat
  BY OldIsPrefix, LenProperties
<1> HIDE DEF k
<1>2. \A i \in k + 1 .. Len(ages) : ages[i] \in Ages
  <2>1. \A i \in k + 1 .. Len(ages) : i \in 1 .. Len(ages)
    BY <1>1
  <2> QED  BY <2>1, ElementOfSeq
<1>3. /\ SubSeq(ages, k + 1, Len(ages)) \in Seq(Ages)
      /\ Len(SubSeq(ages, k + 1, Len(ages))) = Len(ages) - k
      /\ \A j \in 1 .. Len(ages) - k : SubSeq(ages, k + 1, Len(ages))[j] = ages[k + j]
  <2>1. k + 1 \in Int /\ Len(ages) \in Int
    BY <1>1
  <2> QED  BY <1>1, <1>2, <2>1, SubSeqProperties
<1> QED  BY <1>3 DEF Young, k

\* A list of young entries stays as it is.
LEMMA YoungKeeps ==
  ASSUME NEW ages \in Seq(Ages), Sorted(ages), \A i \in 1 .. Len(ages) : ages[i] < Window
  PROVE  Young(ages) = ages
<1>1. Len(ages) \in Nat /\ DOMAIN ages = 1 .. Len(ages) /\ \A i \in 1 .. Len(ages) : ages[i] \in Int
  BY LenProperties, ElementOfSeq, WindowAssumption
<1>2. Old(ages) = {}
  BY <1>1, WindowAssumption DEF Old
<1>3. Cardinality(Old(ages)) = 0
  BY <1>2, FS_EmptySet
<1>4. /\ Young(ages) \in Seq(Ages) /\ Len(Young(ages)) = Len(ages)
      /\ \A j \in 1 .. Len(ages) : Young(ages)[j] = ages[j]
  BY <1>1, <1>3, YoungMeans
<1> QED  BY <1>4, SeqEqual

LEMMA YoungSorted ==
  ASSUME NEW ages \in Seq(Ages), Sorted(ages)
  PROVE  /\ Sorted(Young(ages)) /\ Young(Young(ages)) = Young(ages)
         /\ \A i \in 1 .. Len(Young(ages)) : Young(ages)[i] < Window
<1> DEFINE k == Cardinality(Old(ages))
           y == Young(ages)
<1>1. k \in 0 .. Len(ages) /\ Len(ages) \in Nat /\ \A i \in 1 .. Len(ages) : ages[i] \in Int
  BY OldIsPrefix, LenProperties, ElementOfSeq, WindowAssumption
<1>2. /\ y \in Seq(Ages) /\ Len(y) = Len(ages) - k /\ DOMAIN y = 1 .. Len(y)
      /\ \A j \in 1 .. (Len(ages) - k) : y[j] = ages[k + j]
  BY YoungMeans, LenProperties
<1>3. \A i \in 1 .. Len(ages) : ages[i] >= Window <=> i <= k
  BY OldIsPrefix
<1> HIDE DEF k, y
<1>4. ASSUME NEW i \in 1 .. Len(y)
      PROVE  k + i \in 1 .. Len(ages) /\ y[i] = ages[k + i] /\ y[i] < Window
  <2>1. k + i \in 1 .. Len(ages) /\ ~ (k + i <= k) /\ i \in 1 .. (Len(ages) - k)
    BY <1>1, <1>2
  <2>2. y[i] = ages[k + i] /\ ~ (ages[k + i] >= Window) /\ ages[k + i] \in Int
    BY <1>1, <1>2, <1>3, <2>1
  <2> QED  BY <2>1, <2>2, WindowAssumption
<1>5. Sorted(y)
  <2>1. DOMAIN ages = 1 .. Len(ages)
    BY LenProperties
  <2> SUFFICES ASSUME NEW i \in 1 .. Len(y), NEW j \in 1 .. Len(y), i <= j PROVE y[j] <= y[i]
    BY <1>2 DEF Sorted
  <2>2. k + i <= k + j
    BY <1>1, <1>2
  <2> QED  BY <1>4, <2>1, <2>2 DEF Sorted
<1> QED  BY <1>2, <1>4, <1>5, YoungKeeps DEF y

\* The first entry of a list that has one.
LEMMA HeadIs ==
  ASSUME NEW ages \in Seq(Ages), ages # <<>>
  PROVE  1 \in 1 .. Len(ages) /\ Head(ages) = ages[1] /\ ages[1] \in Ages
<1>1. Len(ages) \in Nat /\ Len(ages) # 0
  BY LenProperties, EmptySeq
<1>2. 1 \in 1 .. Len(ages)
  BY <1>1
<1>3. ages[1] \in Ages
  BY <1>2, ElementOfSeq
<1> HIDE DEF Ages
<1>4. Head(ages) = ages[1]
  BY HeadTailProperties
<1> QED  BY <1>2, <1>3, <1>4

\* A call that passes is recorded at the end of both lists.
LEMMA YoungAppend ==
  ASSUME NEW ages \in Seq(Ages), Sorted(ages)
  PROVE  Sorted(Append(ages, 0)) /\ Young(Append(ages, 0)) = Append(Young(ages), 0)
<1> DEFINE k == Cardinality(Old(ages))
           n == Len(ages)
           more == Append(ages, 0)
<1>1. k \in 0 .. n /\ n \in Nat /\ DOMAIN ages = 1 .. n /\ \A i \in 1 .. n : ages[i] \in Ages
  BY OldIsPrefix, LenProperties, ElementOfSeq
<1>2. /\ more \in Seq(Ages) /\ Len(more) = n + 1 /\ DOMAIN more = 1 .. n + 1 /\ more[n + 1] = 0
      /\ \A i \in 1 .. n : more[i] = ages[i]
  <2>1. 0 \in Ages
    BY WindowAssumption
  <2>2. more \in Seq(Ages)
    BY <2>1
  <2> QED  BY <2>1, <2>2, AppendProperties, LenProperties
<1> HIDE DEF n, more
<1>3. Sorted(more)
  <2> SUFFICES ASSUME NEW i \in 1 .. n + 1, NEW j \in 1 .. n + 1, i <= j PROVE more[j] <= more[i]
    BY <1>2 DEF Sorted
  <2>1. CASE j = n + 1
    <3>1. more[i] \in Ages
      BY <1>2, ElementOfSeq
    <3> QED  BY <1>2, <2>1, <3>1, WindowAssumption
  <2>2. CASE j # n + 1
    <3>1. i \in 1 .. n /\ j \in 1 .. n
      BY <1>1, <2>2
    <3> QED  BY <1>1, <1>2, <3>1 DEF Sorted
  <2> QED  BY <2>1, <2>2
<1>4. Old(more) = Old(ages)
  <2>1. \A i \in 1 .. n + 1 : i \in 1 .. n \/ (i = n + 1 /\ ~ (more[i] >= Window))
    BY <1>1, <1>2, WindowAssumption
  <2>2. \A i \in 1 .. n : i \in 1 .. n + 1
    BY <1>1
  <2> QED  BY <1>1, <1>2, <2>1, <2>2 DEF Old
<1>5. /\ Young(more) \in Seq(Ages) /\ Len(Young(more)) = n + 1 - k
      /\ \A j \in 1 .. n + 1 - k : Young(more)[j] = more[k + j]
  <2> DEFINE m == Cardinality(Old(more))
  <2>1. m = k
    BY <1>4
  <2>2. /\ Young(more) \in Seq(Ages) /\ Len(Young(more)) = Len(more) - m
        /\ \A j \in 1 .. (Len(more) - m) : Young(more)[j] = more[m + j]
    BY <1>2, <1>3, YoungMeans
  <2> HIDE DEF m, k
  <2> QED  BY <1>1, <1>2, <2>1, <2>2
<1>6. /\ Young(ages) \in Seq(Ages) /\ Len(Young(ages)) = n - k
      /\ \A j \in 1 .. n - k : Young(ages)[j] = ages[k + j]
  BY YoungMeans DEF n
<1> HIDE DEF k
<1>7. /\ Append(Young(ages), 0) \in Seq(Ages) /\ Len(Append(Young(ages), 0)) = n - k + 1
      /\ \A j \in 1 .. n - k : Append(Young(ages), 0)[j] = Young(ages)[j]
      /\ Append(Young(ages), 0)[n - k + 1] = 0
  <2>1. 0 \in Ages
    BY WindowAssumption
  <2> QED  BY <1>6, <2>1, AppendProperties
<1>8. \A j \in 1 .. n + 1 - k : Young(more)[j] = Append(Young(ages), 0)[j]
  <2> SUFFICES ASSUME NEW j \in 1 .. n + 1 - k PROVE Young(more)[j] = Append(Young(ages), 0)[j]
    OBVIOUS
  <2>1. CASE j = n + 1 - k
    BY <1>1, <1>2, <1>5, <1>7, <2>1
  <2>2. CASE j # n + 1 - k
    <3>1. j \in 1 .. n - k /\ k + j \in 1 .. n
      BY <1>1, <2>2
    <3> QED  BY <1>2, <1>5, <1>6, <1>7, <3>1
  <2> QED  BY <2>1, <2>2
<1>9. Len(Young(more)) = Len(Append(Young(ages), 0))
  BY <1>1, <1>5, <1>7
<1> QED  BY <1>3, <1>5, <1>7, <1>8, <1>9, SeqEqual DEF more

\* Time passes: what is young then was young before, in the order it was.
LEMMA YoungOlder ==
  ASSUME NEW ages \in Seq(Ages), Sorted(ages)
  PROVE  Sorted(Older(ages)) /\ Young(Older(Young(ages))) = Young(Older(ages))
<1> DEFINE k == Cardinality(Old(ages))
           n == Len(ages)
           y == Young(ages)
           a == Older(ages)
           b == Older(y)
           ka == Cardinality(Old(a))
           kb == Cardinality(Old(b))
<1>1. /\ k \in 0 .. n /\ n \in Nat /\ DOMAIN ages = 1 .. n /\ \A i \in 1 .. n : ages[i] \in Ages
      /\ \A i \in 1 .. n : ages[i] >= Window <=> i <= k
  BY OldIsPrefix, LenProperties, ElementOfSeq
<1>2. /\ y \in Seq(Ages) /\ Len(y) = n - k /\ Sorted(y) /\ DOMAIN y = 1 .. n - k
      /\ \A j \in 1 .. n - k : y[j] = ages[k + j]
  <2>1. y \in Seq(Ages) /\ Len(y) = n - k /\ \A j \in 1 .. n - k : y[j] = ages[k + j]
    BY YoungMeans
  <2> QED  BY <2>1, YoungSorted, LenProperties
<1> HIDE DEF k, n, y
<1>3. ASSUME NEW l \in Seq(Ages), Sorted(l)
      PROVE  /\ Older(l) \in Seq(Ages) /\ Len(Older(l)) = Len(l) /\ Sorted(Older(l))
             /\ \A i \in 1 .. Len(l) : Older(l)[i] = IF l[i] < Window THEN l[i] + 1 ELSE Window
  <2>1. DOMAIN l = 1 .. Len(l) /\ Len(l) \in Nat /\ \A i \in 1 .. Len(l) : l[i] \in Ages
    BY LenProperties, ElementOfSeq
  <2>2. DOMAIN Older(l) = DOMAIN l /\ Older(l) \in Seq(Ages)
    BY OlderType DEF Older
  <2>3. Len(Older(l)) = Len(l)
    BY <2>1, <2>2, LenProperties
  <2>4. \A i \in 1 .. Len(l) : Older(l)[i] = IF l[i] < Window THEN l[i] + 1 ELSE Window
    BY <2>1 DEF Older
  <2>5. Sorted(Older(l))
    <3> SUFFICES ASSUME NEW i \in 1 .. Len(l), NEW j \in 1 .. Len(l), i <= j
                 PROVE  Older(l)[j] <= Older(l)[i]
      BY <2>1, <2>2 DEF Sorted
    <3>1. l[j] <= l[i] /\ l[i] \in Ages /\ l[j] \in Ages
      BY <1>3, <2>1 DEF Sorted
    <3> QED  BY <2>4, <3>1, WindowAssumption
  <2> QED  BY <2>2, <2>3, <2>4, <2>5
<1>4. /\ a \in Seq(Ages) /\ Len(a) = n /\ Sorted(a)
      /\ \A i \in 1 .. n : a[i] = IF ages[i] < Window THEN ages[i] + 1 ELSE Window
  BY <1>3 DEF n
<1>5. /\ b \in Seq(Ages) /\ Len(b) = n - k /\ Sorted(b)
      /\ \A j \in 1 .. n - k : b[j] = IF y[j] < Window THEN y[j] + 1 ELSE Window
  BY <1>2, <1>3
<1> HIDE DEF a, b
<1>6. /\ ka \in 0 .. n /\ \A i \in 1 .. n : a[i] >= Window <=> i <= ka
      /\ Young(a) \in Seq(Ages) /\ Len(Young(a)) = n - ka
      /\ \A j \in 1 .. n - ka : Young(a)[j] = a[ka + j]
  BY <1>4, OldIsPrefix, YoungMeans
<1>7. /\ kb \in 0 .. n - k /\ \A j \in 1 .. n - k : b[j] >= Window <=> j <= kb
      /\ Young(b) \in Seq(Ages) /\ Len(Young(b)) = n - k - kb
      /\ \A j \in 1 .. n - k - kb : Young(b)[j] = b[kb + j]
  BY <1>5, OldIsPrefix, YoungMeans
<1> HIDE DEF ka, kb
<1>8. ASSUME NEW j \in 1 .. n - k PROVE k + j \in 1 .. n /\ b[j] = a[k + j]
  <2>1. k + j \in 1 .. n
    BY <1>1
  <2>2. y[j] = ages[k + j]
    BY <1>2
  <2> QED  BY <1>4, <1>5, <2>1, <2>2
<1>9. ka = k + kb
  <2>1. k <= ka
    <3>1. CASE k = 0
      BY <1>6, <3>1
    <3>2. CASE k # 0
      <4>1. k \in 1 .. n /\ ages[k] >= Window
        BY <1>1, <3>2
      <4>2. a[k] >= Window
        BY <1>1, <1>4, <4>1, WindowAssumption
      <4> QED  BY <1>6, <4>1, <4>2
    <3> QED  BY <3>1, <3>2
  <2>2. \A j \in 1 .. n - k : j <= kb <=> k + j <= ka
    BY <1>6, <1>7, <1>8
  <2>3. CASE ka > k + kb
    <3>1. kb + 1 \in 1 .. n - k /\ k + (kb + 1) <= ka
      BY <1>1, <1>6, <1>7, <2>3
    <3> QED  BY <1>7, <2>2, <3>1
  <2>4. CASE ka < k + kb
    <3>1. kb \in 1 .. n - k /\ ~ (k + kb <= ka)
      BY <1>1, <1>6, <1>7, <2>1, <2>4
    <3> QED  BY <1>7, <2>2, <3>1
  <2> QED  BY <1>1, <1>6, <1>7, <2>3, <2>4
<1>10. Len(Young(b)) = Len(Young(a))
  BY <1>1, <1>6, <1>7, <1>9
<1>11. ASSUME NEW j \in 1 .. Len(Young(b)) PROVE Young(b)[j] = Young(a)[j]
  <2>1. j \in 1 .. n - k - kb /\ j \in 1 .. n - ka /\ kb + j \in 1 .. n - k /\ k + (kb + j) = ka + j
    BY <1>1, <1>6, <1>7, <1>9, <1>10
  <2> QED  BY <1>6, <1>7, <1>8, <2>1
<1> QED  BY <1>4, <1>6, <1>7, <1>10, <1>11, SeqEqual DEF a, b, y

\* What the limiter remembers, without the old entries, are the calls it let through in
\* this window; a caller that sleeps alone wakes when one of them has left the window,
\* unless there is room already.
WindowInv ==
    /\ Sorted(stamps) /\ passes = Young(stamps)
    /\ \/ overlap
       \/ /\ Len(passes) <= RequestLimit
          /\ \A c, d \in Callers : pc[c] = "sleep" /\ pc[d] = "sleep" => c = d
          /\ \A c \in Callers : pc[c] = "sleep" =>
                Len(passes) < RequestLimit \/ due[c] >= Window - Head(passes)

\* A call that passes is recorded twice.
LEMMA PassRecords ==
  ASSUME McpTypeOK, WindowInv, NEW c \in Callers, NEW kept \in {stamps, Young(stamps)},
         NEW keptSearches, Pass(c, kept, keptSearches)
  PROVE  Sorted(stamps)' /\ passes' = Young(stamps)' /\ Len(passes') = Len(passes) + 1
<1>1. stamps \in Seq(Ages) /\ passes \in Seq(Ages)
  BY DEF McpTypeOK, LimiterType
<1>2. kept \in Seq(Ages) /\ Sorted(kept) /\ Young(kept) = passes
  BY <1>1, YoungType, YoungSorted DEF WindowInv
<1>3. stamps' = Append(kept, 0) /\ passes' = Append(passes, 0)
  BY DEF Pass
<1>4. Sorted(Append(kept, 0)) /\ Young(Append(kept, 0)) = Append(Young(kept), 0)
  BY <1>2, YoungAppend
<1>5. Len(Append(passes, 0)) = Len(passes) + 1
  <2>1. 0 \in Ages
    BY WindowAssumption
  <2> QED  BY <1>1, <2>1, AppendProperties
<1>6. Sorted(stamps)' = Sorted(stamps') /\ Young(stamps)' = Young(stamps')
  BY DEF Sorted, Young, Old
<1> QED  BY <1>2, <1>3, <1>4, <1>5, <1>6

LEMMA EnterKeepsWindow ==
  ASSUME McpTypeOK, WindowInv, NEW c \in Callers, pc[c] # "sleep", EnterLimiter(c)
  PROVE  WindowInv'
<1> DEFINE kept == Young(stamps)
           keptSearches == IF IsSearch(tool[c]) THEN Young(searchStamps) ELSE searchStamps
           more == IF IsSearch(tool[c]) THEN Wait(keptSearches, SearchLimit) ELSE 0
           wait == Wait(kept, RequestLimit) + more
<1>1. /\ stamps \in Seq(Ages) /\ passes \in Seq(Ages) /\ Len(passes) \in Nat /\ kept = passes
      /\ kept \in Seq(Ages) /\ Sorted(kept) /\ Young(kept) = passes
      /\ pc \in [Callers -> PcValues] /\ due \in [Callers -> Nat]
  BY YoungSorted, LenProperties DEF McpTypeOK, LimiterType, RequestType, WindowInv, PcValues
<1>2. Wait(kept, RequestLimit) \in Nat /\ more \in Nat
  <2>1. keptSearches \in Seq(Ages)
    BY YoungType DEF McpTypeOK, LimiterType
  <2> QED  BY <1>1, <2>1, WaitType, LimitsAssumption
<1>3. ~overlap' => ~overlap /\ \A d \in Callers \ {c} : pc[d] # "sleep"
  BY DEF EnterLimiter
<1>4. CASE wait = 0 /\ Pass(c, kept, keptSearches) /\ UNCHANGED due
  <2>1. Sorted(stamps)' /\ passes' = Young(stamps)' /\ Len(passes') = Len(passes) + 1
    BY <1>4, PassRecords
  <2>2. \A d \in Callers : pc'[d] = "sleep" => d # c /\ pc[d] = "sleep"
    BY <1>1, <1>4 DEF Pass, Post
  <2>3. Len(passes) < RequestLimit
    <3>1. Wait(kept, RequestLimit) = 0
      BY <1>2, <1>4
    <3>2. CASE Len(passes) >= RequestLimit
      <4>1. kept # <<>> /\ Len(kept) >= 1 /\ 1 \in 1 .. Len(kept)
        BY <1>1, <3>2, LimitsAssumption, EmptySeq
      <4>2. Head(kept) = kept[1] /\ kept[1] < Window /\ kept[1] \in Ages
        <5>1. \A i \in 1 .. Len(kept) : kept[i] < Window
          BY <1>1, YoungSorted DEF WindowInv
        <5> HIDE DEF kept
        <5> QED  BY <1>1, <4>1, <5>1, HeadIs
      <4> QED  BY <1>1, <3>1, <3>2, <4>2, WindowAssumption DEF Wait
    <3> QED  BY <1>1, <3>2, LimitsAssumption
  <2>4. Len(passes') <= RequestLimit
    BY <1>1, <2>1, <2>3, LimitsAssumption
  <2> QED  BY <1>3, <2>1, <2>2, <2>4 DEF WindowInv
<1>5. CASE /\ stamps' = kept /\ due' = [due EXCEPT ![c] = wait] /\ Home(c, "sleep")
           /\ UNCHANGED passes
  <2>1. Sorted(stamps)' /\ passes' = Young(stamps)'
    <3>1. Sorted(stamps)' = Sorted(stamps') /\ Young(stamps)' = Young(stamps')
      BY DEF Sorted, Young, Old
    <3> QED  BY <1>1, <1>5, <3>1
  <2>2. \A d \in Callers : pc'[d] = "sleep" => d = c \/ pc[d] = "sleep"
    BY <1>1, <1>5 DEF Home
  <2>3. Len(passes) < RequestLimit \/ due'[c] >= Window - Head(passes)
    <3>1. due'[c] = wait
      BY <1>1, <1>5
    <3>2. CASE Len(passes) >= RequestLimit
      <4>1. Wait(kept, RequestLimit) = Window - Head(passes)
        BY <1>1, <3>2 DEF Wait
      <4> QED  BY <1>2, <3>1, <4>1
    <3> QED  BY <1>1, <3>2, LimitsAssumption
  <2> QED  BY <1>3, <1>5, <2>1, <2>2, <2>3 DEF WindowInv
<1> QED  BY <1>4, <1>5 DEF EnterLimiter

\* The step of a caller that neither enters the limiter nor leaves its sleep.
LEMMA OthersKeepWindow ==
  ASSUME McpTypeOK, WindowInv, UNCHANGED limiter,
         \A c \in Callers : pc'[c] = "sleep" => pc[c] = "sleep"
  PROVE  WindowInv'
BY DEF WindowInv, limiter, Sorted, Young, Old

LEMMA WakeKeepsWindow ==
  ASSUME McpTypeOK, WindowInv, NEW c \in Callers, Wake(c)
  PROVE  WindowInv'
<1>1. /\ passes \in Seq(Ages) /\ Len(passes) \in Nat /\ stamps \in Seq(Ages)
      /\ pc \in [Callers -> PcValues]
  BY LenProperties DEF McpTypeOK, LimiterType, RequestType, PcValues
<1>2. Sorted(stamps)' /\ passes' = Young(stamps)' /\ Len(passes') = Len(passes) + 1
  BY PassRecords DEF Wake
<1>3. overlap' = overlap /\ pc[c] = "sleep" /\ due[c] = 0
  BY DEF Wake
<1>4. \A d \in Callers : pc'[d] = "sleep" => d # c /\ pc[d] = "sleep"
  BY <1>1 DEF Wake, Pass, Post
<1>5. ASSUME ~overlap PROVE Len(passes) < RequestLimit
  <2>1. CASE Len(passes) >= RequestLimit
    <3>1. passes # <<>> /\ 1 \in 1 .. Len(passes)
      BY <1>1, <2>1, LimitsAssumption, EmptySeq
    <3>2. Head(passes) = passes[1] /\ passes[1] < Window /\ passes[1] \in Ages
      <4>1. \A i \in 1 .. Len(passes) : passes[i] < Window
        BY <1>1, YoungSorted DEF WindowInv
      <4> QED  BY <1>1, <3>1, <4>1, HeadIs
    <3>3. due[c] >= Window - Head(passes)
      BY <1>1, <1>3, <1>5, <2>1, LimitsAssumption DEF WindowInv
    <3> QED  BY <1>3, <3>2, <3>3, WindowAssumption
  <2> QED  BY <1>1, <2>1, LimitsAssumption
<1>6. ~overlap => /\ Len(passes') <= RequestLimit
                  /\ \A d \in Callers : pc'[d] # "sleep"
  BY <1>1, <1>2, <1>3, <1>4, <1>5, LimitsAssumption DEF WindowInv
<1> QED  BY <1>2, <1>3, <1>6 DEF WindowInv

LEMMA TickKeepsWindow ==
  ASSUME McpTypeOK, WindowInv, Tick
  PROVE  WindowInv'
<1> DEFINE a == Older(passes)
<1>1. /\ passes \in Seq(Ages) /\ Len(passes) \in Nat /\ stamps \in Seq(Ages) /\ Sorted(stamps)
      /\ passes = Young(stamps) /\ Sorted(passes) /\ \A i \in 1 .. Len(passes) : passes[i] < Window
      /\ due \in [Callers -> Nat]
  BY LenProperties, YoungSorted DEF McpTypeOK, LimiterType, WindowInv
<1>2. stamps' = Older(stamps) /\ passes' = Young(a) /\ overlap' = overlap /\ pc' = pc
  BY DEF Tick, request
<1>3. Sorted(stamps)' /\ passes' = Young(stamps)'
  <2>1. Sorted(stamps)' = Sorted(stamps') /\ Young(stamps)' = Young(stamps')
    BY DEF Sorted, Young, Old
  <2>2. Sorted(Older(stamps)) /\ Young(Older(Young(stamps))) = Young(Older(stamps))
    BY <1>1, YoungOlder
  <2> QED  BY <1>1, <1>2, <2>1, <2>2
<1>4. a \in Seq(Ages) /\ Sorted(a) /\ Len(a) = Len(passes) /\ DOMAIN passes = 1 .. Len(passes)
  <2>1. a \in Seq(Ages) /\ DOMAIN a = DOMAIN passes
    BY <1>1, OlderType DEF Older
  <2> QED  BY <1>1, <2>1, YoungOlder, LenProperties
<1>5. \A i \in 1 .. Len(passes) : a[i] = passes[i] + 1
  BY <1>1, <1>4 DEF Older
<1> DEFINE k == Cardinality(Old(a))
<1>6. /\ k \in 0 .. Len(a) /\ \A i \in 1 .. Len(a) : a[i] >= Window <=> i <= k
      /\ Young(a) \in Seq(Ages) /\ Len(Young(a)) = Len(a) - k
      /\ \A j \in 1 .. (Len(a) - k) : Young(a)[j] = a[k + j]
  BY <1>4, OldIsPrefix, YoungMeans
<1> HIDE DEF k, a
<1>7. Len(passes') <= Len(passes)
  BY <1>1, <1>2, <1>4, <1>6
<1>8. ASSUME NEW c \in Callers, Len(passes) <= RequestLimit,
             Len(passes) < RequestLimit \/ due[c] >= Window - Head(passes)
      PROVE  Len(passes') < RequestLimit \/ due'[c] >= Window - Head(passes')
  <2>1. CASE Len(passes') < RequestLimit
    BY <2>1
  <2>2. CASE Len(passes') >= RequestLimit
    <3>1. k = 0 /\ Len(passes) = RequestLimit /\ due[c] >= Window - Head(passes)
      BY <1>1, <1>2, <1>4, <1>6, <1>7, <1>8, <2>2, LimitsAssumption
    <3>2. 1 \in 1 .. Len(passes) /\ passes # <<>>
      BY <1>1, <3>1, LimitsAssumption, EmptySeq
    <3>3. passes' # <<>> /\ passes' \in Seq(Ages)
      BY <1>2, <1>4, <1>6, <3>1, <3>2, LimitsAssumption, EmptySeq
    <3>4. /\ Head(passes) = passes[1] /\ Head(passes') = passes'[1]
          /\ passes[1] \in Ages /\ passes[1] < Window
      BY <1>1, <3>2, <3>3, HeadIs
    <3>5. passes'[1] = passes[1] + 1
      BY <1>2, <1>4, <1>5, <1>6, <3>1, <3>2
    <3>6. due[c] \in Nat /\ due'[c] = IF due[c] > 0 THEN due[c] - 1 ELSE 0
      BY <1>1 DEF Tick
    <3>7. due[c] >= Window - passes[1] /\ Window \in Nat /\ passes[1] \in Int
      BY <3>1, <3>4, WindowAssumption DEF Ages
    <3>8. due'[c] >= Window - (passes[1] + 1)
      BY <3>4, <3>6, <3>7
    <3> QED  BY <3>4, <3>5, <3>8
  <2>3. Len(passes') \in Nat
    BY <1>2, <1>6, LenProperties
  <2> QED  BY <2>1, <2>2, <2>3, LimitsAssumption
<1>9. ~overlap => /\ Len(passes') <= RequestLimit
                  /\ \A c, d \in Callers : pc[c] = "sleep" /\ pc[d] = "sleep" => c = d
                  /\ \A c \in Callers : pc[c] = "sleep" =>
                        Len(passes') < RequestLimit \/ due'[c] >= Window - Head(passes')
  <2>1. Len(passes') \in Nat
    BY <1>2, <1>6, LenProperties
  <2> QED  BY <1>1, <1>7, <1>8, <2>1, LimitsAssumption DEF WindowInv
<1> QED  BY <1>2, <1>3, <1>9 DEF WindowInv

LEMMA ServeKeepsWindow ==
  ASSUME McpTypeOK, WindowInv, NEW c \in Callers, Serve(c)
  PROVE  WindowInv'
<1>0. pc \in [Callers -> PcValues]
  BY DEF McpTypeOK, RequestType, PcValues
<1>1. ASSUME NEW again \in BOOLEAN, Raise(c, again)
      PROVE  \A d \in Callers : pc'[d] = "sleep" => pc[d] = "sleep"
  BY <1>0, <1>1 DEF Raise, Home
<1>2. CASE Begin(c)
  BY <1>0, <1>2, EnterKeepsWindow, OthersKeepWindow DEF Begin, Ask, Post, Home
<1>3. CASE Locked(c)
  BY <1>0, <1>3, EnterKeepsWindow, OthersKeepWindow DEF Locked, Ask, Post
<1>4. CASE Notified(c)
  BY <1>0, <1>4, EnterKeepsWindow, OthersKeepWindow DEF Notified, Post
<1>5. CASE InitializeOk(c)
  BY <1>0, <1>5, OthersKeepWindow DEF InitializeOk, Post
<1>6. CASE InitializeGone(c) \/ CallGone(c)
  BY <1>0, <1>1, <1>6, OthersKeepWindow DEF InitializeGone, CallGone, Ask, Post
<1>7. CASE InitializeFails(c) \/ NotifyFails(c)
  BY <1>1, <1>7, OthersKeepWindow DEF InitializeFails, NotifyFails
<1>8. CASE CallOk(c)
  BY <1>0, <1>8, OthersKeepWindow DEF CallOk, Home
<1>9. CASE CallLimited(c) \/ CallLost(c) \/ CallError(c)
  BY <1>1, <1>9, OthersKeepWindow DEF CallLimited, CallLost, CallError
<1> QED
  BY <1>2, <1>3, <1>4, <1>5, <1>6, <1>7, <1>8, <1>9, WakeKeepsWindow DEF Serve

\* For any limit, window and number of callers: unless two callers were asleep in the
\* limiter at once, no window holds more calls than MAX_REQUESTS_PER_MIN (_rate_limit).
THEOREM WindowIsKept == McpSpec => []WindowHolds
<1>1. McpInit => WindowInv
  <2> SUFFICES ASSUME McpInit PROVE WindowInv
    OBVIOUS
  <2>1. stamps = <<>> /\ passes = <<>> /\ \A c \in Callers : pc[c] = "idle"
    BY DEF McpInit
  <2>2. <<>> \in Seq(Ages) /\ Sorted(<<>>) /\ Len(<<>>) = 0
    BY EmptySeq DEF Sorted
  <2>3. Young(<<>>) = <<>>
    <3>1. \A i \in 1 .. Len(<<>>) : <<>>[i] < Window
      BY <2>2
    <3> HIDE DEF Ages
    <3> QED  BY <2>2, <3>1, YoungKeeps
  <2> QED  BY <2>1, <2>2, <2>3, LimitsAssumption DEF WindowInv
<1>2. McpTypeOK /\ WindowInv /\ [McpNext]_mcpVars => WindowInv'
  <2> SUFFICES ASSUME McpTypeOK, WindowInv, [McpNext]_mcpVars PROVE WindowInv'
    OBVIOUS
  <2>1. CASE \E c \in Callers : Serve(c)
    BY <2>1, ServeKeepsWindow
  <2>2. CASE \E c \in Callers : \E t \in Tools : Start(c, t)
    <3>1. pc \in [Callers -> PcValues]
      BY DEF McpTypeOK, RequestType, PcValues
    <3> QED  BY <2>2, <3>1, OthersKeepWindow DEF Start, Home
  <2>3. CASE Tick
    BY <2>3, TickKeepsWindow
  <2>4. CASE UNCHANGED <<limiter, request>>
    BY <2>4, OthersKeepWindow DEF request
  <2> QED  BY <2>1, <2>2, <2>3, <2>4 DEF McpNext, Expire, mcpVars
<1>3. WindowInv => WindowHolds
  BY DEF WindowInv, WindowHolds
<1> QED  BY <1>1, <1>2, <1>3, McpTypeCorrect, PTL DEF McpSpec

----------------------------------------------------------------------------
(* Sessions are shared                                                     *)

\* Who asks for a session now, and whether one more caller would: the flag is down and
\* nobody asks under the lock.
Openers == {c \in Callers : pc[c] = "initialize"}
Pending == IF ~initialized /\ ~ \E c \in Openers : stage[c] = "lock" THEN 1 ELSE 0
Expected == Cardinality(Openers) + Pending

\* The sessions still to be opened are excused, as far as the bound leaves any.
OpenInv ==
    /\ IsFiniteSet(Openers)
    /\ \A c \in Openers : stage[c] = "lock" => lock = c
    /\ mayOpen >= 0
    /\ mayOpen >= Expected \/ mayOpen >= MaxSessions - opened

LEMMA ExpectedType ==
  ASSUME OpenInv
  PROVE  Cardinality(Openers) \in Nat /\ Pending \in {0, 1} /\ Expected \in Nat
<1>1. Cardinality(Openers) \in Nat
  BY FS_CardinalityType DEF OpenInv
<1>2. Pending \in {0, 1}
  BY DEF Pending
<1> QED  BY <1>1, <1>2 DEF Expected

\* A step that starts and ends no opening.
LEMMA OpenersStay ==
  ASSUME McpTypeOK, OpenInv, Openers' = Openers, initialized' = initialized,
         \A c \in Openers : stage'[c] = stage[c] /\ (lock = c => lock' = c),
         opened' = opened, mayOpen' = mayOpen
  PROVE  OpenInv'
<1>1. Pending' = Pending
  BY DEF Pending
<1>2. Expected' = Expected
  BY <1>1 DEF Expected
<1> QED  BY <1>2 DEF OpenInv

\* Caller c, which was not asking for a session, does so now.
LEMMA OpenerJoins ==
  ASSUME McpTypeOK, OpenInv, NEW c \in Callers, pc[c] # "initialize", NEW in \in StageValues,
         NEW id, NEW sessions, Ask(c, in, id, sessions)
  PROVE  /\ Openers' = Openers \cup {c} /\ IsFiniteSet(Openers')
         /\ Cardinality(Openers') = Cardinality(Openers) + 1
         /\ stage'[c] = in /\ \A d \in Openers : d # c /\ stage'[d] = stage[d]
<1>1. /\ pc \in [Callers -> PcValues] /\ stage \in [Callers -> StageValues]
      /\ pc' = [pc EXCEPT ![c] = "initialize"] /\ stage' = [stage EXCEPT ![c] = in]
  BY DEF McpTypeOK, RequestType, Ask, Post, PcValues, StageValues
<1>2. Openers' = Openers \cup {c} /\ c \notin Openers
  BY <1>1 DEF Openers
<1>3. IsFiniteSet(Openers \cup {c}) /\ Cardinality(Openers \cup {c}) = Cardinality(Openers) + 1
  BY <1>2, FS_AddElement DEF OpenInv
<1> QED  BY <1>1, <1>2, <1>3

\* Caller c asks no longer.
LEMMA OpenerLeaves ==
  ASSUME McpTypeOK, OpenInv, NEW c \in Openers, NEW to \in PcValues \ {"initialize"}, NEW in \in StageValues,
         pc' = [pc EXCEPT ![c] = to], stage' = [stage EXCEPT ![c] = in]
  PROVE  /\ Openers' = Openers \ {c} /\ IsFiniteSet(Openers')
         /\ Cardinality(Openers') = Cardinality(Openers) - 1
         /\ \A d \in Openers' : d # c /\ stage'[d] = stage[d]
<1>1. pc \in [Callers -> PcValues] /\ stage \in [Callers -> StageValues] /\ c \in Callers
  BY DEF McpTypeOK, RequestType, PcValues, StageValues, Openers
<1>2. Openers' = Openers \ {c}
  BY <1>1 DEF Openers
<1>3. IsFiniteSet(Openers \ {c}) /\ Cardinality(Openers \ {c}) = Cardinality(Openers) - 1
  BY FS_RemoveElement DEF OpenInv
<1> QED  BY <1>1, <1>2, <1>3

\* The lock is free: nobody asks under it, so the one who now does was expected.
LEMMA OpenUnderLock ==
  ASSUME McpTypeOK, OpenInv, NEW c \in Callers, pc[c] # "initialize", ~initialized, lock = Nobody,
         lock' = c, Ask(c, "lock", session, live), UNCHANGED <<client, server>>
  PROVE  OpenInv'
<1>1. /\ Openers' = Openers \cup {c} /\ IsFiniteSet(Openers')
      /\ Cardinality(Openers') = Cardinality(Openers) + 1
      /\ stage'[c] = "lock" /\ \A d \in Openers : d # c /\ stage'[d] = stage[d]
  BY OpenerJoins DEF StageValues
<1>2. \A d \in Openers : stage[d] # "lock"
  BY CallersAssumption DEF OpenInv, Openers
<1>3. Pending = 1 /\ Pending' = 0
  BY <1>1, <1>2 DEF Pending, client
<1>4. Expected' = Expected
  BY <1>1, <1>3, ExpectedType DEF Expected
<1>5. \A d \in Openers' : stage'[d] = "lock" => lock' = d
  BY <1>1, <1>2
<1> QED  BY <1>1, <1>4, <1>5 DEF OpenInv, server

\* A session is opened, and its opening was expected.
LEMMA OpenedAsExpected ==
  ASSUME McpTypeOK, OpenInv, NEW c \in Callers, InitializeOk(c)
  PROVE  OpenInv'
<1>1. /\ c \in Openers /\ pc' = [pc EXCEPT ![c] = "notify"] /\ stage' = [stage EXCEPT ![c] = stage[c]]
      /\ stage[c] \in StageValues /\ initialized' /\ opened' = opened + 1 /\ mayOpen' = mayOpen - 1
      /\ opened < MaxSessions /\ lock' = lock
  BY DEF InitializeOk, Openers, Post, locks, McpTypeOK, RequestType, StageValues
<1>2. /\ Openers' = Openers \ {c} /\ IsFiniteSet(Openers')
      /\ Cardinality(Openers') = Cardinality(Openers) - 1
      /\ \A d \in Openers' : d # c /\ stage'[d] = stage[d]
  BY <1>1, OpenerLeaves DEF PcValues
<1>3. Expected' = Cardinality(Openers) - 1
  BY <1>1, <1>2, ExpectedType DEF Expected, Pending
<1>4. Cardinality(Openers') \in Nat
  BY <1>2, FS_CardinalityType
<1>5. mayOpen \in Int /\ opened \in Nat
  BY DEF McpTypeOK, ServerType
<1>6. mayOpen' >= 0 /\ (mayOpen' >= Expected' \/ mayOpen' >= MaxSessions - opened')
  BY <1>1, <1>2, <1>3, <1>4, <1>5, ExpectedType, SessionsAssumption DEF OpenInv, Expected
<1> QED  BY <1>1, <1>2, <1>6 DEF OpenInv

\* A 410: at most two sessions more are expected than were.
LEMMA GoneIsExcused ==
  ASSUME McpTypeOK, OpenInv, mayOpen' = Excused, opened' = opened, IsFiniteSet(Openers'),
         \A d \in Openers' : stage'[d] = "lock" => lock' = d,
         Cardinality(Openers') <= Cardinality(Openers) + 1
  PROVE  OpenInv'
<1>1. Cardinality(Openers') \in Nat /\ Pending' \in {0, 1}
  BY FS_CardinalityType DEF Pending
<1>2. Expected' <= Expected + 2
  BY <1>1, ExpectedType DEF Expected
<1>3. mayOpen \in Int /\ opened \in Nat /\ Expected' \in Nat
  BY <1>1 DEF McpTypeOK, ServerType, Expected
<1>4. mayOpen' >= 0 /\ (mayOpen' >= Expected' \/ mayOpen' >= MaxSessions - opened')
  BY <1>2, <1>3, ExpectedType, SessionsAssumption DEF OpenInv, Excused
<1> QED  BY <1>4 DEF OpenInv

LEMMA InitializeGoneExcused ==
  ASSUME McpTypeOK, OpenInv, NEW c \in Callers, InitializeGone(c)
  PROVE  OpenInv'
<1>1. /\ c \in Openers /\ mayOpen' = Excused /\ opened' = opened
      /\ lock' = (IF lock = c THEN Nobody ELSE lock)
      /\ pc \in [Callers -> PcValues] /\ stage \in [Callers -> StageValues]
  BY DEF InitializeGone, Openers, Leave, McpTypeOK, RequestType, PcValues, StageValues
<1>2. CASE stage[c] = "lock" /\ Ask(c, "pre", NoSession, live)
  <2>1. pc' = [pc EXCEPT ![c] = "initialize"] /\ stage' = [stage EXCEPT ![c] = "pre"]
    BY <1>2 DEF Ask, Post
  <2>2. Openers' = Openers
    BY <1>1, <2>1 DEF Openers
  <2>3. \A d \in Openers' : stage'[d] = "lock" => lock' = d
    BY <1>1, <1>2, <2>1, <2>2 DEF OpenInv, Openers
  <2>4. IsFiniteSet(Openers') /\ Cardinality(Openers') <= Cardinality(Openers) + 1
    BY <2>2, ExpectedType DEF OpenInv
  <2> QED  BY <1>1, <2>3, <2>4, GoneIsExcused
<1>3. CASE stage[c] # "lock" /\ Raise(c, FALSE)
  <2>1. pc' = [pc EXCEPT ![c] = "idle"] /\ stage' = [stage EXCEPT ![c] = "first"]
    BY <1>3 DEF Raise, Home
  <2>2. /\ Openers' = Openers \ {c} /\ IsFiniteSet(Openers')
        /\ Cardinality(Openers') = Cardinality(Openers) - 1
        /\ \A d \in Openers' : d # c /\ stage'[d] = stage[d]
    BY <1>1, <2>1, OpenerLeaves DEF PcValues, StageValues
  <2>3. \A d \in Openers' : stage'[d] = "lock" => lock' = d
    BY <1>1, <2>2 DEF OpenInv
  <2>4. Cardinality(Openers') <= Cardinality(Openers) + 1
    BY <2>2, ExpectedType
  <2> QED  BY <1>1, <2>2, <2>3, <2>4, GoneIsExcused
<1> QED  BY <1>2, <1>3 DEF InitializeGone

LEMMA CallGoneExcused ==
  ASSUME McpTypeOK, OpenInv, NEW c \in Callers, CallGone(c)
  PROVE  OpenInv'
<1>1. /\ pc[c] = "call" /\ mayOpen' = Excused /\ opened' = opened /\ lock' = lock
      /\ pc \in [Callers -> PcValues] /\ stage \in [Callers -> StageValues]
  BY DEF CallGone, locks, McpTypeOK, RequestType, PcValues, StageValues
<1>2. CASE Ask(c, "post", NoSession, live)
  <2>1. /\ Openers' = Openers \cup {c} /\ IsFiniteSet(Openers')
        /\ Cardinality(Openers') = Cardinality(Openers) + 1
        /\ stage'[c] = "post" /\ \A d \in Openers : d # c /\ stage'[d] = stage[d]
    BY <1>1, <1>2, OpenerJoins DEF StageValues
  <2>2. \A d \in Openers' : stage'[d] = "lock" => lock' = d
    BY <1>1, <2>1 DEF OpenInv
  <2>3. Cardinality(Openers') <= Cardinality(Openers) + 1
    BY <2>1, ExpectedType
  <2> QED  BY <1>1, <2>1, <2>2, <2>3, GoneIsExcused
<1>3. CASE Raise(c, FALSE)
  <2>1. pc' = [pc EXCEPT ![c] = "idle"] /\ stage' = [stage EXCEPT ![c] = "first"]
    BY <1>3 DEF Raise, Home
  <2>2. Openers' = Openers /\ \A d \in Openers : d # c /\ stage'[d] = stage[d]
    BY <1>1, <2>1 DEF Openers
  <2>3. Cardinality(Openers') <= Cardinality(Openers) + 1
    BY <2>2, ExpectedType
  <2> QED  BY <1>1, <2>2, <2>3, GoneIsExcused DEF OpenInv
<1> QED  BY <1>2, <1>3 DEF CallGone

\* An opening that fails frees the lock for the next caller; a session that was opened all
\* the same is one the bound leaves no more.
LEMMA FailedOpening ==
  ASSUME McpTypeOK, OpenInv, NEW c \in Callers, InitializeFails(c)
  PROVE  OpenInv'
<1>1. /\ c \in Openers /\ initialized' = initialized /\ mayOpen' = mayOpen
      /\ opened' \in {opened, opened + 1} /\ lock' = (IF lock = c THEN Nobody ELSE lock)
  BY DEF InitializeFails, Openers, Leave, client, server
<1>2. \E to \in {"ready", "idle"} : pc' = [pc EXCEPT ![c] = to] /\ stage' = [stage EXCEPT ![c] = "first"]
  BY DEF InitializeFails, Raise, Home
<1>3. /\ Openers' = Openers \ {c} /\ IsFiniteSet(Openers')
      /\ Cardinality(Openers') = Cardinality(Openers) - 1
      /\ \A d \in Openers' : d # c /\ stage'[d] = stage[d]
  BY <1>1, <1>2, OpenerLeaves DEF PcValues, StageValues
<1>4. \A d \in Openers' : stage'[d] = "lock" => lock' = d
  BY <1>1, <1>3 DEF OpenInv
<1>5. Pending' \in {0, 1}
  BY DEF Pending
<1>6. Expected' <= Expected /\ Expected' \in Int
  BY <1>3, <1>5, ExpectedType DEF Expected
<1>7. mayOpen \in Int /\ opened \in Nat
  BY DEF McpTypeOK, ServerType
<1>8. mayOpen >= 0 /\ (mayOpen >= Expected \/ mayOpen >= MaxSessions - opened) /\ Expected \in Nat
  BY ExpectedType DEF OpenInv
<1>9. mayOpen' >= 0 /\ (mayOpen' >= Expected' \/ mayOpen' >= MaxSessions - opened')
  <2>1. CASE mayOpen >= Expected
    BY <1>1, <1>6, <1>7, <1>8, <2>1
  <2>2. CASE mayOpen >= MaxSessions - opened
    <3>1. opened' \in Nat /\ opened' >= opened /\ mayOpen' = mayOpen
      BY <1>1, <1>7
    <3>2. MaxSessions \in Nat /\ opened \in Nat /\ mayOpen \in Int
      BY <1>7, SessionsAssumption
    <3>3. \A o, p \in Nat : p >= o /\ mayOpen >= MaxSessions - o => mayOpen >= MaxSessions - p
      BY <3>2
    <3> QED  BY <1>8, <2>2, <3>1, <3>2, <3>3
  <2> QED  BY <1>1, <1>8, <2>1, <2>2
<1> QED  BY <1>3, <1>4, <1>9 DEF OpenInv

\* A caller that does not ask goes on without asking.
LEMMA OthersKeepOpen ==
  ASSUME McpTypeOK, OpenInv, NEW c \in Callers, pc[c] # "initialize",
         \E to \in PcValues \ {"initialize"}, in \in StageValues :
            pc' = [pc EXCEPT ![c] = to] /\ stage' = [stage EXCEPT ![c] = in],
         lock' = lock \/ lock' = (IF lock = c THEN Nobody ELSE lock),
         initialized' = initialized, UNCHANGED server
  PROVE  OpenInv'
<1>1. pc \in [Callers -> PcValues] /\ stage \in [Callers -> StageValues]
  BY DEF McpTypeOK, RequestType, PcValues, StageValues
<1>2. Openers' = Openers /\ \A d \in Openers : d # c /\ stage'[d] = stage[d]
  BY <1>1 DEF Openers
<1>3. \A d \in Openers : lock = d => lock' = d
  BY <1>2
<1> QED  BY <1>2, <1>3, OpenersStay DEF server

LEMMA ServeKeepsOpen ==
  ASSUME McpTypeOK, OpenInv, NEW c \in Callers, Serve(c)
  PROVE  OpenInv'
<1> DEFINE Moves == \E to \in PcValues \ {"initialize"}, in \in StageValues :
                       pc' = [pc EXCEPT ![c] = to] /\ stage' = [stage EXCEPT ![c] = in]
<1>1. ASSUME NEW to \in PcValues \ {"initialize"}, Home(c, to) PROVE Moves
  BY <1>1 DEF Home, StageValues
<1>2. ASSUME NEW again \in BOOLEAN, Raise(c, again) PROVE Moves
  BY <1>1, <1>2 DEF Raise, PcValues
<1>3. ASSUME NEW kept, NEW keptSearches, Pass(c, kept, keptSearches) PROVE Moves
  BY <1>3 DEF Pass, Post, PcValues, StageValues
<1>4. ASSUME EnterLimiter(c) PROVE Moves
  BY <1>1, <1>3, <1>4 DEF EnterLimiter, PcValues
<1>5. CASE Begin(c)
  <2>1. CASE EnterLimiter(c) /\ UNCHANGED locks
    BY <1>4, <1>5, <2>1, OthersKeepOpen DEF Begin, locks, client, server
  <2>2. CASE lock = Nobody /\ lock' = c /\ ~initialized /\ Ask(c, "lock", session, live)
    BY <1>5, <2>2, OpenUnderLock DEF Begin
  <2>3. CASE Home(c, "wait") /\ UNCHANGED lock
    <3>1. Moves
      BY <1>1, <2>3 DEF PcValues
    <3> QED  BY <1>5, <2>3, <3>1, OthersKeepOpen DEF Begin, client
  <2> QED  BY <1>5, <2>1, <2>2, <2>3 DEF Begin
<1>6. CASE Locked(c)
  <2>1. CASE EnterLimiter(c) /\ UNCHANGED lock
    BY <1>4, <1>6, <2>1, OthersKeepOpen DEF Locked, client
  <2>2. CASE lock = Nobody /\ lock' = c /\ ~initialized /\ Ask(c, "lock", session, live)
    BY <1>6, <2>2, OpenUnderLock DEF Locked
  <2> QED  BY <1>6, <2>1, <2>2 DEF Locked
<1>7. CASE Wake(c)
  BY <1>3, <1>7, OthersKeepOpen DEF Wake, client, locks
<1>8. CASE Notified(c)
  <2>1. Moves
    BY <1>4, <1>8 DEF Notified, Post, PcValues, StageValues
  <2> QED  BY <1>8, <2>1, OthersKeepOpen DEF Notified, Leave, client
<1>9. CASE NotifyFails(c)
  BY <1>2, <1>9, OthersKeepOpen DEF NotifyFails, Leave, client
<1>10. CASE CallOk(c)
  <2>1. Moves
    BY <1>1, <1>10 DEF CallOk, PcValues
  <2> QED  BY <1>10, <2>1, OthersKeepOpen DEF CallOk, locks
<1>11. CASE CallLimited(c) \/ CallLost(c) \/ CallError(c)
  BY <1>2, <1>11, OthersKeepOpen DEF CallLimited, CallLost, CallError, client, locks
<1> QED
  BY <1>5, <1>6, <1>7, <1>8, <1>9, <1>10, <1>11, OpenedAsExpected, InitializeGoneExcused,
     CallGoneExcused, FailedOpening DEF Serve

\* For any number of callers: every session after the first follows a 410 or an opening
\* whose answer was lost (_ensure_initialized, _init_lock, _send_jsonrpc).
THEOREM SessionsAreShared == McpSpec => []SessionsShared
<1>1. McpInit => OpenInv
  <2> SUFFICES ASSUME McpInit PROVE OpenInv
    OBVIOUS
  <2>1. Openers = {}
    BY DEF McpInit, Openers
  <2>2. IsFiniteSet(Openers) /\ Cardinality(Openers) = 0
    BY <2>1, FS_EmptySet
  <2>3. mayOpen = 1 - opened /\ opened = (IF initialized THEN 1 ELSE 0)
    BY DEF McpInit
  <2> QED  BY <2>1, <2>2, <2>3 DEF OpenInv, Expected, Pending
<1>2. McpTypeOK /\ OpenInv /\ [McpNext]_mcpVars => OpenInv'
  <2> SUFFICES ASSUME McpTypeOK, OpenInv, [McpNext]_mcpVars PROVE OpenInv'
    OBVIOUS
  <2>1. CASE \E c \in Callers : Serve(c)
    BY <2>1, ServeKeepsOpen
  <2>2. CASE \E c \in Callers : \E t \in Tools : Start(c, t)
    <3>1. PICK c \in Callers, t \in Tools : Start(c, t)
      BY <2>2
    <3> QED  BY <3>1, OthersKeepOpen DEF Start, Home, client, locks, PcValues, StageValues
  <2>3. CASE UNCHANGED <<pc, stage, lock, initialized, opened, mayOpen>>
    BY <2>3, OpenersStay DEF Openers
  <2> QED  BY <2>1, <2>2, <2>3 DEF McpNext, Expire, Tick, mcpVars, client, locks, request, server
<1>3. OpenInv => SessionsShared
  BY DEF OpenInv, SessionsShared
<1> QED  BY <1>1, <1>2, <1>3, McpTypeCorrect, PTL DEF McpSpec
=============================================================================
