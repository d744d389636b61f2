------------------------ MODULE IncidentIntakeProofs ------------------------
(***************************************************************************)
(* Theorems about IncidentIntake, for any number of handlers, any alerts,  *)
(* windows, page limit, attempts and bounds.                               *)
(*                                                                         *)
(* None of the invariants is inductive alone.  Memory relates the counter, *)
(* the incidents and the ids that handlers hold across their await;        *)
(* Notion relates the pages, those still to come included, to all three,   *)
(* under the condition that every restart saw all pages.                   *)
(***************************************************************************)
EXTENDS IncidentIntake, FiniteSetTheorems, TLAPS

IncidentSet ==
  [service : {a.service : a \in Alerts} \cup {Unknown},
   words : {a.words : a \in Alerts},
   severity : Severities,
   source : {a.source : a \in Alerts},
   labels : {a.labels : a \in Alerts} \cup {{}},
   fp : {a.fp : a \in Alerts} \cup {Empty},
   at : Nat, since : Nat, page : Nat \X Nat, active : BOOLEAN]

PageSet == [id : Nat \ {0}, birth : Nat, try : Nat, alert : Alerts, at : Nat,
            severity : Severities, active : BOOLEAN]

Commenting == [pc |-> "comment"]

CreatingSet == [pc : {"create", "created", "failed"}, alert : Alerts, id : Nat \ {0},
                birth : Nat, at : Nat, since : Nat, try : Nat]

(* What the variables look like.                                           *)
Shapes ==
  /\ counter \in Nat
  /\ now \in Nat
  /\ arrivals \in Nat
  /\ complete \in BOOLEAN
  /\ DOMAIN incidents \subseteq Nat \ {0}
  /\ \A i \in DOMAIN incidents : incidents[i] \in IncidentSet
  /\ pages \subseteq PageSet
  /\ late \subseteq PageSet
  /\ handler \in [Handlers -> {NoHandler, Commenting} \cup CreatingSet]

(* Ids in memory: none is beyond the counter, and an id that a handler     *)
(* holds is its own.                                                       *)
Memory ==
  /\ \A i \in DOMAIN incidents : i <= counter
  /\ \A h \in Handlers : Creating(h) => /\ handler[h].id <= counter
                                        /\ handler[h].id \notin DOMAIN incidents
  /\ \A g, h \in Handlers :
       Creating(g) /\ Creating(h) /\ handler[g].id = handler[h].id => g = h

(* The incident is of the alert: all of it, or what a page tells.          *)
Like(inc, a) ==
  /\ inc.words = a.words
  /\ inc.source = a.source
  /\ IF inc.fp = Empty THEN inc.service = Unknown
     ELSE inc.service = a.service /\ inc.labels = a.labels

(* Two pages, or a page and a handler, of one creation.                    *)
Same(p, q) == p.birth = q.birth /\ p.alert = q.alert

(* The pages Notion has or may still make.                                 *)
AllPages == pages \cup late

Known(p) == \/ p.id \in DOMAIN incidents
            \/ \E h \in Handlers : Creating(h) /\ handler[h].id = p.id

(* Ids in Notion.                                                          *)
Notion ==
  complete =>
    /\ \A p \in AllPages : p.id <= counter
    /\ \A p \in AllPages, h \in Handlers :
         Creating(h) /\ p.id = handler[h].id => Same(p, handler[h])
    /\ \A p, q \in AllPages : p.id = q.id => Same(p, q)
    /\ \A p \in AllPages : Known(p)
    /\ \A p \in AllPages : p.id \in DOMAIN incidents => Like(incidents[p.id], p.alert)

IInv == Shapes /\ Memory /\ CacheBacked /\ Notion

-----------------------------------------------------------------------------
(* A page or an incident that was revised keeps what identifies it.        *)
LEMMA PageRevised ==
  ASSUME NEW p \in PageSet, NEW s \in Severities, NEW a \in BOOLEAN
  PROVE  /\ Revised(p, s, a) \in PageSet
         /\ Revised(p, s, a).id = p.id
         /\ Same(Revised(p, s, a), p)
  BY DEF PageSet, Revised, Same

LEMMA IncidentRevised ==
  ASSUME NEW r \in IncidentSet, NEW s \in Severities, NEW a \in BOOLEAN
  PROVE  /\ Revised(r, s, a) \in IncidentSet
         /\ Revised(r, s, a).fp = r.fp
         /\ Revised(r, s, a).words = r.words
         /\ Revised(r, s, a).source = r.source
         /\ Revised(r, s, a).service = r.service
         /\ Revised(r, s, a).labels = r.labels
  BY DEF IncidentSet, Revised

LEMMA RehydratedShape ==
  ASSUME NEW p \in PageSet
  PROVE  /\ Rehydrated(p) \in IncidentSet
         /\ Like(Rehydrated(p), p.alert)
  BY DEF PageSet, PageId, IncidentSet, Rehydrated, Incident, Like

(* Updating an active incident and its page keeps what identifies them.    *)
LEMMA UpdateKeeps ==
  ASSUME Shapes, NEW i \in DOMAIN incidents, NEW s \in Severities, NEW a \in BOOLEAN,
         Update(i, s, a)
  PROVE  /\ DOMAIN incidents' = DOMAIN incidents
         /\ \A j \in DOMAIN incidents :
              /\ incidents'[j] \in IncidentSet
              /\ incidents'[j].fp = incidents[j].fp
              /\ incidents'[j].words = incidents[j].words
              /\ incidents'[j].source = incidents[j].source
              /\ incidents'[j].service = incidents[j].service
              /\ incidents'[j].labels = incidents[j].labels
         /\ \E F \in [pages -> PageSet] :
              /\ \A p \in pages : F[p].id = p.id /\ Same(F[p], p)
              /\ pages' = {F[p] : p \in pages}
<1>1. DOMAIN incidents' = DOMAIN incidents
  BY DEF Update
<1>2. ASSUME NEW j \in DOMAIN incidents
      PROVE  /\ incidents'[j] \in IncidentSet
             /\ incidents'[j].fp = incidents[j].fp
             /\ incidents'[j].words = incidents[j].words
             /\ incidents'[j].source = incidents[j].source
             /\ incidents'[j].service = incidents[j].service
             /\ incidents'[j].labels = incidents[j].labels
  <2>1. incidents[j] \in IncidentSet
    BY DEF Shapes
  <2>2. CASE j = i
    <3>1. incidents'[j] = Revised(incidents[j], s, a)
      BY <2>2 DEF Update
    <3> QED BY <2>1, <3>1, IncidentRevised
  <2>3. CASE j # i
    <3>1. incidents'[j] = incidents[j]
      BY <2>3 DEF Update
    <3> QED BY <2>1, <3>1
  <2> QED BY <2>2, <2>3
<1>3. \E F \in [pages -> PageSet] :
        /\ \A p \in pages : F[p].id = p.id /\ Same(F[p], p)
        /\ pages' = {F[p] : p \in pages}
  <2>1. CASE pages' = pages
    <3> DEFINE F == [p \in pages |-> p]
    <3>1. F \in [pages -> PageSet] /\ \A p \in pages : F[p] = p
      BY DEF Shapes
    <3>2. pages' = {F[p] : p \in pages}
      BY <2>1, <3>1
    <3> QED BY <3>1, <3>2 DEF Same
  <2>2. CASE pages' = {IF PageId(p) = incidents[i].page
                       THEN Revised(p, s, a) ELSE p : p \in pages}
    <3> DEFINE F == [p \in pages |-> IF PageId(p) = incidents[i].page
                                     THEN Revised(p, s, a) ELSE p]
    <3>1. ASSUME NEW p \in pages
          PROVE  F[p] \in PageSet /\ F[p].id = p.id /\ Same(F[p], p)
      BY PageRevised DEF Shapes, Same
    <3>2. F \in [pages -> PageSet]
      BY <3>1
    <3>3. pages' = {F[p] : p \in pages}
      BY <2>2
    <3> QED BY <3>1, <3>2, <3>3
  <2> QED BY <2>1, <2>2 DEF Update
<1> QED BY <1>1, <1>2, <1>3

(* A handler that was created holds what its type says.                    *)
LEMMA CreatingShape ==
  ASSUME Shapes, NEW h \in Handlers, Creating(h)
  PROVE  handler[h] \in CreatingSet
  BY DEF Shapes, Creating, NoHandler, Commenting

LEMMA PageShape ==
  ASSUME NEW c \in CreatingSet
  PROVE  /\ PageOf(c) \in PageSet
         /\ PageOf(c).id = c.id
         /\ Same(PageOf(c), c)
  BY ManagerAssumption DEF CreatingSet, PageSet, PageOf, Same

LEMMA MadeShape ==
  ASSUME NEW c \in CreatingSet
  PROVE  /\ Made(c) \in IncidentSet
         /\ Made(c).fp = c.alert.fp
         /\ Like(Made(c), c.alert)
<1>1. (IF c.pc = "created" THEN PageId(c) ELSE NoPage) \in Nat \X Nat
  BY DEF CreatingSet, PageId, NoPage
<1>2. c.alert \in Alerts /\ c.at \in Nat /\ c.since \in Nat
  BY DEF CreatingSet
<1>3. c.alert.severity \in Severities /\ c.alert.fp # Empty
  BY <1>2, ManagerAssumption
<1> QED BY <1>1, <1>2, <1>3 DEF Made, IncidentSet, Incident, Like

(* The handler goes on with the next attempt.                              *)
LEMMA RetryIs ==
  ASSUME Shapes, NEW h \in Handlers, Retry(h)
  PROVE  handler' = [handler EXCEPT ![h] = [handler[h] EXCEPT !.pc = "create", !.try = @ + 1]]
<1>1. handler[h] \in CreatingSet
  BY CreatingShape DEF Retry, Loses, Creating
<1>2. [handler EXCEPT ![h].pc = "create", ![h].try = @ + 1]
        = [handler EXCEPT ![h] = [handler[h] EXCEPT !.pc = "create", !.try = @ + 1]]
  BY <1>1 DEF Shapes, CreatingSet
<1> QED BY <1>2 DEF Retry

LEMMA ShapesStep == Shapes /\ [Next]_vars => Shapes'
<1> SUFFICES ASSUME Shapes, [Next]_vars PROVE Shapes'
  OBVIOUS
<1> USE ManagerAssumption
<1>1. ASSUME NEW h \in Handlers, NEW a \in Alerts, ArriveJoining(h, a) PROVE Shapes'
  BY <1>1 DEF Shapes, ArriveJoining, Arrives, Commenting
<1>2. ASSUME NEW h \in Handlers, NEW a \in Alerts, NEW t \in Times, ArriveNew(h, a, t)
      PROVE  Shapes'
  <2>1. Asking(a, t) \in CreatingSet
    BY DEF CreatingSet, Shapes, Asking
  <2>2. handler' \in [Handlers -> {NoHandler, Commenting} \cup CreatingSet]
    BY <1>2, <2>1 DEF Shapes, ArriveNew
  <2> QED BY <1>2, <2>2 DEF Shapes, ArriveNew, Arrives
<1>3. ASSUME NEW h \in Handlers, CreatePage(h) PROVE Shapes'
  <2>1. handler[h] \in CreatingSet
    BY <1>3, CreatingShape DEF CreatePage, Creating
  <2>2. [handler[h] EXCEPT !.pc = "created"] \in CreatingSet
    BY <2>1 DEF CreatingSet
  <2>3. handler' = [handler EXCEPT ![h] = [handler[h] EXCEPT !.pc = "created"]]
    BY <1>3 DEF CreatePage
  <2>4. handler' \in [Handlers -> {NoHandler, Commenting} \cup CreatingSet]
    BY <2>2, <2>3 DEF Shapes
  <2> QED BY <1>3, <2>1, <2>4, PageShape DEF Shapes, CreatePage
<1>4. ASSUME NEW h \in Handlers, Retry(h) \/ CreateFails(h) PROVE Shapes'
  <2>1. handler[h] \in CreatingSet
    BY <1>4, CreatingShape DEF Retry, CreateFails, Loses, Creating
  <2>2. /\ [handler[h] EXCEPT !.pc = "failed"] \in CreatingSet
        /\ [handler[h] EXCEPT !.pc = "create", !.try = @ + 1] \in CreatingSet
    <3>1. handler[h].try + 1 \in Nat
      BY <2>1 DEF CreatingSet
    <3>2. [handler[h] EXCEPT !.pc = "failed"] \in CreatingSet
      BY <2>1 DEF CreatingSet
    <3>3. [handler[h] EXCEPT !.pc = "create", !.try = handler[h].try + 1] \in CreatingSet
      BY <2>1, <3>1 DEF CreatingSet
    <3> QED BY <3>2, <3>3
  <2>3. \/ handler' = [handler EXCEPT ![h] = [handler[h] EXCEPT !.pc = "failed"]]
        \/ handler' = [handler EXCEPT ![h] = [handler[h] EXCEPT !.pc = "create", !.try = @ + 1]]
    BY <1>4, RetryIs DEF CreateFails
  <2>4. handler' \in [Handlers -> {NoHandler, Commenting} \cup CreatingSet]
    BY <2>2, <2>3 DEF Shapes
  <2>5. late' \subseteq PageSet
    BY <1>4, <2>1, PageShape DEF Shapes, Retry, CreateFails, Loses
  <2> QED BY <1>4, <2>4, <2>5 DEF Shapes, Retry, CreateFails
<1>12. ASSUME NEW p \in late, LatePage(p) PROVE Shapes'
  BY <1>12 DEF Shapes, LatePage
<1>5. ASSUME NEW h \in Handlers, Store(h) PROVE Shapes'
  <2> DEFINE c == handler[h]
  <2>1. c \in CreatingSet
    BY <1>5, CreatingShape DEF Store, Creating
  <2>2. Made(c) \in IncidentSet
    BY <2>1, MadeShape
  <2>3. c.id \in Nat \ {0}
    BY <2>1 DEF CreatingSet
  <2>4. handler' \in [Handlers -> {NoHandler, Commenting} \cup CreatingSet]
    BY <1>5 DEF Shapes, Store, Commenting
  <2>5. incidents' = With(incidents, c.id, Made(c))
    BY <1>5 DEF Store
  <2> HIDE DEF c
  <2>6. /\ DOMAIN incidents' \subseteq Nat \ {0}
        /\ \A i \in DOMAIN incidents' : incidents'[i] \in IncidentSet
    BY <2>2, <2>3, <2>5 DEF With, Shapes
  <2> QED BY <1>5, <2>4, <2>6 DEF Shapes, Store
<1>6. ASSUME NEW h \in Handlers, Return(h) PROVE Shapes'
  BY <1>6 DEF Shapes, Return
<1>7. ASSUME NEW i \in DOMAIN incidents, NEW s \in Severities, NEW a \in BOOLEAN, Update(i, s, a)
      PROVE  Shapes'
  <2>1. pages' \subseteq PageSet
    BY <1>7, UpdateKeeps
  <2>2. /\ DOMAIN incidents' = DOMAIN incidents
        /\ \A j \in DOMAIN incidents : incidents'[j] \in IncidentSet
    BY <1>7, UpdateKeeps
  <2> QED BY <1>7, <2>1, <2>2 DEF Shapes, Update
<1>8. CASE Tick
  BY <1>8 DEF Shapes, Tick
<1>9. CASE Restart
  <2>1. handler' \in [Handlers -> {NoHandler, Commenting} \cup CreatingSet]
    BY <1>9 DEF Restart, Dies
  <2>2. ASSUME NEW loaded \in SUBSET pages, NEW n \in {0} \cup Ids(loaded), Load(loaded, n)
        PROVE  /\ DOMAIN incidents' \subseteq Nat \ {0}
               /\ \A i \in DOMAIN incidents' : incidents'[i] \in IncidentSet
               /\ counter' \in Nat
               /\ complete' \in BOOLEAN
    <3>1. \A p \in loaded : p \in PageSet /\ p.id \in Nat \ {0}
      BY DEF Shapes, PageSet
    <3>2. Ids(loaded) \subseteq Nat \ {0}
      BY <3>1 DEF Ids
    <3>3. PICK last \in LastOf(loaded) : incidents' = [i \in Ids(loaded) |-> Rehydrated(last[i])]
      BY <2>2 DEF Load
    <3>4. ASSUME NEW i \in Ids(loaded) PROVE Rehydrated(last[i]) \in IncidentSet
      <4>1. last[i] \in loaded
        BY DEF LastOf
      <4> QED BY <3>1, <4>1, RehydratedShape
    <3>5. DOMAIN incidents' = Ids(loaded) /\ \A i \in Ids(loaded) : incidents'[i] \in IncidentSet
      BY <3>3, <3>4
    <3>6. counter' \in Nat
      BY <2>2, <3>2 DEF Load
    <3>7. complete' \in BOOLEAN
      BY <2>2 DEF Load
    <3> QED BY <3>2, <3>5, <3>6, <3>7
  <2>3. \E loaded \in SUBSET pages : \E n \in {0} \cup Ids(loaded) : Load(loaded, n)
    BY <1>9 DEF Restart, Answers
  <2>4. late' \subseteq PageSet
    <3>1. ASSUME NEW h \in Handlers, handler[h].pc = "create"
          PROVE  PageOf(handler[h]) \in PageSet
      BY <3>1, CreatingShape, PageShape DEF Creating
    <3> QED BY <1>9, <3>1 DEF Restart, Dies, Shapes
  <2> QED BY <1>9, <2>1, <2>2, <2>3, <2>4 DEF Shapes, Restart, Dies
<1>10. CASE UNCHANGED vars
  BY <1>10 DEF vars, Shapes
<1>11. ASSUME NEW i \in DOMAIN incidents, Assess(i) \/ Close(i) PROVE Shapes'
  <2>1. incidents[i].severity \in Severities
    BY DEF Shapes, IncidentSet
  <2> QED BY <1>7, <1>11, <2>1 DEF Assess, Close
<1> QED BY <1>1, <1>2, <1>3, <1>4, <1>5, <1>6, <1>8, <1>9, <1>10, <1>11, <1>12 DEF Next

-----------------------------------------------------------------------------
(* What each action does to the handlers, as far as ids are concerned.     *)

(* A handler that is creating afterwards was so before, with the same id,  *)
(* birth and alert, unless it has just taken a new id.                           *)
LEMMA HandlersKeep ==
  ASSUME Shapes, Next, NEW g \in Handlers, Creating(g)'
  PROVE  \/ /\ Creating(g)
            /\ handler'[g].id = handler[g].id
            /\ Same(handler'[g], handler[g])
         \/ \E a \in Alerts, t \in Times : ArriveNew(g, a, t)
<1> DEFINE Kept == /\ Creating(g)
                   /\ handler'[g].id = handler[g].id
                   /\ Same(handler'[g], handler[g])
<1> SUFFICES ASSUME ~ \E a \in Alerts, t \in Times : ArriveNew(g, a, t) PROVE Kept
  OBVIOUS
<1>0. handler \in [Handlers -> {NoHandler, Commenting} \cup CreatingSet]
  BY DEF Shapes
<1>1. ASSUME handler'[g] = handler[g] PROVE Kept
  BY <1>1 DEF Creating, Same
<1>2. ASSUME NEW h \in Handlers, NEW a \in Alerts, ArriveJoining(h, a) PROVE Kept
  BY <1>0, <1>1, <1>2 DEF ArriveJoining, Creating
<1>3. ASSUME NEW h \in Handlers, NEW a \in Alerts, NEW t \in Times, ArriveNew(h, a, t) PROVE Kept
  <2>1. h # g
    BY <1>3
  <2> QED BY <1>0, <1>1, <1>3, <2>1 DEF ArriveNew
<1>4. ASSUME NEW h \in Handlers, CreatePage(h) \/ Retry(h) \/ CreateFails(h) PROVE Kept
  <2>1. CASE g # h
    BY <1>0, <1>1, <1>4, <2>1, RetryIs DEF CreatePage, CreateFails
  <2>2. CASE g = h
    <3>1. Creating(g)
      BY <1>4, <2>2 DEF CreatePage, Retry, CreateFails, Loses, Creating
    <3>2. handler[g] \in CreatingSet
      BY <3>1, CreatingShape
    <3>3. \/ \E pc \in {"created", "failed"} : handler'[g] = [handler[g] EXCEPT !.pc = pc]
          \/ handler'[g] = [handler[g] EXCEPT !.pc = "create", !.try = @ + 1]
      BY <1>0, <1>4, <2>2, RetryIs DEF CreatePage, CreateFails
    <3>4. handler'[g].id = handler[g].id /\ Same(handler'[g], handler[g])
      BY <3>2, <3>3 DEF CreatingSet, Same
    <3> QED BY <3>1, <3>4
  <2> QED BY <2>1, <2>2
<1>5. ASSUME NEW h \in Handlers, Store(h) \/ Return(h) PROVE Kept
  <2>1. CASE g # h
    BY <1>0, <1>1, <1>5, <2>1 DEF Store, Return
  <2>2. CASE g = h
    <3>1. handler'[g] \in {NoHandler, Commenting}
      BY <1>0, <1>5, <2>2 DEF Store, Return, Commenting
    <3>2. handler'[g].pc \in {"idle", "comment"}
      BY <3>1 DEF NoHandler, Commenting
    <3> QED BY <3>2 DEF Creating
  <2> QED BY <2>1, <2>2
<1>6. ASSUME NEW i \in DOMAIN incidents, Assess(i) \/ Close(i) PROVE Kept
  BY <1>1, <1>6 DEF Assess, Close, Update
<1>7. CASE Tick
  BY <1>1, <1>7 DEF Tick
<1>8. CASE Restart
  BY <1>8 DEF Restart, Dies, NoHandler, Creating
<1>9. ASSUME NEW p \in late, LatePage(p) PROVE Kept
  BY <1>1, <1>9 DEF LatePage
<1> QED BY <1>2, <1>3, <1>4, <1>5, <1>6, <1>7, <1>8, <1>9 DEF Next

(* Incidents appear in Store, with the id of its handler, and in Restart,  *)
(* with ids up to the counter; otherwise only Update changes them.         *)
LEMMA IncidentsKeep ==
  ASSUME Shapes, Next, ~Restart, NEW i \in DOMAIN incidents'
  PROVE  \/ i \in DOMAIN incidents
         \/ \E h \in Handlers : Store(h) /\ i = handler[h].id
<1>1. ASSUME NEW h \in Handlers, Store(h)
      PROVE  i \in DOMAIN incidents \/ i = handler[h].id
  BY <1>1 DEF Store, With
<1>2. ASSUME NEW j \in DOMAIN incidents, Assess(j) \/ Close(j) PROVE i \in DOMAIN incidents
  BY <1>2 DEF Assess, Close, Update
<1>3. ASSUME UNCHANGED incidents PROVE i \in DOMAIN incidents
  BY <1>3
<1> QED
  BY <1>1, <1>2, <1>3
  DEF Next, ArriveJoining, ArriveNew, CreatePage, Retry, CreateFails, LatePage, Return, Tick

(* The counter only grows, except in Restart.                              *)
LEMMA CounterGrows ==
  ASSUME Shapes, Next, ~Restart
  PROVE  counter' \in Nat /\ counter <= counter'
<1>0. counter \in Nat
  BY DEF Shapes
<1>1. ASSUME UNCHANGED counter PROVE counter' \in Nat /\ counter <= counter'
  BY <1>0, <1>1
<1>2. ASSUME NEW h \in Handlers, NEW a \in Alerts, NEW t \in Times, ArriveNew(h, a, t)
      PROVE  counter' \in Nat /\ counter <= counter'
  BY <1>0, <1>2 DEF ArriveNew
<1>3. ASSUME NEW i \in DOMAIN incidents, Assess(i) \/ Close(i) PROVE UNCHANGED counter
  BY <1>3 DEF Assess, Close, Update
<1> QED
  BY <1>1, <1>2, <1>3
  DEF Next, ArriveJoining, CreatePage, Retry, CreateFails, LatePage, Store, Return, Tick

(* What Restart leaves.                                                    *)
LEMMA RestartLoads ==
  ASSUME Restart
  PROVE  /\ \E loaded \in SUBSET pages :
              /\ Load(loaded, counter')
              /\ \A i \in Ids(loaded) : i <= counter'
         /\ \A h \in Handlers : ~Creating(h)'
         /\ pages' = pages
<1>1. \A h \in Handlers : ~Creating(h)'
  BY DEF Restart, Dies, NoHandler, Creating
<1>2. ASSUME NEW loaded \in Answers, NEW n, Load(loaded, n), \A i \in Ids(loaded) : i <= n
      PROVE  loaded \in SUBSET pages /\ Load(loaded, counter') /\ \A i \in Ids(loaded) : i <= counter'
  <2>1. counter' = n
    BY <1>2 DEF Load
  <2> QED BY <1>2, <2>1 DEF Answers
<1>3. ASSUME Load({}, 0)
      PROVE  Load({}, counter') /\ \A i \in Ids({}) : i <= counter'
  <2>1. counter' = 0
    BY <1>3 DEF Load
  <2> QED BY <1>3, <2>1 DEF Ids
<1> QED BY <1>1, <1>2, <1>3 DEF Restart, Dies

(* The id that ArriveNew gives its handler.                                *)
LEMMA NewId ==
  ASSUME Shapes, NEW g \in Handlers, NEW a \in Alerts, NEW t \in Times, ArriveNew(g, a, t)
  PROVE  /\ handler'[g].id = counter + 1
         /\ counter' = counter + 1
         /\ \A h \in Handlers \ {g} : handler'[h] = handler[h]
  BY DEF Shapes, ArriveNew, Asking

LEMMA StoreEnds ==
  ASSUME Shapes, NEW h \in Handlers, Store(h)
  PROVE  Creating(h) /\ ~Creating(h)'
<1>1. Creating(h)
  BY DEF Store, Creating
<1>2. handler'[h] = [pc |-> "comment"]
  BY DEF Shapes, Store
<1>3. handler'[h].pc = "comment"
  BY <1>2
<1> QED BY <1>1, <1>3 DEF Creating

LEMMA MemoryStep == Shapes /\ Memory /\ [Next]_vars => Memory'
<1> SUFFICES ASSUME Shapes, Memory, [Next]_vars PROVE Memory'
  OBVIOUS
<1>1. CASE UNCHANGED vars
  BY <1>1 DEF vars, Memory, Creating
<1>2. CASE Restart
  <2>1. \A h \in Handlers : ~Creating(h)'
    BY <1>2, RestartLoads
  <2>2. \A i \in DOMAIN incidents' : i <= counter'
    BY <1>2, RestartLoads DEF Load
  <2> QED BY <2>1, <2>2 DEF Memory
<1>3. CASE Next /\ ~Restart
  <2>0. /\ counter \in Nat /\ counter' \in Nat /\ counter <= counter'
        /\ DOMAIN incidents \subseteq Nat
        /\ \A h \in Handlers : Creating(h) => handler[h].id \in Nat
    BY <1>3, CounterGrows, CreatingShape DEF Shapes, CreatingSet
  <2>1. ASSUME NEW i \in DOMAIN incidents' PROVE i <= counter'
    <3>1. CASE i \in DOMAIN incidents
      BY <2>0, <3>1 DEF Memory
    <3>2. ASSUME NEW h \in Handlers, Store(h), i = handler[h].id PROVE i <= counter'
      BY <2>0, <3>2, StoreEnds DEF Memory
    <3> QED BY <1>3, <3>1, <3>2, IncidentsKeep
  <2>2. ASSUME NEW g \in Handlers, Creating(g)'
        PROVE  handler'[g].id <= counter' /\ handler'[g].id \notin DOMAIN incidents'
    <3>1. CASE Creating(g) /\ handler'[g].id = handler[g].id
      <4>1. handler[g].id <= counter /\ handler[g].id \notin DOMAIN incidents
        BY <3>1 DEF Memory
      <4>2. ASSUME NEW h \in Handlers, Store(h), handler[g].id = handler[h].id PROVE FALSE
        BY <2>2, <3>1, <4>2, StoreEnds DEF Memory
      <4> QED BY <1>3, <2>0, <3>1, <4>1, <4>2, IncidentsKeep
    <3>2. ASSUME NEW a \in Alerts, NEW t \in Times, ArriveNew(g, a, t)
          PROVE  handler'[g].id <= counter' /\ handler'[g].id \notin DOMAIN incidents'
      <4>1. incidents' = incidents
        BY <3>2 DEF ArriveNew
      <4> QED BY <2>0, <3>2, <4>1, NewId DEF Memory
    <3> QED BY <1>3, <2>2, <3>1, <3>2, HandlersKeep
  <2>3. ASSUME NEW g \in Handlers, NEW h \in Handlers, Creating(g)', Creating(h)',
               handler'[g].id = handler'[h].id, g # h
        PROVE  FALSE
    <3>1. ASSUME NEW k \in Handlers, NEW l \in Handlers, k # l, Creating(l)',
                 handler'[k].id = handler'[l].id, NEW a \in Alerts, NEW t \in Times,
                 ArriveNew(k, a, t)
          PROVE  FALSE
      <4>1. handler'[l] = handler[l] /\ Creating(l)
        BY <3>1, NewId DEF Creating
      <4>2. handler[l].id <= counter /\ handler[l].id = counter + 1
        BY <3>1, <4>1, NewId DEF Memory
      <4> QED BY <2>0, <4>1, <4>2
    <3>2. /\ Creating(g) /\ handler'[g].id = handler[g].id
          /\ Creating(h) /\ handler'[h].id = handler[h].id
      BY <1>3, <2>3, <3>1, HandlersKeep
    <3> QED BY <2>3, <3>2 DEF Memory
  <2> QED BY <2>1, <2>2, <2>3 DEF Memory
<1> QED BY <1>1, <1>2, <1>3

LEMMA CacheStep == Shapes /\ Memory /\ CacheBacked /\ [Next]_vars => CacheBacked'
<1> SUFFICES ASSUME Shapes, Memory, CacheBacked, [Next]_vars PROVE CacheBacked'
  OBVIOUS
<1>1. ASSUME UNCHANGED incidents, UNCHANGED cache PROVE CacheBacked'
  BY <1>1 DEF CacheBacked
<1>2. ASSUME NEW a, UNCHANGED incidents, Purge(a) PROVE CacheBacked'
  BY <1>2 DEF CacheBacked, Purge
<1>3. ASSUME NEW h \in Handlers, Store(h) PROVE CacheBacked'
  <2> DEFINE c == handler[h]
             new == Made(c)
  <2>1. c.id \notin DOMAIN incidents
    BY <1>3, StoreEnds DEF Memory
  <2>2. incidents' = With(incidents, c.id, new)
    BY <1>3 DEF Store
  <2>3. cache' = With(cache, c.alert.fp, [id |-> c.id, at |-> now])
    BY <1>3 DEF Store
  <2>4. new.fp = c.alert.fp
    BY <1>3, CreatingShape, StoreEnds, MadeShape
  <2> HIDE DEF c, new
  <2>5. ASSUME NEW f \in DOMAIN cache'
        PROVE  cache'[f].id \in DOMAIN incidents' /\ incidents'[cache'[f].id].fp = f
    <3>1. CASE f = c.alert.fp
      <4>1. cache'[f] = [id |-> c.id, at |-> now]
        BY <2>3, <3>1 DEF With
      <4>2. cache'[f].id = c.id
        BY <4>1
      <4>3. c.id \in DOMAIN incidents' /\ incidents'[c.id] = new
        BY <2>2 DEF With
      <4> QED BY <2>4, <3>1, <4>2, <4>3
    <3>2. CASE f # c.alert.fp
      <4>1. f \in DOMAIN cache /\ cache'[f] = cache[f]
        BY <2>3, <2>5, <3>2 DEF With
      <4>2. cache[f].id \in DOMAIN incidents /\ incidents[cache[f].id].fp = f
        BY <4>1 DEF CacheBacked
      <4>3. /\ cache[f].id \in DOMAIN incidents'
            /\ incidents'[cache[f].id] = incidents[cache[f].id]
        BY <2>1, <2>2, <4>2 DEF With
      <4> QED BY <4>1, <4>2, <4>3
    <3> QED BY <3>1, <3>2
  <2> QED BY <2>5 DEF CacheBacked
<1>4. ASSUME NEW i \in DOMAIN incidents, NEW s \in Severities, NEW a \in BOOLEAN, Update(i, s, a)
      PROVE  CacheBacked'
  <2>1. UNCHANGED cache
    BY <1>4 DEF Update
  <2>2. /\ DOMAIN incidents' = DOMAIN incidents
        /\ \A j \in DOMAIN incidents : incidents'[j].fp = incidents[j].fp
    BY <1>4, UpdateKeeps
  <2> QED BY <2>1, <2>2 DEF CacheBacked
<1>5. ASSUME NEW i \in DOMAIN incidents, Assess(i) \/ Close(i) PROVE CacheBacked'
  <2>1. incidents[i].severity \in Severities
    BY DEF Shapes, IncidentSet
  <2> QED BY <1>4, <1>5, <2>1 DEF Assess, Close
<1>6. CASE Restart
  <2>1. DOMAIN cache' = {}
    BY <1>6 DEF Restart, Dies
  <2> QED BY <2>1 DEF CacheBacked
<1>7. CASE UNCHANGED vars
  BY <1>1, <1>7 DEF vars
<1> QED
  BY <1>1, <1>2, <1>3, <1>5, <1>6, <1>7
  DEF Next, ArriveJoining, ArriveNew, CreatePage, Retry, CreateFails, LatePage, Return, Tick

-----------------------------------------------------------------------------
(* The pages.                                                              *)

(* A page was there before, or a handler has asked for it.                 *)
Origin(q) == \/ \E p \in AllPages : p.id = q.id /\ Same(p, q)
             \/ \E h \in Handlers : Creating(h) /\ handler[h].id = q.id /\ Same(handler[h], q)

LEMMA PagesKeep ==
  ASSUME Shapes, Next, ~Restart, NEW q \in AllPages'
  PROVE  Origin(q)
<1> USE DEF AllPages
<1>1. ASSUME q \in AllPages PROVE Origin(q)
  BY <1>1 DEF Origin, Same
<1>2. ASSUME NEW h \in Handlers, handler[h].pc \in {"create", "created"}, q = PageOf(handler[h])
      PROVE  Origin(q)
  <2>1. Creating(h)
    BY <1>2 DEF Creating
  <2> QED BY <1>2, <2>1, CreatingShape, PageShape DEF Origin, Same
<1>3. ASSUME NEW h \in Handlers, CreatePage(h) PROVE Origin(q)
  BY <1>1, <1>2, <1>3 DEF CreatePage
<1>4. ASSUME NEW h \in Handlers, Retry(h) \/ CreateFails(h) PROVE Origin(q)
  BY <1>1, <1>2, <1>4 DEF Retry, CreateFails, Loses
<1>5. ASSUME NEW p \in late, LatePage(p) PROVE Origin(q)
  BY <1>1, <1>5 DEF LatePage
<1>6. ASSUME NEW i \in DOMAIN incidents, Assess(i) \/ Close(i) PROVE Origin(q)
  <2>1. incidents[i].severity \in Severities
    BY DEF Shapes, IncidentSet
  <2>2. PICK s \in Severities, a \in BOOLEAN : Update(i, s, a)
    BY <1>6, <2>1 DEF Assess, Close
  <2>3. late' = late
    BY <2>2 DEF Update
  <2>4. PICK F \in [pages -> PageSet] :
          /\ \A p \in pages : F[p].id = p.id /\ Same(F[p], p)
          /\ pages' = {F[p] : p \in pages}
    BY <2>2, UpdateKeeps
  <2>5. CASE q \in pages'
    BY <2>4, <2>5 DEF Origin, Same
  <2> QED BY <1>1, <2>3, <2>5
<1> QED
  BY <1>1, <1>3, <1>4, <1>5, <1>6
  DEF Next, ArriveJoining, ArriveNew, Store, Return, Tick

(* An incident stays, and stays of its alert.                              *)
LEMMA IncidentsStay ==
  ASSUME Shapes, Memory, Next, ~Restart, NEW i \in DOMAIN incidents
  PROVE  /\ i \in DOMAIN incidents'
         /\ incidents'[i].words = incidents[i].words
         /\ incidents'[i].source = incidents[i].source
         /\ incidents'[i].service = incidents[i].service
         /\ incidents'[i].labels = incidents[i].labels
         /\ incidents'[i].fp = incidents[i].fp
<1> DEFINE Stays == /\ i \in DOMAIN incidents'
                    /\ incidents'[i].words = incidents[i].words
                    /\ incidents'[i].source = incidents[i].source
                    /\ incidents'[i].service = incidents[i].service
                    /\ incidents'[i].labels = incidents[i].labels
                    /\ incidents'[i].fp = incidents[i].fp
<1>1. ASSUME incidents' = incidents PROVE Stays
  BY <1>1
<1>2. ASSUME NEW h \in Handlers, Store(h) PROVE Stays
  <2>1. handler[h].id # i
    BY <1>2, StoreEnds DEF Memory
  <2>2. i \in DOMAIN incidents' /\ incidents'[i] = incidents[i]
    BY <1>2, <2>1 DEF Store, With
  <2> QED BY <2>2
<1>3. ASSUME NEW j \in DOMAIN incidents, Assess(j) \/ Close(j) PROVE Stays
  <2>1. incidents[j].severity \in Severities
    BY DEF Shapes, IncidentSet
  <2>2. \E s \in Severities, a \in BOOLEAN : Update(j, s, a)
    BY <1>3, <2>1 DEF Assess, Close
  <2> QED BY <2>2, UpdateKeeps
<1> QED
  BY <1>1, <1>2, <1>3
  DEF Next, ArriveJoining, ArriveNew, CreatePage, Retry, CreateFails, LatePage, Return, Tick

(* A handler that is creating goes on with its id, until Store uses it.    *)
LEMMA HandlersGoOn ==
  ASSUME Shapes, Next, ~Restart, NEW h \in Handlers, Creating(h)
  PROVE  \/ Creating(h)' /\ handler'[h].id = handler[h].id
         \/ handler[h].id \in DOMAIN incidents'
<1> DEFINE Goes == \/ Creating(h)' /\ handler'[h].id = handler[h].id
                   \/ handler[h].id \in DOMAIN incidents'
<1>0. /\ handler \in [Handlers -> {NoHandler, Commenting} \cup CreatingSet]
      /\ handler[h].pc # "idle" /\ handler[h].pc # "comment"
  BY DEF Shapes, Creating
<1>1. ASSUME handler'[h] = handler[h] PROVE Goes
  BY <1>1 DEF Creating
<1>2. ASSUME NEW g \in Handlers, NEW a \in Alerts, NEW t \in Times,
             ArriveJoining(g, a) \/ ArriveNew(g, a, t)
      PROVE  Goes
  <2>1. handler[g] = NoHandler
    BY <1>2 DEF ArriveJoining, ArriveNew, Arrives
  <2>2. g # h
    BY <1>0, <2>1 DEF NoHandler
  <2> QED BY <1>0, <1>1, <1>2, <2>2 DEF ArriveJoining, ArriveNew
<1>3. ASSUME NEW g \in Handlers, CreatePage(g) \/ Retry(g) \/ CreateFails(g) PROVE Goes
  <2>1. CASE g = h
    <3>1. handler[h] \in CreatingSet
      BY CreatingShape
    <3>2. \/ \E pc \in {"created", "failed"} : handler'[h] = [handler[h] EXCEPT !.pc = pc]
          \/ handler'[h] = [handler[h] EXCEPT !.pc = "create", !.try = @ + 1]
      BY <1>0, <1>3, <2>1, RetryIs DEF CreatePage, CreateFails
    <3>3. handler'[h].pc \in {"create", "created", "failed"} /\ handler'[h].id = handler[h].id
      BY <3>1, <3>2 DEF CreatingSet
    <3> QED BY <3>3 DEF Creating
  <2>2. CASE g # h
    BY <1>0, <1>1, <1>3, <2>2, RetryIs DEF CreatePage, CreateFails
  <2> QED BY <2>1, <2>2
<1>4. ASSUME NEW p \in late, LatePage(p) PROVE Goes
  BY <1>1, <1>4 DEF LatePage
<1>9. ASSUME NEW a \in Alerts, NEW g \in Handlers, ArriveJoining(g, a) PROVE Goes
  <2>1. handler[g] = NoHandler
    BY <1>9 DEF ArriveJoining, Arrives
  <2>2. g # h
    BY <1>0, <2>1 DEF NoHandler
  <2> QED BY <1>0, <1>1, <1>9, <2>2 DEF ArriveJoining
<1>5. ASSUME NEW g \in Handlers, Store(g) PROVE Goes
  <2>1. CASE g = h
    BY <1>5, <2>1 DEF Store, With
  <2>2. CASE g # h
    BY <1>0, <1>1, <1>5, <2>2 DEF Store
  <2> QED BY <2>1, <2>2
<1>6. ASSUME NEW g \in Handlers, Return(g) PROVE Goes
  <2>1. g # h
    BY <1>0, <1>6 DEF Return
  <2> QED BY <1>0, <1>1, <1>6, <2>1 DEF Return
<1>7. ASSUME NEW i \in DOMAIN incidents, Assess(i) \/ Close(i) PROVE Goes
  BY <1>1, <1>7 DEF Assess, Close, Update
<1>8. CASE Tick
  BY <1>1, <1>8 DEF Tick
<1> QED BY <1>2, <1>3, <1>4, <1>5, <1>6, <1>7, <1>8, <1>9 DEF Next

LEMMA NotionStep == Shapes /\ Memory /\ Notion /\ [Next]_vars => Notion'
<1> SUFFICES ASSUME Shapes, Memory, Notion, [Next]_vars, complete'
             PROVE  /\ \A p \in AllPages' : p.id <= counter'
                    /\ \A p \in AllPages', h \in Handlers :
                         Creating(h)' /\ p.id = handler'[h].id => Same(p, handler'[h])
                    /\ \A p, q \in AllPages' : p.id = q.id => Same(p, q)
                    /\ \A p \in AllPages' : Known(p)'
                    /\ \A p \in AllPages' :
                         p.id \in DOMAIN incidents' => Like(incidents'[p.id], p.alert)
  BY DEF Notion, Same
<1>1. CASE UNCHANGED vars
  BY <1>1 DEF vars, Notion, Creating, Known, AllPages
<1>2. CASE Restart
  <2>1. PICK loaded \in SUBSET pages :
          Load(loaded, counter') /\ \A i \in Ids(loaded) : i <= counter'
    BY <1>2, RestartLoads
  <2>2. /\ \A h \in Handlers : ~Creating(h)'
        /\ pages' = pages
    BY <1>2, RestartLoads
  <2>3. complete /\ loaded = pages /\ late' = {}
    BY <2>1 DEF Load
  <2>4. PICK last \in LastOf(pages) : incidents' = [i \in Ids(pages) |-> Rehydrated(last[i])]
    BY <2>1, <2>3 DEF Load
  <2>5. \A p, q \in pages : p.id = q.id => Same(p, q)
    BY <2>3 DEF Notion, AllPages
  <2>6. ASSUME NEW p \in pages
        PROVE  p.id \in DOMAIN incidents' /\ p.id <= counter' /\ Like(incidents'[p.id], p.alert)
    <3>1. p.id \in Ids(pages)
      BY DEF Ids
    <3>2. last[p.id] \in pages /\ last[p.id].id = p.id
      BY <3>1 DEF LastOf
    <3>3. incidents'[p.id] = Rehydrated(last[p.id])
      BY <2>4, <3>1
    <3>4. last[p.id] \in PageSet /\ last[p.id].alert = p.alert
      BY <2>5, <3>2 DEF Shapes, Same
    <3>5. Like(incidents'[p.id], p.alert)
      BY <3>3, <3>4, RehydratedShape
    <3> QED BY <2>1, <2>3, <2>4, <3>1, <3>5
  <2>7. AllPages' = pages
    BY <2>2, <2>3 DEF AllPages
  <2> QED BY <2>2, <2>5, <2>6, <2>7 DEF Known
<1>3. CASE Next /\ ~Restart
  <2>0. complete
    BY <1>3
    DEF Next, ArriveJoining, ArriveNew, CreatePage, Retry, CreateFails, LatePage, Store, Return,
        Tick, Assess, Close, Update
  <2>1. /\ counter \in Nat /\ counter' \in Nat /\ counter <= counter'
        /\ \A p \in AllPages : p.id \in Nat /\ p.id <= counter
        /\ \A h \in Handlers : Creating(h) => handler[h].id \in Nat /\ handler[h].id <= counter
    BY <1>3, <2>0, CounterGrows, CreatingShape
    DEF Shapes, CreatingSet, PageSet, Notion, Memory, AllPages
  <2>2. ASSUME NEW q \in AllPages' PROVE Origin(q) /\ q.id <= counter /\ q.id <= counter'
    <3>1. Origin(q)
      BY <1>3, <2>2, PagesKeep
    <3>2. q.id \in Nat /\ q.id <= counter
      BY <2>1, <3>1 DEF Origin
    <3> QED BY <2>1, <3>1, <3>2
  <2>3. ASSUME NEW q \in AllPages', NEW g \in Handlers, Creating(g), q.id = handler[g].id
        PROVE  Same(q, handler[g])
    <3>1. ASSUME NEW p \in AllPages, p.id = q.id, Same(p, q) PROVE Same(q, handler[g])
      <4>1. Same(p, handler[g])
        BY <2>0, <2>3, <3>1 DEF Notion
      <4> QED BY <3>1, <4>1 DEF Same
    <3>2. ASSUME NEW h \in Handlers, Creating(h), handler[h].id = q.id, Same(handler[h], q)
          PROVE  Same(q, handler[g])
      <4>1. g = h
        BY <2>3, <3>2 DEF Memory
      <4> QED BY <3>2, <4>1 DEF Same
    <3> QED BY <2>2, <3>1, <3>2 DEF Origin
  <2>4. ASSUME NEW q \in AllPages', NEW g \in Handlers, Creating(g)', q.id = handler'[g].id
        PROVE  Same(q, handler'[g])
    <3>1. ASSUME NEW a \in Alerts, NEW t \in Times, ArriveNew(g, a, t) PROVE FALSE
      <4>1. q.id = counter + 1
        BY <2>4, <3>1, NewId
      <4> QED BY <2>1, <2>2, <4>1
    <3>2. Creating(g) /\ handler'[g].id = handler[g].id /\ Same(handler'[g], handler[g])
      BY <1>3, <2>4, <3>1, HandlersKeep
    <3>3. Same(q, handler[g])
      BY <2>3, <2>4, <3>2
    <3> QED BY <3>2, <3>3 DEF Same
  <2>5. ASSUME NEW p \in AllPages', NEW q \in AllPages', p.id = q.id PROVE Same(p, q)
    <3>1. ASSUME NEW h \in Handlers, Creating(h), handler[h].id = p.id PROVE Same(p, q)
      <4>1. Same(p, handler[h]) /\ Same(q, handler[h])
        BY <2>3, <2>5, <3>1
      <4> QED BY <4>1 DEF Same
    <3>2. ASSUME NEW r \in AllPages, r.id = p.id, Same(r, p),
                 NEW t \in AllPages, t.id = q.id, Same(t, q)
          PROVE  Same(p, q)
      <4>1. Same(r, t)
        BY <2>0, <2>5, <3>2 DEF Notion
      <4> QED BY <3>2, <4>1 DEF Same
    <3>3. Origin(p) /\ Origin(q)
      BY <2>2
    <3> QED BY <2>5, <3>1, <3>2, <3>3 DEF Origin
  <2>6. ASSUME NEW q \in AllPages' PROVE Known(q)'
    <3>1. CASE q.id \in DOMAIN incidents
      BY <1>3, <3>1, IncidentsStay DEF Known
    <3>2. ASSUME NEW h \in Handlers, Creating(h), handler[h].id = q.id PROVE Known(q)'
      BY <1>3, <3>2, HandlersGoOn DEF Known
    <3>3. Known(q)
      BY <2>0, <2>2 DEF Origin, Notion, Known
    <3> QED BY <3>1, <3>2, <3>3 DEF Known
  <2>7. ASSUME NEW q \in AllPages', q.id \in DOMAIN incidents' PROVE Like(incidents'[q.id], q.alert)
    <3>1. CASE q.id \in DOMAIN incidents
      <4>1. \A h \in Handlers : Creating(h) => handler[h].id # q.id
        BY <3>1 DEF Memory
      <4>2. PICK p \in AllPages : p.id = q.id /\ Same(p, q)
        BY <2>2, <2>7, <4>1 DEF Origin
      <4>3. Like(incidents[q.id], q.alert)
        BY <2>0, <3>1, <4>2 DEF Notion, Same
      <4> QED BY <1>3, <3>1, <4>3, IncidentsStay DEF Like
    <3>2. ASSUME NEW h \in Handlers, Store(h), q.id = handler[h].id
          PROVE  Like(incidents'[q.id], q.alert)
      <4>1. Creating(h)
        BY <3>2, StoreEnds
      <4>2. q.alert = handler[h].alert
        BY <2>3, <2>7, <3>2, <4>1 DEF Same
      <4>3. incidents'[q.id] = Made(handler[h])
        BY <3>2 DEF Store, With
      <4>4. handler[h] \in CreatingSet
        BY <4>1, CreatingShape
      <4> QED BY <4>2, <4>3, <4>4, MadeShape
    <3> QED BY <1>3, <2>7, <3>1, <3>2, IncidentsKeep
  <2> QED BY <2>2, <2>4, <2>5, <2>6, <2>7
<1> QED BY <1>1, <1>2, <1>3

-----------------------------------------------------------------------------
LEMMA InitInv == Init => IInv
<1> SUFFICES ASSUME Init PROVE IInv
  OBVIOUS
<1>1. DOMAIN incidents = {} /\ DOMAIN cache = {} /\ pages = {} /\ late = {}
  BY DEF Init
<1>2. \A h \in Handlers : ~Creating(h)
  BY DEF Init, NoHandler, Creating
<1>3. Shapes
  BY <1>1 DEF Init, Shapes
<1> QED BY <1>1, <1>2, <1>3 DEF IInv, Memory, CacheBacked, Notion, AllPages

(* The inductive invariant.                                                *)
THEOREM IntakeInvariant == Spec => []IInv
<1>1. IInv /\ [Next]_vars => IInv'
  BY ShapesStep, MemoryStep, CacheStep, NotionStep DEF IInv
<1> QED BY InitInv, <1>1, PTL DEF Spec

(* The deduplication cache never dangles: create_incident's fall-through   *)
(* for an unknown incident is dead code.                                   *)
THEOREM CacheAlwaysBacked == Spec => []CacheBacked
<1>1. IInv => CacheBacked
  BY DEF IInv
<1> QED BY IntakeInvariant, <1>1, PTL

(* No two incidents have one id in Notion, copies that a repeated creation *)
(* left included, as long as every restart saw all pages.                  *)
THEOREM IdsAlwaysUnique == Spec => []IdsUnique
<1>1. IInv => IdsUnique
  BY DEF IInv, Notion, IdsUnique, AllPages, Same
<1> QED BY IntakeInvariant, <1>1, PTL

(* No page is orphaned, under the same condition.                          *)
THEOREM PagesAlwaysKnown == Spec => []PagesKnown
<1>1. IInv => PagesKnown
  BY DEF IInv, Notion, PagesKnown, Known, AllPages
<1> QED BY IntakeInvariant, <1>1, PTL

(* Storing an incident overwrites none, unconditionally.                   *)
THEOREM StoresAreFresh == Spec => StoreIsFresh
<1>1. IInv => \A h \in Handlers : Store(h) => handler[h].id \notin DOMAIN incidents
  BY StoreEnds DEF IInv, Memory
<1> QED BY IntakeInvariant, <1>1, PTL DEF StoreIsFresh

-----------------------------------------------------------------------------
(* An alert scores at least 2.0 against an incident that is like it if     *)
(* title and service count, and exactly that if one of them does with the  *)
(* source and the severity, or one label.                                  *)
LEMMA SelfSimilar ==
  ASSUME NEW a \in Alerts, NEW inc \in IncidentSet, Like(inc, a),
         NEW titled, titled = (a.words # {}),
         NEW served, served = (a.service # Empty /\ (inc.fp = Empty => a.service = Unknown)),
         NEW hinted, hinted = (inc.severity = a.severity \/ (inc.fp # Empty /\ a.labels # {})),
         (titled /\ served) \/ ((titled \/ served) /\ hinted)
  PROVE  Alike(a, inc)
<1> DEFINE n == Cardinality(a.words)
           m == Larger(1, Larger(n, n))
           service == IF a.service # Empty /\ a.service = inc.service THEN 15 ELSE 0
           severity == IF a.severity = inc.severity THEN 3 ELSE 0
           source == IF a.source = inc.source THEN 2 ELSE 0
           labels == Cardinality(a.labels \cap inc.labels)
           k == service + severity + source + 3 * labels
<1>1. n \in Nat /\ (titled => n >= 1) /\ IsFiniteSet(a.labels)
  <2>1. IsFiniteSet(a.words) /\ IsFiniteSet(a.labels)
    BY ManagerAssumption
  <2>2. n \in Nat /\ (n = 0 <=> a.words = {})
    BY <2>1, FS_CardinalityType, FS_EmptySet
  <2>3. a.words # {} => n >= 1
    BY <2>2
  <2> QED BY <2>1, <2>2, <2>3
<1>2. labels \in Nat /\ IsFiniteSet(a.labels \cap inc.labels)
  BY <1>1, FS_Intersection, FS_CardinalityType
<1>3. a.words \cap inc.words = a.words /\ Cardinality(inc.words) = n
  BY DEF Like
<1>4. service \in {0, 15} /\ severity \in {0, 3} /\ source = 2
  BY DEF Like
<1>5. served => service = 15
  BY DEF Like
<1>6. hinted => severity = 3 \/ labels >= 1
  <2>1. CASE inc.severity = a.severity
    BY <2>1
  <2>2. CASE inc.fp # Empty /\ a.labels # {}
    <3>1. a.labels \cap inc.labels # {}
      BY <2>2 DEF Like
    <3> QED BY <1>2, <3>1, FS_EmptySet
  <2> QED BY <2>1, <2>2
<1>7. m \in Nat /\ m >= 1 /\ (titled => m = n)
  BY <1>1 DEF Larger
<1>8. Score(a, inc) = m * k + 15 * n /\ Scale(a, inc) = m
  BY <1>3 DEF Score, Scale
<1>9. served \/ titled
  OBVIOUS
<1>10. (served /\ titled) \/ hinted
  OBVIOUS
<1> HIDE DEF n, service, severity, source, labels, m
<1>11. k \in Nat /\ k >= 2 /\ (served => k >= 17) /\ (hinted => k >= 5)
       /\ (served /\ hinted => k >= 20)
  BY <1>2, <1>4, <1>5, <1>6
<1> HIDE DEF k
<1>12. m * k + 15 * n >= 20 * m
  <2>1. CASE titled
    <3>1. k >= 5 /\ n = m
      BY <1>7, <1>10, <1>11, <2>1
    <3>2. PICK d \in Nat : k = d + 5
      <4>1. k - 5 \in Nat /\ k = (k - 5) + 5
        BY <1>11, <3>1
      <4> QED BY <4>1
    <3>3. m * k = m * d + 5 * m /\ m * d \in Nat
      BY <1>7, <3>2
    <3> QED BY <1>7, <3>1, <3>3
  <2>2. CASE ~titled
    <3>1. k >= 20
      BY <1>9, <1>10, <1>11, <2>2
    <3>2. PICK d \in Nat : k = d + 20
      <4>1. k - 20 \in Nat /\ k = (k - 20) + 20
        BY <1>11, <3>1
      <4> QED BY <4>1
    <3>3. m * k = m * d + 20 * m /\ m * d \in Nat
      BY <1>7, <3>2
    <3> QED BY <1>1, <1>7, <3>3
  <2> QED BY <2>1, <2>2
<1> QED BY <1>8, <1>12 DEF Alike

(* A repeated alert joins its incident as long as that is active and       *)
(* young, after a restart too, if enough of it is there to be compared: an *)
(* alert without title words, with a service that a restart loses or with  *)
(* a severity changed since needs the other signals.                       *)
THEOREM RepeatsAlwaysJoin == Spec => []RepeatsJoin
<1>1. IInv => RepeatsJoin
  <2> DEFINE titled(a) == a.words # {}
             served(a, inc) == a.service # Empty /\ (inc.fp = Empty => a.service = Unknown)
             hinted(a, inc) == inc.severity = a.severity \/ (inc.fp # Empty /\ a.labels # {})
  <2> SUFFICES ASSUME IInv, NEW i \in Candidates, NEW p \in pages, p.id = i, complete,
                      \/ titled(p.alert) /\ served(p.alert, incidents[i])
                      \/ /\ titled(p.alert) \/ served(p.alert, incidents[i])
                         /\ hinted(p.alert, incidents[i])
               PROVE  i \in Groups(p.alert)
    BY DEF RepeatsJoin
  <2>1. i \in DOMAIN incidents
    BY DEF Candidates
  <2>2. incidents[i] \in IncidentSet /\ p.alert \in Alerts
    BY <2>1 DEF IInv, Shapes, PageSet
  <2>3. Like(incidents[i], p.alert)
    BY <2>1 DEF IInv, Notion, AllPages
  <2>4. Alike(p.alert, incidents[i])
    BY <2>2, <2>3, SelfSimilar
  <2> QED BY <2>4 DEF Groups
<1> QED BY IntakeInvariant, <1>1, PTL
=============================================================================
