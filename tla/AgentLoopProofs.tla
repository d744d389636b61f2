-------------------------- MODULE AgentLoopProofs --------------------------
(***************************************************************************)
(* Theorems about the agents' tool loops, for any number of loops, rounds, *)
(* tool uses, scores and providers: what a model is sent is a sound        *)
(* transcript, the Commander's conversations stay in pairs, and the page   *)
(* warns of every agent that never came to an answer.                      *)
(***************************************************************************)
EXTENDS AgentLoop, SequenceTheorems, TLAPS

----------------------------------------------------------------------------
(* Transcripts                                                             *)

Messages == [role : {"user", "assistant"}, uses : SUBSET Nat, answers : SUBSET Nat, text : BOOLEAN]

RoleOf(i) == IF i % 2 = 1 THEN "user" ELSE "assistant"

\* A user's message and a reply in turn, each use answered by the next message.
Dialogue(q) ==
    /\ q \in Seq(Messages)
    /\ \A i \in DOMAIN q : q[i].role = RoleOf(i) /\ (i % 2 = 1 => q[i].uses = {})
    /\ q # <<>> => q[1].answers = {}
    /\ \A i \in 2 .. Len(q) : q[i].answers = q[i - 1].uses

Parts(m) == m.text \/ m.uses # {} \/ m.answers # {}
AllParts(q) == \A i \in DOMAIN q : Parts(q[i])

LEMMA Parity ==
  ASSUME NEW n \in Nat
  PROVE  /\ n % 2 \in {0, 1} /\ (n % 2 = 0 <=> (n + 1) % 2 = 1) /\ (n % 2 = 1 <=> (n + 1) % 2 = 0)
OBVIOUS

LEMMA ShiftedParity ==
  ASSUME NEW n \in Nat, NEW k \in Nat, k % 2 = 0
  PROVE  (n + k) % 2 = n % 2
OBVIOUS

LEMMA MessageIs ==
  ASSUME NEW role \in {"user", "assistant"}, NEW uses \in SUBSET Nat, NEW answers \in SUBSET Nat, NEW text \in BOOLEAN
  PROVE  /\ Message(role, uses, answers, text) \in Messages
         /\ Message(role, uses, answers, text).role = role /\ Message(role, uses, answers, text).uses = uses
         /\ Message(role, uses, answers, text).answers = answers /\ Message(role, uses, answers, text).text = text
BY DEF Message, Messages

\* One message more.
LEMMA Appended ==
  ASSUME NEW q, Dialogue(q), NEW m \in Messages, m.role = RoleOf(Len(q) + 1),
         Len(q) % 2 = 0 => m.uses = {},
         m.answers = IF q = <<>> THEN {} ELSE q[Len(q)].uses
  PROVE  /\ Dialogue(Append(q, m)) /\ Len(Append(q, m)) = Len(q) + 1 /\ Append(q, m)[Len(q) + 1] = m
         /\ \A i \in 1 .. Len(q) : Append(q, m)[i] = q[i]
         /\ AllParts(q) /\ Parts(m) => AllParts(Append(q, m))
<1> DEFINE r == Append(q, m)
<1>1. /\ q \in Seq(Messages) /\ Len(q) \in Nat /\ DOMAIN q = 1 .. Len(q)
      /\ r \in Seq(Messages) /\ Len(r) = Len(q) + 1 /\ DOMAIN r = 1 .. Len(q) + 1
      /\ r[Len(q) + 1] = m /\ \A i \in 1 .. Len(q) : r[i] = q[i]
  BY LenProperties, AppendProperties DEF Dialogue
<1>2. q = <<>> <=> Len(q) = 0
  BY <1>1, EmptySeq
<1> HIDE DEF r
<1>3. ASSUME NEW i \in DOMAIN r PROVE i \in DOMAIN q \/ i = Len(q) + 1
  BY <1>1
<1>4. \A i \in DOMAIN r : r[i].role = RoleOf(i) /\ (i % 2 = 1 => r[i].uses = {})
  <2> SUFFICES ASSUME NEW i \in DOMAIN r PROVE r[i].role = RoleOf(i) /\ (i % 2 = 1 => r[i].uses = {})
    OBVIOUS
  <2>1. CASE i \in DOMAIN q
    BY <1>1, <2>1 DEF Dialogue
  <2>2. CASE i = Len(q) + 1
    BY <1>1, <2>2, Parity
  <2> QED  BY <1>3, <2>1, <2>2
<1>5. r[1].answers = {}
  <2>1. CASE Len(q) = 0
    BY <1>1, <1>2, <2>1
  <2>2. CASE Len(q) # 0
    <3>1. r[1] = q[1] /\ q # <<>>
      BY <1>1, <1>2, <2>2
    <3> QED  BY <3>1 DEF Dialogue
  <2> QED  BY <2>1, <2>2
<1>6. \A i \in 2 .. Len(r) : r[i].answers = r[i - 1].uses
  <2> SUFFICES ASSUME NEW i \in 2 .. Len(q) + 1 PROVE r[i].answers = r[i - 1].uses
    BY <1>1
  <2>1. CASE i \in 2 .. Len(q)
    <3>1. r[i] = q[i] /\ r[i - 1] = q[i - 1]
      BY <1>1, <2>1
    <3> QED  BY <2>1, <3>1 DEF Dialogue
  <2>2. CASE i = Len(q) + 1
    <3>1. r[i] = m /\ r[i - 1] = q[Len(q)] /\ q # <<>>
      BY <1>1, <1>2, <2>2
    <3> QED  BY <3>1
  <2> QED  BY <1>1, <2>1, <2>2
<1>7. AllParts(q) /\ Parts(m) => AllParts(r)
  BY <1>1, <1>3 DEF AllParts
<1>8. Dialogue(r)
  BY <1>1, <1>4, <1>5, <1>6 DEF Dialogue
<1> QED  BY <1>1, <1>7, <1>8 DEF r

----------------------------------------------------------------------------
(* Loops                                                                   *)

Fields == {"at", "who", "sent", "round", "provider", "todo", "done", "ids", "list"}
Names == Agents \cup {None, "postmortem", "commander"}

\* What holds of a coroutine's transcript, wherever it is.
TranscriptInv(w) ==
    /\ Dialogue(w.sent) /\ w.sent # <<>>
    /\ w.who # "commander" => AllParts(w.sent)
    /\ w.at = "asking" => Len(w.sent) % 2 = 1 /\ w.done = {}
    /\ w.at = "final" => w.sent[Len(w.sent)].uses = {}
    /\ w.at = "tools" =>
         /\ Len(w.sent) % 2 = 0 /\ w.sent[Len(w.sent)].uses = w.todo \cup w.done
         /\ w.who # "commander" => w.todo \cup w.done # {}

GoodLoop(w) ==
    /\ DOMAIN w = Fields
    /\ w.at \in {"idle", "asking", "tools", "final"} /\ w.who \in Names
    /\ w.at = "idle" <=> w.who = None
    /\ w.ids \in Nat /\ w.list \in Nat
    /\ w.at # "idle" => TranscriptInv(w)

\* The Commander's lists, the stored one and those that queries hold.
PairedList(q) == q \in Seq(Messages) /\ Paired(q) /\ Len(q) % 2 = 0
ChatInv ==
    /\ \E S : lists \in Seq(S)
    /\ \A k \in DOMAIN lists : PairedList(lists[k])
    /\ stored # 0 => stored \in DOMAIN lists
    /\ \A l \in Loops : loop[l].who = "commander" => loop[l].list \in DOMAIN lists

\* The agents that ran before one.
Before(who) ==
    CASE who = "triage" -> {}
      [] who = "correlation" -> {"triage"}
      [] who = "remediation" -> {"triage", "correlation"}
      [] OTHER -> {"triage", "correlation", "remediation"}

PipelineInv ==
    /\ \A l \in Loops : loop[l].who \in Agents => DOMAIN results = Before(loop[l].who) /\ ~summary.posted
    /\ \A l, k \in Loops : loop[l].who \in Agents /\ loop[k].who \in Agents => l = k
    /\ silent \subseteq DOMAIN results /\ \A who \in silent : results[who] = Unstated
    /\ summary.posted => DOMAIN results # {}
    /\ SilentAgentsFlagged

LoopInv ==
    /\ DOMAIN loop = Loops /\ \A l \in Loops : GoodLoop(loop[l])
    /\ ChatInv /\ PipelineInv

\* Coroutine l goes on as w, the others as they are.
Moves(l, w) == DOMAIN loop' = Loops /\ loop'[l] = w /\ \A k \in Loops \ {l} : loop'[k] = loop[k]

LEMMA MovesOn ==
  ASSUME LoopInv, NEW l \in Loops, NEW w, loop' = [loop EXCEPT ![l] = w]
  PROVE  Moves(l, w)
BY DEF LoopInv, Moves

LEMMA IdleIs == GoodLoop(Idle) /\ Idle.who = None /\ Idle.at = "idle"
<1>1. DOMAIN Idle = Fields /\ Idle.at = "idle" /\ Idle.who = None /\ Idle.ids = 0 /\ Idle.list = 0
  BY DEF Idle, Fields
<1> QED  BY <1>1 DEF GoodLoop, Names

\* A step that touches neither the pipeline nor the lists.
LEMMA MoveKeeps ==
  ASSUME LoopInv, NEW l \in Loops, NEW w, Moves(l, w), GoodLoop(w),
         UNCHANGED <<results, silent, summary, tracked, lists, stored>>,
         (w.who = loop[l].who /\ w.list = loop[l].list) \/ w.who \in {None, "postmortem"}
  PROVE  LoopInv'
<1>1. DOMAIN loop' = Loops /\ \A k \in Loops : GoodLoop(loop'[k])
  BY DEF LoopInv, Moves
<1>2. ChatInv'
  <2>1. \A k \in Loops : loop'[k].who = "commander" => loop'[k].list \in DOMAIN lists
    BY DEF LoopInv, ChatInv, Moves, None
  <2> QED  BY <2>1 DEF LoopInv, ChatInv
<1>3. PipelineInv'
  <2>1. \A k \in Loops : loop'[k].who \in Agents => loop[k].who = loop'[k].who
    BY DEF Moves, Agents, None
  <2>2. SilentAgentsFlagged'
    BY DEF LoopInv, PipelineInv, SilentAgentsFlagged
  <2>3. \A k, m \in Loops : loop'[k].who \in Agents /\ loop'[m].who \in Agents => k = m
    BY <2>1 DEF LoopInv, PipelineInv
  <2>4. \A k \in Loops : loop'[k].who \in Agents => DOMAIN results = Before(loop'[k].who) /\ ~summary.posted
    BY <2>1 DEF LoopInv, PipelineInv
  <2> QED  BY <2>2, <2>3, <2>4 DEF LoopInv, PipelineInv
<1> QED  BY <1>1, <1>2, <1>3 DEF LoopInv

\* A conversation in pairs is a dialogue.
LEMMA PairedIsDialogue ==
  ASSUME NEW q, PairedList(q)
  PROVE  Dialogue(q)
<1>1. /\ Question.role = "user" /\ Question.uses = {} /\ Question.answers = {}
      /\ Plain.role = "assistant" /\ Plain.uses = {} /\ Plain.answers = {}
  BY DEF Question, Plain, Message
<1>2. Len(q) \in Nat /\ DOMAIN q = 1 .. Len(q)
  BY LenProperties DEF PairedList
<1>3. \A i \in DOMAIN q : q[i].role = RoleOf(i) /\ q[i].uses = {} /\ q[i].answers = {}
  BY <1>1 DEF PairedList, Paired, RoleOf
<1>4. q # <<>> => 1 \in DOMAIN q
  BY <1>2, EmptySeq DEF PairedList
<1>5. \A i \in 2 .. Len(q) : i \in DOMAIN q /\ i - 1 \in DOMAIN q
  BY <1>2
<1> QED  BY <1>3, <1>4, <1>5 DEF Dialogue, PairedList

LEMMA StartedIs ==
  ASSUME NEW who \in Names \ {None}, NEW history, PairedList(history),
         who = "commander" \/ history = <<>>
  PROVE  /\ GoodLoop(Started(who, history)) /\ Started(who, history).who = who
         /\ DOMAIN Started(who, history) = Fields
<1> DEFINE w == Started(who, history)
           q == Append(history, Question)
<1>1. /\ DOMAIN w = Fields /\ w.at = "asking" /\ w.who = who /\ w.sent = q /\ w.ids = 0 /\ w.list = 0 /\ w.done = {}
  BY DEF Started, Idle, Fields
<1> HIDE DEF w
<1>2. /\ Question \in Messages /\ Question.role = "user" /\ Question.uses = {} /\ Question.answers = {}
      /\ Question.text = TRUE
  BY DEF Question, Message, Messages
<1>3. Len(history) \in Nat /\ Len(history) % 2 = 0
  BY LenProperties DEF PairedList
<1>4. history # <<>> => history[Len(history)].uses = {}
  <2> SUFFICES ASSUME history # <<>> PROVE history[Len(history)].uses = {}
    OBVIOUS
  <2>1. Len(history) \in DOMAIN history
    BY <1>3, LenProperties, EmptySeq DEF PairedList
  <2>2. history[Len(history)] = Plain
    BY <1>3, <2>1 DEF PairedList, Paired
  <2> QED  BY <2>2 DEF Plain, Message
<1>5. /\ Dialogue(q) /\ Len(q) = Len(history) + 1 /\ (AllParts(history) /\ Parts(Question) => AllParts(q))
  <2>1. RoleOf(Len(history) + 1) = "user"
    BY <1>3, Parity DEF RoleOf
  <2>2. Dialogue(history)
    BY PairedIsDialogue
  <2> QED  BY <1>2, <1>4, <2>1, <2>2, Appended
<1>6. who # "commander" => AllParts(q)
  BY <1>2, <1>5 DEF AllParts, Parts
<1>7. q # <<>>
  BY <1>3, <1>5, EmptySeq DEF Dialogue
<1> HIDE DEF q
<1>8. TranscriptInv(w)
  BY <1>1, <1>3, <1>5, <1>6, <1>7, Parity DEF TranscriptInv
<1> QED  BY <1>1, <1>8 DEF GoodLoop, w

\* Steps of one coroutine that leave the pipeline and the lists alone.
LEMMA ChangeKeeps ==
  ASSUME LoopInv, NEW l \in Loops, NEW w, Change(l, w), GoodLoop(w), w.who = loop[l].who, w.list = loop[l].list
  PROVE  LoopInv'
<1>1. loop' = [loop EXCEPT ![l] = w] /\ UNCHANGED <<results, silent, summary, tracked, lists, stored>>
  BY DEF Change, pipelineVars, chatVars
<1> QED  BY <1>1, MovesOn, MoveKeeps

LEMMA StartPostmortemKeeps ==
  ASSUME LoopInv, NEW l \in Loops, StartPostmortem(l)
  PROVE  LoopInv'
<1> DEFINE w == Started("postmortem", <<>>)
<1>1. loop' = [loop EXCEPT ![l] = w] /\ UNCHANGED <<results, silent, summary, tracked, lists, stored>>
  BY DEF StartPostmortem, pipelineVars, chatVars
<1>2. PairedList(<<>>)
  BY DEF PairedList, Paired
<1>3. GoodLoop(w) /\ w.who = "postmortem"
  BY <1>2, StartedIs DEF Names, None
<1> HIDE DEF w
<1> QED  BY <1>1, <1>3, MovesOn, MoveKeeps

LEMMA StartPipelineKeeps ==
  ASSUME LoopInv, NEW l \in Loops, StartPipeline(l)
  PROVE  LoopInv'
<1> DEFINE w == Started("triage", <<>>)
<1>1. /\ AllIdle /\ DOMAIN results = {} /\ loop' = [loop EXCEPT ![l] = w]
      /\ UNCHANGED <<results, silent, summary, tracked, lists, stored>>
  BY DEF StartPipeline, pipelineVars, chatVars
<1>2. PairedList(<<>>)
  BY DEF PairedList, Paired
<1>3. GoodLoop(w) /\ w.who = "triage"
  BY <1>2, StartedIs DEF Names, None, Agents
<1> HIDE DEF w
<1>4. Moves(l, w)
  BY <1>1, MovesOn
<1>5. \A k \in Loops \ {l} : loop'[k].who = None
  BY <1>1, <1>4 DEF AllIdle, LoopInv, GoodLoop, Moves
<1>6. /\ DOMAIN loop' = Loops /\ \A k \in Loops : GoodLoop(loop'[k])
  BY <1>3, <1>4 DEF LoopInv, Moves
<1>7. ChatInv'
  <2>1. \A k \in Loops : loop'[k].who # "commander"
    BY <1>3, <1>4, <1>5 DEF Moves, None
  <2> QED  BY <1>1, <2>1 DEF LoopInv, ChatInv
<1>8. PipelineInv'
  <2>1. \A k \in Loops : loop'[k].who \in Agents => k = l
    BY <1>5 DEF None, Agents
  <2>2. DOMAIN results' = Before("triage") /\ ~summary'.posted
    BY <1>1 DEF LoopInv, PipelineInv, Before
  <2>3. SilentAgentsFlagged'
    BY <2>2 DEF SilentAgentsFlagged
  <2>4. \A k \in Loops : loop'[k].who \in Agents => DOMAIN results' = Before(loop'[k].who) /\ ~summary'.posted
    BY <1>3, <1>4, <2>1, <2>2 DEF Moves
  <2>5. \A k, m \in Loops : loop'[k].who \in Agents /\ loop'[m].who \in Agents => k = m
    BY <2>1
  <2> QED  BY <1>1, <2>2, <2>3, <2>4, <2>5 DEF LoopInv, PipelineInv
<1> QED  BY <1>6, <1>7, <1>8 DEF LoopInv

\* Lists in pairs, and one more.
ArePaired(ls) == (\E S : ls \in Seq(S)) /\ \A k \in DOMAIN ls : PairedList(ls[k])

LEMMA ListAdded ==
  ASSUME NEW ls, ArePaired(ls), NEW q, PairedList(q)
  PROVE  /\ ArePaired(Append(ls, q))
         /\ Len(ls) \in Nat /\ Len(ls) + 1 \in DOMAIN Append(ls, q) /\ Len(Append(ls, q)) = Len(ls) + 1
         /\ DOMAIN ls \subseteq DOMAIN Append(ls, q)
         /\ Append(ls, q)[Len(ls) + 1] = q
<1> DEFINE r == Append(ls, q)
<1>1. PICK S : ls \in Seq(S)
  BY DEF ArePaired
<1>2. ls \in Seq(S \cup {q}) /\ Len(ls) \in Nat /\ DOMAIN ls = 1 .. Len(ls)
  BY <1>1, ElementOfSeq, LenProperties, SeqDef
<1>3. /\ r \in Seq(S \cup {q}) /\ Len(r) = Len(ls) + 1
      /\ \A k \in 1 .. Len(ls) : r[k] = ls[k]
      /\ r[Len(ls) + 1] = q
  BY <1>2, AppendProperties
<1> HIDE DEF r
<1>4. DOMAIN r = 1 .. Len(ls) + 1
  BY <1>2, <1>3, LenProperties
<1>5. ASSUME NEW k \in DOMAIN r PROVE PairedList(r[k])
  <2>1. CASE k \in 1 .. Len(ls)
    BY <1>2, <1>3, <2>1 DEF ArePaired
  <2>2. CASE k = Len(ls) + 1
    BY <1>3, <2>2
  <2> QED  BY <1>2, <1>4, <2>1, <2>2
<1>6. ArePaired(r)
  BY <1>3, <1>5 DEF ArePaired
<1> QED  BY <1>2, <1>3, <1>4, <1>6 DEF r

LEMMA AskKeeps ==
  ASSUME LoopInv, NEW l \in Loops, AskCommander(l)
  PROVE  LoopInv'
<1> DEFINE mine == IF stored = 0 THEN Len(lists) + 1 ELSE stored
           w == [Started("commander", lists'[mine]) EXCEPT !.list = mine]
<1>1. /\ lists' = (IF stored = 0 THEN Append(lists, <<>>) ELSE lists) /\ loop' = [loop EXCEPT ![l] = w]
      /\ UNCHANGED <<results, silent, summary, tracked, stored>> /\ ChatInv
  BY DEF AskCommander, pipelineVars, LoopInv
<1>2. PairedList(<<>>) /\ ArePaired(lists)
  BY <1>1 DEF PairedList, Paired, ChatInv, ArePaired
<1>3. /\ ArePaired(lists')
      /\ mine \in DOMAIN lists' /\ mine \in Nat /\ DOMAIN lists \subseteq DOMAIN lists'
  <2>1. CASE stored = 0
    BY <1>1, <1>2, <2>1, ListAdded
  <2>2. CASE stored # 0
    <3>1. lists' = lists /\ mine = stored /\ stored \in DOMAIN lists
      BY <1>1, <2>2 DEF ChatInv
    <3>2. stored \in Nat
      BY <1>1, <3>1, LenProperties DEF ChatInv
    <3> QED  BY <1>2, <3>1, <3>2
  <2> QED  BY <2>1, <2>2
<1>4. PairedList(lists'[mine])
  BY <1>3 DEF ArePaired
<1> DEFINE v == Started("commander", lists'[mine])
<1>5. GoodLoop(v) /\ v.who = "commander" /\ DOMAIN v = Fields
  BY <1>4, StartedIs DEF Names, None
<1>6. w = [v EXCEPT !.list = mine]
  OBVIOUS
<1> HIDE DEF v, w, mine
<1>7. GoodLoop(w) /\ w.who = "commander" /\ w.list = mine
  BY <1>3, <1>5, <1>6 DEF GoodLoop, TranscriptInv, Fields
<1>8. Moves(l, w)
  BY <1>1, MovesOn
<1>9. /\ DOMAIN loop' = Loops /\ \A k \in Loops : GoodLoop(loop'[k])
  BY <1>7, <1>8 DEF LoopInv, Moves
<1>10. ChatInv'
  <2>1. \A k \in Loops : loop'[k].who = "commander" => loop'[k].list \in DOMAIN lists'
    BY <1>1, <1>3, <1>7, <1>8 DEF ChatInv, Moves
  <2> QED  BY <1>1, <1>3, <2>1 DEF ChatInv, ArePaired
<1>11. PipelineInv'
  <2>1. \A k \in Loops : loop'[k].who \in Agents => loop'[k] = loop[k]
    BY <1>7, <1>8 DEF Moves, Agents
  <2>2. SilentAgentsFlagged'
    BY <1>1 DEF LoopInv, PipelineInv, SilentAgentsFlagged
  <2> QED  BY <1>1, <2>1, <2>2 DEF LoopInv, PipelineInv
<1> QED  BY <1>9, <1>10, <1>11 DEF LoopInv

LEMMA ClearKeeps == ASSUME LoopInv, ClearHistory PROVE LoopInv'
<1>1. stored' = 0 /\ UNCHANGED <<loop, results, silent, summary, tracked, lists>>
  BY DEF ClearHistory, pipelineVars
<1>2. ChatInv'
  BY <1>1 DEF LoopInv, ChatInv
<1>3. PipelineInv'
  BY <1>1 DEF LoopInv, PipelineInv, SilentAgentsFlagged
<1> QED  BY <1>1, <1>2, <1>3 DEF LoopInv

LEMMA RestKeeps == ASSUME LoopInv, UNCHANGED loopVars PROVE LoopInv'
<1>1. UNCHANGED <<loop, results, silent, summary, tracked, lists, stored>>
  BY DEF loopVars, pipelineVars, chatVars
<1>2. ChatInv'
  BY <1>1 DEF LoopInv, ChatInv
<1>3. PipelineInv'
  BY <1>1 DEF LoopInv, PipelineInv, SilentAgentsFlagged
<1> QED  BY <1>1, <1>2, <1>3 DEF LoopInv

----------------------------------------------------------------------------
(* Ends of loops                                                           *)

\* Coroutine l is idle again; what the pipeline keeps is as it was.
LEMMA ReturnPostmortemKeeps ==
  ASSUME LoopInv, NEW l \in Loops, loop' = [loop EXCEPT ![l] = Idle],
         UNCHANGED <<results, silent, summary, tracked, lists, stored>>
  PROVE  LoopInv'
BY MovesOn, IdleIs, MoveKeeps

\* The next agent has all before it done.
LEMMA FollowingIs ==
  ASSUME NEW who \in Agents
  PROVE  /\ Following(who) \in Agents \cup {None}
         /\ Following(who) # None => Before(Following(who)) = Before(who) \cup {who}
         /\ who \notin Before(who)
BY DEF Following, Before, Agents, None

LEMMA ConfidenceIs ==
  ASSUME NEW who, results'[who] = Unstated
  PROVE  Confidence(who)'.low /\ Record(who)'.who = who /\ Record(who)'.low /\ Record(who)'.score = 0
BY DEF Confidence, Record, Parsed

LEMMA RecordIs ==
  ASSUME NEW who
  PROVE  Record(who)'.who = who
BY DEF Record

\* An agent returns, with or without an answer.
LEMMA ReturnKeeps ==
  ASSUME LoopInv, NEW l \in Loops, NEW stated, NEW answered \in BOOLEAN, Return(l, stated, answered),
         answered \/ stated = Unstated
  PROVE  LoopInv'
<1> DEFINE who == loop[l].who
           next == Following(who)
           w == IF next = None THEN Idle ELSE Started(next, <<>>)
<1>1. /\ who \in Agents
      /\ results' = [a \in DOMAIN results \cup {who} |-> IF a = who THEN stated ELSE results[a]]
      /\ silent' = IF answered THEN silent ELSE silent \cup {who}
      /\ IF next = None THEN summary' = Summary' /\ TrackAll ELSE UNCHANGED <<summary, tracked>>
      /\ loop' = [loop EXCEPT ![l] = w]
      /\ UNCHANGED <<lists, stored>>
  BY DEF Return, chatVars
<1>2. next \in Agents \cup {None} /\ who \notin Before(who) /\ (next # None => Before(next) = Before(who) \cup {who})
  BY <1>1, FollowingIs
<1>3. DOMAIN results = Before(who) /\ ~summary.posted /\ \A k \in Loops \ {l} : loop[k].who \notin Agents
  BY <1>1 DEF LoopInv, PipelineInv
<1>4. GoodLoop(w) /\ w.who = next
  <2>1. PairedList(<<>>)
    BY DEF PairedList, Paired
  <2>2. CASE next = None
    BY <2>2, IdleIs
  <2>3. CASE next # None
    BY <1>2, <2>1, <2>3, StartedIs DEF Names
  <2> QED  BY <2>2, <2>3
<1> HIDE DEF w
<1>5. Moves(l, w)
  BY <1>1, MovesOn
<1>6. /\ DOMAIN loop' = Loops /\ \A k \in Loops : GoodLoop(loop'[k])
  BY <1>4, <1>5 DEF LoopInv, Moves
<1>7. ChatInv'
  <2>1. \A k \in Loops : loop'[k].who = "commander" => loop'[k].list \in DOMAIN lists
    BY <1>2, <1>4, <1>5 DEF LoopInv, ChatInv, Moves, None, Agents
  <2> QED  BY <1>1, <2>1 DEF LoopInv, ChatInv
<1>8. /\ DOMAIN results' = DOMAIN results \cup {who} /\ results'[who] = stated
      /\ \A a \in DOMAIN results : results'[a] = results[a]
  BY <1>1, <1>2, <1>3
<1>9. silent' \subseteq DOMAIN results' /\ \A a \in silent' : results'[a] = Unstated
  BY <1>1, <1>8 DEF LoopInv, PipelineInv
<1> HIDE DEF next
<1>10. SilentAgentsFlagged'
  <2>1. CASE next = None
    <3>1. /\ summary' = [posted |-> TRUE, flagged |-> {a \in DOMAIN results' : Confidence(a)'.low},
                         warns |-> {a \in DOMAIN results' : Confidence(a)'.low} # {}]
      BY <1>1, <2>1 DEF Summary
    <3>2. \A a \in silent' : a \in DOMAIN results' /\ Confidence(a)'.low
      BY <1>9, ConfidenceIs
    <3>3. silent' \subseteq summary'.flagged /\ (silent' # {} => summary'.warns)
      BY <3>1, <3>2
    <3>4. PICK some \in SUBSET DOMAIN results' : tracked' = {Record(a)' : a \in some}
      BY <1>1, <2>1 DEF TrackAll
    <3>5. ASSUME NEW rec \in tracked', rec.who \in silent' PROVE rec.low /\ rec.score = 0
      <4>1. PICK a \in some : rec = Record(a)'
        BY <3>4
      <4>2. a \in silent'
        BY <3>5, <4>1, RecordIs
      <4> QED  BY <1>9, <4>1, <4>2, ConfidenceIs
    <3> QED  BY <3>3, <3>5 DEF SilentAgentsFlagged
  <2>2. CASE next # None
    BY <1>1, <1>3, <2>2 DEF SilentAgentsFlagged
  <2> QED  BY <2>1, <2>2
<1>11. PipelineInv'
  <2>1. \A k \in Loops : loop'[k].who \in Agents => k = l /\ next # None
    BY <1>3, <1>4, <1>5 DEF Moves, None, Agents
  <2>2. \A k \in Loops : loop'[k].who \in Agents => DOMAIN results' = Before(loop'[k].who) /\ ~summary'.posted
    BY <1>1, <1>2, <1>3, <1>4, <1>5, <1>8, <2>1 DEF Moves
  <2>3. \A k, m \in Loops : loop'[k].who \in Agents /\ loop'[m].who \in Agents => k = m
    BY <2>1
  <2>4. DOMAIN results' # {}
    BY <1>8
  <2> QED  BY <1>9, <1>10, <2>2, <2>3, <2>4 DEF PipelineInv
<1> QED  BY <1>6, <1>7, <1>11 DEF LoopInv

\* A question and its answer more.
LEMMA PairAdded ==
  ASSUME NEW q, PairedList(q)
  PROVE  PairedList(q \o <<Question, Plain>>)
<1> DEFINE two == <<Question, Plain>>
           r == q \o two
<1>1. q \in Seq(Messages) /\ Len(q) \in Nat /\ DOMAIN q = 1 .. Len(q) /\ Len(q) % 2 = 0
  BY LenProperties DEF PairedList
<1>2. Question \in Messages /\ Plain \in Messages
  BY DEF Question, Plain, Message, Messages
<1>3. two \in Seq(Messages) /\ Len(two) = 2 /\ two[1] = Question /\ two[2] = Plain
  BY <1>2
<1> HIDE DEF two
<1>4. /\ r \in Seq(Messages) /\ Len(r) = Len(q) + 2
      /\ \A i \in 1 .. Len(r) : r[i] = IF i <= Len(q) THEN q[i] ELSE two[i - Len(q)]
  <2>1. /\ r \in Seq(Messages) /\ Len(r) = Len(q) + Len(two)
        /\ \A i \in 1 .. Len(q) + Len(two) : r[i] = IF i <= Len(q) THEN q[i] ELSE two[i - Len(q)]
    BY <1>1, <1>3, ConcatProperties
  <2> HIDE DEF r
  <2> QED  BY <1>1, <1>3, <2>1
<1> HIDE DEF r
<1>5. DOMAIN r = 1 .. Len(q) + 2
  BY <1>4, LenProperties
<1>6. ASSUME NEW i \in DOMAIN r PROVE r[i] = IF i % 2 = 1 THEN Question ELSE Plain
  <2>1. CASE i <= Len(q)
    BY <1>1, <1>4, <1>5, <2>1 DEF PairedList, Paired
  <2>2. CASE i = Len(q) + 1
    <3>1. r[i] = Question
      BY <1>1, <1>3, <1>4, <1>5, <2>2
    <3> QED  BY <1>1, <2>2, <3>1, Parity
  <2>3. CASE i = Len(q) + 2
    <3>1. r[i] = Plain
      BY <1>1, <1>3, <1>4, <1>5, <2>3
    <3>2. i % 2 = 0
      BY <1>1, <2>3
    <3> QED  BY <3>1, <3>2
  <2> QED  BY <1>1, <1>5, <2>1, <2>2, <2>3
<1>7. Len(r) % 2 = 0
  BY <1>1, <1>4
<1> QED  BY <1>4, <1>6, <1>7 DEF PairedList, Paired, r, two

\* An even number less a smaller even number is even.
LEMMA EvenMinusEven ==
  ASSUME NEW a \in Nat, NEW b \in Nat, a > b, b > 0, a % 2 = 0, b % 2 = 0
  PROVE  a - b \in Nat /\ (a - b) % 2 = 0 /\ a - b + 1 \in 1 .. a
OBVIOUS

\* What is kept of a conversation begins with a question.
LEMMA EndIsPaired ==
  ASSUME NEW q, PairedList(q)
  PROVE  PairedList(LastOf(q, Keep))
<1>1. q \in Seq(Messages) /\ Len(q) \in Nat /\ DOMAIN q = 1 .. Len(q) /\ Len(q) % 2 = 0
  BY LenProperties DEF PairedList
<1>2. Keep \in Nat /\ Keep > 0 /\ Keep % 2 = 0
  BY KeepAssumption
<1>3. CASE Len(q) <= Keep
  <2>1. (IF Len(q) > Keep THEN Len(q) - Keep + 1 ELSE 1) = 1
    BY <1>1, <1>2, <1>3
  <2>2. LastOf(q, Keep) = SubSeq(q, 1, Len(q))
    BY <2>1 DEF LastOf
  <2>3. LastOf(q, Keep) = q
    BY <1>1, <2>2, SubSeqFull
  <2> QED  BY <2>3
<1>4. CASE Len(q) > Keep
  <2> DEFINE d == Len(q) - Keep
             r == SubSeq(q, d + 1, Len(q))
  <2>1. d \in Nat /\ d % 2 = 0 /\ d + 1 \in 1 .. Len(q)
    BY <1>1, <1>2, <1>4, EvenMinusEven
  <2>2. /\ r \in Seq(Messages) /\ Len(r) = Keep
        /\ \A i \in 1 .. Keep : r[i] = q[d + i]
    <3>1. \A i \in d + 1 .. Len(q) : q[i] \in Messages
      BY <1>1, <2>1, ElementOfSeq
    <3>2. /\ r \in Seq(Messages) /\ Len(r) = Len(q) - (d + 1) + 1
          /\ \A i \in 1 .. Len(q) - (d + 1) + 1 : r[i] = q[(d + 1) + i - 1]
      BY <1>1, <2>1, <3>1, SubSeqProperties
    <3> QED  BY <1>1, <1>2, <2>1, <3>2
  <2>3. LastOf(q, Keep) = r
    BY <1>1, <1>2, <1>4 DEF LastOf
  <2>4. \A i \in 1 .. Keep : d + i \in DOMAIN q /\ (d + i) % 2 = i % 2
    <3> SUFFICES ASSUME NEW i \in 1 .. Keep PROVE d + i \in DOMAIN q /\ (d + i) % 2 = i % 2
      OBVIOUS
    <3>1. d + i \in DOMAIN q /\ i \in Nat /\ d + i = i + d
      BY <1>1, <1>2, <1>4, <2>1
    <3> HIDE DEF d
    <3> QED  BY <2>1, <3>1, ShiftedParity
  <2> HIDE DEF d, r
  <2>5. DOMAIN r = 1 .. Keep
    BY <1>2, <2>2, LenProperties
  <2>6. Paired(r)
    BY <2>2, <2>4, <2>5 DEF PairedList, Paired
  <2> QED  BY <1>2, <2>2, <2>3, <2>6 DEF PairedList
<1> QED  BY <1>1, <1>2, <1>3, <1>4

\* The Commander answers; the list it read is one of those kept.
LEMMA AnswerKeeps ==
  ASSUME LoopInv, NEW l \in Loops, ReturnAnswer(l)
  PROVE  LoopInv'
<1> DEFINE n == loop[l].list
           whole == lists[n] \o <<Question, Plain>>
           ls == [lists EXCEPT ![n] = whole]
           end == LastOf(whole, Keep)
<1>1. /\ loop[l].who = "commander" /\ lists' = Append(ls, end) /\ stored' = Len(lists')
      /\ loop' = [loop EXCEPT ![l] = Idle] /\ UNCHANGED <<results, silent, summary, tracked>>
  BY DEF ReturnAnswer, pipelineVars
<1>2. ChatInv /\ n \in DOMAIN lists /\ PairedList(lists[n])
  BY <1>1 DEF LoopInv, ChatInv
<1>3. PairedList(whole)
  BY <1>2, PairAdded
<1> HIDE DEF whole
<1>4. PairedList(end)
  BY <1>3, EndIsPaired
<1> HIDE DEF end
<1>5. ArePaired(ls) /\ DOMAIN ls = DOMAIN lists
  <2>1. PICK S : lists \in Seq(S)
    BY <1>2 DEF ChatInv
  <2>2. lists \in Seq(S \cup {whole})
    BY <2>1, ElementOfSeq, LenProperties, SeqDef
  <2>3. ls \in Seq(S \cup {whole})
    BY <1>2, <2>2, ExceptSeq
  <2>4. DOMAIN ls = DOMAIN lists /\ ls[n] = whole /\ \A k \in DOMAIN lists \ {n} : ls[k] = lists[k]
    BY <1>2
  <2>5. \A k \in DOMAIN ls : PairedList(ls[k])
    BY <1>2, <1>3, <2>4 DEF ChatInv
  <2> HIDE DEF ls
  <2> QED  BY <2>3, <2>4, <2>5 DEF ArePaired
<1> HIDE DEF ls
<1>6. /\ ArePaired(lists') /\ DOMAIN lists \subseteq DOMAIN lists' /\ stored' \in DOMAIN lists'
  BY <1>1, <1>4, <1>5, ListAdded
<1>7. Moves(l, Idle) /\ GoodLoop(Idle) /\ Idle.who = None
  BY <1>1, MovesOn, IdleIs
<1>8. /\ DOMAIN loop' = Loops /\ \A k \in Loops : GoodLoop(loop'[k])
  BY <1>7 DEF LoopInv, Moves
<1>9. ChatInv'
  <2>1. \A k \in Loops : loop'[k].who = "commander" => loop'[k].list \in DOMAIN lists'
    BY <1>2, <1>6, <1>7 DEF ChatInv, Moves, None
  <2> QED  BY <1>6, <2>1 DEF ChatInv, ArePaired
<1>10. PipelineInv'
  <2>1. \A k \in Loops : loop'[k].who \in Agents => loop'[k] = loop[k]
    BY <1>7 DEF Moves, Agents, None
  <2>2. SilentAgentsFlagged'
    BY <1>1 DEF LoopInv, PipelineInv, SilentAgentsFlagged
  <2> QED  BY <1>1, <2>1, <2>2 DEF LoopInv, PipelineInv
<1> QED  BY <1>8, <1>9, <1>10 DEF LoopInv

LEMMA GiveUpKeeps ==
  ASSUME LoopInv, NEW l \in Loops, GiveUp(l)
  PROVE  LoopInv'
<1>1. CASE Return(l, Unstated, FALSE)
  BY <1>1, ReturnKeeps
<1>2. CASE ReturnPostmortem(l, FALSE)
  BY <1>2, ReturnPostmortemKeeps DEF ReturnPostmortem, pipelineVars, chatVars
<1>3. CASE loop[l].who = "commander" /\ loop' = [loop EXCEPT ![l] = Idle] /\ UNCHANGED <<pipelineVars, postmortem, chatVars>>
  BY <1>3, ReturnPostmortemKeeps DEF pipelineVars, chatVars
<1> QED  BY <1>1, <1>2, <1>3 DEF GiveUp

----------------------------------------------------------------------------
(* Rounds                                                                  *)

\* All tool uses are answered, and nobody has been asked again yet.
Answered(w) ==
    /\ DOMAIN w = Fields /\ w.who \in Names \ {None} /\ w.ids \in Nat /\ w.list \in Nat
    /\ Dialogue(w.sent) /\ Len(w.sent) % 2 = 1 /\ Len(w.sent) > 1 /\ w.done = {}
    /\ w.sent[Len(w.sent)].uses = {}
    /\ w.who # "commander" => AllParts(w.sent)

LEMMA AnsweredIs ==
  ASSUME NEW w, GoodLoop(w), w.at = "tools", w.sent[Len(w.sent)].uses = w.done,
         w.who # "commander" => w.done # {},
         NEW v, v = [w EXCEPT !.sent = Append(@, Message("user", {}, w.done, FALSE)), !.done = {}, !.round = @ + 1]
  PROVE  Answered(v) /\ v.who = w.who /\ v.list = w.list
<1> DEFINE q == w.sent
           m == Message("user", {}, w.done, FALSE)
           r == Append(q, m)
<1>1. /\ DOMAIN v = Fields /\ v.sent = r /\ v.done = {} /\ v.who = w.who /\ v.list = w.list /\ v.ids = w.ids
  BY DEF GoodLoop, Fields
<1>2. /\ Dialogue(q) /\ q # <<>> /\ Len(q) % 2 = 0 /\ w.who \in Names \ {None}
      /\ (w.who # "commander" => AllParts(q)) /\ q[Len(q)].uses = w.done
  BY DEF GoodLoop, TranscriptInv
<1> HIDE DEF q
<1>3. Len(q) \in Nat /\ Len(q) > 0 /\ Len(q) \in DOMAIN q /\ q \in Seq(Messages)
  BY <1>2, LenProperties, EmptySeq DEF Dialogue
<1>4. q[Len(q)] \in Messages
  BY <1>3, ElementOfSeq
<1>5. w.done \in SUBSET Nat
  BY <1>2, <1>4 DEF Messages
<1>6. m \in Messages /\ m.role = "user" /\ m.uses = {} /\ m.answers = w.done
  BY <1>5 DEF Message, Messages
<1> HIDE DEF m
<1>7. m.role = RoleOf(Len(q) + 1)
  BY <1>2, <1>3, <1>6, Parity DEF RoleOf
<1>8. /\ Dialogue(r) /\ Len(r) = Len(q) + 1 /\ r[Len(q) + 1] = m
      /\ (AllParts(q) /\ Parts(m) => AllParts(r))
  BY <1>2, <1>6, <1>7, Appended
<1>9. w.who # "commander" => AllParts(r)
  BY <1>2, <1>6, <1>8 DEF Parts
<1>10. Len(r) % 2 = 1 /\ Len(r) > 1
  BY <1>2, <1>3, <1>8
<1> HIDE DEF r
<1>11. w.ids \in Nat /\ w.list \in Nat
  BY DEF GoodLoop
<1> QED  BY <1>1, <1>2, <1>6, <1>8, <1>9, <1>10, <1>11 DEF Answered

\* It is asked again.
LEMMA AskedIs ==
  ASSUME NEW v, Answered(v), NEW w, w = [v EXCEPT !.at = "asking", !.provider = 1]
  PROVE  GoodLoop(w) /\ w.who = v.who /\ w.list = v.list
<1>1. /\ DOMAIN w = Fields /\ w.at = "asking" /\ w.who = v.who /\ w.list = v.list /\ w.ids = v.ids
      /\ w.sent = v.sent /\ w.done = v.done
  BY DEF Answered, Fields
<1>2. v.sent # <<>>
  BY EmptySeq DEF Answered, Dialogue
<1>3. TranscriptInv(w)
  BY <1>1, <1>2 DEF Answered, TranscriptInv
<1> QED  BY <1>1, <1>3 DEF Answered, GoodLoop

\* The Commander's last round: the reply is repeated and its uses are answered.
LEMMA ForcedIs ==
  ASSUME NEW v, Answered(v), v.who = "commander"
  PROVE  GoodLoop(Forced(v)) /\ Forced(v).who = v.who /\ Forced(v).list = v.list
<1> DEFINE q == v.sent
           n == Len(q)
           last == q[n - 1]
           m == Message("user", {}, last.uses, FALSE)
           r == Append(q, last)
           t == q \o <<last>> \o (IF last.uses = {} THEN <<>> ELSE <<m>>)
           w == Forced(v)
<1>1. /\ DOMAIN w = Fields /\ w.at = "final" /\ w.who = v.who /\ w.list = v.list /\ w.ids = v.ids /\ w.sent = t
  BY DEF Answered, Fields, Forced
<1>2. Dialogue(q) /\ n \in Nat /\ n > 1 /\ n % 2 = 1 /\ q[n].uses = {} /\ q \in Seq(Messages) /\ DOMAIN q = 1 .. n
  BY LenProperties DEF Answered, Dialogue
<1>3. q # <<>> /\ n = Len(q)
  BY <1>2, EmptySeq
<1> HIDE DEF n
<1>4. n - 1 \in DOMAIN q /\ (n - 1) % 2 = 0 /\ n \in 2 .. n
  BY <1>2
<1>5. last \in Messages /\ last.role = "assistant" /\ last.answers = {}
  <2>1. last \in Messages
    BY <1>2, <1>4, ElementOfSeq
  <2>2. last.role = "assistant"
    BY <1>2, <1>4 DEF Dialogue, RoleOf
  <2>3. n - 1 \in 2 .. n /\ n - 2 \in DOMAIN q /\ (n - 2) % 2 = 1
    BY <1>2
  <2>4. last.answers = q[n - 2].uses /\ q[n - 2].uses = {}
    <3>1. last.answers = q[(n - 1) - 1].uses
      BY <1>2, <2>3 DEF Dialogue
    <3>2. (n - 1) - 1 = n - 2
      BY <1>2
    <3>3. q[n - 2].uses = {}
      BY <1>2, <2>3 DEF Dialogue
    <3> QED  BY <3>1, <3>2, <3>3
  <2> QED  BY <2>1, <2>2, <2>4
<1> HIDE DEF last
<1>6. last.role = RoleOf(n + 1)
  BY <1>2, <1>5 DEF RoleOf
<1>7. Dialogue(r) /\ Len(r) = n + 1 /\ r[n + 1] = last
  <2>1. n % 2 # 0
    BY <1>2
  <2>2. Len(q) % 2 = 0 => last.uses = {}
    BY <1>3, <2>1
  <2>3. last.answers = IF q = <<>> THEN {} ELSE q[Len(q)].uses
    BY <1>2, <1>3, <1>5
  <2>4. last.role = RoleOf(Len(q) + 1)
    BY <1>3, <1>6
  <2>5. Dialogue(r) /\ Len(r) = Len(q) + 1 /\ r[Len(q) + 1] = last
    BY <1>2, <1>5, <2>2, <2>3, <2>4, Appended
  <2> QED  BY <1>3, <2>5
<1>8. q \o <<last>> = r
  BY <1>2, <1>5, AppendIsConcat
<1> HIDE DEF r
<1>9. r # <<>> /\ r \in Seq(Messages)
  BY <1>2, <1>7, EmptySeq DEF Dialogue
<1>10. CASE last.uses = {}
  <2>1. t = r
    <3>1. r \o <<>> = r
      BY <1>9, ConcatEmptySeq
    <3> QED  BY <1>8, <1>10, <3>1
  <2> HIDE DEF t
  <2>2. TranscriptInv(w)
    BY <1>1, <1>7, <1>9, <1>10, <2>1 DEF TranscriptInv
  <2> QED  BY <1>1, <2>2 DEF GoodLoop, Answered
<1>11. CASE last.uses # {}
  <2> DEFINE p == Append(r, m)
  <2>1. m \in Messages /\ m.role = "user" /\ m.uses = {} /\ m.answers = last.uses
    <3>1. last.uses \in SUBSET Nat
      BY <1>5 DEF Messages
    <3> QED  BY <3>1 DEF Message, Messages
  <2> HIDE DEF m
  <2>2. m.role = RoleOf(Len(r) + 1)
    <3>1. (n + 1) + 1 = n + 2 /\ (n + 2) % 2 = 1
      BY <1>2
    <3> QED  BY <1>7, <2>1, <3>1 DEF RoleOf
  <2>3. Dialogue(p) /\ Len(p) = Len(r) + 1 /\ p[Len(r) + 1] = m
    BY <1>7, <1>9, <2>1, <2>2, Appended
  <2>4. t = p
    <3>1. r \o <<m>> = p
      BY <1>9, <2>1, AppendIsConcat
    <3> QED  BY <1>8, <1>11, <3>1
  <2> HIDE DEF t, p
  <2>5. p # <<>>
    BY <1>2, <1>7, <2>3, EmptySeq DEF Dialogue
  <2>6. TranscriptInv(w)
    BY <1>1, <2>1, <2>3, <2>4, <2>5 DEF TranscriptInv
  <2> QED  BY <1>1, <2>6 DEF GoodLoop, Answered
<1> QED  BY <1>10, <1>11

\* The answers are sent, or the rounds are used up.
LEMMA NextRoundKeeps ==
  ASSUME LoopInv, NEW l \in Loops, NEW w, GoodLoop(w), w.at = "tools", w.sent[Len(w.sent)].uses = w.done,
         w.who # "commander" => w.done # {}, w.who = loop[l].who, w.list = loop[l].list, NextRound(l, w)
  PROVE  LoopInv'
<1> DEFINE on == [w EXCEPT !.sent = Append(@, Message("user", {}, w.done, FALSE)), !.done = {}, !.round = @ + 1]
           asked_on == [on EXCEPT !.at = "asking", !.provider = 1]
<1>1. \/ Change(l, asked_on)
      \/ w.who = "commander" /\ Change(l, Forced(on))
      \/ GiveUp(l)
  BY DEF NextRound
<1>2. Answered(on) /\ on.who = w.who /\ on.list = w.list
  BY AnsweredIs
<1> HIDE DEF on
<1>3. GoodLoop(asked_on) /\ asked_on.who = w.who /\ asked_on.list = w.list
  BY <1>2, AskedIs
<1> HIDE DEF asked_on
<1>4. CASE Change(l, asked_on)
  BY <1>3, <1>4, ChangeKeeps
<1>5. CASE w.who = "commander" /\ Change(l, Forced(on))
  BY <1>2, <1>5, ForcedIs, ChangeKeeps
<1>6. CASE GiveUp(l)
  BY <1>6, GiveUpKeeps
<1> QED  BY <1>1, <1>4, <1>5, <1>6

\* A reply with so many tool uses.
LEMMA TakingIs ==
  ASSUME NEW w, GoodLoop(w), w.at = "asking", NEW n \in Nat, w.who # "commander" => n > 0
  PROVE  /\ GoodLoop(Taking(w, n)) /\ Taking(w, n).who = w.who /\ Taking(w, n).list = w.list
         /\ Taking(w, n).at = "tools" /\ Taking(w, n).done = {}
         /\ Taking(w, n).sent[Len(Taking(w, n).sent)].uses = w.ids + 1 .. w.ids + n
<1> DEFINE uses == w.ids + 1 .. w.ids + n
           q == w.sent
           m == Message("assistant", uses, {}, TRUE)
           r == Append(q, m)
           v == Taking(w, n)
<1>1. /\ DOMAIN v = Fields /\ v.at = "tools" /\ v.ids = w.ids + n /\ v.todo = uses /\ v.sent = r
      /\ v.who = w.who /\ v.list = w.list /\ v.done = w.done
  BY DEF GoodLoop, Fields, Taking
<1>2. /\ Dialogue(q) /\ q # <<>> /\ Len(q) % 2 = 1 /\ w.done = {} /\ w.ids \in Nat /\ w.list \in Nat
      /\ (w.who # "commander" => AllParts(q)) /\ w.who \in Names /\ w.who # None
  BY DEF GoodLoop, TranscriptInv
<1> HIDE DEF v, q
<1>3. uses \in SUBSET Nat /\ (n > 0 => uses # {})
  <2>1. uses \in SUBSET Nat
    BY <1>2
  <2>2. n > 0 => w.ids + 1 \in uses
    BY <1>2
  <2> QED  BY <2>1, <2>2
<1> HIDE DEF uses
<1>4. m \in Messages /\ m.role = "assistant" /\ m.uses = uses /\ m.answers = {} /\ m.text = TRUE
  BY <1>3 DEF Message, Messages
<1> HIDE DEF m
<1>5. Len(q) \in Nat /\ Len(q) \in DOMAIN q
  BY <1>2, LenProperties, EmptySeq DEF Dialogue
<1>6. q[Len(q)].uses = {} /\ m.role = RoleOf(Len(q) + 1)
  <2>1. q[Len(q)].uses = {}
    BY <1>2, <1>5 DEF Dialogue
  <2>2. (Len(q) + 1) % 2 # 1
    BY <1>2, <1>5
  <2> QED  BY <1>4, <2>1, <2>2 DEF RoleOf
<1>7. /\ Dialogue(r) /\ Len(r) = Len(q) + 1 /\ r[Len(q) + 1] = m
      /\ (AllParts(q) /\ Parts(m) => AllParts(r))
  <2>1. Len(q) % 2 = 0 => m.uses = {}
    BY <1>2
  <2>2. m.answers = IF q = <<>> THEN {} ELSE q[Len(q)].uses
    BY <1>2, <1>4, <1>6
  <2> QED  BY <1>2, <1>4, <1>6, <2>1, <2>2, Appended
<1>8. w.who # "commander" => AllParts(r)
  BY <1>2, <1>4, <1>7 DEF Parts
<1>9. r # <<>> /\ Len(r) % 2 = 0
  <2>1. Len(r) % 2 = 0
    BY <1>2, <1>5, <1>7
  <2>2. r # <<>>
    BY <1>5, <1>7, EmptySeq
  <2> QED  BY <2>1, <2>2
<1> HIDE DEF r
<1>10. TranscriptInv(v)
  BY <1>1, <1>2, <1>3, <1>4, <1>7, <1>8, <1>9 DEF TranscriptInv
<1>11. GoodLoop(v)
  BY <1>1, <1>2, <1>10 DEF GoodLoop
<1> QED  BY <1>1, <1>2, <1>4, <1>7, <1>11 DEF v, uses

----------------------------------------------------------------------------
(* Steps                                                                   *)

LEMMA RepliesAre ==
  ASSUME NEW provider, NEW rep \in Replies(provider)
  PROVE  rep.uses \in Nat /\ (rep.stop = "tool_use" => rep.uses > 0)
<1>1. CASE provider = "gemini"
  <2>1. rep \in GeminiReplies
    BY <1>1 DEF Replies
  <2>2. PICK n \in 0 .. MaxUses : rep = [uses |-> n, stop |-> IF n = 0 THEN "end_turn" ELSE "tool_use"]
    BY <2>1 DEF GeminiReplies
  <2> QED  BY <2>2, LoopAssumption
<1>2. CASE provider = "anthropic"
  <2>1. rep \in AnthropicReplies
    BY <1>2 DEF Replies
  <2> QED  BY <2>1, LoopAssumption DEF AnthropicReplies
<1>3. CASE provider \notin {"gemini", "anthropic"}
  BY <1>3 DEF Replies
<1> QED  BY <1>1, <1>2, <1>3

LEMMA ProviderFailsKeeps ==
  ASSUME LoopInv, NEW l \in Loops, ProviderFails(l)
  PROVE  LoopInv'
<1> DEFINE v == loop[l]
           w == [v EXCEPT !.provider = @ + 1]
<1>1. v.at \in {"asking", "final"} /\ (Change(l, w) \/ GiveUp(l))
  BY DEF ProviderFails
<1>2. GoodLoop(v)
  BY DEF LoopInv
<1> HIDE DEF v
<1>3. GoodLoop(w) /\ w.who = v.who /\ w.list = v.list
  <2>1. /\ DOMAIN w = Fields /\ w.at = v.at /\ w.who = v.who /\ w.sent = v.sent /\ w.todo = v.todo
        /\ w.done = v.done /\ w.ids = v.ids /\ w.list = v.list
    BY <1>2 DEF GoodLoop, Fields
  <2> HIDE DEF w
  <2> QED  BY <1>2, <2>1 DEF GoodLoop, TranscriptInv
<1> HIDE DEF w
<1>4. CASE Change(l, w)
  BY <1>3, <1>4, ChangeKeeps DEF v
<1>5. CASE GiveUp(l)
  BY <1>5, GiveUpKeeps
<1> QED  BY <1>1, <1>4, <1>5

LEMMA EndTurnKeeps ==
  ASSUME LoopInv, NEW l \in Loops, EndTurn(l)
  PROVE  LoopInv'
<1>1. CASE \E stated \in Scores \cup {Unstated} : Return(l, stated, TRUE)
  <2>1. PICK stated \in Scores \cup {Unstated} : Return(l, stated, TRUE)
    BY <1>1
  <2> QED  BY <2>1, ReturnKeeps
<1>2. CASE ReturnPostmortem(l, TRUE)
  BY <1>2, ReturnPostmortemKeeps DEF ReturnPostmortem, pipelineVars, chatVars
<1>3. CASE ReturnAnswer(l)
  BY <1>3, AnswerKeeps
<1> QED  BY <1>1, <1>2, <1>3 DEF EndTurn

LEMMA ToolReplyKeeps ==
  ASSUME LoopInv, NEW l \in Loops, NEW rep \in Replied(l), ToolReply(l, rep)
  PROVE  LoopInv'
<1> DEFINE v == loop[l]
           n == rep.uses
<1>1. n \in Nat /\ (rep.stop = "tool_use" => n > 0)
  <2>1. rep \in Replies(Chain[loop[l].provider])
    BY DEF Replied
  <2> QED  BY <2>1, RepliesAre
<1>2. GoodLoop(v) /\ v.at = "asking"
  BY DEF ToolReply, LoopInv
<1>3. \/ n > 0 /\ Change(l, Taking(v, n))
      \/ GiveUp(l)
      \/ v.who = "commander" /\ Change(l, Taking(v, n))
      \/ v.who = "commander" /\ NextRound(l, Taking(v, 0))
  BY <1>1 DEF ToolReply
<1>4. CASE (n > 0 \/ v.who = "commander") /\ Change(l, Taking(v, n))
  <2> DEFINE w == Taking(v, n)
  <2>1. GoodLoop(w) /\ w.who = v.who /\ w.list = v.list
    BY <1>1, <1>2, <1>4, TakingIs
  <2> HIDE DEF w
  <2>2. Change(l, w)
    BY <1>4 DEF w
  <2> QED  BY <2>1, <2>2, ChangeKeeps
<1>5. CASE GiveUp(l)
  BY <1>5, GiveUpKeeps
<1>6. CASE v.who = "commander" /\ NextRound(l, Taking(v, 0))
  <2> DEFINE w == Taking(v, 0)
  <2>1. /\ GoodLoop(w) /\ w.who = v.who /\ w.list = v.list /\ w.at = "tools" /\ w.done = {}
        /\ w.sent[Len(w.sent)].uses = v.ids + 1 .. v.ids + 0
    BY <1>2, <1>6, TakingIs
  <2> HIDE DEF w
  <2>2. v.ids + 1 .. v.ids + 0 = {}
    BY <1>2 DEF GoodLoop
  <2>3. NextRound(l, w)
    BY <1>6 DEF w
  <2>4. w.sent[Len(w.sent)].uses = w.done
    BY <2>1, <2>2
  <2>5. w.who # "commander" => w.done # {}
    BY <1>6, <2>1
  <2> QED  BY <2>1, <2>3, <2>4, <2>5, NextRoundKeeps
<1> QED  BY <1>3, <1>4, <1>5, <1>6

LEMMA RunToolKeeps ==
  ASSUME LoopInv, NEW l \in Loops, NEW id, RunTool(l, id)
  PROVE  LoopInv'
<1> DEFINE v == loop[l]
           w == [v EXCEPT !.todo = @ \ {id}, !.done = @ \cup {id}]
<1>1. /\ w.at = "tools" /\ id \in v.todo /\ loop' = [loop EXCEPT ![l] = w]
      /\ UNCHANGED <<results, silent, summary, tracked, lists, stored>>
  BY DEF RunTool, chatVars
<1>2. GoodLoop(v)
  BY DEF LoopInv
<1>3. Moves(l, w)
  BY <1>1, MovesOn
<1> HIDE DEF v
<1>4. /\ DOMAIN w = Fields /\ w.at = v.at /\ w.who = v.who /\ w.sent = v.sent
      /\ w.todo = v.todo \ {id} /\ w.done = v.done \cup {id} /\ w.ids = v.ids /\ w.list = v.list
  BY <1>2 DEF GoodLoop, Fields
<1> HIDE DEF w
<1>5. w.todo \cup w.done = v.todo \cup v.done
  BY <1>1, <1>4
<1>6. GoodLoop(w)
  BY <1>1, <1>2, <1>4, <1>5 DEF GoodLoop, TranscriptInv
<1> QED  BY <1>1, <1>3, <1>4, <1>6, MoveKeeps DEF v

LEMMA SendResultsKeeps ==
  ASSUME LoopInv, NEW l \in Loops, SendResults(l)
  PROVE  LoopInv'
<1> DEFINE w == loop[l]
<1>1. GoodLoop(w) /\ w.at = "tools" /\ w.todo = {} /\ NextRound(l, w)
  BY DEF SendResults, LoopInv
<1>2. w.sent[Len(w.sent)].uses = w.done /\ (w.who # "commander" => w.done # {})
  BY <1>1 DEF GoodLoop, TranscriptInv
<1> QED  BY <1>1, <1>2, NextRoundKeeps

LEMMA LoopStepKeeps ==
  ASSUME LoopInv, NEW l \in Loops, LoopStep(l)
  PROVE  LoopInv'
<1>1. CASE ProviderFails(l)
  BY <1>1, ProviderFailsKeeps
<1>2. CASE EndTurn(l)
  BY <1>2, EndTurnKeeps
<1>3. CASE FinalReply(l)
  BY <1>3, AnswerKeeps DEF FinalReply
<1>4. CASE \E rep \in Replied(l) : ToolReply(l, rep)
  BY <1>4, ToolReplyKeeps
<1>5. CASE \E id \in loop[l].todo : RunTool(l, id)
  BY <1>5, RunToolKeeps
<1>6. CASE SendResults(l)
  BY <1>6, SendResultsKeeps
<1> QED  BY <1>1, <1>2, <1>3, <1>4, <1>5, <1>6 DEF LoopStep

LEMMA LoopInitIs == ASSUME LoopInit PROVE LoopInv
<1>1. /\ loop = [l \in Loops |-> Idle] /\ results = << >> /\ silent = {} /\ summary = NoSummary
      /\ lists = << >> /\ stored = 0 /\ ~NoSummary.posted
  BY DEF LoopInit, NoSummary
<1>2. \A l \in Loops : loop[l] = Idle
  BY <1>1
<1>3. ChatInv
  <2>1. lists \in Seq({}) /\ DOMAIN lists = {}
    BY <1>1
  <2> QED  BY <1>1, <1>2, <2>1, IdleIs DEF ChatInv, None
<1>4. PipelineInv
  BY <1>1, <1>2, IdleIs DEF PipelineInv, SilentAgentsFlagged, None, Agents
<1> QED  BY <1>1, <1>2, <1>3, <1>4, IdleIs DEF LoopInv

LEMMA LoopNextKeeps ==
  ASSUME LoopInv, [LoopNext]_loopVars
  PROVE  LoopInv'
<1>1. CASE UNCHANGED loopVars
  BY <1>1, RestKeeps
<1>2. CASE ClearHistory
  BY <1>2, ClearKeeps
<1>3. CASE \E l \in Loops : StartPipeline(l) \/ StartPostmortem(l) \/ AskCommander(l) \/ RunStep(l)
  <2>1. PICK l \in Loops : StartPipeline(l) \/ StartPostmortem(l) \/ AskCommander(l) \/ RunStep(l)
    BY <1>3
  <2>2. RunStep(l) => LoopStep(l)
    BY DEF RunStep, TriageRun, CorrelationRun, RemediationRun, CommsRun, PostmortemRun, CommanderQuery
  <2> QED  BY <2>1, <2>2, StartPipelineKeeps, StartPostmortemKeeps, AskKeeps, LoopStepKeeps
<1> QED  BY <1>1, <1>2, <1>3 DEF LoopNext

----------------------------------------------------------------------------
(* Theorems                                                                *)

\* The invariant: every transcript is a dialogue whose open tool uses are those
\* of the reply the loop works on, the Commander's lists hold pairs, and the
\* pipeline has at most one agent running, after those before it.
THEOREM LoopInvariant == LoopSpec => []LoopInv
<1>1. LoopInit => LoopInv
  BY LoopInitIs
<1>2. LoopInv /\ [LoopNext]_loopVars => LoopInv'
  BY LoopNextKeeps
<1> QED  BY <1>1, <1>2, PTL DEF LoopSpec

LEMMA SoundTranscript ==
  ASSUME NEW w, GoodLoop(w), w.at \in {"asking", "final"}, NEW q, q = w.sent
  PROVE  /\ \A i \in DOMAIN q : q[i].role = IF i % 2 = 1 THEN "user" ELSE "assistant"
         /\ \A i \in DOMAIN q : q[i].uses # {} => i < Len(q)
         /\ \A i \in 2 .. Len(q) : q[i].answers = q[i - 1].uses
         /\ w.who # "commander" => Contents(q) = DOMAIN q
         /\ \A i \in Contents(q) : q[i].answers \subseteq Named(q)
<1>1. /\ Dialogue(q) /\ q # <<>> /\ (w.who # "commander" => AllParts(q))
      /\ (w.at = "asking" => Len(q) % 2 = 1) /\ (w.at = "final" => q[Len(q)].uses = {})
  BY DEF GoodLoop, TranscriptInv
<1>2. /\ q \in Seq(Messages) /\ Len(q) \in Nat /\ DOMAIN q = 1 .. Len(q)
  BY <1>1, LenProperties DEF Dialogue
<1>3. Len(q) \in DOMAIN q
  BY <1>1, <1>2, EmptySeq
<1>4. q[Len(q)].uses = {}
  BY <1>1, <1>3 DEF Dialogue
<1>5. \A i \in DOMAIN q : q[i].uses # {} => i < Len(q)
  BY <1>2, <1>4
<1>6. \A i \in DOMAIN q : q[i].role = IF i % 2 = 1 THEN "user" ELSE "assistant"
  BY <1>1 DEF Dialogue, RoleOf
<1>7. w.who # "commander" => Contents(q) = DOMAIN q
  BY <1>1 DEF AllParts, Parts, Contents
<1>8. ASSUME NEW i \in DOMAIN q PROVE q[i].answers \subseteq Named(q)
  <2>1. CASE i = 1
    BY <1>1, <2>1 DEF Dialogue
  <2>2. CASE i # 1
    <3>1. i \in 2 .. Len(q) /\ i - 1 \in DOMAIN q
      BY <1>2, <1>8, <2>2
    <3>2. q[i].answers = q[i - 1].uses
      BY <1>1, <3>1 DEF Dialogue
    <3> QED  BY <3>1, <3>2 DEF Named
  <2> QED  BY <2>1, <2>2
<1>9. \A i \in Contents(q) : q[i].answers \subseteq Named(q)
  BY <1>8 DEF Contents
<1>10. \A i \in 2 .. Len(q) : q[i].answers = q[i - 1].uses
  BY <1>1 DEF Dialogue
<1> QED  BY <1>5, <1>6, <1>7, <1>9, <1>10

\* What a model is sent is a conversation: each reply is followed by an answer to
\* all tool uses in it and to nothing else, whatever provider fails, reply is cut
\* off or round is the last, for every agent and every query of the Commander.
THEOREM TranscriptsAreSound == LoopSpec => []TranscriptSound
<1>1. LoopInv => TranscriptSound
  BY SoundTranscript DEF LoopInv, TranscriptSound, Requests
<1> QED  BY <1>1, LoopInvariant, PTL

\* The conversation stored for an incident is made of questions and their answers,
\* whichever queries of the Commander overlap, fail or meet a cleared history.
THEOREM ConversationsArePaired == LoopSpec => []ConversationPaired
<1>1. LoopInv => ConversationPaired
  BY DEF LoopInv, ChatInv, PairedList, ConversationPaired
<1> QED  BY <1>1, LoopInvariant, PTL

\* The summary on the incident's page and the confidence database take no agent that
\* failed, was cut off or never came to an answer for a sure one.
THEOREM SilenceIsFlagged == LoopSpec => []SilentAgentsFlagged
<1>1. LoopInv => SilentAgentsFlagged
  BY DEF LoopInv, PipelineInv
<1> QED  BY <1>1, LoopInvariant, PTL
=============================================================================
