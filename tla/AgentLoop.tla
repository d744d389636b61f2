----------------------------- MODULE AgentLoop ------------------------------
(***************************************************************************)
(* The tool loops of the agents (agents/*_agent.py), of the Commander      *)
(* (agents/commander.py) and the provider fallback below them              *)
(* (agents/llm_client.py).  All loops send a transcript to the model, run  *)
(* the tools it asks for, add the results and send it again, a bounded     *)
(* number of times.  The pipeline runs its agents one after the other and  *)
(* sums up how sure they were (agents/confidence.py); the Commander's      *)
(* exchanges are kept in a conversation that concurrent requests share     *)
(* (api/router.py).                                                        *)
(*                                                                         *)
(* A message is its role, the ids of the tool uses it asks for and the ids *)
(* it answers; texts are abstracted to the confidence they state.          *)
(***************************************************************************)
EXTENDS Integers, Sequences, FiniteSets

CONSTANTS
    Loops,         \* coroutines running an agent or a query
    Rounds,        \* MAX_TOOL_ROUNDS
    MaxUses,       \* bound: tool uses in one reply
    Scores,        \* confidences a text may state
    Unstated,      \* a text without a confidence line, or no text
    Primary,       \* LLM_PROVIDER
    Backup,        \* LLM_FALLBACK_PROVIDER
    Keys,          \* providers that have an API key
    Keep,          \* messages kept of a conversation (20)
    MaxQueries     \* bound: questions asked to the Commander

ASSUME LoopAssumption == Rounds \in Nat \ {0} /\ MaxUses \in Nat \ {0}
ASSUME ScoreAssumption == Scores \subseteq Nat /\ Unstated \notin Nat
ASSUME KeepAssumption == Keep \in Nat \ {0} /\ Keep % 2 = 0
ASSUME QueriesAssumption == MaxQueries \in Nat

Pipeline == <<"triage", "correlation", "remediation", "comms">>
Agents == {"triage", "correlation", "remediation", "comms"}

VARIABLES
    loop,          \* what each coroutine is doing
    urgent,        \* is the incident's severity P0 or P1?
    results,       \* the confidence each agent of the pipeline stated
    silent,        \* history: agents whose loop did not end with an answer
    summary,       \* the confidence summary posted on the page
    tracked,       \* records in the confidence database
    postmortem,    \* pages the postmortem agent made, and what it returned
    lists, stored, \* Python lists of messages, and the one that is the
                   \* conversation of the incident (0: there is none)
    asked          \* questions asked

pipelineVars == <<urgent, results, silent, summary, tracked>>
chatVars == <<lists, stored, asked>>
loopVars == <<loop, pipelineVars, postmortem, chatVars>>

None == "none"
Message(role, uses, answers, text) ==
    [role |-> role, uses |-> uses, answers |-> answers, text |-> text]
Question == Message("user", {}, {}, TRUE)
Plain == Message("assistant", {}, {}, TRUE)

Idle == [at |-> "idle", who |-> None, sent |-> <<>>, round |-> 0, provider |-> 1,
         todo |-> {}, done |-> {}, ids |-> 0, list |-> 0]

NoSummary == [posted |-> FALSE, flagged |-> {}, warns |-> FALSE]

----------------------------------------------------------------------------
(* Providers                                                               *)

\* LLMClient.from_config: the providers a call tries, in order.
Chain == IF Backup \in Keys THEN <<Primary, Backup>> ELSE <<Primary>>

\* _call_gemini and _call_anthropic: the replies that may come, as the number
\* of tool uses and the reason the model stopped for.  Gemini's is made up
\* from the content; an unknown provider raises.
GeminiReplies == {[uses |-> n, stop |-> IF n = 0 THEN "end_turn" ELSE "tool_use"] : n \in 0 .. MaxUses}

AnthropicReplies ==
    {rep \in [uses : 0 .. MaxUses, stop : {"end_turn", "tool_use", "max_tokens"}] :
        /\ rep.stop = "tool_use" => rep.uses > 0
        /\ rep.stop = "end_turn" => rep.uses = 0}

Replies(provider) ==
    CASE provider = "gemini" -> GeminiReplies
      [] provider = "anthropic" -> AnthropicReplies
      [] OTHER -> {}

\* _anthropic_messages_to_gemini: a message without parts is left out.  The places of
\* those that are sent.
Contents(q) == {i \in DOMAIN q : q[i].text \/ q[i].uses # {} \/ q[i].answers # {}}

\* _fix_tool_result_names: the tool uses whose function is known.
Named(q) == UNION {q[i].uses : i \in DOMAIN q}

----------------------------------------------------------------------------
(* Confidence                                                              *)

\* parse_confidence
Parsed(stated) ==
    IF stated = Unstated THEN [score |-> None, low |-> TRUE]
    ELSE [score |-> IF stated > 100 THEN 100 ELSE stated, low |-> stated < 50]

\* Slip: takes an agent without analysis for one without doubts.
Slip_Confidence(who) == [Parsed(results[who]) EXCEPT !.low = @ /\ results[who] # Unstated]

\* extract_all_confidences, of one agent.
Confidence(who) == Parsed(results[who])

\* format_confidence_summary, of the agents that ran.
Summary ==
    LET flagged == {who \in DOMAIN results : Confidence(who).low}
    IN [posted |-> TRUE, flagged |-> flagged, warns |-> flagged # {}]

\* log_confidence: the record of one agent; a missing score is stored as 0.
Record(who) ==
    LET c == Confidence(who)
    IN [who |-> who, score |-> IF results[who] = Unstated THEN 0 ELSE c.score, low |-> c.low]

\* log_all: a record that cannot be created is given up.
TrackAll == \E some \in SUBSET DOMAIN results' : tracked' = {Record(who)' : who \in some}

----------------------------------------------------------------------------
(* Loops                                                                   *)

LoopInit ==
    /\ loop = [l \in Loops |-> Idle]
    /\ urgent \in BOOLEAN
    /\ results = << >> /\ silent = {} /\ summary = NoSummary /\ tracked = {}
    /\ postmortem = [pages |-> 0, claimed |-> FALSE]
    /\ lists = << >> /\ stored = 0 /\ asked = 0

\* The transcript a loop starts from, and its first request.
Started(who, history) ==
    [Idle EXCEPT !.at = "asking", !.who = who, !.sent = Append(history, Question)]

AllIdle == \A l \in Loops : loop[l].at = "idle"

\* handle_new_incident starts the first agent of the pipeline.
StartPipeline(l) ==
    /\ AllIdle /\ DOMAIN results = {} /\ asked = 0 /\ postmortem.pages = 0
    /\ loop' = [loop EXCEPT ![l] = Started("triage", <<>>)]
    /\ UNCHANGED <<pipelineVars, postmortem, chatVars>>

\* handle_incident_resolved
StartPostmortem(l) ==
    /\ AllIdle /\ DOMAIN results = {} /\ asked = 0 /\ postmortem.pages = 0
    /\ loop' = [loop EXCEPT ![l] = Started("postmortem", <<>>)]
    /\ UNCHANGED <<pipelineVars, postmortem, chatVars>>

\* commander_query: with a copy of the stored list, or of a new one.
AskCommander(l) ==
    /\ loop[l].at = "idle" /\ DOMAIN results = {} /\ postmortem.pages = 0
    /\ \A k \in Loops : loop[k].who \in {None, "commander"}
    /\ asked < MaxQueries /\ asked' = asked + 1
    /\ lists' = IF stored = 0 THEN Append(lists, <<>>) ELSE lists
    /\ LET mine == IF stored = 0 THEN Len(lists) + 1 ELSE stored
       IN loop' = [loop EXCEPT ![l] =
                     [Started("commander", lists'[mine]) EXCEPT !.list = mine]]
    /\ UNCHANGED <<pipelineVars, postmortem, stored>>

\* clear_commander_history
ClearHistory ==
    /\ stored # 0 /\ stored' = 0
    /\ UNCHANGED <<loop, pipelineVars, postmortem, lists, asked>>

\* The next agent of the pipeline: comms for P0 and P1 only.
Following(who) ==
    CASE who = "triage" -> "correlation"
      [] who = "correlation" -> "remediation"
      [] who = "remediation" /\ urgent -> "comms"
      [] OTHER -> None

\* An agent returns; the pipeline goes on or posts its summary.
Return(l, stated, answered) ==
    LET who == loop[l].who
        next == Following(who)
    IN /\ who \in Agents
       /\ results' = [w \in DOMAIN results \cup {who} |->
                        IF w = who THEN stated ELSE results[w]]
       /\ silent' = IF answered THEN silent ELSE silent \cup {who}
       /\ IF next = None THEN summary' = Summary' /\ TrackAll ELSE UNCHANGED <<summary, tracked>>
       /\ loop' = [loop EXCEPT ![l] = IF next = None THEN Idle ELSE Started(next, <<>>)]
       /\ UNCHANGED <<urgent, postmortem, chatVars>>

\* The postmortem agent returns.
ReturnPostmortem(l, claim) ==
    /\ loop[l].who = "postmortem"
    /\ postmortem' = [postmortem EXCEPT !.claimed = claim]
    /\ loop' = [loop EXCEPT ![l] = Idle]
    /\ UNCHANGED <<pipelineVars, chatVars>>

LastOf(q, n) == SubSeq(q, IF Len(q) > n THEN Len(q) - n + 1 ELSE 1, Len(q))

\* Slip: appends the question to the conversation and keeps an odd rest.
Slip_ReturnAnswer(l) ==
    LET whole == lists[loop[l].list] \o <<Question, Plain>>
    IN /\ loop[l].who = "commander"
       /\ lists' = Append([lists EXCEPT ![loop[l].list] = whole], LastOf(whole, Keep - 1))
       /\ stored' = Len(lists')
       /\ loop' = [loop EXCEPT ![l] = Idle]
       /\ UNCHANGED <<pipelineVars, postmortem, asked>>

\* commander_query has its answer: it extends the list it read and stores a
\* copy of its end.
ReturnAnswer(l) ==
    LET whole == lists[loop[l].list] \o <<Question, Plain>>
    IN /\ loop[l].who = "commander"
       /\ lists' = Append([lists EXCEPT ![loop[l].list] = whole], LastOf(whole, Keep))
       /\ stored' = Len(lists')
       /\ loop' = [loop EXCEPT ![l] = Idle]
       /\ UNCHANGED <<pipelineVars, postmortem, asked>>

\* An agent gives up; a query of the Commander raises.
GiveUp(l) ==
    \/ Return(l, Unstated, FALSE)
    \/ ReturnPostmortem(l, FALSE)
    \/ /\ loop[l].who = "commander"
       /\ loop' = [loop EXCEPT ![l] = Idle]
       /\ UNCHANGED <<pipelineVars, postmortem, chatVars>>

Change(l, w) ==
    /\ loop' = [loop EXCEPT ![l] = w]
    /\ UNCHANGED <<pipelineVars, postmortem, chatVars>>

\* The rounds are used up: the Commander repeats the last reply, answers its
\* tool uses and asks for a summary without tools.
Forced(w) ==
    LET last == w.sent[Len(w.sent) - 1]
    IN [w EXCEPT !.at = "final", !.provider = 1,
            !.sent = @ \o <<last>> \o
                (IF last.uses = {} THEN <<>> ELSE <<Message("user", {}, last.uses, FALSE)>>)]

\* All tool uses of a reply are answered.
NextRound(l, w) ==
    LET on == [w EXCEPT !.sent = Append(@, Message("user", {}, w.done, FALSE)),
                        !.done = {}, !.round = @ + 1]
    IN CASE on.round < Rounds -> Change(l, [on EXCEPT !.at = "asking", !.provider = 1])
         [] on.round = Rounds /\ w.who = "commander" -> Change(l, Forced(on))
         [] OTHER -> GiveUp(l)

\* Slip: tries the providers in turn until one answers.
Slip_ProviderFails(l) ==
    /\ loop[l].at \in {"asking", "final"}
    /\ Change(l, [loop[l] EXCEPT !.provider = 3 - @])

\* _MessagesNamespace.create: the provider fails, the next one is asked.
ProviderFails(l) ==
    /\ loop[l].at \in {"asking", "final"}
    /\ IF loop[l].provider < Len(Chain)
       THEN Change(l, [loop[l] EXCEPT !.provider = @ + 1])
       ELSE GiveUp(l)

Replied(l) == IF loop[l].at \in {"asking", "final"} THEN Replies(Chain[loop[l].provider]) ELSE {}

\* A reply that ends the turn: the agent's analysis is its last text.
EndTurn(l) ==
    /\ loop[l].at = "asking"
    /\ \E rep \in Replied(l) : rep.stop = "end_turn"
    /\ \/ \E stated \in Scores \cup {Unstated} : Return(l, stated, TRUE)
       \/ ReturnPostmortem(l, TRUE)
       \/ ReturnAnswer(l)

\* The reply to the forced summary.
FinalReply(l) == loop[l].at = "final" /\ Replied(l) # {} /\ ReturnAnswer(l)

\* The state of a loop that takes the tool uses of a reply.
Taking(w, n) ==
    LET uses == w.ids + 1 .. w.ids + n
    IN [w EXCEPT !.at = "tools", !.ids = @ + n, !.todo = uses,
                 !.sent = Append(@, Message("assistant", uses, {}, TRUE))]

\* Another reply, with tool uses or cut off.  The Commander takes either for a
\* round, an agent gives up on the second.
ToolReply(l, rep) ==
    /\ loop[l].at = "asking"
    /\ \/ rep.stop = "tool_use" /\ Change(l, Taking(loop[l], rep.uses))
       \/ rep.stop = "max_tokens" /\ loop[l].who # "commander" /\ GiveUp(l)
       \/ /\ rep.stop = "max_tokens" /\ loop[l].who = "commander"
          /\ IF rep.uses > 0 THEN Change(l, Taking(loop[l], rep.uses)) ELSE NextRound(l, Taking(loop[l], 0))

\* _execute_tool of the agents.  Besides reading and commenting on pages, the
\* triage agent's tools may set the severity, the postmortem agent's make its
\* page (a second page is not told from the first).
TriageTool == urgent' \in BOOLEAN /\ UNCHANGED postmortem
PostmortemTool == postmortem' \in {postmortem, [postmortem EXCEPT !.pages = 1]} /\ UNCHANGED urgent
ReadingTool == UNCHANGED <<urgent, postmortem>>
ToolOf(who) ==
    CASE who = "triage" -> TriageTool
      [] who = "postmortem" -> PostmortemTool
      [] OTHER -> ReadingTool

\* Slip: a tool that fails leaves no result.
Slip_RunTool(l, id) ==
    LET w == [loop[l] EXCEPT !.todo = @ \ {id}, !.done = @ \cup ({id} \ {1})]
    IN /\ w.at = "tools" /\ id \in loop[l].todo /\ \A j \in w.todo : id < j
       /\ ToolOf(w.who)
       /\ loop' = [loop EXCEPT ![l] = w]
       /\ UNCHANGED <<results, silent, summary, tracked, chatVars>>

\* _execute_tool: the tools of a reply run in their order; one that raises is
\* answered with its error.
RunTool(l, id) ==
    LET w == [loop[l] EXCEPT !.todo = @ \ {id}, !.done = @ \cup {id}]
    IN /\ w.at = "tools" /\ id \in loop[l].todo /\ \A j \in w.todo : id < j
       /\ ToolOf(w.who)
       /\ loop' = [loop EXCEPT ![l] = w]
       /\ UNCHANGED <<results, silent, summary, tracked, chatVars>>

SendResults(l) ==
    loop[l].at = "tools" /\ loop[l].todo = {} /\ NextRound(l, loop[l])

\* A step of an agent's run or of a query.
LoopStep(l) ==
    \/ ProviderFails(l) \/ EndTurn(l) \/ FinalReply(l)
    \/ \E rep \in Replied(l) : ToolReply(l, rep)
    \/ \E id \in loop[l].todo : RunTool(l, id)
    \/ SendResults(l)

TriageRun(l) == loop[l].who = "triage" /\ LoopStep(l)
CorrelationRun(l) == loop[l].who = "correlation" /\ LoopStep(l)
RemediationRun(l) == loop[l].who = "remediation" /\ LoopStep(l)
CommsRun(l) == loop[l].who = "comms" /\ LoopStep(l)
PostmortemRun(l) == loop[l].who = "postmortem" /\ LoopStep(l)
CommanderQuery(l) == loop[l].who = "commander" /\ LoopStep(l)

RunStep(l) ==
    \/ TriageRun(l) \/ CorrelationRun(l) \/ RemediationRun(l) \/ CommsRun(l)
    \/ PostmortemRun(l) \/ CommanderQuery(l)

LoopNext ==
    \/ \E l \in Loops : StartPipeline(l) \/ StartPostmortem(l) \/ AskCommander(l) \/ RunStep(l)
    \/ ClearHistory

\* Every call of a provider or a tool ends, by its client's timeout if need be.
LoopSpec == LoopInit /\ [][LoopNext]_loopVars /\ \A l \in Loops : WF_loopVars(RunStep(l))

----------------------------------------------------------------------------
(* Properties                                                              *)

Requests == {l \in Loops : loop[l].at \in {"asking", "final"}}

Paired(q) == \A i \in DOMAIN q : q[i] = IF i % 2 = 1 THEN Question ELSE Plain

\* Invariant.  What a model is sent is a conversation: a user's message and a
\* reply in turn, each reply followed by an answer to all tool uses in it and
\* to nothing else; an agent sends no empty message.  Whatever fails, is cut
\* off or is asked at the same time.
TranscriptSound == \A l \in Requests : LET q == loop[l].sent IN
    /\ \A i \in DOMAIN q : q[i].role = IF i % 2 = 1 THEN "user" ELSE "assistant"
    /\ \A i \in DOMAIN q : q[i].uses # {} => i < Len(q)
    /\ \A i \in 2 .. Len(q) : q[i].answers = q[i - 1].uses
    /\ loop[l].who # "commander" => Contents(q) = DOMAIN q
    /\ \A i \in Contents(q) : q[i].answers \subseteq Named(q)

\* Invariant.  The stored conversation consists of questions and their answers,
\* whichever queries fail, overlap or meet a cleared history.
ConversationPaired == stored # 0 => Paired(lists[stored]) /\ Len(lists[stored]) % 2 = 0

\* Invariant.  The summary on the page warns of every agent whose model failed,
\* was cut off or never came to an answer, and no record of the confidence
\* database calls one sure.
SilentAgentsFlagged == summary.posted =>
    /\ silent \subseteq summary.flagged /\ (silent # {} => summary.warns)
    /\ \A rec \in tracked : rec.who \in silent => rec.low /\ rec.score = 0

\* Liveness.  No loop goes on for ever.
LoopsEnd == \A l \in Loops : []<>(loop[l].at = "idle")
=============================================================================
