---------------------------- MODULE KnowledgeBase ----------------------------
(***************************************************************************)
(* The knowledge base (integrations/knowledge_base.py): documents and      *)
(* their embeddings in memory, saved whole to one JSON file after each     *)
(* change.  A reload of the integrations (main.py) makes a new object from *)
(* the file, while calls on the old one may still await an embedding.      *)
(***************************************************************************)
EXTENDS Integers, Sequences, FiniteSets

CONSTANTS
    DocIds,        \* doc_id of what is indexed: incident-..., learning-...
    Learners,      \* tasks that index: the orchestrator and the endpoints
    MaxObjects,    \* bound: KnowledgeBase objects built, by reload or restart
    MaxVersion,    \* bound: states of the text of a document
    MaxMishaps     \* bound: embeddings that fall back, saves that fail

ASSUME ObjectsAssumption == MaxObjects \in Nat \ {0} /\ MaxVersion \in Nat \ {0} /\ MaxMishaps \in Nat

\* Dimensions of the provider's embeddings and of the hash it falls back to.
Model == 768
Hash == 384

Idle == [at |-> "idle"]

VARIABLES
    base,          \* the objects built so far: what each holds
    disk,          \* knowledge_base.json: "missing", "torn" or "whole", and its documents
    learner,       \* what each task is indexing, and with which object
    text,          \* the present version of each source
    mishaps,
    risked,        \* history: documents a fault or an overlap may have cost
    indexed        \* history: of the others, the newest that was reported as indexed

knowledgeVars == <<base, disk, learner, text, mishaps, indexed, risked>>

Empty == [d \in {} |-> [version |-> 0, dims |-> Hash]]
Missing == [file |-> "missing", documents |-> Empty]
Torn == [file |-> "torn", documents |-> Empty]        \* a write that was cut short
Whole(documents) == [file |-> "whole", documents |-> documents]
Current == Len(base)       \* app.state.knowledge_base, and what is wired to it

KnowledgeInit ==
    /\ base = <<Empty>> /\ disk = Missing /\ learner = [l \in Learners |-> Idle]
    /\ text = [d \in DocIds |-> 1] /\ mishaps = 0
    /\ indexed = Empty /\ risked = {}

\* The incident changes before it is indexed again.
Revise(d) ==
    /\ text[d] < MaxVersion /\ text' = [text EXCEPT ![d] = @ + 1]
    /\ UNCHANGED <<base, disk, learner, mishaps, indexed, risked>>

\* Documents another task is indexing, too.
Contested(d) == {l \in Learners : learner[l].at # "idle" /\ Head(learner[l].docs) = d}

\* learn_from_resolution (the incident, then what was learned from it), or
\* index_text.  The text is fixed when _add_document starts to embed it.
Embed(l, object, docs) ==
    /\ learner' = [learner EXCEPT ![l] = IF docs = <<>> THEN Idle
                     ELSE [at |-> "embedding", object |-> object, docs |-> docs, version |-> text[Head(docs)]]]

Spared(reported) == [d \in DOMAIN reported \ risked' |-> reported[d]]

Learn(l) ==
    /\ learner[l] = Idle
    /\ \E docs \in [1 .. 1 -> DocIds] \cup [1 .. 2 -> DocIds] :
          /\ Len(docs) = 2 => docs[1] # docs[2]
          /\ Embed(l, Current, docs)
          /\ risked' = risked \cup (IF Contested(docs[1]) = {} THEN {} ELSE {docs[1]})
          /\ indexed' = Spared(indexed)
    /\ UNCHANGED <<base, disk, text, mishaps>>

\* EmbeddingProvider.embed: a call that fails falls back to the hash.
Dims(n) == {[dims |-> Model, mishap |-> 0]} \cup (IF n < MaxMishaps THEN {[dims |-> Hash, mishap |-> 1]} ELSE {})

\* Slip: a document that is known keeps its first text.
Slip_Added(k, d, doc) == [e \in DOMAIN k \cup {d} |-> IF e \in DOMAIN k THEN k[e] ELSE doc]

Added(k, d, doc) == [e \in DOMAIN k \cup {d} |-> IF e = d THEN doc ELSE k[e]]

\* A document that is reported as indexed, unless a newer version of it was.
Newest(d, doc) ==
    [e \in DOMAIN indexed \cup {d} |->
        IF e # d \/ (e \in DOMAIN indexed /\ indexed[e].version > doc.version) THEN indexed[e] ELSE doc]

\* _add_document after the embedding: both tables, then _save_to_disk, which
\* writes all of this object's documents.  A write that fails raises.
Store(l) ==
    /\ learner[l].at = "embedding"
    /\ LET o == learner[l].object
           d == Head(learner[l].docs)
           stale == o # Current
           next == IF Len(learner[l].docs) = 1 THEN <<>> ELSE Tail(learner[l].docs)
       IN \E e \in Dims(mishaps) :
             LET doc == [version |-> learner[l].version, dims |-> e.dims]
                 after == Added(base[o], d, doc)
             IN /\ base' = [base EXCEPT ![o] = after]
                /\ \/ /\ disk' = Whole(after) /\ mishaps' = mishaps + e.mishap
                      /\ Embed(l, o, next)
                      /\ risked' = risked \cup (IF stale THEN DocIds ELSE {})
                                    \cup (IF next # <<>> /\ Contested(Head(next)) # {} THEN {Head(next)} ELSE {})
                      /\ indexed' = Spared(Newest(d, doc))
                   \/ /\ mishaps + e.mishap < MaxMishaps /\ mishaps' = mishaps + e.mishap + 1
                      /\ disk' \in {disk, Torn} /\ learner' = [learner EXCEPT ![l] = Idle]
                      /\ risked' = IF disk' = Torn THEN DocIds ELSE risked \cup {d}
                      /\ indexed' = Spared(indexed)
    /\ UNCHANGED text

\* load_from_disk: nothing, when the file does not parse.
Loaded == disk.documents

\* A new object; of the others those some call still holds.
Replaced(held) == Append([o \in DOMAIN base |-> IF o \in held THEN base[o] ELSE Empty], Loaded)

\* reload_integrations: the orchestrator and the endpoints get the new object.
ReloadKnowledge ==
    /\ Len(base) < MaxObjects
    /\ base' = Replaced({learner[l].object : l \in {k \in Learners : learner[k] # Idle}})
    /\ UNCHANGED <<disk, learner, text, mishaps, indexed, risked>>

\* The process ends; its calls with it.
RestartKnowledge ==
    /\ Len(base) < MaxObjects /\ base' = Replaced({})
    /\ learner' = [l \in Learners |-> Idle]
    /\ UNCHANGED <<disk, text, mishaps, indexed, risked>>

KnowledgeNext ==
    \/ \E d \in DocIds : Revise(d)
    \/ \E l \in Learners : Learn(l) \/ Store(l)
    \/ ReloadKnowledge \/ RestartKnowledge

----------------------------------------------------------------------------
(* Search                                                                  *)

\* _cosine_similarity: of different dimensions it is 0; otherwise a document
\* is as close to its own text as any.
Similarity(d, doc, query, dims) == IF doc.dims # dims THEN 0 ELSE IF d = query THEN 2 ELSE 1

\* search, with a minimum score above 0: the closest top documents.
Found(k, query, dims, top) ==
    {d \in DOMAIN k :
        LET score(e) == Similarity(e, k[e], query, dims)
        IN score(d) > 0 /\ Cardinality({e \in DOMAIN k : score(e) > score(d)}) < top}

----------------------------------------------------------------------------
(* Properties                                                              *)

\* What was reported as indexed is known in the newest version reported, after reloads
\* and restarts too, and a search for its own text finds it when both were embedded by
\* the model.  Excepted are documents two tasks indexed at once, those of a save that failed, and
\* all once a call on an object that has been replaced saves its own view of the file.
KnowledgeKept ==
    \A d \in DOMAIN indexed :
        /\ d \in DOMAIN base[Current]
        /\ base[Current][d] = indexed[d]
        /\ indexed[d].dims = Model => d \in Found(base[Current], d, Model, 1)
=============================================================================
