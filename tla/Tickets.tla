------------------------------- MODULE Tickets -------------------------------
(***************************************************************************)
(* Tickets for the action items of a postmortem, one after another         *)
(* (integrations/jira_integration.py and its endpoints).                   *)
(***************************************************************************)
EXTENDS Integers, Sequences, FiniteSets

CONSTANTS
    Reviewers,     \* who posts lists of action items
    Causes,        \* incidents
    ItemLists,     \* sequences of items
    MaxRefusals    \* bound: calls of the provider that fail

ASSUME TicketsAssumption == MaxRefusals \in Nat
ASSUME ItemsAssumption == \A items \in ItemLists : Len(items) \in Nat

VARIABLES
    provider,      \* "jira", "linear": the one that is enabled, Jira first
    tickets,       \* the provider's, by their keys
    batch,         \* what each reviewer's request has done
    refusals,
    unknown        \* history: tickets made by calls whose reply was lost

ticketVars == <<provider, tickets, batch, refusals, unknown>>

NoKey == 0
NoBatch == [at |-> "idle", incident |-> "", items |-> <<>>, epic |-> FALSE, n |-> 1, key |-> NoKey, results |-> <<>>]

TicketsInit ==
    /\ provider \in {"jira", "linear"} /\ tickets = <<>> /\ refusals = 0 /\ unknown = {}
    /\ batch = [r \in Reviewers |-> NoBatch]

\* POST /tickets/action-items; of Linear's no link to an epic is made.
PostItems(r) ==
    /\ batch[r].at = "idle"
    /\ \E i \in Causes, items \in ItemLists, epic \in IF provider = "jira" THEN BOOLEAN ELSE {FALSE} :
          batch' = [batch EXCEPT ![r] = [NoBatch EXCEPT !.at = IF Len(items) = 0 THEN "answered" ELSE "item",
                                                        !.incident = i, !.items = items, !.epic = epic]]
    /\ UNCHANGED <<provider, tickets, refusals, unknown>>

Refusal == refusals < MaxRefusals /\ refusals' = refusals + 1

Following(b) == IF b.n = Len(b.items) THEN "answered" ELSE "item"

\* Slip: an item that failed is left out.
Slip_Reported(b, key) ==
    [b EXCEPT !.at = Following(b), !.n = @ + 1, !.key = NoKey,
              !.results = IF key = NoKey THEN @ ELSE Append(@, key)]

\* create_action_items: what became of the item, its ticket or an error.
Reported(b, key) ==
    [b EXCEPT !.at = Following(b), !.n = @ + 1, !.key = NoKey, !.results = Append(@, key)]

\* create_ticket: labelled with the incident.  A lost reply is an error as well; an
\* assignee that cannot be looked up is left out.
CreateTicket(r) ==
    /\ batch[r].at = "item"
    /\ LET b == batch[r]
           key == Len(tickets) + 1
           made == Append(tickets, [incident |-> b.incident, item |-> b.items[b.n], epic |-> FALSE])
       IN \/ /\ tickets' = made /\ UNCHANGED <<refusals, unknown>>
             /\ batch' = [batch EXCEPT ![r] = IF b.epic THEN [b EXCEPT !.at = "link", !.key = key]
                                              ELSE Reported(b, key)]
          \/ /\ Refusal /\ batch' = [batch EXCEPT ![r] = Reported(b, NoKey)]
             /\ \/ tickets' = made /\ unknown' = unknown \cup {key}
                \/ UNCHANGED <<tickets, unknown>>
    /\ UNCHANGED provider

\* create_action_items: the link to the epic, whose failure is ignored.
LinkEpic(r) ==
    /\ batch[r].at = "link"
    /\ \/ tickets' = [tickets EXCEPT ![batch[r].key].epic = TRUE] /\ UNCHANGED refusals
       \/ Refusal /\ UNCHANGED tickets
    /\ batch' = [batch EXCEPT ![r] = Reported(batch[r], batch[r].key)]
    /\ UNCHANGED <<provider, unknown>>

\* get_incident_tickets: by the label; Linear's are not searched.
TicketsOf(i) == {k \in DOMAIN tickets : provider = "jira" /\ tickets[k].incident = i}

TicketsNext == \E r \in Reviewers : PostItems(r) \/ CreateTicket(r) \/ LinkEpic(r)

----------------------------------------------------------------------------
\* The answer to a list of items says in its k-th place what became of the k-th item, a
\* ticket is reported to one request only, and one that nobody was told of is due to a lost
\* reply.  With Jira each is found under its incident again.
TicketsHonest ==
    LET told(r) == {batch[r].results[k] : k \in DOMAIN batch[r].results} \ {NoKey}
        given == UNION {told(r) \cup ({batch[r].key} \ {NoKey}) : r \in Reviewers}
    IN /\ \A r \in Reviewers :
             /\ batch[r].at = "answered" => Len(batch[r].results) = Len(batch[r].items)
             /\ \A k \in DOMAIN batch[r].results : batch[r].results[k] # NoKey =>
                   LET key == batch[r].results[k]
                   IN /\ tickets[key].item = batch[r].items[k]
                      /\ provider = "jira" => key \in TicketsOf(batch[r].incident)
             /\ \A s \in Reviewers \ {r} : told(r) \cap told(s) = {}
       /\ DOMAIN tickets \ given = unknown
=============================================================================
