------------------------------ MODULE Broadcast ------------------------------
(***************************************************************************)
(* The WebSocket fan-out: WSManager of main.py, its endpoint and the       *)
(* dashboards' useWebSocket hook.  broadcast walks the live list of        *)
(* connections and awaits each send; meanwhile other tasks connect,        *)
(* disconnect and broadcast.                                               *)
(***************************************************************************)
EXTENDS Integers, Sequences, FiniteSets, SequencesExt

CONSTANTS
    Clients,       \* sockets; a browser opens a new one 3 s after its last closed
    Messages,      \* what the incident manager announces
    MaxDrops       \* bound: connections that break

ASSUME DropsAssumption == MaxDrops \in Nat

VARIABLES
    connections,   \* _connections
    link,          \* "new", "up", "broken": the server has not noticed yet, or "gone"
    inbox,         \* messages each socket has carried
    sending,       \* each message: not begun, the broadcast's place in the list, or done
    drops,         \* connections broken so far
    owed           \* history: connected since the broadcast began

broadcastVars == <<connections, link, inbox, sending, drops, owed>>

BroadcastInit ==
    /\ connections = <<>> /\ link = [c \in Clients |-> "new"]
    /\ inbox = [c \in Clients |-> {}]
    /\ sending = [m \in Messages |-> [at |-> "new", next |-> 1, dead |-> {}, shrunk |-> FALSE]]
    /\ drops = 0 /\ owed = [m \in Messages |-> {}]

\* WSManager.connect
Connect(c) ==
    /\ link[c] = "new" /\ link' = [link EXCEPT ![c] = "up"]
    /\ connections' = Append(connections, c)
    /\ UNCHANGED <<inbox, sending, drops, owed>>

Break(c) ==
    /\ link[c] = "up" /\ drops < MaxDrops /\ drops' = drops + 1
    /\ link' = [link EXCEPT ![c] = "broken"]
    /\ owed' = [m \in Messages |-> owed[m] \ {c}]
    /\ UNCHANGED <<connections, inbox, sending>>

\* WSManager.disconnect: what it leaves of the list.
Without(S) ==
    LET kept[n \in 0 .. Len(connections)] ==
            IF n = 0 THEN <<>>
            ELSE IF connections[n] \in S THEN kept[n - 1] ELSE Append(kept[n - 1], connections[n])
    IN kept[Len(connections)]

Shrink(S) ==
    sending' = [m \in Messages |-> IF sending[m].at = "sending" /\ \E c \in S : Contains(connections, c)
                                   THEN [sending[m] EXCEPT !.shrunk = TRUE] ELSE sending[m]]

\* The endpoint's receive_text raises WebSocketDisconnect.
Disconnect(c) ==
    /\ link[c] = "broken" /\ link' = [link EXCEPT ![c] = "gone"]
    /\ connections' = Without({c}) /\ Shrink({c})
    /\ UNCHANGED <<inbox, drops, owed>>

\* broadcast: the message is announced.
Begin(m) ==
    /\ sending[m].at = "new" /\ sending' = [sending EXCEPT ![m].at = "sending"]
    /\ owed' = [owed EXCEPT ![m] = {c \in Range(connections) : link[c] = "up"}]
    /\ UNCHANGED <<connections, link, inbox, drops>>

\* Slip: a client that cannot be reached is removed at once.
Slip_Send(m) ==
    /\ sending[m].at = "sending" /\ sending[m].next <= Len(connections)
    /\ LET c == connections[sending[m].next]
       IN IF link[c] = "up"
          THEN /\ inbox' = [inbox EXCEPT ![c] = @ \cup {m}]
               /\ sending' = [sending EXCEPT ![m].next = @ + 1]
               /\ UNCHANGED connections
          ELSE /\ connections' = Without({c})
               /\ sending' = [sending EXCEPT ![m].next = @ + 1]
               /\ UNCHANGED inbox
    /\ UNCHANGED <<link, drops, owed>>

\* The next client in the list, by its place: what a Python list iterator does
\* when the list changes under it.  A client that cannot be reached is noted.
Send(m) ==
    /\ sending[m].at = "sending" /\ sending[m].next <= Len(connections)
    /\ LET c == connections[sending[m].next]
       IN IF link[c] = "up"
          THEN /\ inbox' = [inbox EXCEPT ![c] = @ \cup {m}]
               /\ sending' = [sending EXCEPT ![m].next = @ + 1]
          ELSE /\ sending' = [sending EXCEPT ![m].next = @ + 1, ![m].dead = @ \cup {c}]
               /\ UNCHANGED inbox
    /\ UNCHANGED <<connections, link, drops, owed>>

\* The end of the list: the clients noted are disconnected.
Finish(m) ==
    /\ sending[m].at = "sending" /\ sending[m].next > Len(connections)
    /\ connections' = Without(sending[m].dead)
    /\ sending' = [n \in Messages |->
                      IF n = m THEN [sending[m] EXCEPT !.at = "done"]
                      ELSE IF sending[n].at = "sending" /\ connections' # connections
                           THEN [sending[n] EXCEPT !.shrunk = TRUE] ELSE sending[n]]
    /\ UNCHANGED <<link, inbox, drops, owed>>

BroadcastNext ==
    \/ \E c \in Clients : Connect(c) \/ Break(c) \/ Disconnect(c)
    \/ \E m \in Messages : Begin(m) \/ Send(m) \/ Finish(m)

----------------------------------------------------------------------------
\* A broadcast reaches every client that was connected when it began and still is,
\* however many others are unreachable, unless another task shortens the list meanwhile:
\* broadcast walks the live list, and the walk skips a client then.
BroadcastReaches ==
    \A m \in Messages :
        (sending[m].at = "done" /\ ~sending[m].shrunk) => \A c \in owed[m] : m \in inbox[c]
=============================================================================
