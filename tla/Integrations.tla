---------------------------- MODULE Integrations ----------------------------
(***************************************************************************)
(* The settings page and the outbound webhooks in one process: saving the  *)
(* settings reloads the integrations, the webhook manager among them.      *)
(***************************************************************************)
EXTENDS Settings, OutboundWebhooks

CONSTANT
    Profiles       \* bound: how many of each step a behaviour takes

VARIABLE budget

integrationVars == <<settingsVars, outboundVars, budget>>

ASSUME ProfilesAssumption ==
    Profiles \subseteq [saves : Nat, typed : Nat, restarts : Nat,
                 changes : Nat, dispatches : Nat]

Spend(what) == budget[what] > 0 /\ budget' = [budget EXCEPT ![what] = @ - 1]

IntegrationsInit == SettingsInit /\ OutboundInit /\ budget \in Profiles

\* PUT /api/settings: a reload that fails leaves the webhook manager, too.
PutSettings == \E a \in Admins, edits \in Edits, reloaded \in BOOLEAN :
    /\ Cardinality(DOMAIN edits) <= budget["typed"]
    /\ Spend("saves") /\ SaveSettings(a, edits, reloaded)
    /\ IF reloaded THEN ReloadOutbound ELSE UNCHANGED outboundVars

\* GET /api/settings
GetSettings == \E a \in Admins :
    budget["saves"] > 0 /\ OpenSettings(a) /\ UNCHANGED <<outboundVars, budget>>

Restart == \E k \in {Malformed} \cup Keys :
    Spend("restarts") /\ RestartSettings(k) /\ RestartOutbound

\* POST, PUT and DELETE /api/integrations/outbound-webhooks
ChangeSubscriptions ==
    /\ Spend("changes")
    /\ \/ \E f \in Offers : AddSubscription(f)
       \/ \E i \in DOMAIN entries, f \in Offers : UpdateSubscription(i, f)
       \/ \E i \in DOMAIN entries : RemoveSubscription(i)
    /\ UNCHANGED settingsVars

\* handle_alert and the two pipelines dispatch; the API sends tests.
StartWalk == \E d \in Walks :
    /\ Spend("dispatches")
    /\ Dispatch(d) \/ \E i \in DOMAIN entries : TestSubscription(d, i)
    /\ UNCHANGED settingsVars

Deliver(d) ==
    /\ (\E ok \in BOOLEAN : Answer(d, ok)) \/ Awake(d)
    /\ UNCHANGED <<settingsVars, budget>>

IntegrationsNext ==
    \/ PutSettings \/ GetSettings \/ Restart
    \/ ChangeSubscriptions \/ StartWalk
    \/ \E d \in Walks : Deliver(d)

\* A request ends within its timeout and a backoff at its time.
IntegrationsSpec ==
    /\ IntegrationsInit /\ [][IntegrationsNext]_integrationVars
    /\ \A d \in Walks : WF_integrationVars(Deliver(d))

----------------------------------------------------------------------------
Value(s) == Load(file, key)[s].val

\* Action property.  Saving the page never changes a secret the user did not
\* type over, whatever happened since the page was loaded (other saves, a
\* lost or a broken key), except one the page showed as blank.
SecretsKept == [][\A s \in Secrets : Value(s)' # Value(s) =>
    \E a \in Admins, edits \in Edits, reloaded \in BOOLEAN :
        /\ SaveSettings(a, edits, reloaded)
        /\ s \in DOMAIN edits \/ form[a][s] = Empty]_integrationVars

\* What the integrations should be using: what was last typed for a field, or
\* what the environment says if that was blank.
Wanted == [s \in Secrets |-> Plain(IF typed[s] = Empty THEN Env[s] ELSE typed[s])]

\* Every secret of the settings file can be read with the key in use.
Readable == file = NoFile \/ \A s \in Secrets : Opens(file[s], key)

\* Invariant.  What an administrator types reaches the agents and the API, in
\* plain text, through masks, merges, ciphers, key changes and restarts: only
\* while the last reload failed or a secret in the file does not open may they
\* use anything else.
TypedInUse == Readable /\ ~stale => tokens = Wanted

\* Liveness.  No dispatch goes on for ever: retries and walks end.
DispatchesEnd == \A d \in Walks : []<>(walk[d].at = "idle")
=============================================================================
