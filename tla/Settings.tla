------------------------------ MODULE Settings ------------------------------
(***************************************************************************)
(* The integration secrets of settings.json (api/settings.py): loaded,     *)
(* masked for the dashboard, merged from a form that was loaded earlier,   *)
(* encrypted (security/encryption.py) and written back, and the            *)
(* integrations built from them (main.reload_integrations).                *)
(*                                                                         *)
(* No handler awaits between its read of the file and its write, so each   *)
(* is one action.  Fields that are not secret take the same path without   *)
(* the mask and the cipher and are left out.                               *)
(***************************************************************************)
EXTENDS Integers, FiniteSets

CONSTANTS
    Secrets,       \* sensitive fields, e.g. github.token
    Values,        \* what an administrator types into one
    Empty,         \* the empty string
    Mask,          \* any string _mask_secret returns for a secret
    Env,           \* the value of each field in the environment
    Admins,        \* browsers showing the settings page
    MaxKey         \* bound: Fernet keys the processes run with

ASSUME SecretsAssumption == Empty \notin Values /\ Mask \notin Values \cup {Empty}
ASSUME EnvAssumption == Env \in [Secrets -> Values \cup {Empty}]
ASSUME KeysAssumption == MaxKey \in Nat \ {0}

Raw == -1      \* not encrypted: no "enc:" prefix
Malformed == 0 \* OPSLENS_ENCRYPTION_KEY is set but no Fernet key
Keys == 1 .. MaxKey
Stored == [key : {Raw} \cup Keys, val : Values \cup {Empty}]
NoFile == <<>>
NoForm == [closed |-> TRUE]
Form == [Secrets -> {Empty, Mask}]

VARIABLES
    file,     \* settings.json
    key,      \* the key of the running process
    tokens,   \* what the integrations of the API and the agents were built with
    form,     \* what each browser got from its last request
    typed,    \* history: for each field, what was last put into it
    stale     \* history: the last save was not followed by a reload

settingsVars == <<file, key, tokens, form, typed, stale>>

Plain(v) == [key |-> Raw, val |-> v]

\* _get_encryption_key: what a process can encrypt and decrypt with.
Usable(k) == k # Malformed

\* decrypt_value: fails on a ciphertext of another key.
Opens(d, k) == d.key = Raw \/ (Usable(k) /\ d.key = k)

\* decrypt_settings: of settings whose values all open.
DecryptSettings(data) == [s \in Secrets |-> Plain(data[s].val)]

\* encrypt_value under _encrypt_if_sensitive: empty values and ciphertexts
\* stay as they are.
Encrypt(d, k) == IF d.key = Raw /\ d.val # Empty THEN [d EXCEPT !.key = k] ELSE d

\* _try_decrypt_settings: all values, or the raw data when one does not open.
Decrypted(data, k) ==
    IF \A s \in Secrets : Opens(data[s], k) THEN DecryptSettings(data) ELSE data

\* _try_encrypt_settings: the raw data when there is no usable key.
Encrypted(data, k) ==
    IF Usable(k) THEN [s \in Secrets |-> Encrypt(data[s], k)] ELSE data

\* _load_settings
Load(f, k) ==
    IF f = NoFile THEN [s \in Secrets |-> Plain(Env[s])] ELSE Decrypted(f, k)

\* _mask_secret: at least four stars for any secret, short or long.
Shown(d) == IF d.val = Empty THEN Empty ELSE Mask

\* _mask_settings
Masked(data) == [s \in Secrets |-> Shown(data[s])]

\* Slip: skips blank fields instead of masks.
Slip_Merged(data, patch) ==
    [s \in Secrets |-> IF patch[s] = Empty THEN data[s] ELSE Plain(patch[s])]

\* update_settings: _merge skips masks.
Merged(data, patch) ==
    [s \in Secrets |-> IF patch[s] = Mask THEN data[s] ELSE Plain(patch[s])]

\* _create_integrations: an empty setting falls back to the environment.
Built(data) ==
    [s \in Secrets |-> IF data[s].val = Empty THEN Plain(Env[s]) ELSE data[s]]

SettingsInit ==
    /\ file = NoFile
    /\ key = 1
    /\ tokens = Built(Load(file, key))
    /\ typed = Env /\ stale = FALSE
    /\ form = [a \in Admins |-> NoForm]

\* get_settings, as the settings page asks for it.
OpenSettings(a) ==
    /\ form' = [form EXCEPT ![a] = Masked(Load(file, key))]
    /\ UNCHANGED <<file, key, tokens, typed, stale>>

\* What the page sends: all it was given, with the fields the user typed over.
Patch(a, edits) == [s \in Secrets |-> IF s \in DOMAIN edits THEN edits[s] ELSE form[a][s]]

Edits == UNION {[S -> Values \cup {Empty}] : S \in SUBSET Secrets}

\* Slip: reloads the integrations before it writes the file.
Slip_SaveSettings(a, edits, reloaded) ==
    LET patch == Patch(a, edits)
        current == Merged(Load(file, key), patch)
    IN /\ form[a] # NoForm
       /\ file' = Encrypted(current, key)
       /\ form' = [form EXCEPT ![a] = Masked(current)]
       /\ typed' = [s \in Secrets |-> IF patch[s] = Mask THEN typed[s] ELSE patch[s]]
       /\ tokens' = IF reloaded THEN Built(Load(file, key)) ELSE tokens
       /\ stale' = ~reloaded
       /\ UNCHANGED key

\* update_settings, with the reload of the integrations it ends in.  A reload
\* that raises is logged: the file is written and the old integrations stay.
\* One that succeeds gives the API and the agents new ones.
SaveSettings(a, edits, reloaded) ==
    LET patch == Patch(a, edits)
        current == Merged(Load(file, key), patch)
    IN /\ form[a] # NoForm
       /\ file' = Encrypted(current, key)
       /\ form' = [form EXCEPT ![a] = Masked(current)]
       /\ typed' = [s \in Secrets |-> IF patch[s] = Mask THEN typed[s] ELSE patch[s]]
       /\ tokens' = IF reloaded THEN Built(Load(file', key)) ELSE tokens
       /\ stale' = ~reloaded
       /\ UNCHANGED key

\* The process is started again, with the key configured now, one generated
\* because none is, or an unusable one.
RestartSettings(k) ==
    /\ key' = k
    /\ tokens' = Built(Load(file, k))
    /\ stale' = FALSE
    /\ UNCHANGED <<file, form, typed>>

=============================================================================
