------------------------- MODULE IntegrationsProofs -------------------------
(***************************************************************************)
(* Theorems about Integrations, for any fields, values, keys, browsers,    *)
(* subscriptions and number of walks: the settings page keeps the secrets  *)
(* it was not told to change, what is typed reaches the integrations, and  *)
(* the dispatch of an event implements Fanout.                             *)
(***************************************************************************)
EXTENDS Integrations, FiniteSetTheorems, SequenceTheorems, WellFoundedInduction, TLAPS

----------------------------------------------------------------------------
(* Settings                                                                *)

SettingsTypes ==
    /\ file = NoFile \/ file \in [Secrets -> Stored]
    /\ form \in [Admins -> Form \cup {NoForm}]

\* A file that has an entry for each field is a file.
LEMMA FileExists ==
  ASSUME NEW f \in [Secrets -> Stored], NEW s \in Secrets
  PROVE  f # NoFile
<1>1. DOMAIN f = Secrets /\ DOMAIN NoFile = {}
  BY DEF NoFile
<1> QED  BY <1>1

\* What is loaded has the types of the file, and its values.
LEMMA LoadType ==
  ASSUME NEW f, f = NoFile \/ f \in [Secrets -> Stored], NEW k
  PROVE  /\ Load(f, k) \in [Secrets -> Stored]
         /\ f # NoFile => \A s \in Secrets : Load(f, k)[s].val = f[s].val
<1>1. CASE f = NoFile
  BY <1>1, EnvAssumption DEF Load, Plain, Stored
<1>2. CASE f # NoFile
  <2>1. f \in [Secrets -> Stored]
    BY <1>2
  <2>2. Load(f, k) = DecryptSettings(f) \/ Load(f, k) = f
    BY <1>2 DEF Load, Decrypted
  <2>3. /\ DecryptSettings(f) \in [Secrets -> Stored]
        /\ \A s \in Secrets : DecryptSettings(f)[s].val = f[s].val
    BY <2>1 DEF DecryptSettings, Plain, Stored
  <2> QED  BY <2>1, <2>2, <2>3
<1> QED  BY <1>1, <1>2

\* Encryption keeps types and values.
LEMMA EncryptedType ==
  ASSUME NEW data \in [Secrets -> Stored], NEW k \in {Malformed} \cup Keys
  PROVE  /\ Encrypted(data, k) \in [Secrets -> Stored]
         /\ \A s \in Secrets : Encrypted(data, k)[s].val = data[s].val
<1>1. CASE ~Usable(k)
  BY <1>1 DEF Encrypted
<1>2. CASE Usable(k)
  <2>1. k \in Keys
    BY <1>2 DEF Usable
  <2>2. \A s \in Secrets : /\ Encrypt(data[s], k) \in Stored
                           /\ Encrypt(data[s], k).val = data[s].val
    BY <2>1 DEF Encrypt, Stored
  <2> QED  BY <1>2, <2>2 DEF Encrypted
<1> QED  BY <1>1, <1>2

\* The page's answer is that of its fields, with masks for secrets.
LEMMA MaskedType ==
  ASSUME NEW data \in [Secrets -> Stored]
  PROVE  Masked(data) \in Form
BY DEF Masked, Shown, Form

\* What a save makes of the settings: each field is what was typed over it, what the page
\* said of it, or what it was.
LEMMA MergedType ==
  ASSUME NEW data \in [Secrets -> Stored], NEW a \in Admins, form[a] \in Form, NEW edits \in Edits
  PROVE  /\ Merged(data, Patch(a, edits)) \in [Secrets -> Stored]
         /\ \A s \in Secrets : s \notin DOMAIN edits /\ form[a][s] # Empty =>
                Merged(data, Patch(a, edits))[s] = data[s]
         /\ \A s \in Secrets : Patch(a, edits)[s] \in Values \cup {Empty, Mask}
<1>1. \A s \in DOMAIN edits : edits[s] \in Values \cup {Empty}
  BY DEF Edits
<1>2. \A s \in Secrets : Patch(a, edits)[s] \in Values \cup {Empty, Mask}
  BY <1>1 DEF Patch, Form
<1>3. Merged(data, Patch(a, edits)) \in [Secrets -> Stored]
  BY <1>2 DEF Merged, Plain, Stored
<1>4. \A s \in Secrets : s \notin DOMAIN edits /\ form[a][s] # Empty => Patch(a, edits)[s] = Mask
  BY DEF Patch, Form
<1> QED  BY <1>2, <1>3, <1>4 DEF Merged

\* The file holds what was typed, encrypted or not; the settings in use are those of the
\* file unless the last reload failed.
TypedOnFile ==
    /\ typed \in [Secrets -> Values \cup {Empty}]
    /\ file = NoFile => typed = Env
    /\ file # NoFile => \A s \in Secrets : file[s].val = typed[s]

SettingsInv ==
    /\ SettingsTypes /\ key \in {Malformed} \cup Keys /\ TypedOnFile
    /\ ~stale => tokens = Built(Load(file, key))

\* What is loaded has the values that were typed.
LEMMA LoadTyped ==
  ASSUME SettingsTypes, TypedOnFile, NEW k, NEW s \in Secrets
  PROVE  Load(file, k)[s].val = typed[s]
<1>1. CASE file = NoFile
  BY <1>1 DEF Load, Plain, TypedOnFile
<1>2. CASE file # NoFile
  BY <1>2, LoadType DEF SettingsTypes, TypedOnFile
<1> QED  BY <1>1, <1>2

LEMMA SettingsInitInv == SettingsInit => SettingsInv
BY KeysAssumption, EnvAssumption
   DEF SettingsInit, SettingsInv, SettingsTypes, TypedOnFile, Keys, NoForm

LEMMA SettingsUnchanged == SettingsInv /\ UNCHANGED settingsVars => SettingsInv'
BY DEF settingsVars, SettingsInv, SettingsTypes, TypedOnFile

LEMMA SettingsOpen == ASSUME SettingsInv, NEW a \in Admins, OpenSettings(a) PROVE SettingsInv'
<1>1. Masked(Load(file, key)) \in Form
  BY LoadType, MaskedType DEF SettingsInv, SettingsTypes
<1>2. form' \in [Admins -> Form \cup {NoForm}]
  BY <1>1 DEF OpenSettings, SettingsInv, SettingsTypes
<1> QED  BY <1>2 DEF OpenSettings, SettingsInv, SettingsTypes, TypedOnFile

\* A save, and what it does to the value of each field.
LEMMA SettingsSave ==
  ASSUME SettingsInv, NEW a \in Admins, NEW edits \in Edits, NEW reloaded \in BOOLEAN,
         SaveSettings(a, edits, reloaded)
  PROVE  /\ SettingsInv'
         /\ \A s \in Secrets : s \notin DOMAIN edits /\ form[a][s] # Empty => Value(s)' = Value(s)
<1> DEFINE loaded == Load(file, key)
           patch == Patch(a, edits)
           current == Merged(loaded, patch)
<1>1. loaded \in [Secrets -> Stored] /\ \A s \in Secrets : loaded[s].val = typed[s]
  BY LoadType, LoadTyped DEF SettingsInv, SettingsTypes
<1>2. form[a] \in Form
  BY DEF SaveSettings, SettingsInv, SettingsTypes
<1>3. /\ current \in [Secrets -> Stored]
      /\ \A s \in Secrets : s \notin DOMAIN edits /\ form[a][s] # Empty => current[s] = loaded[s]
      /\ \A s \in Secrets : patch[s] \in Values \cup {Empty, Mask}
  BY <1>1, <1>2, MergedType
<1>4. /\ file' = Encrypted(current, key) /\ key' = key /\ stale' = ~reloaded
      /\ tokens' = IF reloaded THEN Built(Load(file', key)) ELSE tokens
      /\ typed' = [s \in Secrets |-> IF patch[s] = Mask THEN typed[s] ELSE patch[s]]
  BY DEF SaveSettings
<1>5. \A s \in Secrets : current[s].val = typed'[s]
  BY <1>1, <1>4 DEF Merged, Plain
<1>6. form' \in [Admins -> Form \cup {NoForm}]
  <2>1. form' = [form EXCEPT ![a] = Masked(current)]
    BY DEF SaveSettings
  <2> HIDE DEF current
  <2> QED  BY <2>1, <1>3, MaskedType DEF SettingsInv, SettingsTypes
<1> HIDE DEF loaded, current, patch
<1>7. file' \in [Secrets -> Stored] /\ \A s \in Secrets : file'[s].val = current[s].val
  BY <1>3, <1>4, EncryptedType DEF SettingsInv
<1>8. typed' \in [Secrets -> Values \cup {Empty}]
  BY <1>3, <1>4 DEF SettingsInv, TypedOnFile
<1>9. file' = NoFile => typed' = Env
  <2>1. CASE Secrets = {}
    BY <2>1, <1>8, EnvAssumption
  <2>2. CASE Secrets # {}
    BY <2>2, <1>7, FileExists
  <2> QED  BY <2>1, <2>2
<1>10. TypedOnFile'
  BY <1>5, <1>7, <1>8, <1>9 DEF TypedOnFile
<1>11. SettingsInv'
  <2>1. SettingsTypes' /\ key' \in {Malformed} \cup Keys
    BY <1>4, <1>6, <1>7 DEF SettingsInv, SettingsTypes
  <2>2. ~stale' => tokens' = Built(Load(file', key'))
    BY <1>4
  <2> QED  BY <2>1, <2>2, <1>10 DEF SettingsInv
<1>12. ASSUME NEW s \in Secrets PROVE Value(s)' = current[s].val
  <2>1. file' # NoFile
    BY <1>7, FileExists
  <2>2. Load(file', key)[s].val = file'[s].val
    BY <2>1, <1>7, LoadType
  <2> QED  BY <2>2, <1>4, <1>7 DEF Value
<1>13. \A s \in Secrets : Value(s) = loaded[s].val
  BY DEF Value, loaded
<1> QED  BY <1>3, <1>11, <1>12, <1>13

\* A restart: the values in the file do not depend on the key.
LEMMA SettingsRestart ==
  ASSUME SettingsInv, NEW k \in {Malformed} \cup Keys, RestartSettings(k)
  PROVE  SettingsInv' /\ \A s \in Secrets : Value(s)' = Value(s)
<1>1. file' = file /\ key' = k /\ form' = form /\ typed' = typed /\ tokens' = Built(Load(file, k))
  BY DEF RestartSettings
<1>2. SettingsInv'
  BY <1>1 DEF SettingsInv, SettingsTypes, TypedOnFile
<1>3. ASSUME NEW s \in Secrets PROVE Value(s)' = Value(s)
  <2>1. Value(s)' = Load(file, k)[s].val /\ Value(s) = Load(file, key)[s].val
    BY <1>1 DEF Value
  <2> QED  BY <2>1, LoadTyped DEF SettingsInv
<1> QED  BY <1>2, <1>3

\* Settings that can be read with the key are, in plain text, what was typed.
LEMMA ReadableMeans ==
  ASSUME SettingsInv, Readable
  PROVE  Built(Load(file, key)) = Wanted
<1>1. ASSUME NEW s \in Secrets PROVE Load(file, key)[s] = Plain(typed[s])
  <2>1. Load(file, key)[s].val = typed[s]
    BY LoadTyped DEF SettingsInv
  <2>2. \E v : Load(file, key)[s] = Plain(v)
    <3>1. CASE file = NoFile
      BY <3>1 DEF Load
    <3>2. CASE file # NoFile
      BY <3>2 DEF Load, Decrypted, DecryptSettings, Readable
    <3> QED  BY <3>1, <3>2
  <2> QED  BY <2>1, <2>2 DEF Plain
<1>2. \A s \in Secrets : Plain(typed[s]).val = typed[s]
  BY DEF Plain
<1> QED  BY <1>1, <1>2 DEF Built, Wanted

----------------------------------------------------------------------------
(* The registry of subscriptions                                           *)

Entry == [id : Nat, sub : Subs \cup {None}]
WalkStates ==
    [at : {"idle", "posting", "sleeping"}, sub : Subs \cup {None}, pos : Nat, size : Nat, left : Int,
     attempt : Nat, limit : Nat, test : BOOLEAN, got : SUBSET Subs, churn : BOOLEAN]

OutboundTypes ==
    /\ entries \in Seq(Entry) /\ counter \in Nat /\ made \in 0 .. MaxSubs
    /\ offer \in [Subs -> Offer] /\ walk \in [Walks -> WalkStates]

\* Each object is in the registry once, and only objects that were made are.
EntriesDiffer ==
    /\ \A i \in Present : entries[i].sub \in 1 .. made
    /\ \A i, j \in Present : entries[i].sub = entries[j].sub => i = j

\* What lies ahead of a place in the registry, and who of it is to be tried.
Ahead(p) == {i \in Present : i > p}
Hits(p) == {i \in Ahead(p) : Tried(entries[i].sub)}
Still(p) == {entries[i].sub : i \in Hits(p)}

\* A walk that serves place p, and has tried the objects in tried: none of them is ahead,
\* and it knows how many are, unless the registry was changed under it.
Knows(p, tried, size, left, churn) ==
    /\ tried \subseteq 1 .. made
    /\ \A i \in Ahead(p) : entries[i].sub \notin tried
    /\ ~churn => size = Cardinality(Present) /\ left = Cardinality(Ahead(p))

Walking(w) ==
    /\ w.sub \in 1 .. made /\ w.sub \notin w.got
    /\ Knows(w.pos, w.got \cup {w.sub}, w.size, w.left, w.churn)

OutboundInv ==
    /\ OutboundTypes /\ EntriesDiffer
    /\ \A d \in Dispatching : Walking(walk[d])

----------------------------------------------------------------------------
\* Every set of numbers that is not empty has a least one.
LEMMA LeastExists ==
  ASSUME NEW T, T \subseteq Nat, T # {}
  PROVE  \E m \in T : \A k \in T : m <= k
<1> DEFINE R == {ss \in Nat \X Nat : ss[1] < ss[2]}
<1>1. IsWellFoundedOn(R, Nat)
  BY NatLessThanWellFounded DEF OpToRel
<1> HIDE DEF R
<1>2. PICK m \in T : \A k \in T : ~ (<<k, m>> \in R)
  BY <1>1, WFMin
<1>3. \A k \in T : k \in Nat /\ m \in Nat /\ ~ (k < m)
  BY <1>2 DEF R
<1> QED  BY <1>3

LEMMA PresentType ==
  ASSUME entries \in Seq(Entry)
  PROVE  /\ Present \subseteq Nat \ {0} /\ IsFiniteSet(Present) /\ Cardinality(Present) \in Nat
         /\ \A i \in Present : entries[i] \in Entry
         /\ \A p : /\ Ahead(p) \subseteq Present /\ IsFiniteSet(Ahead(p)) /\ Cardinality(Ahead(p)) \in Nat
                   /\ Hits(p) \subseteq Ahead(p)
<1>1. Len(entries) \in Nat /\ DOMAIN entries = 1 .. Len(entries)
  BY LenProperties
<1>2. Present \subseteq 1 .. Len(entries)
  BY <1>1 DEF Present
<1>3. IsFiniteSet(Present)
  <2>1. IsFiniteSet(1 .. Len(entries))
    BY <1>1, FS_Interval
  <2>2. Present \in SUBSET (1 .. Len(entries))
    BY <1>2
  <2> QED  BY <2>1, <2>2, FS_Subset
<1>4. \A p : Ahead(p) \subseteq Present /\ IsFiniteSet(Ahead(p))
  <2>1. \A p : Ahead(p) \in SUBSET Present
    BY DEF Ahead
  <2> QED  BY <1>3, <2>1, FS_Subset
<1>5. \A i \in Present : entries[i] \in Entry
  BY <1>1, <1>2, ElementOfSeq
<1> QED  BY <1>1, <1>2, <1>3, <1>4, <1>5, FS_CardinalityType DEF Hits

\* Where a walk goes from place p, when it has tried some objects: it ends, and if the
\* registry is as it was then because nobody is to be tried any more; or it goes to the
\* first who is, and the others are those that remain.
LEMMA NextMatchMeans ==
  ASSUME OutboundTypes, EntriesDiffer, NEW w \in WalkStates,
         Knows(w.pos, w.got, w.size, w.left, w.churn)
  PROVE  LET n == NextMatch(w)
         IN \/ n = Idle /\ (w.churn \/ Still(w.pos) = {})
            \/ /\ n \in WalkStates /\ n.at = "posting" /\ Walking(n)
               /\ n.test = w.test /\ n.got = w.got /\ n.churn = w.churn
               /\ Still(w.pos) = {n.sub} \cup Still(n.pos)
<1> DEFINE ahead == {i \in Present : i > w.pos}
           hits == {i \in ahead : Tried(entries[i].sub)}
           hit == CHOOSE i \in hits : \A j \in hits : i <= j
           taken == Cardinality({i \in ahead : i <= hit})
<1>1. ahead = Ahead(w.pos) /\ hits = Hits(w.pos)
  BY DEF Ahead, Hits
<1>2. /\ ahead \subseteq Present /\ IsFiniteSet(ahead) /\ Cardinality(ahead) \in Nat
      /\ hits \subseteq ahead /\ Present \subseteq Nat \ {0} /\ Cardinality(Present) \in Nat
      /\ \A i \in Present : entries[i] \in Entry
  BY <1>1, PresentType DEF OutboundTypes
<1>3. NextMatch(w) =
        IF Cardinality(Present) # w.size \/ hits = {} \/ taken > w.left
        THEN Idle
        ELSE [w EXCEPT !.at = "posting", !.sub = entries[hit].sub, !.pos = hit,
                       !.left = @ - taken, !.attempt = 1,
                       !.limit = offer[entries[hit].sub].tries]
  BY DEF NextMatch
<1>4. CASE hits = {}
  BY <1>1, <1>3, <1>4 DEF Still
<1>5. CASE hits # {}
  <2> HIDE DEF ahead, hits, hit, taken
  <2>1. hit \in hits /\ \A j \in hits : hit <= j
    <3>1. hits \subseteq Nat
      BY <1>2
    <3>2. \E i \in hits : \A j \in hits : i <= j
      BY <3>1, <1>5, LeastExists
    <3> QED  BY <3>2 DEF hit
  <2>2. hit \in Nat /\ hit \in Present /\ hit > w.pos /\ w.pos \in Nat
    BY <2>1, <1>2 DEF ahead, WalkStates
  <2>3. /\ taken \in Nat /\ taken <= Cardinality(ahead)
        /\ Cardinality(Ahead(hit)) = Cardinality(ahead) - taken
    <3> DEFINE near == {i \in ahead : i <= hit}
    <3>1. near \subseteq ahead /\ Ahead(hit) = ahead \ near /\ ahead \cap near = near
      <4>1. near \subseteq ahead /\ ahead \cap near = near
        OBVIOUS
      <4>2. \A i \in Present : i > hit <=> i \in ahead /\ ~ (i <= hit)
        BY <2>2, <1>2 DEF ahead
      <4> QED  BY <4>1, <4>2, <1>2 DEF Ahead
    <3> HIDE DEF near
    <3>2. IsFiniteSet(near) /\ Cardinality(near) <= Cardinality(ahead)
      BY <3>1, <1>2, FS_Subset
    <3>3. Cardinality(ahead \ near) = Cardinality(ahead) - Cardinality(near)
      BY <3>1, <1>2, FS_Difference
    <3>4. taken = Cardinality(near) /\ Cardinality(near) \in Nat
      BY <3>2, FS_CardinalityType DEF taken, near
    <3> QED  BY <3>1, <3>2, <3>3, <3>4
  <2>4. CASE Cardinality(Present) # w.size \/ taken > w.left
    <3>1. NextMatch(w) = Idle
      BY <1>3, <2>4
    <3>2. w.churn
      <4>1. ~w.churn => w.size = Cardinality(Present) /\ w.left = Cardinality(ahead)
        BY <1>1 DEF Knows
      <4> QED  BY <4>1, <2>3, <2>4, <1>2 DEF WalkStates
    <3> QED  BY <3>1, <3>2
  <2>5. CASE ~ (Cardinality(Present) # w.size \/ taken > w.left)
    <3> DEFINE n == [w EXCEPT !.at = "posting", !.sub = entries[hit].sub, !.pos = hit,
                              !.left = @ - taken, !.attempt = 1,
                              !.limit = offer[entries[hit].sub].tries]
    <3>1. NextMatch(w) = n
      BY <1>3, <1>5, <2>5
    <3>2. entries[hit].sub \in 1 .. made /\ entries[hit].sub \in Subs
      <4>1. entries[hit].sub \in 1 .. made
        BY <2>2 DEF EntriesDiffer
      <4> QED  BY <4>1, SubsAssumption DEF OutboundTypes, Subs
    <3>3. offer[entries[hit].sub].tries \in Nat
      BY <3>2 DEF OutboundTypes, Offer
    <3>4. n \in WalkStates
      <4>1. w.left - taken \in Int
        BY <2>3 DEF WalkStates
      <4> HIDE DEF None, Subs
      <4> QED  BY <3>2, <3>3, <2>2, <4>1 DEF WalkStates
    <3>5. /\ n.at = "posting" /\ n.sub = entries[hit].sub /\ n.pos = hit /\ n.left = w.left - taken
          /\ n.test = w.test /\ n.got = w.got /\ n.churn = w.churn /\ n.size = w.size
      BY DEF WalkStates
    <3> HIDE DEF n
    <3>6. \A i \in Ahead(hit) : i \in ahead /\ i \in Present /\ i # hit
      BY <2>2, <1>2 DEF Ahead, ahead
    <3>7. n.sub \notin n.got /\ n.got \subseteq 1 .. made
      BY <3>5, <1>1, <1>2, <2>1 DEF Knows
    <3>8. \A i \in Ahead(n.pos) : entries[i].sub \notin n.got \cup {n.sub}
      <4>1. \A i \in Ahead(hit) : entries[i].sub \notin w.got
        BY <3>6, <1>1 DEF Knows
      <4>2. \A i \in Ahead(hit) : entries[i].sub # entries[hit].sub
        BY <3>6, <2>2 DEF EntriesDiffer
      <4> QED  BY <4>1, <4>2, <3>5
    <3>9. ~n.churn => n.size = Cardinality(Present) /\ n.left = Cardinality(Ahead(n.pos))
      BY <3>5, <1>1, <2>3 DEF Knows
    <3>10. Walking(n)
      BY <3>2, <3>5, <3>7, <3>8, <3>9 DEF Walking, Knows
    <3>11. Hits(w.pos) = {hit} \cup Hits(hit)
      <4>1. \A i \in hits : i \in Nat /\ (i = hit \/ i > hit)
        BY <2>1, <2>2, <1>2
      <4>2. \A i \in Ahead(hit) : i \in ahead
        BY <3>6
      <4> QED  BY <4>1, <4>2, <2>1, <1>1, <1>2 DEF Hits, Ahead
    <3>12. Still(w.pos) = {n.sub} \cup Still(n.pos)
      BY <3>11, <3>5 DEF Still
    <3> QED  BY <3>1, <3>4, <3>5, <3>10, <3>12
  <2> QED  BY <2>4, <2>5
<1> QED  BY <1>4, <1>5

----------------------------------------------------------------------------
(* The dispatch as a Fanout                                                *)

Disturbed == {d \in Dispatching : walk[d].churn}

\* What the fan-out sees of the walks.
LEMMA OwedMeans ==
  ASSUME OutboundInv
  PROVE  /\ Owed \in [Walks -> SUBSET Subs] /\ Dispatching \subseteq Walks
         /\ \A d \in Walks : Owed[d] = IF d \in Dispatching
                                       THEN {walk[d].sub} \cup Still(walk[d].pos) ELSE {}
         /\ \A d \in Walks : Owed[d] \cap Settled[d] = {}
<1>1. Dispatching \subseteq Walks
  BY DEF Dispatching
<1>2. \A d \in Walks : Owed[d] = IF d \in Dispatching
                                 THEN {walk[d].sub} \cup Still(walk[d].pos) ELSE {}
  BY DEF Owed, Still, Hits, Ahead
<1>3. ASSUME NEW d \in Dispatching
      PROVE  Owed[d] \subseteq Subs /\ Owed[d] \cap Settled[d] = {}
  <2>1. Walking(walk[d]) /\ d \in Walks
    BY <1>1 DEF OutboundInv
  <2>2. 1 .. made \subseteq Subs
    BY SubsAssumption DEF OutboundInv, OutboundTypes, Subs
  <2>3. Still(walk[d].pos) \subseteq 1 .. made
    BY DEF Still, Hits, Ahead, OutboundInv, EntriesDiffer
  <2>4. Owed[d] \subseteq 1 .. made
    BY <1>2, <2>1, <2>3 DEF Walking
  <2>5. Still(walk[d].pos) \cap walk[d].got = {}
    BY <2>1 DEF Still, Hits, Walking, Knows
  <2>6. Settled[d] = walk[d].got
    BY <2>1 DEF Settled
  <2> QED  BY <1>2, <2>1, <2>2, <2>4, <2>5, <2>6 DEF Walking
<1>4. \A d \in Walks : Owed[d] \subseteq Subs /\ Owed[d] \cap Settled[d] = {}
  BY <1>2, <1>3
<1>5. Owed \in [Walks -> SUBSET Subs]
  <2>1. Owed = [d \in Walks |-> Owed[d]]
    BY DEF Owed
  <2> QED  BY <1>4, <2>1
<1> QED  BY <1>1, <1>2, <1>4, <1>5

LEMMA IdleType == Idle \in WalkStates
BY DEF Idle, WalkStates

LEMMA OutboundInitInv == OutboundInit => OutboundInv /\ Promise!FanoutInit
<1> SUFFICES ASSUME OutboundInit PROVE OutboundInv /\ Promise!FanoutInit
  OBVIOUS
<1>1. entries = <<>> /\ counter = 0 /\ made = 0 /\ walk = [d \in Walks |-> Idle]
  BY DEF OutboundInit
<1>2. offer \in [Subs -> Offer]
  BY OffersAssumption DEF OutboundInit
<1>3. OutboundTypes
  BY <1>1, <1>2, IdleType, SubsAssumption, EmptySeq DEF OutboundTypes
<1>4. Present = {}
  BY <1>1 DEF Present
<1>5. Dispatching = {}
  BY <1>1 DEF Dispatching, Idle
<1>6. OutboundInv
  BY <1>3, <1>4, <1>5 DEF OutboundInv, EntriesDiffer
<1>7. Promise!FanoutInit
  BY <1>5 DEF Promise!FanoutInit, Owed, Settled
<1> QED  BY <1>6, <1>7

\* A walk goes on to state w, in a registry that does not change.
LEMMA WalkMoves ==
  ASSUME OutboundInv, NEW d \in Walks, NEW w \in WalkStates,
         walk' = [walk EXCEPT ![d] = w], UNCHANGED <<entries, counter, made, offer>>,
         w.at # "idle" /\ ~w.test => Walking(w)
  PROVE  LET on == w.at # "idle" /\ ~w.test
         IN /\ OutboundInv'
            /\ Dispatching' = IF on THEN Dispatching \cup {d} ELSE Dispatching \ {d}
            /\ Owed' = [Owed EXCEPT ![d] = IF on THEN {w.sub} \cup Still(w.pos) ELSE {}]
            /\ Settled' = [Settled EXCEPT ![d] = IF on THEN w.got ELSE {}]
            /\ Disturbed' = IF on /\ w.churn THEN Disturbed \cup {d} ELSE Disturbed \ {d}
<1> DEFINE on == w.at # "idle" /\ ~w.test
<1>1. walk \in [Walks -> WalkStates]
  BY DEF OutboundInv, OutboundTypes
<1>2. walk' \in [Walks -> WalkStates] /\ walk'[d] = w /\ \A e \in Walks \ {d} : walk'[e] = walk[e]
  BY <1>1
<1>3. OutboundTypes' /\ EntriesDiffer' /\ Present' = Present
  BY <1>2 DEF OutboundInv, OutboundTypes, EntriesDiffer, Present
<1>4. Dispatching' = IF on THEN Dispatching \cup {d} ELSE Dispatching \ {d}
  BY <1>2 DEF Dispatching
<1>5. Disturbed' = IF on /\ w.churn THEN Disturbed \cup {d} ELSE Disturbed \ {d}
  BY <1>2 DEF Disturbed, Dispatching
<1>6. ASSUME NEW e \in Dispatching' PROVE Walking(walk[e])'
  <2>1. Walking(walk'[e])
    BY <1>2, <1>4, <1>6 DEF OutboundInv, Dispatching
  <2>2. entries' = entries /\ made' = made
    OBVIOUS
  <2> QED  BY <2>1, <2>2, <1>3 DEF Walking, Knows, Ahead
<1>7. Owed' = [Owed EXCEPT ![d] = IF on THEN {w.sub} \cup Still(w.pos) ELSE {}]
  <2>1. entries' = entries /\ offer' = offer /\ Present' = Present
    BY <1>3
  <2>2. Owed' = [e \in Walks |-> IF e \notin Dispatching' THEN {}
                                 ELSE {walk'[e].sub} \cup Still(walk'[e].pos)]
    BY <2>1 DEF Owed, Still, Hits, Ahead, Tried, Matches
  <2>3. Owed = [e \in Walks |-> IF e \notin Dispatching THEN {}
                                ELSE {walk[e].sub} \cup Still(walk[e].pos)]
    BY DEF Owed, Still, Hits, Ahead
  <2> QED  BY <2>2, <2>3, <1>2, <1>4
<1>8. Settled' = [Settled EXCEPT ![d] = IF on THEN w.got ELSE {}]
  BY <1>2, <1>4 DEF Settled
<1> QED  BY <1>3, <1>4, <1>5, <1>6, <1>7, <1>8 DEF OutboundInv

\* The fan-out does not see a walk that stays with the subscription it tries.
LEMMA WalkStays ==
  ASSUME OutboundInv, NEW d \in Walks, NEW w \in WalkStates, walk[d].at # "idle",
         walk' = [walk EXCEPT ![d] = w], UNCHANGED <<entries, counter, made, offer>>,
         w.at # "idle", \A x \in {"sub", "pos", "size", "left", "test", "got", "churn"} : w[x] = walk[d][x]
  PROVE  OutboundInv' /\ UNCHANGED Promise!fanoutVars
<1>1. w.sub = walk[d].sub /\ w.pos = walk[d].pos /\ w.size = walk[d].size /\ w.left = walk[d].left
      /\ w.test = walk[d].test /\ w.got = walk[d].got /\ w.churn = walk[d].churn
  OBVIOUS
<1>2. d \in Dispatching <=> ~w.test
  BY <1>1 DEF Dispatching
<1>3. w.at # "idle" /\ ~w.test => Walking(w)
  BY <1>1, <1>2 DEF OutboundInv, Walking
<1>4. /\ OutboundInv'
      /\ Dispatching' = IF ~w.test THEN Dispatching \cup {d} ELSE Dispatching \ {d}
      /\ Owed' = [Owed EXCEPT ![d] = IF ~w.test THEN {w.sub} \cup Still(w.pos) ELSE {}]
      /\ Settled' = [Settled EXCEPT ![d] = IF ~w.test THEN w.got ELSE {}]
      /\ Disturbed' = IF ~w.test /\ w.churn THEN Disturbed \cup {d} ELSE Disturbed \ {d}
  BY <1>3, WalkMoves
<1>5. Dispatching' = Dispatching /\ Disturbed' = Disturbed
  BY <1>1, <1>2, <1>4 DEF Disturbed
<1>6. Owed' = Owed
  BY <1>1, <1>2, <1>4, OwedMeans
<1>7. Settled' = Settled
  BY <1>1, <1>2, <1>4 DEF Settled
<1> QED  BY <1>4, <1>5, <1>6, <1>7 DEF Promise!fanoutVars, Disturbed

\* Where a function has a value already, giving it that value changes nothing.
LEMMA ExceptSame ==
  ASSUME NEW S, NEW f, f = [x \in S |-> f[x]], NEW d \in S
  PROVE  [f EXCEPT ![d] = f[d]] = f
OBVIOUS

\* A walk that is no dispatch owes nothing, and settles nothing.
LEMMA NobodyOwed ==
  ASSUME NEW d \in Walks, d \notin Dispatching
  PROVE  /\ [Owed EXCEPT ![d] = {}] = Owed /\ [Settled EXCEPT ![d] = {}] = Settled
         /\ Dispatching \ {d} = Dispatching /\ Disturbed \ {d} = Disturbed
<1>1. Owed[d] = {} /\ Settled[d] = {}
  BY DEF Owed, Settled
<1>2. Owed = [x \in Walks |-> Owed[x]] /\ Settled = [x \in Walks |-> Settled[x]]
  BY DEF Owed, Settled
<1>3. [Owed EXCEPT ![d] = {}] = Owed
  BY <1>1, <1>2, ExceptSame
<1>4. [Settled EXCEPT ![d] = {}] = Settled
  BY <1>1, <1>2, ExceptSame
<1>5. d \notin Disturbed
  BY DEF Disturbed
<1> QED  BY <1>3, <1>4, <1>5

\* A dispatch begins with everyone the filters let through, or there is nobody.
LEMMA DispatchMeans ==
  ASSUME OutboundInv, NEW d \in Walks, Dispatch(d)
  PROVE  OutboundInv' /\ (Promise!FanoutNext \/ UNCHANGED Promise!fanoutVars)
<1> DEFINE size == Cardinality(Present)
           w == [Idle EXCEPT !.size = size, !.left = size]
           n == NextMatch(w)
<1>1. walk[d].at = "idle" /\ walk' = [walk EXCEPT ![d] = n] /\ UNCHANGED <<entries, counter, made, offer>>
  BY DEF Dispatch
<1>2. size \in Nat /\ Ahead(0) = Present /\ d \notin Dispatching
  BY <1>1, PresentType DEF Ahead, OutboundInv, OutboundTypes, Dispatching
<1>3. /\ w \in WalkStates /\ w.pos = 0 /\ w.got = {} /\ w.size = size /\ w.left = size
      /\ ~w.churn /\ ~w.test
  <2>1. size \in Nat /\ size \in Int
    BY <1>2
  <2> HIDE DEF size, Subs
  <2> QED  BY <2>1 DEF Idle, WalkStates
<1> HIDE DEF w, size
<1>4. Knows(w.pos, w.got, w.size, w.left, w.churn)
  BY <1>2, <1>3 DEF Knows, size
<1>5. \/ n = Idle
      \/ /\ n \in WalkStates /\ n.at = "posting" /\ Walking(n)
         /\ ~n.test /\ n.got = {} /\ ~n.churn
  BY <1>3, <1>4, NextMatchMeans DEF OutboundInv
<1> HIDE DEF n
<1>6. CASE n = Idle
  <2>1. n \in WalkStates /\ n.at = "idle"
    BY <1>6, IdleType DEF Idle
  <2>2. /\ OutboundInv' /\ Dispatching' = Dispatching \ {d} /\ Owed' = [Owed EXCEPT ![d] = {}]
        /\ Settled' = [Settled EXCEPT ![d] = {}] /\ Disturbed' = Disturbed \ {d}
    BY <1>1, <2>1, WalkMoves
  <2>3. Owed[d] = {} /\ Settled[d] = {} /\ d \notin Disturbed
    BY <1>2 DEF Owed, Settled, Disturbed
  <2>4. Owed' = Owed /\ Settled' = Settled /\ Dispatching' = Dispatching /\ Disturbed' = Disturbed
    <3>1. d \notin Dispatching
      BY <1>2 DEF Dispatching
    <3> QED  BY <2>2, <2>3, <3>1, NobodyOwed
  <2> QED  BY <2>2, <2>4 DEF Promise!fanoutVars, Disturbed
<1>7. CASE n # Idle
  <2>1. /\ OutboundInv' /\ Dispatching' = Dispatching \cup {d}
        /\ Owed' = [Owed EXCEPT ![d] = {n.sub} \cup Still(n.pos)]
        /\ Settled' = [Settled EXCEPT ![d] = {}] /\ Disturbed' = Disturbed \ {d}
    <3>1. n \in WalkStates /\ n.at # "idle" /\ ~n.test /\ n.got = {} /\ ~n.churn /\ Walking(n)
      BY <1>5, <1>7
    <3> QED  BY <1>1, <3>1, WalkMoves
  <2>3. {n.sub} \cup Still(n.pos) \in SUBSET Subs
    <3>1. n.sub \in 1 .. made
      BY <1>5, <1>7 DEF Walking
    <3>2. Still(n.pos) \subseteq 1 .. made
      BY DEF Still, Hits, Ahead, OutboundInv, EntriesDiffer
    <3>3. 1 .. made \subseteq Subs
      BY SubsAssumption DEF OutboundInv, OutboundTypes, Subs
    <3> QED  BY <3>1, <3>2, <3>3
  <2>4. Promise!BeginDispatch(d)
    BY <1>2, <2>1, <2>3 DEF Promise!BeginDispatch, Disturbed
  <2> QED  BY <2>1, <2>4 DEF Promise!FanoutNext
<1> QED  BY <1>6, <1>7

\* A test is no dispatch.
LEMMA TestMeans ==
  ASSUME OutboundInv, NEW d \in Walks, NEW i \in DOMAIN entries, TestSubscription(d, i)
  PROVE  OutboundInv' /\ UNCHANGED Promise!fanoutVars
<1> DEFINE o == entries[i].sub
           t == offer[o].tries
           w == [Idle EXCEPT !.at = "posting", !.sub = o, !.attempt = 1, !.limit = t, !.test = TRUE]
<1>1. /\ walk[d].at = "idle" /\ walk' = [walk EXCEPT ![d] = w] /\ i \in Present
      /\ UNCHANGED <<entries, counter, made, offer>>
  BY DEF TestSubscription
<1>2. entries[i].sub \in Subs
  <2>1. entries[i].sub \in 1 .. made
    BY <1>1 DEF OutboundInv, EntriesDiffer
  <2> QED  BY <2>1, SubsAssumption DEF OutboundInv, OutboundTypes, Subs
<1>3. offer[entries[i].sub].tries \in Nat
  BY <1>2 DEF OutboundInv, OutboundTypes, Offer
<1>4. w \in WalkStates /\ w.test
  <2>1. o \in Subs \cup {None} /\ t \in Nat
    BY <1>2, <1>3
  <2> HIDE DEF None, Subs, o, t
  <2> QED  BY <2>1, IdleType DEF WalkStates
<1> HIDE DEF w
<1>5. /\ OutboundInv' /\ Dispatching' = Dispatching \ {d} /\ Owed' = [Owed EXCEPT ![d] = {}]
      /\ Settled' = [Settled EXCEPT ![d] = {}] /\ Disturbed' = Disturbed \ {d}
  BY <1>1, <1>4, WalkMoves
<1>6. d \notin Dispatching
  BY <1>1 DEF Dispatching
<1>7. Owed[d] = {} /\ Settled[d] = {} /\ d \notin Disturbed
  BY <1>6 DEF Owed, Settled, Disturbed
<1>8. Owed' = Owed /\ Settled' = Settled /\ Dispatching' = Dispatching /\ Disturbed' = Disturbed
  BY <1>5, <1>6, <1>7, NobodyOwed
<1> QED  BY <1>5, <1>8 DEF Promise!fanoutVars, Disturbed

\* After a delivery its subscription is settled, and the walk goes on to those that are
\* still owed the event; it ends when there are none, or finds the registry changed.
LEMMA DeliveredMeans ==
  ASSUME OutboundInv, NEW d \in Walks, walk[d].at # "idle",
         walk' = [walk EXCEPT ![d] = Delivered(walk[d])], UNCHANGED <<entries, counter, made, offer>>
  PROVE  OutboundInv' /\ (Promise!FanoutNext \/ UNCHANGED Promise!fanoutVars)
<1>1. walk[d] \in WalkStates
  BY DEF OutboundInv, OutboundTypes
<1>2. CASE walk[d].test
  <2>1. Delivered(walk[d]) = Idle
    BY <1>2 DEF Delivered
  <2>2. Idle \in WalkStates /\ Idle.at = "idle"
    BY IdleType DEF Idle
  <2>3. /\ OutboundInv' /\ Dispatching' = Dispatching \ {d} /\ Owed' = [Owed EXCEPT ![d] = {}]
        /\ Settled' = [Settled EXCEPT ![d] = {}] /\ Disturbed' = Disturbed \ {d}
    BY <2>1, <2>2, WalkMoves
  <2>4. d \notin Dispatching
    BY <1>2 DEF Dispatching
  <2>5. Owed[d] = {} /\ Settled[d] = {} /\ d \notin Disturbed
    BY <2>4 DEF Owed, Settled, Disturbed
  <2>6. Owed' = Owed /\ Settled' = Settled /\ Dispatching' = Dispatching /\ Disturbed' = Disturbed
    BY <2>3, <2>4, <2>5, NobodyOwed
  <2> QED  BY <2>3, <2>6 DEF Promise!fanoutVars, Disturbed
<1>3. CASE ~walk[d].test
  <2> DEFINE w == [walk[d] EXCEPT !.got = @ \cup {walk[d].sub}]
             n == NextMatch(w)
             o == walk[d].sub
  <2>1. d \in Dispatching /\ Walking(walk[d]) /\ walk' = [walk EXCEPT ![d] = n]
    BY <1>3 DEF Dispatching, OutboundInv, Delivered
  <2>2. o \in Subs /\ o \in 1 .. made
    BY <2>1, SubsAssumption DEF Walking, OutboundInv, OutboundTypes, Subs
  <2>3. /\ w \in WalkStates /\ w.pos = walk[d].pos /\ w.got = walk[d].got \cup {o}
        /\ w.size = walk[d].size /\ w.left = walk[d].left /\ w.churn = walk[d].churn /\ ~w.test
    <3> HIDE DEF None, Subs
    <3> QED  BY <1>1, <1>3, <2>2 DEF WalkStates
  <2> HIDE DEF w
  <2>4. Knows(w.pos, w.got, w.size, w.left, w.churn)
    BY <2>1, <2>3 DEF Walking
  <2>5. \/ n = Idle /\ (w.churn \/ Still(w.pos) = {})
        \/ /\ n \in WalkStates /\ n.at = "posting" /\ Walking(n) /\ ~n.test
           /\ n.got = w.got /\ n.churn = w.churn /\ Still(w.pos) = {n.sub} \cup Still(n.pos)
    BY <2>3, <2>4, NextMatchMeans DEF OutboundInv
  <2>6. o \notin Still(w.pos)
    BY <2>3, <2>4 DEF Knows, Still, Hits
  <2>7. Owed[d] = {o} \cup Still(w.pos) /\ Settled[d] = walk[d].got
    BY <2>1, <2>3, OwedMeans DEF Settled
  <2> HIDE DEF n
  <2>8. CASE n = Idle
    <3>1. n \in WalkStates /\ n.at = "idle" /\ (w.churn \/ Still(w.pos) = {})
      BY <2>5, <2>8, IdleType DEF Idle
    <3>2. /\ OutboundInv' /\ Dispatching' = Dispatching \ {d} /\ Owed' = [Owed EXCEPT ![d] = {}]
          /\ Settled' = [Settled EXCEPT ![d] = {}] /\ Disturbed' = Disturbed \ {d}
      BY <2>1, <3>1, WalkMoves
    <3>3. Owed[d] = {o} \/ d \in Disturbed
      BY <2>1, <2>3, <2>7, <3>1 DEF Disturbed
    <3>4. Promise!Settle(d, o)
      BY <2>1, <2>7, <3>2, <3>3 DEF Promise!Settle, Promise!Leave, Disturbed
    <3> QED  BY <2>2, <3>2, <3>4 DEF Promise!FanoutNext
  <2>9. CASE n # Idle
    <3>1. /\ OutboundInv' /\ Dispatching' = Dispatching \cup {d}
          /\ Owed' = [Owed EXCEPT ![d] = {n.sub} \cup Still(n.pos)]
          /\ Settled' = [Settled EXCEPT ![d] = w.got]
          /\ Disturbed' = IF w.churn THEN Disturbed \cup {d} ELSE Disturbed \ {d}
      <4>1. n \in WalkStates /\ n.at # "idle" /\ ~n.test /\ n.got = w.got /\ n.churn = w.churn /\ Walking(n)
        BY <2>5, <2>9
      <4>2. /\ OutboundInv' /\ Dispatching' = Dispatching \cup {d}
            /\ Owed' = [Owed EXCEPT ![d] = {n.sub} \cup Still(n.pos)]
            /\ Settled' = [Settled EXCEPT ![d] = n.got]
            /\ Disturbed' = IF n.churn THEN Disturbed \cup {d} ELSE Disturbed \ {d}
        BY <2>1, <4>1, WalkMoves
      <4> QED  BY <4>1, <4>2
    <3>2. Dispatching' = Dispatching /\ Disturbed' = Disturbed
      BY <2>1, <2>3, <3>1 DEF Disturbed
    <3>3. Owed' = [Owed EXCEPT ![d] = @ \ {o}]
      BY <2>5, <2>6, <2>7, <2>9, <3>1
    <3>4. Settled' = [Settled EXCEPT ![d] = @ \cup {o}]
      BY <2>3, <2>7, <3>1
    <3>5. Promise!Settle(d, o)
      BY <2>1, <2>7, <3>2, <3>3, <3>4 DEF Promise!Settle, Disturbed
    <3> QED  BY <2>2, <3>1, <3>5 DEF Promise!FanoutNext
  <2> QED  BY <2>8, <2>9
<1> QED  BY <1>2, <1>3

\* After an attempt that failed.
LEMMA RetriedMeans ==
  ASSUME OutboundInv, NEW d \in Walks, walk[d].at # "idle",
         walk' = [walk EXCEPT ![d] = Retried(walk[d])], UNCHANGED <<entries, counter, made, offer>>
  PROVE  OutboundInv' /\ (Promise!FanoutNext \/ UNCHANGED Promise!fanoutVars)
<1>1. walk[d] \in WalkStates
  BY DEF OutboundInv, OutboundTypes
<1>2. CASE walk[d].attempt < walk[d].limit
  <2> DEFINE w == [walk[d] EXCEPT !.at = "posting", !.attempt = @ + 1]
  <2>1. Retried(walk[d]) = w
    BY <1>2 DEF Retried
  <2>2. w \in WalkStates
    <3>1. walk[d].attempt + 1 \in Nat
      BY <1>1 DEF WalkStates
    <3> HIDE DEF None, Subs
    <3> QED  BY <1>1, <3>1 DEF WalkStates
  <2>3. /\ w.at # "idle"
        /\ \A x \in {"sub", "pos", "size", "left", "test", "got", "churn"} : w[x] = walk[d][x]
    <3> HIDE DEF None, Subs
    <3> QED  BY <1>1 DEF WalkStates
  <2> HIDE DEF w
  <2> QED  BY <2>1, <2>2, <2>3, WalkStays
<1>3. CASE ~ (walk[d].attempt < walk[d].limit)
  <2>1. Retried(walk[d]) = Delivered(walk[d])
    BY <1>3 DEF Retried
  <2> QED  BY <2>1, DeliveredMeans
<1> QED  BY <1>2, <1>3

\* An attempt ends.
LEMMA AnswerMeans ==
  ASSUME OutboundInv, NEW d \in Walks, NEW ok \in BOOLEAN, Answer(d, ok)
  PROVE  OutboundInv' /\ (Promise!FanoutNext \/ UNCHANGED Promise!fanoutVars)
<1>1. walk[d] \in WalkStates /\ walk[d].at = "posting" /\ UNCHANGED <<entries, counter, made, offer>>
  BY DEF Answer, OutboundInv, OutboundTypes
<1>2. CASE ok
  <2>1. walk' = [walk EXCEPT ![d] = Delivered(walk[d])]
    BY <1>2 DEF Answer
  <2> QED  BY <1>1, <2>1, DeliveredMeans
<1>3. CASE ~ok /\ walk[d].attempt < offer[walk[d].sub].tries
  <2> DEFINE w == [walk[d] EXCEPT !.at = "sleeping"]
  <2>1. walk' = [walk EXCEPT ![d] = w]
    BY <1>3 DEF Answer
  <2>2. w \in WalkStates
    <3> HIDE DEF None, Subs
    <3> QED  BY <1>1 DEF WalkStates
  <2>3. /\ w.at # "idle"
        /\ \A x \in {"sub", "pos", "size", "left", "test", "got", "churn"} : w[x] = walk[d][x]
    <3> HIDE DEF None, Subs
    <3> QED  BY <1>1 DEF WalkStates
  <2> HIDE DEF w
  <2>4. walk[d].at # "idle"
    BY <1>1
  <2> QED  BY <1>1, <2>1, <2>2, <2>3, <2>4, WalkStays
<1>4. CASE ~ok /\ ~ (walk[d].attempt < offer[walk[d].sub].tries)
  <2>1. walk' = [walk EXCEPT ![d] = Retried(walk[d])]
    BY <1>4 DEF Answer
  <2> QED  BY <1>1, <2>1, RetriedMeans
<1> QED  BY <1>2, <1>3, <1>4

\* The end of a backoff.
LEMMA AwakeMeans ==
  ASSUME OutboundInv, NEW d \in Walks, Awake(d)
  PROVE  OutboundInv' /\ (Promise!FanoutNext \/ UNCHANGED Promise!fanoutVars)
BY RetriedMeans DEF Awake

\* The registry changes: the running walks are told, and nobody they have tried appears
\* ahead of them.
LEMMA ChurnMeans ==
  ASSUME OutboundInv, OutboundTypes', EntriesDiffer', Churn, made' \in {made, made + 1},
         \A i \in Present' : \/ i \in Present /\ entries'[i].sub = entries[i].sub
                             \/ entries'[i].sub \notin 1 .. made
  PROVE  OutboundInv' /\ Promise!Disturb
<1>1. \A d \in Walks : /\ walk[d].at = "idle" => walk'[d] = Idle
                       /\ walk[d].at # "idle" => walk'[d] = [walk[d] EXCEPT !.churn = TRUE]
  BY DEF Churn
<1>2. Idle.at = "idle"
  BY DEF Idle
<1>3. \A d \in Walks : walk[d] \in WalkStates
  BY DEF OutboundInv, OutboundTypes
<1>4. ASSUME NEW d \in Walks, walk[d].at # "idle"
      PROVE  /\ walk'[d].at # "idle" /\ walk'[d].test = walk[d].test /\ walk'[d].sub = walk[d].sub
             /\ walk'[d].pos = walk[d].pos /\ walk'[d].got = walk[d].got /\ walk'[d].churn
  <2>1. walk'[d] = [walk[d] EXCEPT !.churn = TRUE] /\ walk[d] \in WalkStates
    BY <1>1, <1>3, <1>4
  <2> QED  BY <2>1, <1>4 DEF WalkStates
<1>5. Dispatching' = Dispatching /\ Disturbed' = Dispatching
  BY <1>1, <1>2, <1>4 DEF Dispatching, Disturbed
<1>6. ASSUME NEW d \in Dispatching PROVE Walking(walk[d])'
  <2>1. d \in Walks /\ walk[d].at # "idle" /\ Walking(walk[d])
    BY DEF Dispatching, OutboundInv
  <2>2. /\ walk'[d].sub = walk[d].sub /\ walk'[d].pos = walk[d].pos /\ walk'[d].got = walk[d].got
        /\ walk'[d].churn
    BY <1>4, <2>1
  <2>3. 1 .. made \subseteq 1 .. made'
    BY DEF OutboundInv, OutboundTypes
  <2>4. \A i \in Ahead(walk[d].pos)' : entries'[i].sub \notin walk[d].got \cup {walk[d].sub}
    <3> SUFFICES ASSUME NEW i \in Present', i > walk[d].pos
                 PROVE  entries'[i].sub \notin walk[d].got \cup {walk[d].sub}
      BY <2>2 DEF Ahead
    <3>1. walk[d].got \cup {walk[d].sub} \subseteq 1 .. made
      BY <2>1 DEF Walking, Knows
    <3>2. i \in Present => i \in Ahead(walk[d].pos)
      BY DEF Ahead
    <3>3. i \in Present => entries[i].sub \notin walk[d].got \cup {walk[d].sub}
      BY <2>1, <3>2 DEF Walking, Knows
    <3> QED  BY <3>1, <3>3
  <2>5. walk'[d].sub \in 1 .. made /\ walk'[d].sub \notin walk'[d].got /\ walk'[d].got \cup {walk'[d].sub} \subseteq 1 .. made
    BY <2>1, <2>2 DEF Walking, Knows
  <2> QED  BY <2>2, <2>3, <2>4, <2>5 DEF Walking, Knows
<1>7. OutboundInv'
  BY <1>5, <1>6 DEF OutboundInv
<1>8. ASSUME NEW d \in Walks
      PROVE  /\ Owed'[d] \subseteq Subs /\ Owed'[d] \cap Settled[d] = {} /\ Settled'[d] = Settled[d]
             /\ d \notin Dispatching => Owed'[d] = {}
  <2>1. CASE d \notin Dispatching
    BY <1>5, <2>1 DEF Owed, Settled
  <2>2. CASE d \in Dispatching
    <3>1. Walking(walk[d])' /\ walk'[d].got = walk[d].got
      BY <1>4, <1>6, <2>2 DEF Dispatching
    <3>2. Owed'[d] = {walk'[d].sub} \cup {entries'[i].sub : i \in Hits(walk[d].pos)'}
      BY <1>5, <2>2 DEF Owed, Hits, Ahead
    <3>3. \A i \in Hits(walk[d].pos)' : i \in Present' /\ i \in Ahead(walk[d].pos)'
      BY DEF Hits, Ahead
    <3>4. Owed'[d] \cap walk'[d].got = {}
      BY <3>1, <3>2, <3>3 DEF Walking, Knows
    <3>5. Owed'[d] \subseteq 1 .. made'
      BY <3>1, <3>2, <3>3 DEF Walking, EntriesDiffer
    <3>6. 1 .. made' \subseteq Subs
      BY SubsAssumption DEF OutboundTypes, Subs
    <3>7. Settled[d] = walk[d].got /\ Settled'[d] = walk[d].got
      BY <1>5, <2>2, <3>1 DEF Settled
    <3> QED  BY <2>2, <3>1, <3>4, <3>5, <3>6, <3>7
  <2> QED  BY <2>1, <2>2
<1>9. Owed' \in [Walks -> SUBSET Subs] /\ Settled' = Settled
  <2>1. Owed' = [d \in Walks |-> Owed'[d]]
    BY DEF Owed
  <2>2. Settled = [d \in Walks |-> Settled[d]] /\ Settled' = [d \in Walks |-> Settled'[d]]
    BY DEF Settled
  <2> QED  BY <1>8, <2>1, <2>2
<1>10. Promise!Disturb
  BY <1>5, <1>8, <1>9 DEF Promise!Disturb, Disturbed
<1> QED  BY <1>7, <1>10

LEMMA ChurnType ==
  ASSUME OutboundTypes, Churn
  PROVE  walk' \in [Walks -> WalkStates]
<1>1. \A d \in Walks : walk[d] \in WalkStates
  BY DEF OutboundTypes
<1>2. \A w \in WalkStates : [w EXCEPT !.churn = TRUE] \in WalkStates
  <2> HIDE DEF None, Subs
  <2> QED  BY DEF WalkStates
<1> QED  BY <1>1, <1>2, IdleType DEF Churn

LEMMA AddMeans ==
  ASSUME OutboundInv, NEW f \in Offers, AddSubscription(f)
  PROVE  OutboundInv' /\ Promise!FanoutNext
<1> DEFINE new == made + 1
           id == counter + 1
<1>1. /\ made \in 0 .. MaxSubs /\ counter \in Nat /\ entries \in Seq(Entry) /\ made < MaxSubs
      /\ offer \in [Subs -> Offer] /\ f \in Offer
  BY OffersAssumption DEF OutboundInv, OutboundTypes, AddSubscription
<1>2. /\ new \in Subs /\ new \in Nat /\ new # 0 /\ id \in Nat /\ id # 0 /\ new \notin 1 .. made
      /\ made' = new /\ counter' = id /\ entries' = Entered(id, new)
  BY <1>1, SubsAssumption DEF Subs, AddSubscription
<1>3. /\ counter' \in Nat /\ made' \in 0 .. MaxSubs /\ offer' \in [Subs -> Offer]
      /\ walk' \in [Walks -> WalkStates]
  BY <1>1, <1>2, SubsAssumption, ChurnType DEF AddSubscription, OutboundInv
<1> HIDE DEF new, id
<1>4. \A i \in Present : /\ i \in DOMAIN entries /\ i \in 1 .. Len(entries) /\ entries[i] # Hole
                         /\ entries[i] \in Entry /\ entries[i].sub \in 1 .. made
  BY <1>1, LenProperties, ElementOfSeq DEF Present, OutboundInv, EntriesDiffer
<1>5. \E q : /\ entries' \in Seq(Entry) /\ Present' = Present \cup {q} /\ entries'[q].sub = new
             /\ \A i \in Present \ {q} : entries'[i] = entries[i]
  <2>1. CASE Places(id) = {}
    <3> DEFINE e == [id |-> id, sub |-> new]
               q == Len(entries) + 1
    <3>1. entries' = Append(entries, e) /\ e \in Entry /\ e.sub = new
      BY <1>2, <2>1 DEF Entered, Entry
    <3>2. e # Hole
      BY <1>2, <3>1 DEF Hole, None
    <3> HIDE DEF e
    <3>3. /\ entries' \in Seq(Entry) /\ Len(entries') = q /\ entries'[q] = e
          /\ \A i \in 1 .. Len(entries) : entries'[i] = entries[i]
          /\ DOMAIN entries' = 1 .. q /\ DOMAIN entries = 1 .. Len(entries)
      BY <1>1, <3>1, AppendProperties, LenProperties
    <3>4. Len(entries) \in Nat
      BY <1>1, LenProperties
    <3>5. Present' = Present \cup {q}
      BY <3>2, <3>3, <3>4 DEF Present
    <3> QED  BY <1>4, <3>1, <3>3, <3>5
  <2>2. CASE Places(id) # {}
    <3> DEFINE q == CHOOSE i \in Places(id) : TRUE
    <3>1. q \in Present /\ entries' = [entries EXCEPT ![q].sub = new]
      BY <1>2, <2>2 DEF Entered, Places
    <3> HIDE DEF q
    <3>2. [entries[q] EXCEPT !.sub = new] \in Entry /\ [entries[q] EXCEPT !.sub = new].sub = new
      <4>1. entries[q] \in Entry
        BY <1>4, <3>1
      <4> HIDE DEF Subs, None
      <4> QED  BY <4>1, <1>2 DEF Entry
    <3>3. entries' = [entries EXCEPT ![q] = [entries[q] EXCEPT !.sub = new]]
      BY <3>1
    <3>4. /\ entries' \in Seq(Entry) /\ DOMAIN entries' = DOMAIN entries
          /\ entries'[q] = [entries[q] EXCEPT !.sub = new]
          /\ \A i \in DOMAIN entries \ {q} : entries'[i] = entries[i]
      BY <1>1, <1>4, <3>1, <3>2, <3>3, ExceptSeq
    <3>5. entries'[q] # Hole
      BY <1>2, <3>2, <3>4 DEF Hole, None
    <3>6. Present' = Present
      BY <3>1, <3>4, <3>5 DEF Present
    <3> QED  BY <1>4, <3>1, <3>2, <3>4, <3>6
  <2> QED  BY <2>1, <2>2
<1>6. PICK q : /\ entries' \in Seq(Entry) /\ Present' = Present \cup {q} /\ entries'[q].sub = new
               /\ \A i \in Present \ {q} : entries'[i] = entries[i]
  BY <1>5
<1>7. OutboundTypes'
  BY <1>3, <1>6 DEF OutboundTypes
<1>8. \A i \in Present' : \/ i = q
                          \/ /\ i \in Present /\ i # q /\ entries'[i].sub = entries[i].sub
                             /\ entries'[i].sub \in 1 .. made
  BY <1>4, <1>6
<1>9. 1 .. made \subseteq 1 .. made' /\ new \in 1 .. made'
  BY <1>1, <1>2 DEF new
<1>10. EntriesDiffer'
  <2>1. \A i \in Present' : entries'[i].sub \in 1 .. made'
    BY <1>6, <1>8, <1>9
  <2>2. \A i, j \in Present' : entries'[i].sub = entries'[j].sub => i = j
    BY <1>2, <1>6, <1>8 DEF OutboundInv, EntriesDiffer
  <2> QED  BY <2>1, <2>2 DEF EntriesDiffer
<1>11. \A i \in Present' : \/ i \in Present /\ entries'[i].sub = entries[i].sub
                           \/ entries'[i].sub \notin 1 .. made
  BY <1>2, <1>6, <1>8
<1>12. Churn /\ made' \in {made, made + 1}
  BY <1>2 DEF AddSubscription, new
<1>13. OutboundInv' /\ Promise!Disturb
  BY <1>7, <1>10, <1>11, <1>12, ChurnMeans
<1> QED  BY <1>13 DEF Promise!FanoutNext

LEMMA UpdateMeans ==
  ASSUME OutboundInv, NEW i \in DOMAIN entries, NEW f \in Offers, UpdateSubscription(i, f)
  PROVE  OutboundInv' /\ Promise!FanoutNext
<1>1. UNCHANGED <<entries, counter, made>> /\ Churn /\ offer' = [offer EXCEPT ![entries[i].sub] = f]
  BY DEF UpdateSubscription
<1>2. OutboundTypes'
  BY <1>1, ChurnType, OffersAssumption DEF OutboundInv, OutboundTypes
<1>3. EntriesDiffer' /\ Present' = Present
  BY <1>1 DEF OutboundInv, EntriesDiffer, Present
<1>4. OutboundInv' /\ Promise!Disturb
  BY <1>1, <1>2, <1>3, ChurnMeans
<1> QED  BY <1>4 DEF Promise!FanoutNext

LEMMA RemoveMeans ==
  ASSUME OutboundInv, NEW i \in DOMAIN entries, RemoveSubscription(i)
  PROVE  OutboundInv' /\ Promise!FanoutNext
<1>1. UNCHANGED <<counter, made, offer>> /\ Churn /\ entries' = [entries EXCEPT ![i] = Hole] /\ i \in Present
  BY DEF RemoveSubscription
<1>2. entries \in Seq(Entry) /\ Hole \in Entry /\ i \in 1 .. Len(entries)
  BY LenProperties DEF OutboundInv, OutboundTypes, Hole, Entry, None
<1>3. /\ entries' \in Seq(Entry) /\ DOMAIN entries' = DOMAIN entries
      /\ \A j \in DOMAIN entries \ {i} : entries'[j] = entries[j]
      /\ entries'[i] = Hole
  BY <1>1, <1>2, ExceptSeq
<1>4. OutboundTypes'
  BY <1>1, <1>3, ChurnType DEF OutboundInv, OutboundTypes
<1>5. Present' \subseteq Present /\ \A j \in Present' : entries'[j] = entries[j]
  BY <1>3 DEF Present
<1>6. EntriesDiffer'
  BY <1>1, <1>5 DEF OutboundInv, EntriesDiffer
<1>7. OutboundInv' /\ Promise!Disturb
  BY <1>1, <1>4, <1>5, <1>6, ChurnMeans
<1> QED  BY <1>7 DEF Promise!FanoutNext

\* What a dispatch owes is read off the registry, the offers and the walks.
LEMMA SameFanout ==
  ASSUME UNCHANGED <<entries, offer, walk>>, Present' = Present
  PROVE  UNCHANGED <<Dispatching, Owed, Settled, Disturbed>>
<1>1. Dispatching' = Dispatching
  BY DEF Dispatching
<1>2. Settled' = Settled
  BY <1>1 DEF Settled
<1>3. Disturbed' = Disturbed
  BY <1>1 DEF Disturbed
<1>4. Owed' = Owed
  BY <1>1 DEF Owed, Tried, Matches
<1> QED  BY <1>1, <1>2, <1>3, <1>4

LEMMA ReloadMeans ==
  ASSUME OutboundInv, ReloadOutbound
  PROVE  OutboundInv' /\ UNCHANGED Promise!fanoutVars
<1>1. counter' = 0 /\ entries' = entries /\ made' = made /\ offer' = offer /\ walk' = walk
  BY DEF ReloadOutbound
<1>2. OutboundTypes' /\ EntriesDiffer' /\ Present' = Present
  BY <1>1 DEF OutboundInv, OutboundTypes, EntriesDiffer, Present
<1>3. OutboundInv'
  <2>1. ASSUME NEW d \in Dispatching PROVE Walking(walk[d])'
    BY <1>1, <1>2 DEF OutboundInv, Walking, Knows, Ahead
  <2>2. Dispatching' = Dispatching
    BY <1>1 DEF Dispatching
  <2> QED  BY <1>2, <2>1, <2>2 DEF OutboundInv
<1>4. UNCHANGED <<Dispatching, Owed, Settled, Disturbed>>
  BY <1>1, <1>2, SameFanout
<1> QED  BY <1>3, <1>4 DEF Promise!fanoutVars, Disturbed

LEMMA OutboundUnchanged ==
  ASSUME OutboundInv, UNCHANGED outboundVars
  PROVE  OutboundInv' /\ UNCHANGED Promise!fanoutVars
<1>1. counter' = counter /\ entries' = entries /\ made' = made /\ offer' = offer /\ walk' = walk
  BY DEF outboundVars
<1>2. OutboundTypes' /\ EntriesDiffer' /\ Present' = Present
  BY <1>1 DEF OutboundInv, OutboundTypes, EntriesDiffer, Present
<1>3. OutboundInv'
  <2>1. ASSUME NEW d \in Dispatching PROVE Walking(walk[d])'
    BY <1>1, <1>2 DEF OutboundInv, Walking, Knows, Ahead
  <2>2. Dispatching' = Dispatching
    BY <1>1 DEF Dispatching
  <2> QED  BY <1>2, <2>1, <2>2 DEF OutboundInv
<1>4. UNCHANGED <<Dispatching, Owed, Settled, Disturbed>>
  BY <1>1, <1>2, SameFanout
<1> QED  BY <1>3, <1>4 DEF Promise!fanoutVars, Disturbed

LEMMA RestartMeans ==
  ASSUME OutboundInv, RestartOutbound
  PROVE  OutboundInv' /\ Promise!FanoutNext
<1>1. entries' = <<>> /\ counter' = 0 /\ walk' = [d \in Walks |-> Idle] /\ UNCHANGED <<made, offer>>
  BY DEF RestartOutbound
<1>2. OutboundTypes'
  BY <1>1, IdleType, EmptySeq DEF OutboundInv, OutboundTypes
<1>3. Present' = {} /\ Dispatching' = {}
  BY <1>1 DEF Present, Dispatching, Idle
<1>4. OutboundInv'
  BY <1>2, <1>3 DEF OutboundInv, EntriesDiffer
<1>5. Promise!StopAll
  BY <1>3 DEF Promise!StopAll, Promise!FanoutInit, Owed, Settled
<1> QED  BY <1>4, <1>5 DEF Promise!FanoutNext

----------------------------------------------------------------------------
(* The process                                                             *)

IntegrationsInv == SettingsInv /\ OutboundInv

\* What a step may do to the secrets.
SecretsStep == \A s \in Secrets : Value(s)' # Value(s) =>
    \E a \in Admins, edits \in Edits, reloaded \in BOOLEAN :
        /\ SaveSettings(a, edits, reloaded)
        /\ s \in DOMAIN edits \/ form[a][s] = Empty

LEMMA FileUnchanged == UNCHANGED <<file, key>> => SecretsStep
BY DEF SecretsStep, Value

LEMMA IntegrationsStep ==
  ASSUME IntegrationsInv, [IntegrationsNext]_integrationVars
  PROVE  /\ IntegrationsInv' /\ SecretsStep
         /\ Promise!FanoutNext \/ UNCHANGED Promise!fanoutVars
<1> USE DEF IntegrationsInv
<1>1. CASE PutSettings
  <2>1. PICK a \in Admins, edits \in Edits, reloaded \in BOOLEAN :
            /\ SaveSettings(a, edits, reloaded)
            /\ IF reloaded THEN ReloadOutbound ELSE UNCHANGED outboundVars
    BY <1>1 DEF PutSettings
  <2>2. SettingsInv' /\ SecretsStep
    BY <2>1, SettingsSave DEF SecretsStep
  <2>3. OutboundInv' /\ UNCHANGED Promise!fanoutVars
    BY <2>1, ReloadMeans, OutboundUnchanged
  <2> QED  BY <2>2, <2>3
<1>2. CASE GetSettings
  <2>1. PICK a \in Admins : OpenSettings(a) /\ UNCHANGED outboundVars
    BY <1>2 DEF GetSettings
  <2>2. SecretsStep
    BY <2>1, FileUnchanged DEF OpenSettings
  <2> QED  BY <2>1, <2>2, SettingsOpen, OutboundUnchanged
<1>3. CASE Restart
  <2>1. PICK k \in {Malformed} \cup Keys : RestartSettings(k) /\ RestartOutbound
    BY <1>3 DEF Restart
  <2>2. SecretsStep
    BY <2>1, SettingsRestart DEF SecretsStep
  <2> QED  BY <2>1, <2>2, SettingsRestart, RestartMeans
<1>4. CASE ChangeSubscriptions
  <2>1. UNCHANGED settingsVars
    BY <1>4 DEF ChangeSubscriptions
  <2>2. SettingsInv' /\ SecretsStep
    BY <2>1, SettingsUnchanged, FileUnchanged DEF settingsVars
  <2>3. OutboundInv' /\ Promise!FanoutNext
    <3>1. CASE \E f \in Offers : AddSubscription(f)
      BY <3>1, AddMeans
    <3>2. CASE \E i \in DOMAIN entries, f \in Offers : UpdateSubscription(i, f)
      BY <3>2, UpdateMeans
    <3>3. CASE \E i \in DOMAIN entries : RemoveSubscription(i)
      BY <3>3, RemoveMeans
    <3> QED  BY <1>4, <3>1, <3>2, <3>3 DEF ChangeSubscriptions
  <2> QED  BY <2>2, <2>3
<1>5. CASE StartWalk
  <2>1. UNCHANGED settingsVars
    BY <1>5 DEF StartWalk
  <2>2. SettingsInv' /\ SecretsStep
    BY <2>1, SettingsUnchanged, FileUnchanged DEF settingsVars
  <2>3. PICK d \in Walks : Dispatch(d) \/ \E i \in DOMAIN entries : TestSubscription(d, i)
    BY <1>5 DEF StartWalk
  <2> QED  BY <2>2, <2>3, DispatchMeans, TestMeans
<1>6. CASE \E d \in Walks : Deliver(d)
  <2>1. PICK d \in Walks : Deliver(d)
    BY <1>6
  <2>2. SettingsInv' /\ SecretsStep
    BY <2>1, SettingsUnchanged, FileUnchanged DEF Deliver, settingsVars
  <2>3. (\E ok \in BOOLEAN : Answer(d, ok)) \/ Awake(d)
    BY <2>1 DEF Deliver
  <2> QED  BY <2>2, <2>3, AnswerMeans, AwakeMeans
<1>7. CASE UNCHANGED integrationVars
  <2>1. UNCHANGED settingsVars /\ UNCHANGED outboundVars
    BY <1>7 DEF integrationVars
  <2>2. SettingsInv' /\ SecretsStep
    BY <2>1, SettingsUnchanged, FileUnchanged DEF settingsVars
  <2> QED  BY <2>1, <2>2, OutboundUnchanged
<1> QED  BY <1>1, <1>2, <1>3, <1>4, <1>5, <1>6, <1>7 DEF IntegrationsNext

\* The invariant of the process.
THEOREM IntegrationsInvariant == IntegrationsSpec => []IntegrationsInv
<1>1. IntegrationsInit => IntegrationsInv
  BY SettingsInitInv, OutboundInitInv DEF IntegrationsInit, IntegrationsInv
<1>2. IntegrationsInv /\ [IntegrationsNext]_integrationVars => IntegrationsInv'
  BY IntegrationsStep
<1> QED  BY <1>1, <1>2, PTL DEF IntegrationsSpec

\* The settings the agents and the API use are, in plain text, what was typed last, after
\* any saves, restarts and keys, unless the last reload failed or a secret on file does not
\* open (update_settings, reload_integrations, encryption.py).
THEOREM TypedReachesUse == IntegrationsSpec => []TypedInUse
<1>1. IntegrationsInv => TypedInUse
  BY ReadableMeans DEF IntegrationsInv, SettingsInv, TypedInUse
<1> QED  BY <1>1, IntegrationsInvariant, PTL

\* No step changes a secret that nobody typed over, unless the page showed it as blank
\* (update_settings, _merge, the cipher of security/encryption.py and its keys).
THEOREM SecretsAreKept == IntegrationsSpec => SecretsKept
<1>1. IntegrationsInv /\ [IntegrationsNext]_integrationVars => SecretsStep
  BY IntegrationsStep
<1>2. IntegrationsSpec => [][SecretsStep]_integrationVars
  BY <1>1, IntegrationsInvariant, PTL DEF IntegrationsSpec
<1> QED  BY <1>2 DEF SecretsKept, SecretsStep

\* The walk over the live dictionary implements Fanout: a dispatch tries each subscription
\* it owes the event once, and passes one over only if the registry was changed under it
\* (OutboundWebhookManager.dispatch).
THEOREM DispatchImplementsFanout == IntegrationsSpec => DispatchKeepsPromise
<1>1. IntegrationsInit => Promise!FanoutInit
  BY OutboundInitInv DEF IntegrationsInit
<1>2. IntegrationsInv /\ [IntegrationsNext]_integrationVars => [Promise!FanoutNext]_(Promise!fanoutVars)
  BY IntegrationsStep
<1> QED  BY <1>1, <1>2, IntegrationsInvariant, PTL DEF IntegrationsSpec, DispatchKeepsPromise, Promise!FanoutSpec
=============================================================================
