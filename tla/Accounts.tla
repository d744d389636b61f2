------------------------------- MODULE Accounts -------------------------------
(***************************************************************************)
(* User accounts: registration, sign-in through Google or GitHub, and the  *)
(* roles administrators give (auth/router.py, auth/oauth.py, auth/rbac.py, *)
(* database/repositories/users.py).  A request reads in one query and      *)
(* commits at its end; requests overlap.  No endpoint deactivates or       *)
(* removes a user.                                                         *)
(***************************************************************************)
EXTENDS Integers, Sequences, FiniteSets

CONSTANTS
    Emails,        \* addresses; accounts are unique by address
    Handlers,      \* requests being served
    Profiles       \* what GitHub says of a user: emails and the public one, or ""

VARIABLES
    users,         \* committed rows: role, provider, has it a password?
    organised,     \* does the default organisation exist?
    handler,       \* what each request has read
    crowned,       \* history: accounts that registration made administrators
    crossed        \* history: an administrator was demoted while changing a role

accountVars == <<users, organised, handler, crowned, crossed>>

Waiting == [at |-> "idle"]

\* ROLE_HIERARCHY
Level == [viewer |-> 0, responder |-> 1, commander |-> 2, admin |-> 3]
Roles == DOMAIN Level

\* get_by_email
Registered(e) == e \in DOMAIN users

\* require_role; the role is the row's, not the token's.
Permitted(e, role) == Registered(e) /\ Level[users[e].role] >= Level[role]

AccountsInit ==
    /\ users = [e \in {} |-> [role |-> "viewer", provider |-> "local", password |-> FALSE]]
    /\ organised = FALSE /\ handler = [h \in Handlers |-> Waiting]
    /\ crowned = 0 /\ crossed = FALSE

Answer(h) == handler' = [handler EXCEPT ![h] = Waiting]

\* What a request that creates a user has read: organisation and first user.
Reading(e, provider, password) ==
    [at |-> "create", email |-> e, provider |-> provider, password |-> password,
     organised |-> organised, role |-> IF DOMAIN users = {} THEN "admin" ELSE "viewer"]

\* register; an address that is known is refused with 409.
Register(h) ==
    /\ handler[h] = Waiting
    /\ \E e \in Emails : ~Registered(e) /\ handler' = [handler EXCEPT ![h] = Reading(e, "local", TRUE)]
    /\ UNCHANGED <<users, organised, crowned, crossed>>

\* exchange_code of GitHub: the primary verified address, else the first verified one,
\* else the public one; none is an error.
GithubEmail(profile) ==
    LET verified == SelectSeq(profile.emails, LAMBDA x : x.verified)
        primary == SelectSeq(verified, LAMBDA x : x.primary)
    IN IF primary # <<>> THEN Head(primary).email
       ELSE IF verified # <<>> THEN Head(verified).email ELSE profile.public

\* exchange_code: the address a provider answers with.
Exchanged(provider) == IF provider = "google" THEN Emails ELSE {GithubEmail(p) : p \in Profiles} \ {""}

\* oauth_callback: a user of the provider signs in; one with the address is
\* linked to it; anyone else is created.
OauthCallback(h) ==
    /\ handler[h] = Waiting
    /\ \E p \in {"google", "github"} : \E e \in Exchanged(p) :
          \/ Registered(e) /\ users[e].provider # p
             /\ handler' = [handler EXCEPT ![h] = [at |-> "link", email |-> e, provider |-> p]]
          \/ ~Registered(e) /\ handler' = [handler EXCEPT ![h] = Reading(e, p, FALSE)]
    /\ UNCHANGED <<users, organised, crowned, crossed>>

\* UserRepository.update
Update(e, field, value) == users' = [users EXCEPT ![e] = [@ EXCEPT ![field] = value]]

\* The link of an existing account replaces its provider.
Link(h) ==
    /\ handler[h].at = "link"
    /\ Update(handler[h].email, "provider", handler[h].provider) /\ Answer(h)
    /\ UNCHANGED <<organised, crowned, crossed>>

\* Slip: an organisation that exists meanwhile is taken.
Slip_Refused(r) == Registered(r.email)

\* The table refuses a second row for the address, or for the slug of the organisation.
Refused(r) == Registered(r.email) \/ (~r.organised /\ organised)

\* UserRepository.create, and _get_or_create_default_org in its transaction.
Create(h) ==
    /\ handler[h].at = "create" /\ Answer(h)
    /\ LET r == handler[h]
           row == [role |-> r.role, provider |-> r.provider, password |-> r.password]
       IN IF Refused(r) THEN UNCHANGED <<users, organised, crowned>>
          ELSE /\ users' = [e \in DOMAIN users \cup {r.email} |-> IF e = r.email THEN row ELSE users[e]]
               /\ organised' = TRUE
               /\ crowned' = crowned + IF r.role = "admin" THEN 1 ELSE 0
    /\ UNCHANGED crossed

\* update_user_role: the checks; nobody changes his own role.
StartRole(h) ==
    /\ handler[h] = Waiting
    /\ \E a, b \in DOMAIN users : \E r \in Roles :
          /\ Permitted(a, "admin") /\ a # b
          /\ handler' = [handler EXCEPT ![h] = [at |-> "role", actor |-> a, target |-> b, role |-> r]]
    /\ UNCHANGED <<users, organised, crowned, crossed>>

CommitRole(h) ==
    /\ handler[h].at = "role"
    /\ Update(handler[h].target, "role", handler[h].role) /\ Answer(h)
    /\ crossed' = (crossed \/ ~Permitted(handler[h].actor, "admin"))
    /\ UNCHANGED <<organised, crowned>>

AccountsNext ==
    \E h \in Handlers : \/ Register(h) \/ OauthCallback(h) \/ Link(h) \/ Create(h)
                        \/ StartRole(h) \/ CommitRole(h)

----------------------------------------------------------------------------
\* However many first users register at once, by password or through a provider, one
\* becomes administrator: only the unique slug of the organisation, which they all
\* create, keeps the others out.
OneFirst == crowned <= 1

\* There is an administrator as long as nobody's role is changed by someone who loses his
\* own at the same time: two who demote each other both pass the check.
AdminRemains == (DOMAIN users # {} /\ ~crossed) => \E e \in DOMAIN users : users[e].role = "admin"
=============================================================================
