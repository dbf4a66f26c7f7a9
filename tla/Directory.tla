----------------------------- MODULE Directory -----------------------------
(***************************************************************************)
(* The tables that say who may use a HuggingHack site and what they own:   *)
(* accounts, sessions, API tokens, pending single sign-ons, organizations, *)
(* memberships and uploaded repositories, with the statements of           *)
(* backend/app/database.py that read and change them and the roles of      *)
(* permissions.py.  Every operator that primes a variable is one           *)
(* transaction.                                                            *)
(*                                                                         *)
(* Ids are uuid4 in the code: here they are numbers given out once, so a   *)
(* request that holds the id of a deleted row finds nothing.               *)
(***************************************************************************)
EXTENDS Naturals, FiniteSets

CONSTANTS
    Names,          \* names an account or organization may ask for
    Slugs,          \* names of repositories
    Subjects,       \* people known to the identity provider
    NoSubject,      \* the subject of a local account
    MaxAccounts,    \* bound on accounts ever created
    MaxOrgs,        \* bound on organizations ever created
    MaxSessions,    \* bound on sessions ever opened
    MaxPasswords    \* bound on passwords an account has had

ASSUME DirectoryAssumption ==
    /\ NoSubject \notin Subjects
    /\ {MaxAccounts, MaxOrgs, MaxSessions, MaxPasswords} \subseteq Nat
    /\ MaxPasswords # 0

VARIABLES
    users,      \* accounts: id -> row, for the rows there are
    orgs,       \* organizations: id -> name
    members,    \* memberships: <<organization, account>> -> role
    repos,      \* owned_repositories
    sessions,   \* sessions
    tokens,     \* api_tokens, as <<account, scope>>
    given       \* how many ids of each kind were given out

tables == <<users, orgs, members, repos, sessions, tokens, given>>

Roles == {"admin", "member", "viewer"}
OrgRoles == {"admin", "write", "read"}
UserIds == 1 .. MaxAccounts
OrgIds == 1 .. MaxOrgs
Nobody == 0
NoOrg == 0
External == 0       \* password_hash of an account that signs in elsewhere

Account == [name : Names, role : Roles, disabled : BOOLEAN,
            password : 0 .. MaxPasswords, subject : Subjects \union {NoSubject},
            made : {"setup", "admin", "sign-on"}]
Repository == [ns : Names, slug : Slugs, owner : UserIds, org : OrgIds \union {NoOrg}]
Session == [id : 1 .. MaxSessions, user : UserIds, proved : 0 .. MaxPasswords,
            late : BOOLEAN]

DirectoryTypeOK ==
    /\ DOMAIN users \subseteq UserIds /\ users \in [DOMAIN users -> Account]
    /\ DOMAIN orgs \subseteq OrgIds /\ orgs \in [DOMAIN orgs -> Names]
    /\ DOMAIN members \subseteq (DOMAIN orgs) \X (DOMAIN users)
    /\ members \in [DOMAIN members -> OrgRoles]
    /\ repos \subseteq Repository
    /\ sessions \subseteq Session
    /\ tokens \subseteq (DOMAIN users) \X {"read", "write"}
    /\ given \in [users : 0 .. MaxAccounts, orgs : 0 .. MaxOrgs, sessions : 0 .. MaxSessions]

----------------------------------------------------------------------------
(* permissions.py: what a role may do, of the capabilities routes ask for.  *)

Capabilities(role) ==
    {"tokens.manage", "models.browse"}
        \union (IF role \in {"member", "admin"} THEN {"repos.create"} ELSE {})
        \union (IF role = "admin" THEN {"users.manage", "orgs.manage", "storage.manage"} ELSE {})

Can(u, capability) == capability \in Capabilities(users[u].role)

(* An existing account that a credential may act for.                        *)
Enabled(u) == u \in DOMAIN users /\ ~users[u].disabled

----------------------------------------------------------------------------
(* Accounts.                                                                 *)

HasName(n) == {u \in DOMAIN users : users[u].name = n}
OrgNamed(n) == {o \in DOMAIN orgs : orgs[o] = n}
NamespaceTaken(n) == HasName(n) # {} \/ OrgNamed(n) # {}

WithSubject(x) == {u \in DOMAIN users : users[u].subject = x}

ActiveAdmins == {u \in DOMAIN users : users[u].role = "admin" /\ ~users[u].disabled}

(* Broken variant: the owner is inserted without asking for an empty table.  *)
CreateRefusedLater(row, first) ==
    \/ OrgNamed(row.name) # {}
    \/ HasName(row.name) # {}
    \/ row.subject # NoSubject /\ WithSubject(row.subject) # {}

(* Broken variant: names of organizations are not asked about.               *)
CreateRefusedByAccounts(row, first) ==
    \/ first /\ users # << >>
    \/ HasName(row.name) # {}
    \/ row.subject # NoSubject /\ WithSubject(row.subject) # {}

(* Broken variant: there is no unique index on the subject.                  *)
CreateRefusedByName(row, first) ==
    \/ first /\ users # << >>
    \/ OrgNamed(row.name) # {}
    \/ HasName(row.name) # {}

(* Why an account cannot be inserted: setup is over, the name is an         *)
(* organization's, or one of the two unique indexes (name, subject) refuses. *)
CreateRefused(row, first) ==
    \/ first /\ users # << >>
    \/ OrgNamed(row.name) # {}
    \/ HasName(row.name) # {}
    \/ row.subject # NoSubject /\ WithSubject(row.subject) # {}

NewAccount == given.users + 1

InsertAccount(row) ==
    /\ NewAccount \in UserIds
    /\ users' = [u \in DOMAIN users \union {NewAccount} |->
                    IF u = NewAccount THEN row ELSE users[u]]
    /\ given' = [given EXCEPT !.users = NewAccount]
    /\ UNCHANGED <<orgs, members, repos, sessions, tokens>>

(* Broken variant: the count allows for one more.                            *)
LastAdminOff(u) == u \in ActiveAdmins /\ Cardinality(ActiveAdmins) < 1

(* update_user_guarded and delete_user: nobody takes away the last active   *)
(* administrator.                                                            *)
LastAdmin(u) == u \in ActiveAdmins /\ Cardinality(ActiveAdmins) <= 1

UpdateRefused(u, role, disabled) == (role # "admin" \/ disabled) /\ LastAdmin(u)

UpdateAccount(u, role, disabled) ==
    /\ users' = IF u \in DOMAIN users
                    THEN [users EXCEPT ![u].role = role, ![u].disabled = disabled]
                    ELSE users
    /\ UNCHANGED <<orgs, members, repos, sessions, tokens, given>>

(* owned_repositories keeps the account it names (ON DELETE RESTRICT);       *)
(* sessions, tokens and memberships go with it (CASCADE).                    *)
DeleteRefused(u) == LastAdmin(u) \/ \E r \in repos : r.owner = u

Keep(f, kept(_)) == [x \in {y \in DOMAIN f : kept(y)} |-> f[x]]

DeleteAccount(u) ==
    /\ users' = Keep(users, LAMBDA v : v # u)
    /\ members' = Keep(members, LAMBDA m : m[2] # u)
    /\ sessions' = {s \in sessions : s.user # u}
    /\ tokens' = {t \in tokens : t[1] # u}
    /\ UNCHANGED <<orgs, repos, given>>

(* An UPDATE that finds no account changes nothing.  Whoever sets a password *)
(* knows it: the session it is set from counts as opened with it (ghost).    *)
SetPassword(u, kept) ==
    IF u \notin DOMAIN users THEN UNCHANGED tables
    ELSE LET new == users[u].password + 1
         IN  /\ new <= MaxPasswords
             /\ users' = [users EXCEPT ![u].password = new]
             /\ sessions' = {IF s.id = kept THEN [s EXCEPT !.proved = new, !.late = FALSE] ELSE s : s \in sessions}
             /\ UNCHANGED <<orgs, members, repos, tokens, given>>

----------------------------------------------------------------------------
(* Sessions and tokens.                                                      *)

InsertSession(u, proved) ==
    /\ given.sessions < MaxSessions
    /\ sessions' = sessions \union
           {[id |-> given.sessions + 1, user |-> u, proved |-> proved,
             late |-> proved # users[u].password]}
    /\ given' = [given EXCEPT !.sessions = @ + 1]
    /\ UNCHANGED <<users, orgs, members, repos, tokens>>

DeleteSessions(gone) ==
    /\ sessions' = sessions \ gone
    /\ UNCHANGED <<users, orgs, members, repos, tokens, given>>

SessionsOf(u) == {s \in sessions : s.user = u}

SetTokens(set) ==
    /\ tokens' = set
    /\ UNCHANGED <<users, orgs, members, repos, sessions, given>>

TokensOf(u) == {t \in tokens : t[1] = u}

----------------------------------------------------------------------------
(* Organizations and memberships.                                            *)

(* A role acts while the account is enabled and may create repositories.     *)
ActingAdmins(o) ==
    {u \in DOMAIN users : /\ <<o, u>> \in DOMAIN members
                          /\ members[<<o, u>>] = "admin"
                          /\ ~users[u].disabled /\ Can(u, "repos.create")}

OrgRole(o, u) == IF <<o, u>> \in DOMAIN members THEN members[<<o, u>>] ELSE "none"

EffectiveRole(o, u) ==
    IF OrgRole(o, u) \in {"admin", "write"} /\ ~Can(u, "repos.create")
        THEN "read" ELSE OrgRole(o, u)

OnlyAdministeredBy(u) == {o \in DOMAIN orgs : ActingAdmins(o) = {u}}

InsertOrganization(n) ==
    /\ given.orgs < MaxOrgs
    /\ orgs' = [o \in DOMAIN orgs \union {given.orgs + 1} |->
                    IF o = given.orgs + 1 THEN n ELSE orgs[o]]
    /\ given' = [given EXCEPT !.orgs = @ + 1]
    /\ UNCHANGED <<users, members, repos, sessions, tokens>>

(* Broken variant: only the role is looked at, not whether it acts.          *)
LastActingAdminByRole(o, u) ==
    /\ u \in ActingAdmins(o)
    /\ Cardinality({v \in DOMAIN users : OrgRole(o, v) = "admin"}) <= 1

LastActingAdmin(o, u) == u \in ActingAdmins(o) /\ Cardinality(ActingAdmins(o)) <= 1

(* Broken variant: members outlive accounts and organizations.               *)
MemberFitsAnyone(o, u) == TRUE

(* The foreign keys of organization_members.                                 *)
MemberFits(o, u) == o \in DOMAIN orgs /\ u \in DOMAIN users

SetMember(o, u, role) ==
    /\ members' = [m \in DOMAIN members \union {<<o, u>>} |->
                      IF m = <<o, u>> THEN role ELSE members[m]]
    /\ UNCHANGED <<users, orgs, repos, sessions, tokens, given>>

RemoveMember(o, u) ==
    /\ members' = Keep(members, LAMBDA m : m # <<o, u>>)
    /\ UNCHANGED <<users, orgs, repos, sessions, tokens, given>>

DeleteOrganization(o) ==
    /\ ~\E r \in repos : r.org = o
    /\ orgs' = Keep(orgs, LAMBDA p : p # o)
    /\ members' = Keep(members, LAMBDA m : m[1] # o)
    /\ UNCHANGED <<users, repos, sessions, tokens, given>>

----------------------------------------------------------------------------
(* Uploaded repositories.                                                    *)

IdTaken(ns, slug) == \E r \in repos : r.ns = ns /\ r.slug = slug
PersonalOf(u) == {r \in repos : r.owner = u /\ r.org = NoOrg}

(* The foreign keys of owned_repositories.                                   *)
OwnerFits(r) == r.owner \in DOMAIN users /\ (r.org = NoOrg \/ r.org \in DOMAIN orgs)

SetRepos(set) ==
    /\ repos' = set
    /\ UNCHANGED <<users, orgs, members, sessions, tokens, given>>

(* Broken variant: personal repositories are handed over too.                *)
ReassignAll(from, to) ==
    {IF r.owner = from THEN [r EXCEPT !.owner = to] ELSE r : r \in repos}

(* Organization repositories get another creator before an account goes.     *)
Reassign(from, to) ==
    {IF r.owner = from /\ r.org # NoOrg THEN [r EXCEPT !.owner = to] ELSE r : r \in repos}

=============================================================================
