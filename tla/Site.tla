-------------------------------- MODULE Site --------------------------------
(***************************************************************************)
(* A site: its accounts, single sign-on, organizations and the owners of   *)
(* its repositories, with several requests answered at once by one or more *)
(* servers.  The tables are Directory's, the requests those of Accounts,   *)
(* SingleSignOn and Organizations.                                         *)
(***************************************************************************)
EXTENDS SingleSignOn, Organizations

vars == <<tables, requestVars, failures, signOnVars>>

TypeOK == DirectoryTypeOK /\ RequestsTypeOK /\ SignOnTypeOK /\ failures \in [Names -> Nat]

(* Before setup, or in use: tables that setup, administrators and members   *)
(* can have filled.                                                         *)
EmptyTables ==
    /\ users = << >> /\ orgs = << >> /\ members = << >>
    /\ repos = {} /\ sessions = {} /\ tokens = {}
    /\ given = [users |-> 0, orgs |-> 0, sessions |-> 0]

CONSTANTS
    SeedUsers, SeedOrgs, SeedMembers, SeedRepos,    \* a site in use
    SeedFailures                                    \* and sign-ins that failed

(* What holds of any site in use: it was set up, and its rows fit together.  *)
ASSUME SeedAssumption ==
    /\ Cardinality(DOMAIN SeedUsers) \in 0 .. MaxSessions
    /\ DOMAIN SeedUsers = 1 .. Cardinality(DOMAIN SeedUsers) /\ DOMAIN SeedUsers \subseteq UserIds
    /\ SeedUsers \in [DOMAIN SeedUsers -> Account]
    /\ Cardinality(DOMAIN SeedOrgs) \in Nat
    /\ DOMAIN SeedOrgs = 1 .. Cardinality(DOMAIN SeedOrgs) /\ DOMAIN SeedOrgs \subseteq OrgIds
    /\ SeedOrgs \in [DOMAIN SeedOrgs -> Names]
    /\ DOMAIN SeedMembers \subseteq (DOMAIN SeedOrgs) \X (DOMAIN SeedUsers)
    /\ SeedMembers \in [DOMAIN SeedMembers -> OrgRoles]
    /\ SeedRepos \subseteq Repository
    /\ \A u, v \in DOMAIN SeedUsers :
         u # v => /\ SeedUsers[u].name # SeedUsers[v].name
                  /\ SeedUsers[u].made # "setup" \/ SeedUsers[v].made # "setup"
                  /\ SeedUsers[u].subject = NoSubject \/ SeedUsers[u].subject # SeedUsers[v].subject
    /\ \A o, p \in DOMAIN SeedOrgs : o # p => SeedOrgs[o] # SeedOrgs[p]
    /\ \A u \in DOMAIN SeedUsers, o \in DOMAIN SeedOrgs : SeedUsers[u].name # SeedOrgs[o]
    /\ \E u \in DOMAIN SeedUsers : SeedUsers[u].role = "admin" /\ ~SeedUsers[u].disabled
    /\ \A r \in SeedRepos :
         IF r.org # NoOrg THEN r.org \in DOMAIN SeedOrgs /\ SeedOrgs[r.org] = r.ns
         ELSE r.owner \in DOMAIN SeedUsers /\ SeedUsers[r.owner].name = r.ns
    /\ SeedFailures \in [Names -> 0 .. MaxFailures]

SeededTables ==
    /\ users = SeedUsers /\ orgs = SeedOrgs /\ members = SeedMembers /\ repos = SeedRepos
    /\ tokens = {}
    /\ sessions = {[id |-> u, user |-> u, proved |-> users[u].password, late |-> FALSE]
                     : u \in DOMAIN users}
    /\ given = [users |-> Cardinality(DOMAIN users), orgs |-> Cardinality(DOMAIN orgs),
                sessions |-> Cardinality(DOMAIN users)]

Init ==
    /\ EmptyTables \/ SeededTables
    /\ req = [h \in Handlers |-> Idle] /\ asked = 0
    /\ failures = SeedFailures /\ SignOnInit

Next ==
    \/ \E h \in Handlers :
         \/ (SignIn(h) \/ OwnAccount(h) \/ Administration(h)) /\ UNCHANGED signOnVars
         \/ SingleSignOn(h)
         \/ (Membership(h) \/ Ownership(h)) /\ UNCHANGED <<failures, signOnVars>>

Spec == Init /\ [][Next]_vars

----------------------------------------------------------------------------
(* Once there is an account, one of them is an administrator who is not     *)
(* disabled: two administrators who demote, disable or delete each other at *)
(* the same moment do not leave the site without one.                       *)
ActiveAdministratorStays == users # << >> => ActiveAdmins # {}

(* Setup makes one owner, though two servers may have asked the count of    *)
(* accounts before either inserted its own.                                 *)
OneOwner == Cardinality({u \in DOMAIN users : users[u].made = "setup"}) <= 1

(* A name is one account's or one organization's, however the requests that *)
(* looked for a free name and those that took it fall together.             *)
NamesDistinct ==
    /\ \A u, v \in DOMAIN users : users[u].name = users[v].name => u = v
    /\ \A o, p \in DOMAIN orgs : orgs[o] = orgs[p] => o = p
    /\ \A u \in DOMAIN users, o \in DOMAIN orgs : users[u].name # orgs[o]

(* Two callbacks of one person at once end in one account.                  *)
OneAccountPerSubject ==
    \A u, v \in DOMAIN users :
        users[u].subject # NoSubject /\ users[u].subject = users[v].subject => u = v

(* A repository lies under the name of its organization, or else of the     *)
(* account it belongs to, through transfers, deletions of accounts and      *)
(* organizations, and names given anew.                                     *)
RepositoriesUnderTheirOwner ==
    \A r \in repos :
        IF r.org # NoOrg THEN r.org \in DOMAIN orgs /\ orgs[r.org] = r.ns
        ELSE r.owner \in DOMAIN users /\ users[r.owner].name = r.ns

(* Changing or resetting a password ends the sessions that were opened with *)
(* the old one.  Those that are left afterwards were opened by a sign-in    *)
(* that had read the account before the change and finished after it.       *)
OldSessionsEnd ==
    \A s \in sessions :
        \/ s.late
        \/ s.proved = users[s.user].password
        \/ \E h \in Handlers : req[h].pc = "sign_out" /\ req[h].who = s.user

(* A change of members never takes an organization's last admin who can act *)
(* as one: only a change of that account does.                              *)
MembershipKeepsAnAdmin ==
    [][\A o \in DOMAIN orgs \cap DOMAIN orgs' :
          ActingAdmins(o) # {} /\ ActingAdmins(o)' = {} => users' # users]_vars

(* A state of a single sign-on is used at most once by each server.         *)
StateUsedOncePerServer == \A x \in DOMAIN taken : taken[x] <= 1

(* Requests that passed the rate limit together add at most one failure     *)
(* each to the bound.                                                       *)
FailuresBounded == \A n \in Names : failures[n] < MaxFailures + Cardinality(Handlers)
=============================================================================
