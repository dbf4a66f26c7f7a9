---------------------------- MODULE Site_proofs ----------------------------
(***************************************************************************)
(* Proofs about Site, for any names, people, servers, handlers and bounds. *)
(*                                                                         *)
(* A step of a request runs one statement on the tables, or none; which,   *)
(* and what it was refused for otherwise, is TableStep.  The invariants    *)
(* that speak of the tables alone follow from it.  The others also need    *)
(* what a request still holds to be true of the tables as they are by now. *)
(***************************************************************************)
EXTENDS Site, FiniteSetTheorems, TLAPS

-----------------------------------------------------------------------------
(* Requests.                                                               *)

(* What a request brings to the steps that write it into a table. *)
Carries(r) ==
    /\ r.pc = "token" => r.role \in {"read", "write"}
    /\ r.pc \in {"insert", "join", "member"} => r.role \in OrgRoles
    /\ r.pc \in {"select", "take"} => r.session \in 1 .. MaxStates

RequestsOK ==
    /\ RequestsTypeOK
    /\ \A h \in Handlers : Carries(req[h])

LEMMA IdleType == Idle \in Request /\ Carries(Idle) /\ Idle.pc = "idle"
  BY RequestsAssumption, DirectoryAssumption, SMT
     DEF Idle, Request, Carries, Steps, Roles, OrgRoles, Nobody, NoOrg, External

(* A request stays one when a field of it changes. *)
LEMMA FieldTypes ==
    \A r \in Request :
      /\ \A x \in Steps : [r EXCEPT !.pc = x] \in Request
      /\ \A x \in Servers : [r EXCEPT !.server = x] \in Request
      /\ \A x \in UserIds \union {Nobody} :
           [r EXCEPT !.by = x] \in Request /\ [r EXCEPT !.who = x] \in Request
      /\ \A x \in Names : [r EXCEPT !.name = x] \in Request
      /\ \A x \in Slugs : [r EXCEPT !.slug = x] \in Request
      /\ \A x \in Roles \union OrgRoles \union {"none"} : [r EXCEPT !.role = x] \in Request
      /\ \A x \in Roles : [r EXCEPT !.to = x] \in Request
      /\ \A x \in BOOLEAN : [r EXCEPT !.disabled = x] \in Request
      /\ \A x \in OrgIds \union {NoOrg} : [r EXCEPT !.org = x] \in Request
      /\ \A x \in 0 .. MaxPasswords : [r EXCEPT !.password = x] \in Request
      /\ \A x \in Nat : [r EXCEPT !.session = x] \in Request
      /\ \A x \in Subjects \union {NoSubject} : [r EXCEPT !.subject = x] \in Request
      /\ \A x \in SUBSET Repository : [r EXCEPT !.old = x] \in Request
      /\ \A x \in SUBSET {"role", "disabled"} : [r EXCEPT !.change = x] \in Request
  BY SMT DEF Request

(* A request that comes to a step as a whole, or goes on to another step. *)
LEMMA RequestGoesOn ==
    ASSUME RequestsOK, NEW h \in Handlers, NEW r \in Request, Carries(r),
           Begins(h, r) \/ Continues(h, r)
    PROVE  RequestsOK'
  BY RequestsAssumption, SMT DEF RequestsOK, RequestsTypeOK, Begins, Continues, Free

LEMMA StepGoesOn ==
    ASSUME RequestsOK, NEW h \in Handlers,
           NEW step \in Steps \ {"token", "insert", "join", "member", "select", "take"},
           GoesTo(h, step)
    PROVE  RequestsOK'
<1>1. req[h] \in Request /\ Carries(req[h])
  BY DEF RequestsOK, RequestsTypeOK
<1>2. [req[h] EXCEPT !.pc = step] \in Request
  BY <1>1, FieldTypes
<1>3. Carries([req[h] EXCEPT !.pc = step])
  BY <1>1, SMT DEF Carries, Request
<1>4. Continues(h, [req[h] EXCEPT !.pc = step])
  BY SMT DEF GoesTo, Continues
<1> QED
  BY <1>2, <1>3, <1>4, RequestGoesOn

LEMMA RequestEnds ==
    ASSUME RequestsOK, NEW h \in Handlers, Ends(h) \/ Answers(h)
    PROVE  RequestsOK'
  BY IdleType, RequestGoesOn DEF Ends, Answers

LEMMA SignInRequest ==
    ASSUME RequestsOK, DirectoryTypeOK, NEW h \in Handlers, SignIn(h) PROVE RequestsOK'
<1> USE DEF Steps
<1>0. req[h] \in Request /\ Carries(req[h])
  BY DEF RequestsOK, RequestsTypeOK
<1>1. ASSUME NEW n \in Names, NEW s \in Servers, SetupStarts(h, n, s) PROVE RequestsOK'
  <2> DEFINE r == [Idle EXCEPT !.pc = "owner", !.name = n, !.server = s]
  <2>1. r \in Request
    BY IdleType, FieldTypes, Zenon
  <2>2. Carries(r)
    BY IdleType, SMT DEF Carries, Idle
  <2> QED
    BY <1>1, <2>1, <2>2, RequestGoesOn DEF SetupStarts
<1>2. ASSUME NEW n \in Names, NEW p \in 1 .. MaxPasswords, LoginStarts(h, n, p) PROVE RequestsOK'
  <2> DEFINE r == [Idle EXCEPT !.pc = "verify", !.name = n, !.password = p]
  <2>0. p \in 0 .. MaxPasswords
    BY DirectoryAssumption, SMT
  <2>1. r \in Request
    BY <2>0, IdleType, FieldTypes, Zenon
  <2>2. Carries(r)
    BY IdleType, SMT DEF Carries, Idle
  <2> QED
    BY <1>2, <2>1, <2>2, RequestGoesOn DEF LoginStarts
<1>3. CASE SetupCounts(h)
  BY <1>3, StepGoesOn, RequestEnds DEF SetupCounts
<1>4. CASE SetupInserts(h)
  <2> DEFINE r == [req[h] EXCEPT !.pc = "open", !.who = NewAccount, !.password = 1]
  <2>1. CASE Ends(h)
    BY <2>1, RequestEnds
  <2>2. CASE InsertAccount(NewOwner(req[h].name)) /\ Continues(h, r)
    <3>1. NewAccount \in UserIds /\ 1 \in 0 .. MaxPasswords
      BY <2>2, DirectoryAssumption, SMT DEF InsertAccount
    <3>2. r \in Request
      BY <1>0, <3>1, FieldTypes, Zenon
    <3>3. Carries(r)
      BY <1>0, SMT DEF Carries, Request
    <3> QED
      BY <2>2, <3>2, <3>3, RequestGoesOn
  <2> QED
    BY <1>4, <2>1, <2>2 DEF SetupInserts
<1>5. CASE LoginVerifies(h)
  <2>1. ASSUME NEW u \in DOMAIN users, Continues(h, [req[h] EXCEPT !.pc = "open", !.who = u])
        PROVE  RequestsOK'
    <3> DEFINE r == [req[h] EXCEPT !.pc = "open", !.who = u]
    <3>1. u \in UserIds
      BY DEF DirectoryTypeOK
    <3>2. r \in Request
      BY <1>0, <3>1, FieldTypes, Zenon
    <3>3. Carries(r)
      BY <1>0, SMT DEF Carries, Request
    <3> QED
      BY <2>1, <3>2, <3>3, RequestGoesOn
  <2> QED
    BY <1>5, <2>1, RequestEnds, Zenon DEF LoginVerifies, Verified, HasName
<1>6. CASE OpenSession(h)
  BY <1>6, RequestEnds DEF OpenSession
<1> QED
  BY <1>1, <1>2, <1>3, <1>4, <1>5, <1>6, Zenon DEF SignIn

LEMMA OwnAccountRequest ==
    ASSUME RequestsOK, DirectoryTypeOK, NEW h \in Handlers, OwnAccount(h) PROVE RequestsOK'
<1> USE DEF Steps
<1>1. ASSUME NEW s \in sessions,
             Expire(h, s) \/ Logout(h, s) \/ RevokeOthers(h, s) \/ \E other \in sessions : RevokeSession(h, s, other)
      PROVE  RequestsOK'
  BY <1>1, RequestEnds DEF Expire, Logout, RevokeOthers, RevokeSession
<1>2. ASSUME NEW s \in sessions, ChangePassword(h, s) PROVE RequestsOK'
  <2> DEFINE r == [Idle EXCEPT !.pc = "password", !.who = s.user, !.session = s.id]
  <2>0. s.user \in UserIds /\ s.id \in Nat
    BY DirectoryAssumption, SMT DEF DirectoryTypeOK, Session
  <2>1. r \in Request
    BY <2>0, IdleType, FieldTypes, Zenon
  <2>2. Carries(r)
    BY IdleType, SMT DEF Carries, Idle
  <2> QED
    BY <1>2, <2>1, <2>2, RequestGoesOn DEF ChangePassword
<1>3. ASSUME NEW u \in DOMAIN users, NEW scope \in {"read", "write"}, CreateToken(h, u, scope) PROVE RequestsOK'
  <2> DEFINE role == IF scope = "write" THEN "write" ELSE "read"
             r == [Idle EXCEPT !.pc = "token", !.who = u, !.role = role]
  <2>0. u \in UserIds /\ role \in OrgRoles
    BY SMT DEF DirectoryTypeOK, OrgRoles
  <2>1. r \in Request
    <3> HIDE DEF role
    <3> QED
      BY <2>0, IdleType, FieldTypes, Zenon
  <2>2. Carries(r)
    BY IdleType, SMT DEF Carries, Idle
  <2> QED
    BY <1>3, <2>1, <2>2, RequestGoesOn DEF CreateToken
<1>4. ASSUME NEW u \in DOMAIN users, NEW t \in tokens, DeleteToken(h, u, t) PROVE RequestsOK'
  BY <1>4, RequestEnds DEF DeleteToken
<1>5. CASE PasswordWritten(h)
  BY <1>5, StepGoesOn DEF PasswordWritten
<1>6. CASE SignedOut(h)
  BY <1>6, StepGoesOn DEF SignedOut
<1>7. CASE TokensDropped(h) \/ TokenInserted(h)
  BY <1>7, RequestEnds DEF TokensDropped, TokenInserted
<1> QED
  BY <1>1, <1>2, <1>3, <1>4, <1>5, <1>6, <1>7, Zenon DEF OwnAccount

LEMMA AdministrationRequest ==
    ASSUME RequestsOK, DirectoryTypeOK, NEW h \in Handlers, Administration(h) PROVE RequestsOK'
<1> USE DEF Steps
<1>0. /\ req[h] \in Request /\ Carries(req[h])
      /\ DOMAIN users \subseteq UserIds /\ DOMAIN orgs \subseteq OrgIds
  BY DEF RequestsOK, RequestsTypeOK, DirectoryTypeOK
<1>1. ASSUME NEW a \in DOMAIN users, NEW u \in DOMAIN users, ResetPassword(h, a, u) PROVE RequestsOK'
  <2> DEFINE r == [Idle EXCEPT !.pc = "password", !.who = u]
  <2>1. r \in Request
    BY <1>0, IdleType, FieldTypes, Zenon
  <2>2. Carries(r)
    BY IdleType, SMT DEF Carries, Idle
  <2> QED
    BY <1>1, <2>1, <2>2, RequestGoesOn DEF ResetPassword
<1>2. ASSUME NEW a \in DOMAIN users, NEW u \in DOMAIN users, DeleteUser(h, a, u) PROVE RequestsOK'
  <2> DEFINE r == [Idle EXCEPT !.pc = "reassign", !.by = a, !.who = u]
  <2>1. r \in Request
    BY <1>0, IdleType, FieldTypes, Zenon
  <2>2. Carries(r)
    BY IdleType, SMT DEF Carries, Idle
  <2> QED
    BY <1>2, <2>1, <2>2, RequestGoesOn DEF DeleteUser
<1>3. ASSUME NEW a \in DOMAIN users, NEW u \in DOMAIN users, NEW both \in BOOLEAN, RevokeFromAdmin(h, a, u, both)
      PROVE  RequestsOK'
  BY <1>3, RequestEnds DEF RevokeFromAdmin
<1>4. ASSUME NEW a \in DOMAIN users, NEW u \in DOMAIN users, NEW role \in Roles, NEW disabled \in BOOLEAN,
             UpdateUser(h, a, u, role, disabled)
      PROVE  RequestsOK'
  <2> DEFINE change == {f \in {"role", "disabled"} :
                          IF f = "role" THEN role # users[u].role ELSE disabled # users[u].disabled}
             r == [Idle EXCEPT !.pc = "update", !.who = u, !.to = role,
                               !.disabled = disabled, !.change = change]
  <2>0. change \in SUBSET {"role", "disabled"}
    OBVIOUS
  <2>3. Begins(h, r)
    BY <1>4 DEF UpdateUser
  <2> HIDE DEF change
  <2>1. r \in Request
    BY <1>0, <2>0, IdleType, FieldTypes, Zenon
  <2>2. Carries(r)
    BY IdleType, SMT DEF Carries, Idle
  <2> QED
    BY <2>1, <2>2, <2>3, RequestGoesOn
<1>5. ASSUME NEW a \in DOMAIN users, NEW n \in Names, NEW role \in Roles,
             NEW o \in DOMAIN orgs \union {NoOrg}, NEW orgRole \in OrgRoles,
             CreateUser(h, a, n, role, o, orgRole)
      PROVE  RequestsOK'
  <2> DEFINE r == [Idle EXCEPT !.pc = "insert", !.name = n, !.to = role, !.org = o, !.role = orgRole]
  <2>1. r \in Request
    BY <1>0, IdleType, FieldTypes, Zenon
  <2>2. Carries(r)
    BY IdleType, SMT DEF Carries, Idle
  <2> QED
    BY <1>5, <2>1, <2>2, RequestGoesOn DEF CreateUser
<1>6. CASE UserUpdated(h)
  BY <1>6, StepGoesOn, RequestEnds DEF UserUpdated
<1>7. CASE DisabledSignedOut(h) \/ UserDeleted(h)
  BY <1>7, RequestEnds DEF DisabledSignedOut, UserDeleted
<1>8. CASE UserInserted(h)
  <2> DEFINE r == [req[h] EXCEPT !.pc = "join", !.who = NewAccount]
  <2>1. CASE InsertAccount(NewUser(req[h])) /\ Continues(h, r) /\ req[h].pc = "insert"
    <3>1. NewAccount \in UserIds
      BY <2>1 DEF InsertAccount
    <3>2. r \in Request
      BY <1>0, <3>1, FieldTypes, Zenon
    <3>3. Carries(r)
      BY <1>0, <2>1, SMT DEF Carries, Request
    <3> QED
      BY <2>1, <3>2, <3>3, RequestGoesOn
  <2> QED
    BY <1>8, <2>1, RequestEnds DEF UserInserted
<1>9. CASE RepositoriesReassigned(h)
  BY <1>9, StepGoesOn, RequestEnds DEF RepositoriesReassigned
<1> QED
  BY <1>1, <1>2, <1>3, <1>4, <1>5, <1>6, <1>7, <1>8, <1>9, Zenon DEF Administration

LEMMA SingleSignOnRequest ==
    ASSUME RequestsOK, DirectoryTypeOK, NEW h \in Handlers, SingleSignOn(h) PROVE RequestsOK'
<1> USE DEF Steps
<1>0. req[h] \in Request /\ Carries(req[h]) /\ DOMAIN users \subseteq UserIds
  BY DEF RequestsOK, RequestsTypeOK, DirectoryTypeOK
<1>1. ASSUME NEW state \in 1 .. MaxStates, SignOnStarts(h, state) PROVE RequestsOK'
  BY <1>1, RequestEnds DEF SignOnStarts
<1>2. ASSUME NEW state \in 1 .. MaxStates, NEW s \in Servers, CallbackStarts(h, state, s) PROVE RequestsOK'
  <2> DEFINE r == [Idle EXCEPT !.pc = "select", !.session = state, !.server = s]
  <2>0. state \in Nat
    BY SignOnAssumption, SMT
  <2>1. r \in Request
    BY <2>0, IdleType, FieldTypes, Zenon
  <2>2. Carries(r)
    BY IdleType, SMT DEF Carries, Idle
  <2> QED
    BY <1>2, <2>1, <2>2, RequestGoesOn DEF CallbackStarts
<1>3. CASE StateSelected(h)
  <2> DEFINE r == [req[h] EXCEPT !.pc = "take"]
  <2>1. CASE Ends(h)
    BY <2>1, RequestEnds
  <2>2. CASE GoesTo(h, "take") /\ req[h].pc = "select"
    <3>1. r \in Request
      BY <1>0, FieldTypes, Zenon
    <3>2. Carries(r)
      BY <1>0, <2>2, SMT DEF Carries, Request
    <3>3. Continues(h, r)
      BY <2>2, SMT DEF GoesTo, Continues
    <3> QED
      BY <3>1, <3>2, <3>3, RequestGoesOn
  <2> QED
    BY <1>3, <2>1, <2>2 DEF StateSelected
<1>4. CASE StateTaken(h)
  BY <1>4, StepGoesOn DEF StateTaken
<1>5. CASE SignOnRefused(h)
  BY <1>5, RequestEnds DEF SignOnRefused
<1>6. ASSUME NEW u \in UserIds,
             Continues(h, [req[h] EXCEPT !.pc = "open", !.who = u, !.password = External, !.session = 0])
      PROVE  RequestsOK'
  <2> DEFINE r == [req[h] EXCEPT !.pc = "open", !.who = u, !.password = External, !.session = 0]
  <2>0. External \in 0 .. MaxPasswords /\ 0 \in Nat
    BY DirectoryAssumption, SMT DEF External
  <2>1. r \in Request
    BY <1>0, <2>0, FieldTypes, Zenon
  <2>2. Carries(r)
    BY <1>0, SMT DEF Carries, Request
  <2> QED
    BY <1>6, <2>1, <2>2, RequestGoesOn
<1>7. ASSUME NEW x \in Subjects, SubjectFound(h, x) PROVE RequestsOK'
  <2> DEFINE r == [req[h] EXCEPT !.pc = "name", !.subject = x]
  <2>1. r \in Request
    BY <1>0, FieldTypes, Zenon
  <2>2. Carries(r)
    BY <1>0, SMT DEF Carries, Request
  <2> QED
    BY <1>0, <1>6, <1>7, <2>1, <2>2, RequestGoesOn, RequestEnds, Zenon DEF SubjectFound, WithSubject
<1>8. ASSUME NEW n \in Names, NameChosen(h, n) PROVE RequestsOK'
  <2>1. PICK m \in Names : Continues(h, [req[h] EXCEPT !.pc = "provision_insert", !.name = m])
    BY <1>8 DEF NameChosen, Available
  <2> DEFINE r == [req[h] EXCEPT !.pc = "provision_insert", !.name = m]
  <2>2. r \in Request
    BY <1>0, FieldTypes, Zenon
  <2>3. Carries(r)
    BY <1>0, SMT DEF Carries, Request
  <2> QED
    BY <2>1, <2>2, <2>3, RequestGoesOn
<1>9. CASE SubjectInserted(h)
  BY <1>6, <1>9, RequestEnds DEF SubjectInserted, InsertAccount
<1> QED
  BY <1>1, <1>2, <1>3, <1>4, <1>5, <1>7, <1>8, <1>9, Zenon DEF SingleSignOn

LEMMA MembershipRequest ==
    ASSUME RequestsOK, DirectoryTypeOK, NEW h \in Handlers, Membership(h) PROVE RequestsOK'
<1> USE DEF Steps
<1>0. DOMAIN users \subseteq UserIds /\ DOMAIN orgs \subseteq OrgIds
  BY DEF DirectoryTypeOK
<1>1. ASSUME NEW u \in DOMAIN users, NEW n \in Names, CreateOrganization(h, u, n) PROVE RequestsOK'
  <2> DEFINE o == given.orgs + 1
             r == [Idle EXCEPT !.pc = "join", !.who = u, !.org = o, !.role = "admin"]
  <2>0. o \in OrgIds /\ "admin" \in OrgRoles
    BY <1>1, DirectoryAssumption, SMT DEF CreateOrganization, InsertOrganization, DirectoryTypeOK, OrgIds, OrgRoles
  <2>3. Begins(h, r)
    BY <1>1 DEF CreateOrganization
  <2> HIDE DEF o
  <2>1. r \in Request
    BY <1>0, <2>0, IdleType, FieldTypes, Zenon
  <2>2. Carries(r)
    BY <2>0, IdleType, SMT DEF Carries, Idle
  <2> QED
    BY <2>1, <2>2, <2>3, RequestGoesOn
<1>2. ASSUME NEW u \in DOMAIN users, NEW o \in DOMAIN orgs, OrganizationDeleted(h, u, o) PROVE RequestsOK'
  BY <1>2, RequestEnds DEF OrganizationDeleted
<1>3. ASSUME NEW u \in DOMAIN users, NEW o \in DOMAIN orgs, NEW m \in DOMAIN users, NEW role \in OrgRoles,
             ChangeMember(h, u, o, m, role)
      PROVE  RequestsOK'
  <2> DEFINE r == [Idle EXCEPT !.pc = "member", !.who = m, !.org = o, !.role = role]
  <2>1. r \in Request
    BY <1>0, IdleType, FieldTypes, Zenon
  <2>2. Carries(r)
    BY IdleType, SMT DEF Carries, Idle
  <2> QED
    BY <1>3, <2>1, <2>2, RequestGoesOn DEF ChangeMember
<1>4. ASSUME NEW u \in DOMAIN users, NEW o \in DOMAIN orgs, NEW m \in DOMAIN users, LeaveOrganization(h, u, o, m)
      PROVE  RequestsOK'
  <2> DEFINE r == [Idle EXCEPT !.pc = "leave", !.who = m, !.org = o]
  <2>1. r \in Request
    BY <1>0, IdleType, FieldTypes, Zenon
  <2>2. Carries(r)
    BY IdleType, SMT DEF Carries, Idle
  <2> QED
    BY <1>4, <2>1, <2>2, RequestGoesOn DEF LeaveOrganization
<1>5. CASE MemberJoins(h) \/ MemberChanged(h) \/ MemberRemoved(h)
  BY <1>5, RequestEnds DEF MemberJoins, MemberChanged, MemberRemoved
<1> QED
  BY <1>1, <1>2, <1>3, <1>4, <1>5, Zenon DEF Membership

LEMMA OwnershipRequest ==
    ASSUME RequestsOK, DirectoryTypeOK, NEW h \in Handlers, Ownership(h) PROVE RequestsOK'
<1> USE DEF Steps
<1>0. /\ DOMAIN users \subseteq UserIds /\ DOMAIN orgs \subseteq OrgIds /\ repos \subseteq Repository
      /\ \A u \in DOMAIN users : users[u].name \in Names
      /\ \A o \in DOMAIN orgs : orgs[o] \in Names
  BY DEF DirectoryTypeOK, Account
<1>1. ASSUME NEW u \in DOMAIN users, NEW s \in Slugs, NEW o \in DOMAIN orgs \union {NoOrg},
             CreateRepository(h, u, s, o)
      PROVE  RequestsOK'
  <2> DEFINE name == IF o = NoOrg THEN users[u].name ELSE orgs[o]
             r == [Idle EXCEPT !.pc = "repo", !.who = u, !.org = o, !.slug = s, !.name = name]
  <2>0. name \in Names
    BY <1>0
  <2>3. Begins(h, r)
    BY <1>1 DEF CreateRepository
  <2> HIDE DEF name
  <2>1. r \in Request
    BY <1>0, <2>0, IdleType, FieldTypes, Zenon
  <2>2. Carries(r)
    BY IdleType, SMT DEF Carries, Idle
  <2> QED
    BY <2>1, <2>2, <2>3, RequestGoesOn
<1>2. ASSUME NEW u \in DOMAIN users, NEW x \in repos, NEW o \in DOMAIN orgs \union {NoOrg},
             NEW account \in DOMAIN users, NEW s \in Slugs, RenameRepository(h, u, x, o, account, s)
      PROVE  RequestsOK'
  <2> DEFINE name == IF o # NoOrg THEN orgs[o] ELSE users[account].name
             who == IF o # NoOrg THEN u ELSE account
             r == [Idle EXCEPT !.pc = "rename", !.name = name, !.slug = s, !.org = o,
                               !.who = who, !.old = {x}]
  <2>0. name \in Names /\ who \in UserIds /\ {x} \in SUBSET Repository
    BY <1>0
  <2>3. Begins(h, r)
    BY <1>2 DEF RenameRepository
  <2> HIDE DEF name, who
  <2>1. r \in Request
    BY <1>0, <2>0, IdleType, FieldTypes, Zenon
  <2>2. Carries(r)
    BY IdleType, SMT DEF Carries, Idle
  <2> QED
    BY <2>1, <2>2, <2>3, RequestGoesOn
<1>3. ASSUME NEW u \in DOMAIN users, NEW x \in repos, DeleteRepository(h, u, x) PROVE RequestsOK'
  BY <1>3, RequestEnds DEF DeleteRepository
<1>4. CASE RepositoryInserted(h) \/ RepositoryRenamed(h)
  BY <1>4, RequestEnds DEF RepositoryInserted, RepositoryRenamed
<1> QED
  BY <1>1, <1>2, <1>3, <1>4, Zenon DEF Ownership

-----------------------------------------------------------------------------
(* What a step does to the tables.                                         *)

(* The repository that a request will insert, or rename to. *)
RowOf(r) == [ns |-> r.name, slug |-> r.slug, owner |-> r.who, org |-> r.org]

(* A site is set up before anyone else's account can be asked for. *)
Established ==
    \A h \in Handlers :
        req[h].pc \in {"insert", "select", "take", "provision", "name", "provision_insert"}
            => users # << >>

AccountCreated ==
    \E row \in Account, first \in BOOLEAN :
        /\ ~CreateRefused(row, first) /\ InsertAccount(row)
        /\ row.made = "setup" => first
        /\ IF first THEN row.role = "admin" /\ ~row.disabled ELSE users # << >>

AccountUpdated ==
    \E u \in DOMAIN users, role \in Roles, disabled \in BOOLEAN :
        ~UpdateRefused(u, role, disabled) /\ UpdateAccount(u, role, disabled)

AccountDeleted == \E u \in UserIds \union {Nobody} : ~DeleteRefused(u) /\ DeleteAccount(u)

PasswordSet == \E h \in Handlers : PasswordWritten(h) /\ req[h].who \in DOMAIN users

SessionOpened == \E u \in DOMAIN users, p \in 0 .. MaxPasswords : InsertSession(u, p)

CredentialsGone ==
    /\ sessions' \subseteq sessions /\ tokens' \subseteq tokens
    /\ UNCHANGED <<users, orgs, members, repos, given>>

TokenCreated ==
    \E t \in (DOMAIN users) \X {"read", "write"} : SetTokens(tokens \union {t})

OrganizationCreated == \E n \in Names : ~NamespaceTaken(n) /\ InsertOrganization(n)

OrganizationGone == \E o \in DOMAIN orgs : DeleteOrganization(o)

MemberSet ==
    \E o \in DOMAIN orgs, u \in DOMAIN users, role \in OrgRoles :
        (role = "admin" \/ ~LastActingAdmin(o, u)) /\ SetMember(o, u, role)

MemberGone ==
    \E o \in OrgIds \union {NoOrg}, u \in UserIds \union {Nobody} :
        ~LastActingAdmin(o, u) /\ RemoveMember(o, u)

ReposWritten ==
    \E set \in SUBSET Repository :
        /\ SetRepos(set)
        /\ \A r \in set \ repos :
             \/ \E q \in repos, u \in UserIds : q.org # NoOrg /\ r = [q EXCEPT !.owner = u]
             \/ OwnerFits(r) /\ \E h \in Handlers : req[h].pc \in {"repo", "rename"} /\ r = RowOf(req[h])

TableStep ==
    \/ UNCHANGED tables
    \/ AccountCreated \/ AccountUpdated \/ AccountDeleted
    \/ PasswordSet \/ SessionOpened \/ CredentialsGone \/ TokenCreated
    \/ OrganizationCreated \/ OrganizationGone \/ MemberSet \/ MemberGone
    \/ ReposWritten

LEMMA SignInTables ==
    ASSUME RequestsOK, DirectoryTypeOK, Established, NEW h \in Handlers, SignIn(h)
    PROVE  TableStep
<1>0. req[h] \in Request
  BY DEF RequestsOK, RequestsTypeOK
<1>1. CASE UNCHANGED tables
  BY <1>1 DEF TableStep
<1>2. CASE SetupInserts(h)
  <2> DEFINE row == NewOwner(req[h].name)
  <2>1. CASE ~CreateRefused(row, TRUE) /\ InsertAccount(row)
    <3>1. row \in Account
      BY <1>0, DirectoryAssumption, SMT DEF Request, NewOwner, Account, Roles
    <3>2. row.role = "admin" /\ ~row.disabled
      BY DEF NewOwner
    <3> QED
      BY <2>1, <3>1, <3>2, Zenon DEF TableStep, AccountCreated
  <2> QED
    BY <1>1, <1>2, <2>1 DEF SetupInserts
<1>3. CASE OpenSession(h)
  <2>1. req[h].password \in 0 .. MaxPasswords
    BY <1>0 DEF Request
  <2> QED
    BY <1>1, <1>3, <2>1, Zenon DEF OpenSession, TableStep, SessionOpened
<1> QED
  BY <1>1, <1>2, <1>3, Zenon DEF SignIn, SetupStarts, LoginStarts, SetupCounts, LoginVerifies

LEMMA OwnAccountTables ==
    ASSUME RequestsOK, DirectoryTypeOK, Established, NEW h \in Handlers, OwnAccount(h)
    PROVE  TableStep
<1>0. req[h] \in Request /\ Carries(req[h])
  BY DEF RequestsOK, RequestsTypeOK
<1>1. CASE UNCHANGED tables
  BY <1>1 DEF TableStep
<1>2. ASSUME NEW set, DeleteSessions(set) PROVE TableStep
  BY <1>2 DEF DeleteSessions, TableStep, CredentialsGone
<1>3. ASSUME NEW set, SetTokens(tokens \ set) PROVE TableStep
  BY <1>3 DEF SetTokens, TableStep, CredentialsGone
<1>4. CASE PasswordWritten(h)
  <2>1. CASE req[h].who \in DOMAIN users
    BY <1>4, <2>1 DEF TableStep, PasswordSet
  <2> QED
    BY <1>1, <1>4, <2>1, Zenon DEF PasswordWritten, SetPassword
<1>5. CASE TokenInserted(h)
  <2>1. CASE req[h].who \in DOMAIN users /\ SetTokens(tokens \union {<<req[h].who, req[h].role>>})
    <3>1. req[h].role \in {"read", "write"}
      BY <1>0, <1>5 DEF TokenInserted, Carries
    <3>2. <<req[h].who, req[h].role>> \in (DOMAIN users) \X {"read", "write"}
      BY <2>1, <3>1
    <3> QED
      BY <2>1, <3>2, Zenon DEF TableStep, TokenCreated
  <2> QED
    BY <1>1, <1>5, <2>1, Zenon DEF TokenInserted
<1>6. ASSUME NEW u, NEW t, DeleteToken(h, u, t) PROVE TableStep
  BY <1>3, <1>6, Zenon DEF DeleteToken
<1>7. ASSUME NEW s, Expire(h, s) \/ Logout(h, s) \/ RevokeOthers(h, s) \/ \E other \in sessions : RevokeSession(h, s, other)
      PROVE  TableStep
  BY <1>2, <1>7, Zenon DEF Expire, Logout, RevokeOthers, RevokeSession
<1>8. CASE SignedOut(h)
  BY <1>2, <1>8, Zenon DEF SignedOut
<1>9. CASE TokensDropped(h)
  BY <1>3, <1>9, Zenon DEF TokensDropped
<1> QED
  BY <1>1, <1>4, <1>5, <1>6, <1>7, <1>8, <1>9, Zenon DEF OwnAccount, ChangePassword, CreateToken

LEMMA AdministrationTables ==
    ASSUME RequestsOK, DirectoryTypeOK, Established, NEW h \in Handlers, Administration(h)
    PROVE  TableStep
<1>0. req[h] \in Request /\ Carries(req[h])
  BY DEF RequestsOK, RequestsTypeOK
<1>1. CASE UNCHANGED tables
  BY <1>1 DEF TableStep
<1>2. ASSUME NEW a, NEW u, NEW both, RevokeFromAdmin(h, a, u, both) PROVE TableStep
  BY <1>2, SMT DEF RevokeFromAdmin, TableStep, CredentialsGone
<1>3. CASE UserUpdated(h)
  <2> DEFINE r == req[h]
             role == IF "role" \in r.change THEN r.to ELSE users[r.who].role
             disabled == IF "disabled" \in r.change THEN r.disabled ELSE users[r.who].disabled
  <2>1. CASE r.who \in DOMAIN users /\ ~UpdateRefused(r.who, role, disabled) /\ UpdateAccount(r.who, role, disabled)
    <3>1. users[r.who] \in Account
      BY <2>1 DEF DirectoryTypeOK
    <3>2. role \in Roles /\ disabled \in BOOLEAN
      BY <1>0, <3>1 DEF Account, Request
    <3> QED
      BY <2>1, <3>2, Zenon DEF TableStep, AccountUpdated
  <2> QED
    BY <1>1, <1>3, <2>1 DEF UserUpdated
<1>4. CASE DisabledSignedOut(h)
  BY <1>4 DEF DisabledSignedOut, DeleteSessions, TableStep, CredentialsGone
<1>5. CASE UserInserted(h)
  <2> DEFINE row == NewUser(req[h])
  <2>1. CASE ~CreateRefused(row, FALSE) /\ InsertAccount(row)
    <3>1. row \in Account /\ row.made # "setup"
      BY <1>0, DirectoryAssumption, SMT DEF Request, NewUser, Account, Roles
    <3>2. users # << >>
      BY <1>5, Zenon DEF Established, UserInserted
    <3> QED
      BY <2>1, <3>1, <3>2, Zenon DEF TableStep, AccountCreated
  <2> QED
    BY <1>1, <1>5, <2>1 DEF UserInserted
<1>6. CASE RepositoriesReassigned(h)
  <2> DEFINE left == Reassign(req[h].who, req[h].by)
  <2>1. CASE (\A r \in left : OwnerFits(r)) /\ SetRepos(left)
    <3>1. ASSUME NEW r \in left, r \notin repos
          PROVE  r \in Repository /\ \E q \in repos, u \in UserIds : q.org # NoOrg /\ r = [q EXCEPT !.owner = u]
      <4>1. PICK q \in repos : r = (IF q.owner = req[h].who /\ q.org # NoOrg THEN [q EXCEPT !.owner = req[h].by] ELSE q)
        BY DEF Reassign
      <4>2. q.org # NoOrg /\ r = [q EXCEPT !.owner = req[h].by]
        BY <3>1, <4>1
      <4>3. q \in Repository
        BY DEF DirectoryTypeOK
      <4>4. r.owner = req[h].by
        BY <4>2, <4>3 DEF Repository
      <4>5. req[h].by \in UserIds
        BY <2>1, <4>4 DEF OwnerFits, DirectoryTypeOK
      <4>6. r \in Repository
        BY <4>2, <4>3, <4>5 DEF Repository
      <4> QED
        BY <4>2, <4>5, <4>6
    <3>2. left \in SUBSET Repository
      BY <3>1 DEF DirectoryTypeOK
    <3> HIDE DEF left
    <3> QED
      BY <2>1, <3>1, <3>2, Zenon DEF TableStep, ReposWritten
  <2> QED
    BY <1>1, <1>6, <2>1 DEF RepositoriesReassigned
<1>7. CASE UserDeleted(h)
  <2>1. req[h].who \in UserIds \union {Nobody}
    BY <1>0 DEF Request
  <2> QED
    BY <1>1, <1>7, <2>1, Zenon DEF UserDeleted, TableStep, AccountDeleted
<1> QED
  BY <1>1, <1>2, <1>3, <1>4, <1>5, <1>6, <1>7, Zenon
     DEF Administration, ResetPassword, DeleteUser, UpdateUser, CreateUser

LEMMA SingleSignOnTables ==
    ASSUME RequestsOK, DirectoryTypeOK, Established, NEW h \in Handlers, SingleSignOn(h)
    PROVE  TableStep
<1>0. req[h] \in Request
  BY DEF RequestsOK, RequestsTypeOK
<1>1. CASE UNCHANGED tables
  BY <1>1 DEF TableStep
<1>2. CASE SubjectInserted(h)
  <2> DEFINE row == Provisioned(req[h])
  <2>1. CASE ~CreateRefused(row, FALSE) /\ InsertAccount(row)
    <3>1. row \in Account /\ row.made # "setup"
      BY <1>0, DirectoryAssumption, SMT DEF Request, Provisioned, Account, Roles, External
    <3>2. users # << >>
      BY <1>2, Zenon DEF Established, SubjectInserted
    <3> QED
      BY <2>1, <3>1, <3>2, Zenon DEF TableStep, AccountCreated
  <2> QED
    BY <1>1, <1>2, <2>1 DEF SubjectInserted
<1> QED
  BY <1>1, <1>2, Zenon
     DEF SingleSignOn, SignOnStarts, CallbackStarts, StateSelected, StateTaken, SignOnRefused, SubjectFound, NameChosen

LEMMA MembershipTables ==
    ASSUME RequestsOK, DirectoryTypeOK, Established, NEW h \in Handlers, Membership(h)
    PROVE  TableStep
<1>0. req[h] \in Request /\ Carries(req[h])
  BY DEF RequestsOK, RequestsTypeOK
<1>1. CASE UNCHANGED tables
  BY <1>1 DEF TableStep
<1>2. ASSUME NEW u, NEW n \in Names, CreateOrganization(h, u, n) PROVE TableStep
  BY <1>2, Zenon DEF CreateOrganization, TableStep, OrganizationCreated
<1>3. ASSUME NEW u, NEW o \in DOMAIN orgs, OrganizationDeleted(h, u, o) PROVE TableStep
  BY <1>3, Zenon DEF OrganizationDeleted, TableStep, OrganizationGone
<1>4. ASSUME req[h].pc \in {"join", "member"}, MemberWritten(req[h]) PROVE TableStep
  <2>1. req[h].role \in OrgRoles
    BY <1>0, <1>4 DEF Carries
  <2> QED
    BY <1>1, <1>4, <2>1, Zenon DEF MemberWritten, MemberFits, TableStep, MemberSet
<1>5. CASE MemberRemoved(h)
  <2>1. req[h].org \in OrgIds \union {NoOrg} /\ req[h].who \in UserIds \union {Nobody}
    BY <1>0 DEF Request
  <2> QED
    BY <1>1, <1>5, <2>1, Zenon DEF MemberRemoved, TableStep, MemberGone
<1>6. CASE MemberJoins(h) \/ MemberChanged(h)
  BY <1>4, <1>6 DEF MemberJoins, MemberChanged
<1> QED
  BY <1>1, <1>2, <1>3, <1>5, <1>6, Zenon DEF Membership, ChangeMember, LeaveOrganization

LEMMA OwnershipTables ==
    ASSUME RequestsOK, DirectoryTypeOK, Established, NEW h \in Handlers, Ownership(h)
    PROVE  TableStep
<1>0. req[h] \in Request /\ repos \subseteq Repository
  BY DEF RequestsOK, RequestsTypeOK, DirectoryTypeOK
<1>1. CASE UNCHANGED tables
  BY <1>1 DEF TableStep
<1>2. ASSUME NEW gone, req[h].pc \in {"repo", "rename"}, OwnerFits(RowOf(req[h])),
             SetRepos((repos \ gone) \union {RowOf(req[h])})
      PROVE  TableStep
  <2> DEFINE set == (repos \ gone) \union {RowOf(req[h])}
  <2>1. RowOf(req[h]) \in Repository
    BY <1>0, <1>2, SMT DEF RowOf, Request, Repository, OwnerFits, DirectoryTypeOK
  <2>2. set \in SUBSET Repository
    BY <1>0, <2>1
  <2>3. \A r \in set \ repos : OwnerFits(r) /\ \E g \in Handlers : req[g].pc \in {"repo", "rename"} /\ r = RowOf(req[g])
    BY <1>2
  <2> HIDE DEF set
  <2>4. ReposWritten
    BY <1>2, <2>2, <2>3, Zenon DEF ReposWritten, set
  <2> QED
    BY <2>4 DEF TableStep
<1>3. CASE RepositoryInserted(h)
  <2> DEFINE row == RowOf(req[h])
  <2>1. UNCHANGED tables \/ (SetRepos(repos \union {row}) /\ OwnerFits(row))
    BY <1>3, Zenon DEF RepositoryInserted, RowOf
  <2>2. req[h].pc \in {"repo", "rename"}
    BY <1>3 DEF RepositoryInserted
  <2>3. PICK gone : gone = {}
    OBVIOUS
  <2>4. repos \union {row} = (repos \ gone) \union {row}
    BY <2>3
  <2>5. SetRepos(repos \union {row}) => SetRepos((repos \ gone) \union {row})
    BY <2>4 DEF SetRepos
  <2>6. SetRepos((repos \ gone) \union {RowOf(req[h])}) /\ OwnerFits(RowOf(req[h])) => TableStep
    BY <1>2, <2>2
  <2> QED
    BY <1>1, <2>1, <2>5, <2>6
<1>4. CASE RepositoryRenamed(h)
  <2> DEFINE row == RowOf(req[h])
             same == {x \in repos : \E o \in req[h].old : x.ns = o.ns /\ x.slug = o.slug}
  <2>1. UNCHANGED tables \/ (SetRepos((repos \ same) \union {row}) /\ OwnerFits(row))
    BY <1>4, Zenon DEF RepositoryRenamed, RowOf
  <2>2. req[h].pc \in {"repo", "rename"}
    BY <1>4 DEF RepositoryRenamed
  <2> HIDE DEF same
  <2> QED
    BY <1>1, <1>2, <2>1, <2>2
<1>5. ASSUME NEW u, NEW r, DeleteRepository(h, u, r) PROVE TableStep
  BY <1>0, <1>5 DEF DeleteRepository, SetRepos, TableStep, ReposWritten
<1> QED
  BY <1>1, <1>3, <1>4, <1>5, Zenon DEF Ownership, CreateRepository, RenameRepository

LEMMA KeepType ==
    ASSUME NEW S, NEW T, NEW f \in [S -> T], NEW R, NEW g,
           R \subseteq S, g = [x \in R |-> f[x]]
    PROVE  g \in [R -> T] /\ DOMAIN g = R
  OBVIOUS

LEMMA AccountFields ==
    \A r \in Account :
      /\ \A x \in Roles : [r EXCEPT !.role = x] \in Account
      /\ \A x \in BOOLEAN : [r EXCEPT !.disabled = x] \in Account
      /\ \A x \in 0 .. MaxPasswords : [r EXCEPT !.password = x] \in Account
  BY SMT DEF Account

LEMMA SessionFields ==
    \A s \in Session :
      /\ \A x \in 0 .. MaxPasswords : [s EXCEPT !.proved = x] \in Session
      /\ \A x \in BOOLEAN : [s EXCEPT !.late = x] \in Session
  BY SMT DEF Session

(* Every statement leaves rows of the right type. *)
LEMMA TablesTyped ==
    ASSUME DirectoryTypeOK, TableStep PROVE DirectoryTypeOK'
<1> DEFINE Pairs == (DOMAIN orgs) \X (DOMAIN users)
<1>0. /\ \A u \in DOMAIN users : users[u] \in Account
      /\ DOMAIN members \subseteq Pairs
      /\ MaxAccounts \in Nat /\ MaxOrgs \in Nat /\ MaxSessions \in Nat /\ MaxPasswords \in Nat
      /\ given.orgs \in Nat /\ given.sessions \in Nat
  BY DirectoryAssumption DEF DirectoryTypeOK
<1>1. CASE UNCHANGED tables
  BY <1>1 DEF DirectoryTypeOK, tables
<1>2. CASE AccountCreated
  <2>1. PICK row \in Account : InsertAccount(row)
    BY <1>2 DEF AccountCreated
  <2> DEFINE D == DOMAIN users \union {NewAccount}
  <2>2. /\ users' = [u \in D |-> IF u = NewAccount THEN row ELSE users[u]]
        /\ given' = [given EXCEPT !.users = NewAccount] /\ NewAccount \in UserIds
        /\ UNCHANGED <<orgs, members, repos, sessions, tokens>>
    BY <2>1 DEF InsertAccount
  <2>3. DOMAIN users' = D /\ D \subseteq UserIds
    BY <2>2 DEF DirectoryTypeOK
  <2>4. users' \in [DOMAIN users' -> Account]
    BY <2>2, <2>3 DEF DirectoryTypeOK
  <2>5. given' \in [users : 0 .. MaxAccounts, orgs : 0 .. MaxOrgs, sessions : 0 .. MaxSessions]
    BY <2>2, SMT DEF DirectoryTypeOK, UserIds, NewAccount
  <2>6. DOMAIN users \subseteq DOMAIN users'
    BY <2>3
  <2> QED
    BY <2>2, <2>3, <2>4, <2>5, <2>6 DEF DirectoryTypeOK
<1>3. CASE AccountUpdated
  <2>1. PICK u \in DOMAIN users, role \in Roles, disabled \in BOOLEAN : UpdateAccount(u, role, disabled)
    BY <1>3 DEF AccountUpdated
  <2> DEFINE row == [users[u] EXCEPT !.role = role, !.disabled = disabled]
  <2>2. users' = [users EXCEPT ![u] = row]
    BY <2>1 DEF UpdateAccount
  <2>3. row \in Account
    BY <1>0, AccountFields, Zenon
  <2> HIDE DEF row
  <2>4. users' \in [DOMAIN users -> Account] /\ DOMAIN users' = DOMAIN users
    BY <2>2, <2>3 DEF DirectoryTypeOK
  <2> QED
    BY <2>1, <2>4 DEF UpdateAccount, DirectoryTypeOK
<1>4. CASE AccountDeleted
  <2>1. PICK u : DeleteAccount(u)
    BY <1>4 DEF AccountDeleted
  <2> DEFINE U == {v \in DOMAIN users : v # u}
             M == {m \in DOMAIN members : m[2] # u}
  <2>2. /\ users' = [v \in U |-> users[v]] /\ members' = [m \in M |-> members[m]]
        /\ sessions' \subseteq sessions /\ tokens' = {t \in tokens : t[1] # u}
        /\ UNCHANGED <<orgs, repos, given>>
    BY <2>1 DEF DeleteAccount, Keep
  <2>3. users' \in [U -> Account] /\ DOMAIN users' = U
    BY <2>2, KeepType DEF DirectoryTypeOK
  <2>4. members' \in [M -> OrgRoles] /\ DOMAIN members' = M
    BY <2>2, KeepType DEF DirectoryTypeOK
  <2>5. U \subseteq UserIds
    BY DEF DirectoryTypeOK
  <2>6. M \subseteq (DOMAIN orgs) \X U
    BY <1>0
  <2>7. tokens' \subseteq U \X {"read", "write"}
    BY <2>2 DEF DirectoryTypeOK
  <2> HIDE DEF U, M
  <2> QED
    BY <2>2, <2>3, <2>4, <2>5, <2>6, <2>7 DEF DirectoryTypeOK
<1>5. CASE PasswordSet
  <2>0. PICK u \in DOMAIN users : \E kept : SetPassword(u, kept)
    BY <1>5 DEF PasswordSet, PasswordWritten
  <2>1. PICK kept : SetPassword(u, kept)
    BY <2>0
  <2> DEFINE new == users[u].password + 1
             renewed(s) == IF s.id = kept THEN [s EXCEPT !.proved = new, !.late = FALSE] ELSE s
  <2>2. /\ new <= MaxPasswords /\ users' = [users EXCEPT ![u].password = new]
        /\ sessions' = {renewed(s) : s \in sessions}
        /\ UNCHANGED <<orgs, members, repos, tokens, given>>
    BY <2>1 DEF SetPassword
  <2>3. new \in 0 .. MaxPasswords
    <3>1. users[u].password \in 0 .. MaxPasswords
      BY <1>0 DEF Account
    <3>2. new <= MaxPasswords
      BY <2>2
    <3> QED
      BY <1>0, <3>1, <3>2, SMT
  <2> HIDE DEF new
  <2>4. [users[u] EXCEPT !.password = new] \in Account
    BY <1>0, <2>3, AccountFields, Zenon
  <2>5. users' = [users EXCEPT ![u] = [@ EXCEPT !.password = new]]
    BY <2>2
  <2>6. users' \in [DOMAIN users -> Account] /\ DOMAIN users' = DOMAIN users
    BY <2>4, <2>5 DEF DirectoryTypeOK
  <2>7. ASSUME NEW s \in sessions PROVE renewed(s) \in Session
    <3>1. s \in Session
      BY DEF DirectoryTypeOK
    <3>2. [s EXCEPT !.proved = new, !.late = FALSE] \in Session
      BY <2>3, <3>1, SessionFields, Zenon
    <3> QED
      BY <3>1, <3>2
  <2>8. sessions' \subseteq Session
    BY <2>2, <2>7
  <2> HIDE DEF renewed
  <2> QED
    BY <2>2, <2>6, <2>8 DEF DirectoryTypeOK
<1>6. CASE SessionOpened
  <2>1. PICK u \in DOMAIN users, p \in 0 .. MaxPasswords : InsertSession(u, p)
    BY <1>6 DEF SessionOpened
  <2> DEFINE new == given.sessions + 1
             late == p # users[u].password
             s == [id |-> new, user |-> u, proved |-> p, late |-> late]
  <2>2. /\ sessions' = sessions \union {s} /\ given' = [given EXCEPT !.sessions = new]
        /\ new \in 1 .. MaxSessions /\ new \in 0 .. MaxSessions
        /\ UNCHANGED <<users, orgs, members, repos, tokens>>
    BY <1>0, <2>1, SMT DEF InsertSession
  <2>3. u \in UserIds /\ late \in BOOLEAN
    BY DEF DirectoryTypeOK
  <2> HIDE DEF new, late
  <2>4. s \in Session
    BY <2>2, <2>3, SMT DEF Session
  <2>5. given' \in [users : 0 .. MaxAccounts, orgs : 0 .. MaxOrgs, sessions : 0 .. MaxSessions]
    BY <2>2 DEF DirectoryTypeOK
  <2> HIDE DEF s
  <2> QED
    BY <2>2, <2>4, <2>5 DEF DirectoryTypeOK
<1>7. CASE CredentialsGone
  BY <1>7, SMT DEF CredentialsGone, DirectoryTypeOK
<1>8. CASE TokenCreated
  BY <1>8, SMT DEF TokenCreated, SetTokens, DirectoryTypeOK
<1>9. CASE OrganizationCreated
  <2>1. PICK n \in Names : InsertOrganization(n)
    BY <1>9 DEF OrganizationCreated
  <2> DEFINE new == given.orgs + 1
             D == DOMAIN orgs \union {new}
  <2>2. /\ orgs' = [o \in D |-> IF o = new THEN n ELSE orgs[o]]
        /\ new \in OrgIds /\ given' = [given EXCEPT !.orgs = new]
        /\ UNCHANGED <<users, members, repos, sessions, tokens>>
    BY <1>0, <2>1, SMT DEF InsertOrganization, OrgIds
  <2>3. given' \in [users : 0 .. MaxAccounts, orgs : 0 .. MaxOrgs, sessions : 0 .. MaxSessions]
    BY <2>2, SMT DEF OrgIds, DirectoryTypeOK
  <2> HIDE DEF new
  <2>4. orgs' \in [D -> Names] /\ DOMAIN orgs' = D /\ D \subseteq OrgIds
    BY <2>2 DEF DirectoryTypeOK
  <2>5. DOMAIN members \subseteq D \X (DOMAIN users)
    BY <1>0
  <2> HIDE DEF D
  <2> QED
    BY <2>2, <2>3, <2>4, <2>5 DEF DirectoryTypeOK
<1>10. CASE OrganizationGone
  <2>1. PICK o \in DOMAIN orgs : DeleteOrganization(o)
    BY <1>10 DEF OrganizationGone
  <2> DEFINE O == {p \in DOMAIN orgs : p # o}
             M == {m \in DOMAIN members : m[1] # o}
  <2>2. /\ orgs' = [p \in O |-> orgs[p]] /\ members' = [m \in M |-> members[m]]
        /\ UNCHANGED <<users, repos, sessions, tokens, given>>
    BY <2>1 DEF DeleteOrganization, Keep
  <2>3. orgs' \in [O -> Names] /\ DOMAIN orgs' = O
    BY <2>2, KeepType DEF DirectoryTypeOK
  <2>4. members' \in [M -> OrgRoles] /\ DOMAIN members' = M
    BY <2>2, KeepType DEF DirectoryTypeOK
  <2>5. O \subseteq OrgIds
    BY DEF DirectoryTypeOK
  <2>6. M \subseteq O \X (DOMAIN users)
    BY <1>0
  <2> HIDE DEF O, M
  <2> QED
    BY <2>2, <2>3, <2>4, <2>5, <2>6 DEF DirectoryTypeOK
<1>11. CASE MemberSet
  <2>1. PICK o \in DOMAIN orgs, u \in DOMAIN users, role \in OrgRoles : SetMember(o, u, role)
    BY <1>11 DEF MemberSet
  <2> DEFINE x == <<o, u>>
             D == DOMAIN members \union {x}
  <2>2. /\ members' = [m \in D |-> IF m = x THEN role ELSE members[m]]
        /\ UNCHANGED <<users, orgs, repos, sessions, tokens, given>>
    BY <2>1 DEF SetMember
  <2>3. x \in Pairs
    OBVIOUS
  <2> HIDE DEF x
  <2>4. members' \in [D -> OrgRoles] /\ DOMAIN members' = D
    BY <2>2 DEF DirectoryTypeOK
  <2>5. D \subseteq Pairs
    BY <1>0, <2>3, Zenon
  <2> HIDE DEF D
  <2> QED
    BY <2>2, <2>4, <2>5 DEF DirectoryTypeOK
<1>12. CASE MemberGone
  <2>1. PICK o, u : RemoveMember(o, u)
    BY <1>12 DEF MemberGone
  <2> DEFINE M == {m \in DOMAIN members : m # <<o, u>>}
  <2>2. members' = [m \in M |-> members[m]] /\ UNCHANGED <<users, orgs, repos, sessions, tokens, given>>
    BY <2>1 DEF RemoveMember, Keep
  <2>3. members' \in [M -> OrgRoles] /\ DOMAIN members' = M
    BY <2>2, KeepType DEF DirectoryTypeOK
  <2>4. M \subseteq Pairs
    <3> HIDE DEF Pairs
    <3> QED
      BY <1>0
  <2> HIDE DEF M
  <2> QED
    BY <2>2, <2>3, <2>4 DEF DirectoryTypeOK
<1>13. CASE ReposWritten
  BY <1>13 DEF ReposWritten, SetRepos, DirectoryTypeOK
<1> QED
  BY <1>1, <1>2, <1>3, <1>4, <1>5, <1>6, <1>7, <1>8, <1>9, <1>10, <1>11, <1>12, <1>13 DEF TableStep

-----------------------------------------------------------------------------
(* Names, subjects and the owner.                                          *)

(* Ids are given out in order, and never again. *)
IdsGiven ==
    /\ DOMAIN users \subseteq 1 .. given.users
    /\ DOMAIN orgs \subseteq 1 .. given.orgs

OwnerUnique ==
    \A u, v \in DOMAIN users : users[u].made = "setup" /\ users[v].made = "setup" => u = v

(* No account comes, and none changes its name, subject or origin. *)
AccountsKept ==
    /\ DOMAIN users' \subseteq DOMAIN users /\ given'.users = given.users
    /\ \A u \in DOMAIN users' : /\ users'[u].name = users[u].name
                                /\ users'[u].subject = users[u].subject
                                /\ users'[u].made = users[u].made

OrganizationsKept ==
    /\ DOMAIN orgs' \subseteq DOMAIN orgs /\ given'.orgs = given.orgs
    /\ \A o \in DOMAIN orgs' : orgs'[o] = orgs[o]

LEMMA AccountsFollow ==
    ASSUME DirectoryTypeOK, TableStep PROVE AccountsKept \/ AccountCreated
<1>0. \A u \in DOMAIN users : users[u] \in Account
  BY DEF DirectoryTypeOK
<1>1. CASE UNCHANGED <<users, given>>
  BY <1>1 DEF AccountsKept
<1>2. CASE AccountUpdated
  BY <1>0, <1>2, SMT DEF AccountUpdated, UpdateAccount, AccountsKept, Account
<1>3. CASE AccountDeleted
  <2>1. PICK u : DeleteAccount(u)
    BY <1>3 DEF AccountDeleted
  <2> QED
    BY <2>1 DEF DeleteAccount, Keep, AccountsKept
<1>4. CASE PasswordSet
  <2>0. PICK u \in DOMAIN users : \E kept : SetPassword(u, kept)
    BY <1>4 DEF PasswordSet, PasswordWritten
  <2>1. PICK kept : SetPassword(u, kept)
    BY <2>0
  <2> DEFINE new == users[u].password + 1
  <2>2. users' = [users EXCEPT ![u].password = new] /\ given' = given
    BY <2>1 DEF SetPassword
  <2> HIDE DEF new
  <2> QED
    BY <1>0, <2>2, SMT DEF AccountsKept, Account
<1>5. CASE SessionOpened
  BY <1>5, SMT DEF SessionOpened, InsertSession, AccountsKept, DirectoryTypeOK
<1>6. CASE OrganizationCreated
  BY <1>6, SMT DEF OrganizationCreated, InsertOrganization, AccountsKept, DirectoryTypeOK
<1> QED
  BY <1>1, <1>2, <1>3, <1>4, <1>5, <1>6, Zenon
     DEF TableStep, tables, CredentialsGone, TokenCreated, SetTokens, OrganizationGone, DeleteOrganization,
         MemberSet, SetMember, MemberGone, RemoveMember, ReposWritten, SetRepos

LEMMA OrganizationsFollow ==
    ASSUME DirectoryTypeOK, TableStep PROVE OrganizationsKept \/ OrganizationCreated
<1>1. CASE UNCHANGED <<orgs, given>>
  BY <1>1 DEF OrganizationsKept
<1>2. CASE AccountCreated
  BY <1>2, SMT DEF AccountCreated, InsertAccount, OrganizationsKept, DirectoryTypeOK
<1>3. CASE OrganizationGone
  <2>1. PICK o : DeleteOrganization(o)
    BY <1>3 DEF OrganizationGone
  <2> QED
    BY <2>1 DEF DeleteOrganization, Keep, OrganizationsKept
<1>4. CASE PasswordSet
  <2>0. PICK u \in DOMAIN users : \E kept : SetPassword(u, kept)
    BY <1>4 DEF PasswordSet, PasswordWritten
  <2>1. PICK kept : SetPassword(u, kept)
    BY <2>0
  <2> QED
    BY <1>1, <2>1 DEF SetPassword
<1>5. CASE SessionOpened
  BY <1>5, SMT DEF SessionOpened, InsertSession, OrganizationsKept, DirectoryTypeOK
<1> QED
  BY <1>1, <1>2, <1>3, <1>4, <1>5, Zenon
     DEF TableStep, tables, AccountUpdated, UpdateAccount, AccountDeleted, DeleteAccount, CredentialsGone,
         TokenCreated, SetTokens, MemberSet, SetMember, MemberGone, RemoveMember, ReposWritten, SetRepos

(* A new account gets a new id, and refuses whom CreateRefused speaks of. *)
LEMMA NewAccountRow ==
    ASSUME DirectoryTypeOK, IdsGiven, NEW row \in Account, NEW first \in BOOLEAN,
           ~CreateRefused(row, first), InsertAccount(row)
    PROVE  /\ NewAccount \notin DOMAIN users /\ NewAccount = given.users + 1
           /\ DOMAIN users' = DOMAIN users \union {NewAccount} /\ users'[NewAccount] = row
           /\ \A u \in DOMAIN users : users'[u] = users[u] /\ users[u].name # row.name
           /\ \A u \in DOMAIN users : row.subject # NoSubject => users[u].subject # row.subject
           /\ \A o \in DOMAIN orgs : orgs[o] # row.name
           /\ first => users = << >>
           /\ orgs' = orgs /\ given'.users = given.users + 1 /\ given'.orgs = given.orgs
<1>1. given.users \in Nat
  BY DirectoryAssumption DEF DirectoryTypeOK
<1>2. NewAccount \notin DOMAIN users
  BY <1>1, SMT DEF IdsGiven, NewAccount
<1>3. given'.users = given.users + 1 /\ given'.orgs = given.orgs
  BY SMT DEF InsertAccount, NewAccount, DirectoryTypeOK
<1> HIDE DEF NewAccount
<1>4. /\ DOMAIN users' = DOMAIN users \union {NewAccount} /\ users'[NewAccount] = row
      /\ \A u \in DOMAIN users : users'[u] = users[u]
  BY <1>2 DEF InsertAccount
<1>5. /\ \A u \in DOMAIN users : users[u].name # row.name
      /\ \A u \in DOMAIN users : row.subject # NoSubject => users[u].subject # row.subject
      /\ \A o \in DOMAIN orgs : orgs[o] # row.name
      /\ first => users = << >>
  BY DEF CreateRefused, HasName, OrgNamed, WithSubject
<1> QED
  BY <1>2, <1>3, <1>4, <1>5 DEF InsertAccount, NewAccount

LEMMA NewOrganizationRow ==
    ASSUME DirectoryTypeOK, IdsGiven, NEW n \in Names, ~NamespaceTaken(n), InsertOrganization(n)
    PROVE  /\ given'.orgs = given.orgs + 1 /\ given'.orgs \notin DOMAIN orgs
           /\ DOMAIN orgs' = DOMAIN orgs \union {given'.orgs} /\ orgs'[given'.orgs] = n
           /\ \A o \in DOMAIN orgs : orgs'[o] = orgs[o] /\ orgs[o] # n
           /\ \A u \in DOMAIN users : users[u].name # n
           /\ users' = users /\ given'.users = given.users
<1> DEFINE new == given.orgs + 1
<1>1. given.orgs \in Nat
  BY DirectoryAssumption DEF DirectoryTypeOK
<1>2. new \notin DOMAIN orgs
  BY <1>1, SMT DEF IdsGiven
<1>3. given'.orgs = new /\ given'.users = given.users
  BY SMT DEF InsertOrganization, DirectoryTypeOK
<1>4. orgs' = [o \in DOMAIN orgs \union {new} |-> IF o = new THEN n ELSE orgs[o]]
  BY DEF InsertOrganization
<1>5. /\ \A o \in DOMAIN orgs : orgs[o] # n
      /\ \A u \in DOMAIN users : users[u].name # n
  BY DEF NamespaceTaken, HasName, OrgNamed
<1>6. users' = users /\ new = given.orgs + 1
  BY DEF InsertOrganization
<1> HIDE DEF new
<1> QED
  BY <1>2, <1>3, <1>4, <1>5, <1>6

(* Ids are not given again, and what is unique stays so. *)
LEMMA UniqueStays ==
    ASSUME DirectoryTypeOK, IdsGiven, NamesDistinct, OneAccountPerSubject, OwnerUnique, TableStep
    PROVE  IdsGiven' /\ NamesDistinct' /\ OneAccountPerSubject' /\ OwnerUnique'
<1>0. given.users \in Nat /\ given.orgs \in Nat
  BY DirectoryAssumption DEF DirectoryTypeOK
<1>1. CASE AccountsKept /\ OrganizationsKept
  BY <1>1, SMT DEF AccountsKept, OrganizationsKept, IdsGiven, NamesDistinct, OneAccountPerSubject, OwnerUnique
<1>2. CASE AccountCreated
  <2>1. PICK row \in Account, first \in BOOLEAN :
          ~CreateRefused(row, first) /\ InsertAccount(row) /\ (row.made = "setup" => first)
    BY <1>2 DEF AccountCreated
  <2> DEFINE new == NewAccount
  <2>2. /\ new \notin DOMAIN users /\ new = given.users + 1
        /\ DOMAIN users' = DOMAIN users \union {new} /\ users'[new] = row
        /\ \A u \in DOMAIN users : users'[u] = users[u] /\ users[u].name # row.name
        /\ \A u \in DOMAIN users : row.subject # NoSubject => users[u].subject # row.subject
        /\ \A o \in DOMAIN orgs : orgs[o] # row.name
        /\ first => users = << >>
        /\ orgs' = orgs /\ given'.users = given.users + 1 /\ given'.orgs = given.orgs
    BY <2>1, NewAccountRow, Zenon
  <2> HIDE DEF new
  <2>3. IdsGiven'
    BY <1>0, <2>2, SMT DEF IdsGiven
  <2>4. NamesDistinct'
    BY <2>2, SMT DEF NamesDistinct
  <2>5. OneAccountPerSubject'
    BY <2>2, SMT DEF OneAccountPerSubject
  <2>6. row.made = "setup" => DOMAIN users = {}
    BY <2>1, <2>2, SMT
  <2>7. OwnerUnique'
    BY <2>2, <2>6, SMT DEF OwnerUnique
  <2> QED
    BY <2>3, <2>4, <2>5, <2>7
<1>3. CASE OrganizationCreated
  <2>1. PICK n \in Names :
          /\ given'.orgs \notin DOMAIN orgs
          /\ DOMAIN orgs' = DOMAIN orgs \union {given'.orgs} /\ orgs'[given'.orgs] = n
          /\ \A o \in DOMAIN orgs : orgs'[o] = orgs[o] /\ orgs[o] # n
          /\ \A u \in DOMAIN users : users[u].name # n
          /\ users' = users /\ given'.orgs = given.orgs + 1 /\ given'.users = given.users
    BY <1>3, NewOrganizationRow, Zenon DEF OrganizationCreated
  <2>2. IdsGiven'
    BY <1>0, <2>1, SMT DEF IdsGiven
  <2>3. NamesDistinct'
    BY <2>1, SMT DEF NamesDistinct
  <2> QED
    BY <2>1, <2>2, <2>3, SMT DEF OneAccountPerSubject, OwnerUnique
<1> QED
  BY <1>1, <1>2, <1>3, AccountsFollow, OrganizationsFollow

-----------------------------------------------------------------------------
(* The last administrator.                                                 *)

LEMMA NoAccounts == ASSUME DirectoryTypeOK PROVE users = << >> <=> DOMAIN users = {}
  BY SMT DEF DirectoryTypeOK

LEMMA AnotherOne ==
    ASSUME NEW S, NEW x \in S, IsFiniteSet(S), ~(Cardinality(S) <= 1)
    PROVE  \E y \in S : y # x
<1>1. SUFFICES ASSUME \A y \in S : y = x PROVE FALSE
  OBVIOUS
<1>2. S = {x}
  BY <1>1
<1> QED
  BY <1>2, FS_Singleton, SMT

LEMMA FiniteUsers ==
    ASSUME DirectoryTypeOK, NEW S, S \subseteq DOMAIN users PROVE IsFiniteSet(S)
<1>1. MaxAccounts \in Nat
  BY DirectoryAssumption
<1>2. IsFiniteSet(1 .. MaxAccounts)
  BY <1>1, FS_Interval, SMT
<1>3. S \subseteq 1 .. MaxAccounts
  BY DEF DirectoryTypeOK, UserIds
<1> QED
  BY <1>2, <1>3, FS_Subset

(* Who is refused as the last one leaves another. *)
LEMMA AdministratorLeft ==
    ASSUME DirectoryTypeOK, ActiveAdmins # {}, NEW u, ~LastAdmin(u)
    PROVE  \E v \in ActiveAdmins : v # u
<1>1. IsFiniteSet(ActiveAdmins)
  BY FiniteUsers DEF ActiveAdmins
<1>2. CASE u \in ActiveAdmins
  BY <1>1, <1>2, AnotherOne DEF LastAdmin
<1>3. CASE u \notin ActiveAdmins
  BY <1>3
<1> QED
  BY <1>2, <1>3

LEMMA AdministratorStays ==
    ASSUME DirectoryTypeOK, DirectoryTypeOK', IdsGiven, ActiveAdministratorStays, TableStep
    PROVE  ActiveAdministratorStays' /\ (users # << >> => users' # << >>)
<1> DEFINE IsAdmin(f, v) == v \in DOMAIN f /\ f[v].role = "admin" /\ ~f[v].disabled
<1>0. \A u \in DOMAIN users : users[u] \in Account
  BY DEF DirectoryTypeOK
<1>a. \A v : v \in ActiveAdmins <=> IsAdmin(users, v)
  BY DEF ActiveAdmins
<1>b. \A v : IsAdmin(users', v) => users' # << >> /\ ActiveAdmins' # {}
  BY NoAccounts, SMT DEF ActiveAdmins
<1>c. users # << >> => ActiveAdmins # {}
  BY DEF ActiveAdministratorStays
<1>1. CASE users' = users
  BY <1>1 DEF ActiveAdministratorStays, ActiveAdmins
<1>2. CASE AccountCreated
  <2>1. PICK row \in Account, first \in BOOLEAN :
          /\ ~CreateRefused(row, first) /\ InsertAccount(row)
          /\ IF first THEN row.role = "admin" /\ ~row.disabled ELSE users # << >>
    BY <1>2 DEF AccountCreated
  <2>2. /\ users'[NewAccount] = row /\ NewAccount \in DOMAIN users'
        /\ \A u \in DOMAIN users : users'[u] = users[u] /\ u \in DOMAIN users'
    BY <2>1, NewAccountRow, SMT
  <2>3. CASE first
    BY <1>b, <2>1, <2>2, <2>3 DEF ActiveAdministratorStays
  <2>4. CASE ~first
    <3>1. PICK v \in ActiveAdmins : TRUE
      BY <1>c, <2>1, <2>4
    <3>2. IsAdmin(users', v)
      BY <1>a, <2>2
    <3> QED
      BY <1>b, <3>2 DEF ActiveAdministratorStays
  <2> QED
    BY <2>3, <2>4
<1>3. CASE AccountUpdated
  <2>1. PICK u \in DOMAIN users, role \in Roles, disabled \in BOOLEAN :
          ~UpdateRefused(u, role, disabled) /\ UpdateAccount(u, role, disabled)
    BY <1>3 DEF AccountUpdated
  <2>2. users' = [users EXCEPT ![u].role = role, ![u].disabled = disabled]
    BY <2>1 DEF UpdateAccount
  <2>3. CASE role = "admin" /\ ~disabled
    <3> DEFINE row == [users[u] EXCEPT !.role = role, !.disabled = disabled]
    <3>1. users[u] \in Account
      BY <1>0
    <3>2. row.role = role /\ row.disabled = disabled
      BY <3>1, SMT DEF Account
    <3>3. u \in DOMAIN users' /\ users'[u] = row
      BY <2>2
    <3> HIDE DEF row
    <3>4. IsAdmin(users', u)
      BY <2>3, <3>2, <3>3
    <3> QED
      BY <1>b, <3>4 DEF ActiveAdministratorStays
  <2>4. CASE role # "admin" \/ disabled
    <3>1. ~LastAdmin(u) /\ users # << >>
      BY <2>1, <2>4, NoAccounts DEF UpdateRefused
    <3>2. PICK v \in ActiveAdmins : v # u
      BY <1>c, <3>1, AdministratorLeft
    <3>3. v \in DOMAIN users' /\ users'[v] = users[v]
      BY <1>a, <2>2, <3>2, SMT
    <3> QED
      BY <1>a, <1>b, <3>3 DEF ActiveAdministratorStays
  <2> QED
    BY <2>3, <2>4
<1>4. CASE AccountDeleted
  <2>1. PICK u : ~DeleteRefused(u) /\ DeleteAccount(u)
    BY <1>4 DEF AccountDeleted
  <2>2. CASE users = << >>
    BY <2>1, <2>2, NoAccounts, SMT DEF DeleteAccount, Keep, ActiveAdministratorStays
  <2>3. CASE users # << >>
    <3>1. PICK v \in ActiveAdmins : v # u
      BY <1>c, <2>1, <2>3, AdministratorLeft DEF DeleteRefused
    <3>2. v \in DOMAIN users' /\ users'[v] = users[v]
      BY <1>a, <2>1, <3>1 DEF DeleteAccount, Keep
    <3> QED
      BY <1>a, <1>b, <3>2 DEF ActiveAdministratorStays
  <2> QED
    BY <2>2, <2>3
<1>5. CASE PasswordSet
  <2>0. PICK u \in DOMAIN users : \E kept : SetPassword(u, kept)
    BY <1>5 DEF PasswordSet, PasswordWritten
  <2>1. PICK kept : SetPassword(u, kept)
    BY <2>0
  <2> DEFINE new == users[u].password + 1
  <2>2. users' = [users EXCEPT ![u].password = new]
    BY <2>1 DEF SetPassword
  <2> HIDE DEF new
  <2>3. PICK v \in ActiveAdmins : TRUE
    BY <1>c, NoAccounts
  <2>4. IsAdmin(users', v)
    BY <1>0, <1>a, <2>2, SMT DEF Account
  <2> QED
    BY <1>b, <2>4 DEF ActiveAdministratorStays
<1> QED
  BY <1>1, <1>2, <1>3, <1>4, <1>5, Zenon
     DEF TableStep, tables, SessionOpened, InsertSession, CredentialsGone, TokenCreated, SetTokens,
         OrganizationCreated, InsertOrganization, OrganizationGone, DeleteOrganization,
         MemberSet, SetMember, MemberGone, RemoveMember, ReposWritten, SetRepos

-----------------------------------------------------------------------------
(* Where a request comes to.                                               *)

(* A session has a number of its own, and an account. *)
SessionsKnown ==
    /\ \A s \in sessions : s.user \in DOMAIN users /\ s.id \in 1 .. given.sessions
    /\ \A s, t \in sessions : s.id = t.id => s = t

(* The name a repository will be put under is that of its owner, as far as  *)
(* the owner is still there.                                                *)
NameHeld(r) ==
    /\ r.org # NoOrg => /\ r.org <= given.orgs
                        /\ r.org \in DOMAIN orgs => orgs[r.org] = r.name
    /\ r.org = NoOrg => /\ r.who <= given.users
                        /\ r.who \in DOMAIN users => users[r.who].name = r.name

(* A request that keeps a session keeps one of the account it is about. *)
SessionHeld(r) ==
    /\ r.session <= given.sessions
    /\ \A s \in sessions : s.id = r.session => s.user = r.who

SettingUp == {"insert", "select", "take", "provision", "name", "provision_insert"}
Guarded == SettingUp \union {"repo", "rename", "password", "sign_out", "verify"}

(* Steps that a request comes to with something in hand that later steps    *)
(* count on.                                                                *)
Justified(h, r) ==
    \/ r.pc \in {"insert", "select"} /\ users # << >> /\ UNCHANGED tables
    \/ r.pc = "take" /\ StateSelected(h) /\ states[r.session] = "pending"
       /\ r.server = req[h].server
    \/ r.pc \in {"provision", "name", "provision_insert"} /\ req[h].pc \in SettingUp /\ UNCHANGED tables
    \/ r.pc \in {"repo", "rename"} /\ NameHeld(r) /\ UNCHANGED tables
    \/ r.pc = "password" /\ SessionHeld(r) /\ UNCHANGED tables
    \/ r.pc = "sign_out" /\ PasswordWritten(h) /\ r = [req[h] EXCEPT !.pc = "sign_out"]
    \/ r.pc = "verify" /\ LoginStarts(h, r.name, r.password)

RequestStep(h) ==
    \E r : req' = [req EXCEPT ![h] = r] /\ (r.pc \in Guarded => Justified(h, r))

LEMMA ComesTo ==
    ASSUME NEW h \in Handlers, NEW r, Begins(h, r) \/ Continues(h, r),
           r.pc \in Guarded => Justified(h, r)
    PROVE  RequestStep(h)
  BY DEF Begins, Continues, RequestStep

LEMMA ComesToEnd ==
    ASSUME NEW h \in Handlers, Ends(h) \/ Answers(h) PROVE RequestStep(h)
<1>1. Idle.pc \notin Guarded
  BY SMT DEF Idle, Guarded, SettingUp
<1> QED
  BY <1>1, ComesTo DEF Ends, Answers

LEMMA ComesToStep ==
    ASSUME RequestsOK, NEW h \in Handlers, NEW step \in Steps, GoesTo(h, step),
           step \in Guarded => Justified(h, [req[h] EXCEPT !.pc = step])
    PROVE  RequestStep(h)
<1> DEFINE r == [req[h] EXCEPT !.pc = step]
<1>1. r.pc = step
  BY SMT DEF RequestsOK, RequestsTypeOK, Request
<1>2. Continues(h, r)
  BY SMT DEF GoesTo, Continues
<1> QED
  BY <1>1, <1>2, ComesTo

LEMMA SignInStep ==
    ASSUME RequestsOK, DirectoryTypeOK, NEW h \in Handlers, SignIn(h) PROVE RequestStep(h)
<1> USE DEF Steps
<1>0. req[h] \in Request
  BY DEF RequestsOK, RequestsTypeOK
<1>1. ASSUME NEW n \in Names, NEW s \in Servers, SetupStarts(h, n, s) PROVE RequestStep(h)
  <2> DEFINE r == [Idle EXCEPT !.pc = "owner", !.name = n, !.server = s]
  <2>1. r.pc \notin Guarded
    BY SMT DEF Idle, Guarded, SettingUp
  <2> QED
    BY <1>1, <2>1, ComesTo DEF SetupStarts
<1>2. ASSUME NEW n \in Names, NEW p \in 1 .. MaxPasswords, LoginStarts(h, n, p) PROVE RequestStep(h)
  <2> DEFINE r == [Idle EXCEPT !.pc = "verify", !.name = n, !.password = p]
  <2>1. r.pc = "verify" /\ r.name = n /\ r.password = p
    BY SMT DEF Idle
  <2>2. Begins(h, r)
    BY <1>2 DEF LoginStarts
  <2> HIDE DEF r
  <2>3. Justified(h, r)
    BY <1>2, <2>1, Zenon DEF Justified
  <2> QED
    BY <2>2, <2>3, ComesTo
<1>3. CASE SetupCounts(h)
  BY <1>3, ComesToStep, ComesToEnd DEF SetupCounts, Guarded, SettingUp
<1>4. ASSUME NEW r, Continues(h, r), r.pc = "open" PROVE RequestStep(h)
  BY <1>4, ComesTo DEF Guarded, SettingUp
<1>5. CASE SetupInserts(h)
  <2> DEFINE r == [req[h] EXCEPT !.pc = "open", !.who = NewAccount, !.password = 1]
  <2>1. r.pc = "open"
    BY <1>0, SMT DEF Request
  <2> QED
    BY <1>4, <1>5, <2>1, ComesToEnd DEF SetupInserts
<1>6. CASE LoginVerifies(h)
  <2> DEFINE r(u) == [req[h] EXCEPT !.pc = "open", !.who = u]
  <2>1. \A u : r(u).pc = "open"
    BY <1>0, SMT DEF Request
  <2>2. Ends(h) \/ \E u : Continues(h, r(u))
    BY <1>6, Zenon DEF LoginVerifies
  <2> HIDE DEF r
  <2> QED
    BY <1>4, <2>1, <2>2, ComesToEnd
<1>7. CASE OpenSession(h)
  BY <1>7, ComesToEnd DEF OpenSession
<1> QED
  BY <1>1, <1>2, <1>3, <1>5, <1>6, <1>7, Zenon DEF SignIn

LEMMA OwnAccountStep ==
    ASSUME RequestsOK, DirectoryTypeOK, SessionsKnown, NEW h \in Handlers, OwnAccount(h) PROVE RequestStep(h)
<1> USE DEF Steps
<1>0. req[h] \in Request
  BY DEF RequestsOK, RequestsTypeOK
<1>1. ASSUME NEW s \in sessions,
             Expire(h, s) \/ Logout(h, s) \/ RevokeOthers(h, s) \/ \E other \in sessions : RevokeSession(h, s, other)
      PROVE  RequestStep(h)
  BY <1>1, ComesToEnd DEF Expire, Logout, RevokeOthers, RevokeSession
<1>2. ASSUME NEW s \in sessions, ChangePassword(h, s) PROVE RequestStep(h)
  <2> DEFINE r == [Idle EXCEPT !.pc = "password", !.who = s.user, !.session = s.id]
  <2>1. r.pc = "password" /\ r.who = s.user /\ r.session = s.id
    BY SMT DEF Idle
  <2>2. s.id <= given.sessions
    BY SMT DEF SessionsKnown
  <2> HIDE DEF r
  <2>3. SessionHeld(r)
    BY <2>1, <2>2, SMT DEF SessionHeld, SessionsKnown
  <2>4. Begins(h, r) /\ Justified(h, r)
    BY <1>2, <2>1, <2>3 DEF ChangePassword, Justified, r
  <2> QED
    BY <2>4, ComesTo
<1>3. ASSUME NEW u \in DOMAIN users, NEW scope \in {"read", "write"}, CreateToken(h, u, scope) PROVE RequestStep(h)
  <2> DEFINE r == [Idle EXCEPT !.pc = "token", !.who = u,
                               !.role = IF scope = "write" THEN "write" ELSE "read"]
  <2>1. r.pc \notin Guarded
    BY SMT DEF Idle, Guarded, SettingUp
  <2> QED
    BY <1>3, <2>1, ComesTo DEF CreateToken
<1>4. ASSUME NEW u \in DOMAIN users, NEW t \in tokens, DeleteToken(h, u, t) PROVE RequestStep(h)
  BY <1>4, ComesToEnd DEF DeleteToken
<1>5. CASE PasswordWritten(h)
  <2> DEFINE r == [req[h] EXCEPT !.pc = "sign_out"]
  <2>1. r.pc = "sign_out"
    BY <1>0, SMT DEF Request
  <2>2. Justified(h, r) /\ GoesTo(h, "sign_out")
    BY <1>5, <2>1, Zenon DEF Justified, PasswordWritten
  <2> QED
    BY <2>2, ComesToStep
<1>6. CASE SignedOut(h)
  BY <1>6, ComesToStep DEF SignedOut, Guarded, SettingUp
<1>7. CASE TokensDropped(h) \/ TokenInserted(h)
  BY <1>7, ComesToEnd DEF TokensDropped, TokenInserted
<1> QED
  BY <1>1, <1>2, <1>3, <1>4, <1>5, <1>6, <1>7, Zenon DEF OwnAccount

LEMMA AdministrationStep ==
    ASSUME RequestsOK, DirectoryTypeOK, SessionsKnown, NEW h \in Handlers, Administration(h) PROVE RequestStep(h)
<1> USE DEF Steps
<1>0. req[h] \in Request
  BY DEF RequestsOK, RequestsTypeOK
<1>1. ASSUME NEW a \in DOMAIN users, NEW u \in DOMAIN users, ResetPassword(h, a, u) PROVE RequestStep(h)
  <2> DEFINE r == [Idle EXCEPT !.pc = "password", !.who = u]
  <2>1. r.pc = "password" /\ r.session = 0
    BY SMT DEF Idle
  <2>2. 0 <= given.sessions /\ \A s \in sessions : s.id # 0
    BY DirectoryAssumption, SMT DEF DirectoryTypeOK, SessionsKnown
  <2> HIDE DEF r
  <2>3. SessionHeld(r)
    BY <2>1, <2>2, SMT DEF SessionHeld
  <2>4. Begins(h, r) /\ Justified(h, r)
    BY <1>1, <2>1, <2>3 DEF ResetPassword, Justified, r
  <2> QED
    BY <2>4, ComesTo
<1>2. ASSUME NEW a \in DOMAIN users, NEW u \in DOMAIN users, DeleteUser(h, a, u) PROVE RequestStep(h)
  <2> DEFINE r == [Idle EXCEPT !.pc = "reassign", !.by = a, !.who = u]
  <2>1. r.pc \notin Guarded
    BY SMT DEF Idle, Guarded, SettingUp
  <2> QED
    BY <1>2, <2>1, ComesTo DEF DeleteUser
<1>3. ASSUME NEW a \in DOMAIN users, NEW u \in DOMAIN users, NEW both \in BOOLEAN, RevokeFromAdmin(h, a, u, both)
      PROVE  RequestStep(h)
  BY <1>3, ComesToEnd DEF RevokeFromAdmin
<1>4. ASSUME NEW a \in DOMAIN users, NEW u \in DOMAIN users, NEW role \in Roles, NEW disabled \in BOOLEAN,
             UpdateUser(h, a, u, role, disabled)
      PROVE  RequestStep(h)
  <2> DEFINE change == {f \in {"role", "disabled"} :
                          IF f = "role" THEN role # users[u].role ELSE disabled # users[u].disabled}
             r == [Idle EXCEPT !.pc = "update", !.who = u, !.to = role,
                               !.disabled = disabled, !.change = change]
  <2>1. Begins(h, r)
    BY <1>4 DEF UpdateUser
  <2> HIDE DEF change
  <2>2. r.pc \notin Guarded
    BY SMT DEF Idle, Guarded, SettingUp
  <2> QED
    BY <2>1, <2>2, ComesTo
<1>5. ASSUME NEW a \in DOMAIN users, NEW n \in Names, NEW role \in Roles,
             NEW o \in DOMAIN orgs \union {NoOrg}, NEW orgRole \in OrgRoles,
             CreateUser(h, a, n, role, o, orgRole)
      PROVE  RequestStep(h)
  <2> DEFINE r == [Idle EXCEPT !.pc = "insert", !.name = n, !.to = role, !.org = o, !.role = orgRole]
  <2>1. r.pc = "insert" /\ users # << >>
    BY NoAccounts, SMT DEF Idle
  <2> HIDE DEF r
  <2>2. Begins(h, r) /\ Justified(h, r)
    BY <1>5, <2>1 DEF CreateUser, Justified, r
  <2> QED
    BY <2>2, ComesTo
<1>6. CASE UserUpdated(h)
  BY <1>6, ComesToStep, ComesToEnd DEF UserUpdated, Guarded, SettingUp
<1>7. CASE DisabledSignedOut(h) \/ UserDeleted(h)
  BY <1>7, ComesToEnd DEF DisabledSignedOut, UserDeleted
<1>8. CASE UserInserted(h)
  <2> DEFINE r == [req[h] EXCEPT !.pc = "join", !.who = NewAccount]
  <2>1. r.pc \notin Guarded
    BY <1>0, SMT DEF Request, Guarded, SettingUp
  <2> QED
    BY <1>8, <2>1, ComesTo, ComesToEnd DEF UserInserted
<1>9. CASE RepositoriesReassigned(h)
  BY <1>9, ComesToStep, ComesToEnd DEF RepositoriesReassigned, Guarded, SettingUp
<1> QED
  BY <1>1, <1>2, <1>3, <1>4, <1>5, <1>6, <1>7, <1>8, <1>9, Zenon DEF Administration

LEMMA SingleSignOnStep ==
    ASSUME RequestsOK, DirectoryTypeOK, NEW h \in Handlers, SingleSignOn(h) PROVE RequestStep(h)
<1> USE DEF Steps
<1>0. req[h] \in Request
  BY DEF RequestsOK, RequestsTypeOK
<1>1. ASSUME NEW state \in 1 .. MaxStates, SignOnStarts(h, state) PROVE RequestStep(h)
  BY <1>1, ComesToEnd DEF SignOnStarts
<1>2. ASSUME NEW state \in 1 .. MaxStates, NEW s \in Servers, CallbackStarts(h, state, s) PROVE RequestStep(h)
  <2> DEFINE r == [Idle EXCEPT !.pc = "select", !.session = state, !.server = s]
  <2>1. r.pc = "select"
    BY SMT DEF Idle
  <2>2. Begins(h, r) /\ users # << >> /\ UNCHANGED tables
    BY <1>2 DEF CallbackStarts
  <2> HIDE DEF r
  <2>3. Justified(h, r)
    BY <2>1, <2>2 DEF Justified
  <2> QED
    BY <2>2, <2>3, ComesTo
<1>3. CASE StateSelected(h)
  <2> DEFINE r == [req[h] EXCEPT !.pc = "take"]
  <2>1. CASE GoesTo(h, "take") /\ states[req[h].session] = "pending"
    <3>1. r.pc = "take" /\ r.session = req[h].session /\ r.server = req[h].server
      BY <1>0, SMT DEF Request
    <3> HIDE DEF r
    <3>2. Justified(h, r)
      BY <1>3, <2>1, <3>1 DEF Justified
    <3> QED
      BY <2>1, <3>2, ComesToStep DEF r
  <2> QED
    BY <1>3, <2>1, ComesToEnd DEF StateSelected
<1>4. ASSUME NEW r, Continues(h, r), r.pc \in {"provision", "name", "provision_insert"},
             req[h].pc \in SettingUp, UNCHANGED tables
      PROVE  RequestStep(h)
  BY <1>4, ComesTo DEF Justified
<1>5. CASE StateTaken(h)
  <2> DEFINE r == [req[h] EXCEPT !.pc = "provision"]
  <2>1. r.pc = "provision"
    BY <1>0, SMT DEF Request
  <2>2. Continues(h, r)
    BY <1>5, SMT DEF StateTaken, GoesTo, Continues
  <2>3. req[h].pc \in SettingUp /\ UNCHANGED tables
    BY <1>5 DEF StateTaken, SettingUp
  <2> QED
    BY <1>4, <2>1, <2>2, <2>3
<1>6. CASE SignOnRefused(h)
  BY <1>6, ComesToEnd DEF SignOnRefused
<1>7. ASSUME NEW u, Continues(h, [req[h] EXCEPT !.pc = "open", !.who = u, !.password = External, !.session = 0])
      PROVE  RequestStep(h)
  <2> DEFINE r == [req[h] EXCEPT !.pc = "open", !.who = u, !.password = External, !.session = 0]
  <2>1. r.pc \notin Guarded
    BY <1>0, SMT DEF Request, Guarded, SettingUp
  <2> QED
    BY <1>7, <2>1, ComesTo
<1>8. ASSUME NEW x \in Subjects, SubjectFound(h, x) PROVE RequestStep(h)
  <2> DEFINE r == [req[h] EXCEPT !.pc = "name", !.subject = x]
  <2>1. r.pc = "name"
    BY <1>0, SMT DEF Request
  <2>2. req[h].pc \in SettingUp /\ UNCHANGED tables
    BY <1>8 DEF SubjectFound, SettingUp
  <2> QED
    BY <1>4, <1>7, <1>8, <2>1, <2>2, ComesToEnd, Zenon DEF SubjectFound
<1>9. ASSUME NEW n \in Names, NameChosen(h, n) PROVE RequestStep(h)
  <2>1. PICK m \in Names : Continues(h, [req[h] EXCEPT !.pc = "provision_insert", !.name = m])
    BY <1>9 DEF NameChosen, Available
  <2> DEFINE r == [req[h] EXCEPT !.pc = "provision_insert", !.name = m]
  <2>2. r.pc = "provision_insert"
    BY <1>0, SMT DEF Request
  <2>3. req[h].pc \in SettingUp /\ UNCHANGED tables
    BY <1>9 DEF NameChosen, SettingUp
  <2> QED
    BY <1>4, <2>1, <2>2, <2>3
<1>10. CASE SubjectInserted(h)
  BY <1>7, <1>10, ComesToEnd DEF SubjectInserted
<1> QED
  BY <1>1, <1>2, <1>3, <1>5, <1>6, <1>8, <1>9, <1>10, Zenon DEF SingleSignOn

LEMMA MembershipStep ==
    ASSUME RequestsOK, DirectoryTypeOK, NEW h \in Handlers, Membership(h) PROVE RequestStep(h)
<1>1. ASSUME NEW r, Begins(h, r), r.pc \in {"join", "member", "leave"} PROVE RequestStep(h)
  BY <1>1, ComesTo DEF Guarded, SettingUp
<1>2. ASSUME NEW u \in DOMAIN users, NEW n \in Names, CreateOrganization(h, u, n) PROVE RequestStep(h)
  <2> DEFINE r == [Idle EXCEPT !.pc = "join", !.who = u, !.org = given.orgs + 1, !.role = "admin"]
  <2>1. Begins(h, r) /\ r.pc = "join"
    BY <1>2, SMT DEF CreateOrganization, Idle
  <2> QED
    BY <1>1, <2>1
<1>3. ASSUME NEW u \in DOMAIN users, NEW o \in DOMAIN orgs, OrganizationDeleted(h, u, o) PROVE RequestStep(h)
  BY <1>3, ComesToEnd DEF OrganizationDeleted
<1>4. ASSUME NEW u \in DOMAIN users, NEW o \in DOMAIN orgs, NEW m \in DOMAIN users, NEW role \in OrgRoles,
             ChangeMember(h, u, o, m, role)
      PROVE  RequestStep(h)
  <2> DEFINE r == [Idle EXCEPT !.pc = "member", !.who = m, !.org = o, !.role = role]
  <2>1. Begins(h, r) /\ r.pc = "member"
    BY <1>4, SMT DEF ChangeMember, Idle
  <2> QED
    BY <1>1, <2>1
<1>5. ASSUME NEW u \in DOMAIN users, NEW o \in DOMAIN orgs, NEW m \in DOMAIN users, LeaveOrganization(h, u, o, m)
      PROVE  RequestStep(h)
  <2> DEFINE r == [Idle EXCEPT !.pc = "leave", !.who = m, !.org = o]
  <2>1. Begins(h, r) /\ r.pc = "leave"
    BY <1>5, SMT DEF LeaveOrganization, Idle
  <2> QED
    BY <1>1, <2>1
<1>6. CASE MemberJoins(h) \/ MemberChanged(h) \/ MemberRemoved(h)
  BY <1>6, ComesToEnd DEF MemberJoins, MemberChanged, MemberRemoved
<1> QED
  BY <1>2, <1>3, <1>4, <1>5, <1>6, Zenon DEF Membership

LEMMA OwnershipStep ==
    ASSUME RequestsOK, DirectoryTypeOK, IdsGiven, NEW h \in Handlers, Ownership(h) PROVE RequestStep(h)
<1>0. /\ \A u \in DOMAIN users : u \in Nat /\ u <= given.users
      /\ \A o \in DOMAIN orgs : o \in Nat /\ o <= given.orgs
  BY DirectoryAssumption, SMT DEF IdsGiven, DirectoryTypeOK
<1>1. ASSUME NEW r, Begins(h, r), r.pc \in {"repo", "rename"}, NameHeld(r), UNCHANGED tables
      PROVE  RequestStep(h)
  BY <1>1, ComesTo DEF Justified
<1>2. ASSUME NEW u \in DOMAIN users, NEW s \in Slugs, NEW o \in DOMAIN orgs \union {NoOrg},
             CreateRepository(h, u, s, o)
      PROVE  RequestStep(h)
  <2> DEFINE name == IF o = NoOrg THEN users[u].name ELSE orgs[o]
             r == [Idle EXCEPT !.pc = "repo", !.who = u, !.org = o, !.slug = s, !.name = name]
  <2>1. Begins(h, r) /\ UNCHANGED tables
    BY <1>2 DEF CreateRepository
  <2>2. (o = NoOrg => name = users[u].name) /\ (o # NoOrg => name = orgs[o])
    OBVIOUS
  <2> HIDE DEF name
  <2>3. r.pc = "repo" /\ r.who = u /\ r.org = o /\ r.name = name
    BY SMT DEF Idle
  <2> HIDE DEF r
  <2>4. NameHeld(r)
    BY <1>0, <2>2, <2>3, SMT DEF NameHeld
  <2> QED
    BY <1>1, <2>1, <2>3, <2>4
<1>3. ASSUME NEW u \in DOMAIN users, NEW x \in repos, NEW o \in DOMAIN orgs \union {NoOrg},
             NEW account \in DOMAIN users, NEW s \in Slugs, RenameRepository(h, u, x, o, account, s)
      PROVE  RequestStep(h)
  <2> DEFINE name == IF o # NoOrg THEN orgs[o] ELSE users[account].name
             who == IF o # NoOrg THEN u ELSE account
             r == [Idle EXCEPT !.pc = "rename", !.name = name, !.slug = s, !.org = o,
                               !.who = who, !.old = {x}]
  <2>1. Begins(h, r) /\ UNCHANGED tables
    BY <1>3 DEF RenameRepository
  <2>2. (o = NoOrg => name = users[account].name /\ who = account) /\ (o # NoOrg => name = orgs[o])
    OBVIOUS
  <2> HIDE DEF name, who
  <2>3. r.pc = "rename" /\ r.who = who /\ r.org = o /\ r.name = name
    BY SMT DEF Idle
  <2> HIDE DEF r
  <2>4. NameHeld(r)
    BY <1>0, <2>2, <2>3, SMT DEF NameHeld
  <2> QED
    BY <1>1, <2>1, <2>3, <2>4
<1>4. ASSUME NEW u \in DOMAIN users, NEW x \in repos, DeleteRepository(h, u, x) PROVE RequestStep(h)
  BY <1>4, ComesToEnd DEF DeleteRepository
<1>5. CASE RepositoryInserted(h) \/ RepositoryRenamed(h)
  BY <1>5, ComesToEnd DEF RepositoryInserted, RepositoryRenamed
<1> QED
  BY <1>2, <1>3, <1>4, <1>5, Zenon DEF Ownership

-----------------------------------------------------------------------------
(* What a request holds stays true of the tables.                          *)

LEMMA NameHeldStays ==
    ASSUME DirectoryTypeOK, IdsGiven, TableStep, NEW r \in Request, NameHeld(r)
    PROVE  NameHeld(r)'
<1>0. /\ given.users \in Nat /\ given.orgs \in Nat
      /\ r.who \in Nat /\ r.org \in Nat /\ NoOrg = 0
  BY DirectoryAssumption, SMT DEF DirectoryTypeOK, Request, UserIds, OrgIds, Nobody, NoOrg
<1>1. CASE AccountsKept /\ OrganizationsKept
  BY <1>1, SMT DEF AccountsKept, OrganizationsKept, NameHeld
<1>2. CASE AccountCreated
  <2>1. PICK row \in Account, first \in BOOLEAN : ~CreateRefused(row, first) /\ InsertAccount(row)
    BY <1>2 DEF AccountCreated
  <2> DEFINE new == NewAccount
  <2>2. /\ new = given.users + 1 /\ DOMAIN users' = DOMAIN users \union {new}
        /\ \A u \in DOMAIN users : users'[u] = users[u]
        /\ orgs' = orgs /\ given'.users = given.users + 1 /\ given'.orgs = given.orgs
    BY <2>1, NewAccountRow, Zenon
  <2> HIDE DEF new
  <2> QED
    BY <1>0, <2>2, SMT DEF NameHeld
<1>3. CASE OrganizationCreated
  <2>1. PICK n \in Names :
          /\ DOMAIN orgs' = DOMAIN orgs \union {given'.orgs}
          /\ \A o \in DOMAIN orgs : orgs'[o] = orgs[o]
          /\ users' = users /\ given'.orgs = given.orgs + 1 /\ given'.users = given.users
    BY <1>3, NewOrganizationRow, Zenon DEF OrganizationCreated
  <2> QED
    BY <1>0, <2>1, SMT DEF NameHeld
<1> QED
  BY <1>1, <1>2, <1>3, AccountsFollow, OrganizationsFollow

(* Sessions go, or get a new number; they stay with their account. *)
SessionsKept ==
    /\ given'.sessions = given.sessions
    /\ \A t \in sessions' : \E s \in sessions : t.id = s.id /\ t.user = s.user
    /\ \A t1, t2 \in sessions' : t1.id = t2.id => t1 = t2
    /\ \A t \in sessions' : t.user \in DOMAIN users'

LEMMA SessionsFollow ==
    ASSUME DirectoryTypeOK, IdsGiven, SessionsKnown, TableStep PROVE SessionsKept \/ SessionOpened
<1>0. given.sessions \in Nat /\ sessions \subseteq Session /\ \A u \in DOMAIN users : users[u] \in Account
  BY DirectoryAssumption DEF DirectoryTypeOK
<1>1. ASSUME sessions' \subseteq sessions, given'.sessions = given.sessions, DOMAIN users \subseteq DOMAIN users'
      PROVE  SessionsKept
  BY <1>1, SMT DEF SessionsKept, SessionsKnown
<1>2. CASE UNCHANGED <<users, sessions, given>>
  BY <1>1, <1>2
<1>3. CASE AccountCreated
  <2>1. PICK row \in Account, first \in BOOLEAN : ~CreateRefused(row, first) /\ InsertAccount(row)
    BY <1>3 DEF AccountCreated
  <2>2. DOMAIN users \subseteq DOMAIN users'
    BY <2>1, NewAccountRow
  <2>3. given'.sessions = given.sessions /\ sessions' = sessions
    BY <2>1, SMT DEF InsertAccount, DirectoryTypeOK
  <2> QED
    BY <1>1, <2>2, <2>3
<1>4. CASE AccountUpdated
  <2>1. DOMAIN users' = DOMAIN users /\ sessions' = sessions /\ given' = given
    BY <1>4 DEF AccountUpdated, UpdateAccount
  <2> QED
    BY <1>1, <2>1
<1>5. CASE AccountDeleted
  <2>1. PICK u : DeleteAccount(u)
    BY <1>5 DEF AccountDeleted
  <2>2. /\ DOMAIN users' = {v \in DOMAIN users : v # u} /\ sessions' = {s \in sessions : s.user # u}
        /\ given' = given
    BY <2>1 DEF DeleteAccount, Keep
  <2> QED
    BY <2>2, SMT DEF SessionsKept, SessionsKnown
<1>6. CASE PasswordSet
  <2>0. PICK u \in DOMAIN users : \E kept : SetPassword(u, kept)
    BY <1>6 DEF PasswordSet, PasswordWritten
  <2>1. PICK kept : SetPassword(u, kept)
    BY <2>0
  <2> DEFINE new == users[u].password + 1
             renewed(s) == IF s.id = kept THEN [s EXCEPT !.proved = new, !.late = FALSE] ELSE s
  <2>2. /\ DOMAIN users' = DOMAIN users /\ sessions' = {renewed(s) : s \in sessions} /\ given' = given
    BY <2>1 DEF SetPassword
  <2> HIDE DEF new
  <2>3. ASSUME NEW s \in sessions PROVE renewed(s).id = s.id /\ renewed(s).user = s.user
    BY <1>0, SMT DEF Session
  <2>4. \A s, t \in sessions : renewed(s).id = renewed(t).id => renewed(s) = renewed(t)
    BY <2>3, Zenon DEF SessionsKnown
  <2> HIDE DEF renewed
  <2> QED
    BY <2>2, <2>3, <2>4, SMT DEF SessionsKept, SessionsKnown
<1>7. CASE CredentialsGone
  BY <1>1, <1>7 DEF CredentialsGone
<1>8. CASE OrganizationCreated
  <2>1. users' = users /\ sessions' = sessions /\ given'.sessions = given.sessions
    BY <1>8, SMT DEF OrganizationCreated, InsertOrganization, DirectoryTypeOK
  <2> QED
    BY <1>1, <2>1
<1> QED
  BY <1>2, <1>3, <1>4, <1>5, <1>6, <1>7, <1>8, Zenon
     DEF TableStep, tables, TokenCreated, SetTokens, OrganizationGone, DeleteOrganization,
         MemberSet, SetMember, MemberGone, RemoveMember, ReposWritten, SetRepos

(* The session opened is of the account's password as it is, or late. *)
LEMMA NewSession ==
    ASSUME DirectoryTypeOK, SessionsKnown, SessionOpened
    PROVE  \E s : /\ sessions' = sessions \union {s} /\ s.id = given.sessions + 1
                  /\ s.user \in DOMAIN users /\ (s.late \/ s.proved = users[s.user].password)
                  /\ given'.sessions = given.sessions + 1 /\ users' = users
<1>1. PICK u \in DOMAIN users, p \in 0 .. MaxPasswords : InsertSession(u, p)
  BY DEF SessionOpened
<1> DEFINE late == p # users[u].password
           s == [id |-> given.sessions + 1, user |-> u, proved |-> p, late |-> late]
<1>2. sessions' = sessions \union {s} /\ users' = users
  BY <1>1 DEF InsertSession
<1>3. given'.sessions = given.sessions + 1
  BY <1>1, SMT DEF InsertSession, DirectoryTypeOK
<1>4. late \/ p = users[u].password
  OBVIOUS
<1> HIDE DEF late
<1>5. s.id = given.sessions + 1 /\ s.user = u /\ s.late = late /\ s.proved = p
  OBVIOUS
<1> HIDE DEF s
<1> QED
  BY <1>2, <1>3, <1>4, <1>5

LEMMA SessionHeldStays ==
    ASSUME DirectoryTypeOK, IdsGiven, SessionsKnown, TableStep
    PROVE  SessionsKnown' /\ \A r \in Request : SessionHeld(r) => SessionHeld(r)'
<1>0. given.sessions \in Nat /\ (\A r \in Request : r.session \in Nat) /\ (\A s \in sessions : s.id \in Nat)
  BY DirectoryAssumption, SMT DEF DirectoryTypeOK, Request, Session
<1>1. CASE SessionsKept
  <2>1. SessionsKnown'
    BY <1>1, SMT DEF SessionsKept, SessionsKnown
  <2>2. \A r \in Request : SessionHeld(r) => SessionHeld(r)'
    BY <1>1, SMT DEF SessionsKept, SessionHeld
  <2> QED
    BY <2>1, <2>2
<1>2. CASE SessionOpened
  <2>1. PICK s : /\ sessions' = sessions \union {s} /\ s.id = given.sessions + 1
                 /\ s.user \in DOMAIN users
                 /\ given'.sessions = given.sessions + 1 /\ users' = users
    BY <1>2, NewSession, Zenon
  <2>2. SessionsKnown'
    BY <1>0, <2>1, SMT DEF SessionsKnown
  <2>3. \A r \in Request : SessionHeld(r) => SessionHeld(r)'
    BY <1>0, <2>1, SMT DEF SessionHeld
  <2> QED
    BY <2>2, <2>3
<1> QED
  BY <1>1, <1>2, SessionsFollow

Holds ==
    /\ \A h \in Handlers : req[h].pc \in {"repo", "rename"} => NameHeld(req[h])
    /\ \A h \in Handlers : req[h].pc \in {"password", "sign_out"} => SessionHeld(req[h])

LEMMA HoldsStays ==
    ASSUME RequestsOK, RequestsOK', DirectoryTypeOK, IdsGiven, SessionsKnown, TableStep, Holds,
           NEW h \in Handlers, RequestStep(h)
    PROVE  Holds'
<1>1. PICK r : req' = [req EXCEPT ![h] = r] /\ (r.pc \in Guarded => Justified(h, r))
  BY DEF RequestStep
<1>2. \A g \in Handlers : g # h => req'[g] = req[g]
  BY <1>1 DEF RequestsOK, RequestsTypeOK
<1>3. req'[h] = r /\ \A g \in Handlers : req[g] \in Request
  BY <1>1 DEF RequestsOK, RequestsTypeOK
<1>4. ASSUME r.pc \in {"repo", "rename"} PROVE NameHeld(r)'
  <2>1. NameHeld(r) /\ UNCHANGED tables
    BY <1>1, <1>4 DEF Guarded, Justified
  <2> QED
    BY <2>1 DEF NameHeld, tables
<1>5. ASSUME r.pc \in {"password", "sign_out"} PROVE SessionHeld(r)'
  <2>1. CASE r.pc = "password"
    <3>1. SessionHeld(r) /\ UNCHANGED tables
      BY <1>1, <2>1 DEF Guarded, Justified
    <3> QED
      BY <3>1 DEF SessionHeld, tables
  <2>2. CASE r.pc = "sign_out"
    <3>1. PasswordWritten(h) /\ r = [req[h] EXCEPT !.pc = "sign_out"]
      BY <1>1, <2>2, Zenon DEF Guarded, Justified, SettingUp
    <3>2. req[h].pc = "password"
      BY <3>1 DEF PasswordWritten
    <3>3. PICK old \in Request : old = req[h]
      BY <1>3
    <3>4. SessionHeld(old)'
      BY <3>2, <3>3, SessionHeldStays DEF Holds
    <3>5. r.session = old.session /\ r.who = old.who
      BY <3>1, <3>3, SMT DEF Request
    <3> QED
      BY <3>4, <3>5 DEF SessionHeld
  <2> QED
    BY <1>5, <2>1, <2>2
<1>6. ASSUME NEW g \in Handlers, req'[g].pc \in {"repo", "rename"} PROVE NameHeld(req[g])'
  BY <1>2, <1>3, <1>4, <1>6, NameHeldStays DEF Holds
<1> QED
  BY <1>2, <1>3, <1>4, <1>5, <1>6, NameHeldStays, SessionHeldStays DEF Holds

LEMMA EstablishedStays ==
    ASSUME RequestsOK, RequestsOK', DirectoryTypeOK, DirectoryTypeOK', IdsGiven,
           ActiveAdministratorStays, TableStep, Established, NEW h \in Handlers, RequestStep(h)
    PROVE  Established'
<1>1. PICK r : req' = [req EXCEPT ![h] = r] /\ (r.pc \in Guarded => Justified(h, r))
  BY DEF RequestStep
<1>2. req'[h] = r /\ \A g \in Handlers : g # h => req'[g] = req[g]
  BY <1>1 DEF RequestsOK, RequestsTypeOK
<1>3. users # << >> => users' # << >>
  BY AdministratorStays
<1>4. ASSUME r.pc \in SettingUp PROVE users # << >>
  <2>1. Justified(h, r)
    BY <1>1, <1>4 DEF Guarded
  <2>2. CASE r.pc \in {"insert", "select"}
    BY <2>1, <2>2 DEF Justified
  <2>3. CASE r.pc \notin {"insert", "select"}
    <3>1. req[h].pc \in SettingUp
      BY <1>4, <2>1, <2>3 DEF Justified, StateSelected, SettingUp
    <3> QED
      BY <3>1 DEF Established, SettingUp
  <2> QED
    BY <2>2, <2>3
<1> QED
  BY <1>2, <1>3, <1>4 DEF Established, SettingUp

(* Repositories follow their owners. *)
LEMMA RepositoriesFollow ==
    ASSUME RequestsOK, DirectoryTypeOK, IdsGiven, Holds, RepositoriesUnderTheirOwner, TableStep
    PROVE  RepositoriesUnderTheirOwner'
<1> DEFINE Under(r) == IF r.org # NoOrg THEN r.org \in DOMAIN orgs /\ orgs[r.org] = r.ns
                       ELSE r.owner \in DOMAIN users /\ users[r.owner].name = r.ns
<1>0. \A r \in repos : Under(r) /\ r \in Repository
  BY DEF RepositoriesUnderTheirOwner, DirectoryTypeOK
<1>1. CASE UNCHANGED <<users, orgs, repos>>
  BY <1>1 DEF RepositoriesUnderTheirOwner
<1>2. CASE AccountCreated
  <2>1. PICK row \in Account, first \in BOOLEAN : ~CreateRefused(row, first) /\ InsertAccount(row)
    BY <1>2 DEF AccountCreated
  <2>2. /\ DOMAIN users \subseteq DOMAIN users' /\ \A u \in DOMAIN users : users'[u] = users[u]
        /\ orgs' = orgs
    BY <2>1, NewAccountRow
  <2>3. repos' = repos
    BY <2>1 DEF InsertAccount
  <2> QED
    BY <1>0, <2>2, <2>3 DEF RepositoriesUnderTheirOwner
<1>3. CASE OrganizationCreated
  <2>1. /\ DOMAIN orgs' = DOMAIN orgs \union {given'.orgs} /\ users' = users
        /\ \A o \in DOMAIN orgs : orgs'[o] = orgs[o]
    BY <1>3, NewOrganizationRow, Zenon DEF OrganizationCreated
  <2>2. repos' = repos
    BY <1>3 DEF OrganizationCreated, InsertOrganization
  <2> QED
    BY <1>0, <2>1, <2>2 DEF RepositoriesUnderTheirOwner
<1>4. CASE AccountDeleted
  <2>1. PICK u : ~DeleteRefused(u) /\ DeleteAccount(u)
    BY <1>4 DEF AccountDeleted
  <2>2. /\ \A r \in repos : r.owner # u
        /\ \A v \in DOMAIN users : v # u => v \in DOMAIN users' /\ users'[v] = users[v]
        /\ UNCHANGED <<orgs, repos>>
    BY <2>1 DEF DeleteRefused, DeleteAccount, Keep
  <2> QED
    BY <1>0, <2>2 DEF RepositoriesUnderTheirOwner
<1>5. CASE OrganizationGone
  <2>1. PICK o : DeleteOrganization(o)
    BY <1>5 DEF OrganizationGone
  <2>2. /\ \A r \in repos : r.org # o
        /\ \A p \in DOMAIN orgs : p # o => p \in DOMAIN orgs' /\ orgs'[p] = orgs[p]
        /\ UNCHANGED <<users, repos>>
    BY <2>1 DEF DeleteOrganization, Keep
  <2> QED
    BY <1>0, <2>2 DEF RepositoriesUnderTheirOwner
<1>6. CASE AccountUpdated \/ PasswordSet
  <2>1. DOMAIN users' = DOMAIN users /\ UNCHANGED <<orgs, repos>>
    BY <1>6 DEF AccountUpdated, UpdateAccount, PasswordSet, PasswordWritten, SetPassword
  <2>2. AccountsKept
    BY <1>6, <2>1, AccountsFollow, NewAccountRow, SMT DEF AccountCreated
  <2> QED
    BY <1>0, <2>1, <2>2 DEF AccountsKept, RepositoriesUnderTheirOwner
<1>7. CASE ReposWritten
  <2>1. UNCHANGED <<users, orgs>>
    BY <1>7 DEF ReposWritten, SetRepos
  <2>2. ASSUME NEW r \in repos' PROVE Under(r)
    <3>1. CASE r \in repos
      BY <1>0, <3>1
    <3>2. ASSUME NEW q \in repos, NEW u \in UserIds, q.org # NoOrg, r = [q EXCEPT !.owner = u]
          PROVE  Under(r)
      <4>1. r.org = q.org /\ r.ns = q.ns
        BY <1>0, <3>2, SMT DEF Repository
      <4> QED
        BY <1>0, <3>2, <4>1
    <3>3. ASSUME NEW h \in Handlers, req[h].pc \in {"repo", "rename"}, r = RowOf(req[h]), OwnerFits(r)
          PROVE  Under(r)
      <4>1. NameHeld(req[h])
        BY <3>3 DEF Holds
      <4>2. r.org = req[h].org /\ r.ns = req[h].name /\ r.owner = req[h].who
        BY <3>3 DEF RowOf
      <4> QED
        BY <3>3, <4>1, <4>2 DEF NameHeld, OwnerFits
    <3> QED
      BY <1>7, <3>1, <3>2, <3>3, Zenon DEF ReposWritten, SetRepos
  <2> QED
    BY <2>1, <2>2 DEF RepositoriesUnderTheirOwner
<1> QED
  BY <1>1, <1>2, <1>3, <1>4, <1>5, <1>6, <1>7, Zenon
     DEF TableStep, tables, SessionOpened, InsertSession, CredentialsGone, TokenCreated, SetTokens,
         MemberSet, SetMember, MemberGone, RemoveMember

(* Only its own step ends a sign-out. *)
LEMMA SignsOut ==
    ASSUME NEW h \in Handlers, req[h].pc = "sign_out",
           SignIn(h) \/ OwnAccount(h) \/ Administration(h) \/ SingleSignOn(h) \/ Membership(h) \/ Ownership(h)
    PROVE  SignedOut(h)
<1>1. ~SignIn(h)
  BY DEF SignIn, Free, SetupCounts, SetupInserts, LoginVerifies, OpenSession
<1>2. OwnAccount(h) => SignedOut(h)
  BY DEF OwnAccount, Free, PasswordWritten, TokensDropped, TokenInserted
<1>3. ~Administration(h)
  BY DEF Administration, Free, UserUpdated, DisabledSignedOut, UserInserted, RepositoriesReassigned, UserDeleted
<1>4. ~SingleSignOn(h)
  <2>1. ~Free(h)
    BY DEF Free
  <2> QED
    BY <2>1, Zenon DEF SingleSignOn, SignOnStarts, CallbackStarts, Answers, Begins, StateSelected, StateTaken,
         SignOnRefused, SubjectFound, NameChosen, SubjectInserted
<1>5. ~Membership(h)
  BY DEF Membership, Free, MemberJoins, MemberChanged, MemberRemoved
<1>6. ~Ownership(h)
  BY DEF Ownership, Free, RepositoryInserted, RepositoryRenamed
<1> QED
  BY <1>1, <1>2, <1>3, <1>4, <1>5, <1>6

-----------------------------------------------------------------------------
(* Sessions and passwords.                                                 *)

(* What OldSessionsEnd leaves open: the request that signs out does not keep *)
(* this very session.                                                        *)
SignsOutLater(s) ==
    \E h \in Handlers : req[h].pc = "sign_out" /\ req[h].who = s.user /\ req[h].session # s.id

SessionsFresh ==
    \A s \in sessions : s.late \/ s.proved = users[s.user].password \/ SignsOutLater(s)

LEMMA PasswordsKept ==
    ASSUME DirectoryTypeOK, IdsGiven, TableStep
    PROVE  \/ PasswordSet
           \/ /\ sessions' \subseteq sessions \/ SessionOpened
              /\ \A u \in DOMAIN users \intersect DOMAIN users' : users'[u].password = users[u].password
<1>0. \A u \in DOMAIN users : users[u] \in Account
  BY DEF DirectoryTypeOK
<1>1. CASE users' = users /\ (sessions' \subseteq sessions \/ SessionOpened)
  BY <1>1
<1>2. CASE AccountCreated
  <2>1. PICK row \in Account, first \in BOOLEAN : ~CreateRefused(row, first) /\ InsertAccount(row)
    BY <1>2 DEF AccountCreated
  <2>2. \A u \in DOMAIN users : users'[u] = users[u]
    BY <2>1, NewAccountRow
  <2> QED
    BY <2>1, <2>2 DEF InsertAccount
<1>3. CASE AccountUpdated
  <2>1. PICK u \in DOMAIN users, role \in Roles, disabled \in BOOLEAN : UpdateAccount(u, role, disabled)
    BY <1>3 DEF AccountUpdated
  <2>2. users' = [users EXCEPT ![u].role = role, ![u].disabled = disabled] /\ sessions' = sessions
    BY <2>1 DEF UpdateAccount
  <2>3. \A v \in DOMAIN users : users'[v].password = users[v].password
    BY <1>0, <2>2, SMT DEF Account
  <2> QED
    BY <2>2, <2>3
<1>4. CASE AccountDeleted
  <2>1. PICK u : DeleteAccount(u)
    BY <1>4 DEF AccountDeleted
  <2> QED
    BY <2>1 DEF DeleteAccount, Keep
<1> QED
  BY <1>1, <1>2, <1>3, <1>4, Zenon
     DEF TableStep, tables, SessionOpened, InsertSession, CredentialsGone, TokenCreated, SetTokens,
         OrganizationCreated, InsertOrganization, OrganizationGone, DeleteOrganization,
         MemberSet, SetMember, MemberGone, RemoveMember, ReposWritten, SetRepos

LEMMA FreshAfterPassword ==
    ASSUME RequestsOK, DirectoryTypeOK, SessionsKnown, Holds, SessionsFresh, PasswordSet
    PROVE  SessionsFresh'
<1>1. PICK g \in Handlers : PasswordWritten(g) /\ req[g].who \in DOMAIN users
  BY DEF PasswordSet
<1> DEFINE u == req[g].who
           kept == req[g].session
           new == users[u].password + 1
           renewed(s) == IF s.id = kept THEN [s EXCEPT !.proved = new, !.late = FALSE] ELSE s
<1>2. /\ req[g].pc = "password" /\ users' = [users EXCEPT ![u].password = new]
      /\ sessions' = {renewed(s) : s \in sessions} /\ req' = [req EXCEPT ![g].pc = "sign_out"]
  BY <1>1 DEF PasswordWritten, SetPassword, GoesTo
<1>3. /\ \A h \in Handlers : h # g => req'[h] = req[h]
      /\ req'[g].pc = "sign_out" /\ req'[g].who = u /\ req'[g].session = kept
  <2>1. req[g] \in Request /\ req'[g] = [req[g] EXCEPT !.pc = "sign_out"]
        /\ \A h \in Handlers : h # g => req'[h] = req[h]
    BY <1>2 DEF RequestsOK, RequestsTypeOK
  <2> QED
    BY <2>1, SMT DEF Request
<1>4. SessionHeld(req[g])
  BY <1>2 DEF Holds
<1> HIDE DEF new
<1>5. users'[u].password = new /\ \A v \in DOMAIN users : v # u => users'[v] = users[v]
  <2>1. users[u] \in Account
    BY <1>1 DEF DirectoryTypeOK
  <2>2. users'[u] = [users[u] EXCEPT !.password = new] /\ \A v \in DOMAIN users : v # u => users'[v] = users[v]
    BY <1>1, <1>2
  <2> QED
    BY <2>1, <2>2, SMT DEF Account
<1>6. ASSUME NEW s \in sessions, NEW t, t = renewed(s)
      PROVE  t.late \/ t.proved = users'[t.user].password \/ SignsOutLater(t)'
  <2>1. CASE s.id = kept
    <3>1. s.user = u
      BY <1>4, <2>1 DEF SessionHeld
    <3>2. s \in Session /\ t = [s EXCEPT !.proved = new, !.late = FALSE]
      BY <1>6, <2>1 DEF DirectoryTypeOK
    <3>3. t.proved = new /\ t.user = u
      BY <3>1, <3>2, SMT DEF Session
    <3> QED
      BY <1>5, <3>3
  <2>2. CASE s.id # kept /\ s.user = u
    <3>1. t = s
      BY <1>6, <2>2
    <3>2. SignsOutLater(t)'
      BY <1>3, <2>2, <3>1 DEF SignsOutLater
    <3> QED
      BY <3>2
  <2>3. CASE s.id # kept /\ s.user # u
    <3>1. t = s
      BY <1>6, <2>3
    <3>2. users'[s.user] = users[s.user]
      BY <1>5, <2>3 DEF SessionsKnown
    <3>3. SignsOutLater(s) => SignsOutLater(t)'
      BY <1>2, <1>3, <3>1 DEF SignsOutLater
    <3> QED
      BY <3>1, <3>2, <3>3 DEF SessionsFresh
  <2> QED
    BY <2>1, <2>2, <2>3
<1> HIDE DEF renewed
<1> QED
  BY <1>2, <1>6, Zenon DEF SessionsFresh

LEMMA FreshStays ==
    ASSUME RequestsOK, RequestsOK', DirectoryTypeOK, DirectoryTypeOK', IdsGiven, SessionsKnown, SessionsKnown',
           Holds, SessionsFresh, TableStep, NEW h \in Handlers, RequestStep(h),
           req[h].pc = "sign_out" => SignedOut(h)
    PROVE  SessionsFresh'
<1>1. PICK r : req' = [req EXCEPT ![h] = r]
  BY DEF RequestStep
<1>2. \A g \in Handlers : g # h => req'[g] = req[g]
  BY <1>1 DEF RequestsOK, RequestsTypeOK
<1>3. CASE PasswordSet
  BY <1>3, FreshAfterPassword
<1>4. CASE SignedOut(h)
  <2>1. /\ sessions' = sessions \ {s \in SessionsOf(req[h].who) : s.id # req[h].session}
        /\ users' = users
    BY <1>4 DEF SignedOut, DeleteSessions
  <2>2. ASSUME NEW s \in sessions', SignsOutLater(s) PROVE SignsOutLater(s)'
    <3>1. PICK g \in Handlers : req[g].pc = "sign_out" /\ req[g].who = s.user /\ req[g].session # s.id
      BY <2>2 DEF SignsOutLater
    <3>2. g # h
      BY <2>1, <3>1 DEF SessionsOf
    <3> QED
      BY <1>2, <3>1, <3>2 DEF SignsOutLater
  <2> QED
    BY <2>1, <2>2 DEF SessionsFresh
<1>5. CASE req[h].pc # "sign_out" /\ ~PasswordSet
  <2>1. \A s : SignsOutLater(s) => \E g \in Handlers : req'[g].pc = "sign_out" /\ req'[g].who = s.user /\ req'[g].session # s.id
    BY <1>2, <1>5 DEF SignsOutLater
  <2>2. ASSUME NEW s \in sessions, s \in sessions'
        PROVE  s.late \/ s.proved = users'[s.user].password \/ SignsOutLater(s)'
    <3>1. s.user \in DOMAIN users \intersect DOMAIN users'
      BY <2>2 DEF SessionsKnown
    <3>2. users'[s.user].password = users[s.user].password
      BY <1>5, <3>1, PasswordsKept
    <3>3. s.late \/ s.proved = users[s.user].password \/ SignsOutLater(s)
      BY DEF SessionsFresh
    <3> QED
      BY <2>1, <3>2, <3>3 DEF SignsOutLater
  <2>3. CASE sessions' \subseteq sessions
    BY <2>2, <2>3 DEF SessionsFresh
  <2>4. CASE SessionOpened
    <3>1. PICK s : sessions' = sessions \union {s} /\ (s.late \/ s.proved = users[s.user].password) /\ users' = users
      BY <2>4, NewSession, Zenon
    <3> QED
      BY <2>2, <3>1 DEF SessionsFresh
  <2> QED
    BY <1>5, <2>3, <2>4, PasswordsKept
<1> QED
  BY <1>3, <1>4, <1>5

-----------------------------------------------------------------------------
(* States of single sign-on.                                               *)

StatesTakenOnce ==
    /\ \A s \in Servers, i \in 1 .. MaxStates :
         taken[<<s, i>>] <= 1 /\ (taken[<<s, i>>] # 0 => states[i] = "used")
    /\ \A g, h \in Handlers :
         req[g].pc = "take" /\ req[h].pc = "take" /\ req[g].server = req[h].server => g = h
    /\ \A h \in Handlers : req[h].pc = "take" => taken[<<req[h].server, req[h].session>>] = 0

LEMMA SignOnFollows ==
    ASSUME NEW h \in Handlers, SingleSignOn(h)
    PROVE  \/ UNCHANGED signOnVars
           \/ \E state \in 1 .. MaxStates : SignOnStarts(h, state)
           \/ StateTaken(h)
  BY Zenon DEF SingleSignOn, CallbackStarts, StateSelected, SignOnRefused, SubjectFound, NameChosen, SubjectInserted

LEMMA StatesStay ==
    ASSUME RequestsOK, SignOnTypeOK, StatesTakenOnce, NEW h \in Handlers, RequestStep(h),
           UNCHANGED signOnVars \/ (\E state \in 1 .. MaxStates : SignOnStarts(h, state)) \/ StateTaken(h)
    PROVE  SignOnTypeOK' /\ StatesTakenOnce'
<1>1. PICK r : req' = [req EXCEPT ![h] = r] /\ (r.pc \in Guarded => Justified(h, r))
  BY DEF RequestStep
<1>2. req'[h] = r /\ \A g \in Handlers : g # h => req'[g] = req[g]
  BY <1>1 DEF RequestsOK, RequestsTypeOK
<1>3. \A g \in Handlers : req[g].server \in Servers /\ (req[g].pc = "take" => req[g].session \in 1 .. MaxStates)
  BY DEF RequestsOK, RequestsTypeOK, Request, Carries
<1>4. ASSUME r.pc = "take"
      PROVE  /\ states[r.session] = "pending" /\ r.session \in 1 .. MaxStates /\ r.server \in Servers
             /\ \A g \in Handlers : req[g].pc = "take" => req[g].server # r.server
             /\ UNCHANGED signOnVars
  <2>1. StateSelected(h) /\ states[r.session] = "pending" /\ r.server = req[h].server
    BY <1>1, <1>4, Zenon DEF Justified, Guarded, SettingUp
  <2>2. req'[h].session = req[h].session
    BY <1>2, <1>4, <2>1, SMT DEF StateSelected, GoesTo, Ends, Continues, Idle, RequestsOK, RequestsTypeOK, Request
  <2>3. req[h].session \in 1 .. MaxStates
    BY <2>1 DEF StateSelected, RequestsOK, Carries
  <2> QED
    BY <1>2, <1>3, <2>1, <2>2, <2>3, Zenon DEF StateSelected, Taking
<1>5. CASE UNCHANGED signOnVars
  <2>1. SignOnTypeOK' /\ states' = states /\ taken' = taken
    BY <1>5 DEF SignOnTypeOK, signOnVars
  <2>2. ASSUME r.pc = "take" PROVE taken[<<r.server, r.session>>] = 0
    BY <1>4, <2>2 DEF StatesTakenOnce
  <2>3. \A f, g \in Handlers :
          req'[f].pc = "take" /\ req'[g].pc = "take" /\ req'[f].server = req'[g].server => f = g
    BY <1>2, <1>4 DEF StatesTakenOnce
  <2>4. \A g \in Handlers : req'[g].pc = "take" => taken[<<req'[g].server, req'[g].session>>] = 0
    BY <1>2, <2>2 DEF StatesTakenOnce
  <2> QED
    BY <2>1, <2>3, <2>4 DEF StatesTakenOnce
<1>6. ASSUME NEW i \in 1 .. MaxStates, SignOnStarts(h, i) PROVE SignOnTypeOK' /\ StatesTakenOnce'
  <2>1. /\ states[i] = "new" /\ states' = [states EXCEPT ![i] = "pending"] /\ taken' = taken
        /\ req'[h].pc = "idle"
    BY <1>2, <1>6, <1>1, IdleType DEF SignOnStarts, Answers, Begins, RequestsOK, RequestsTypeOK
  <2>2. SignOnTypeOK'
    BY <2>1 DEF SignOnTypeOK
  <2>3. \A s \in Servers, j \in 1 .. MaxStates :
          taken[<<s, j>>] <= 1 /\ (taken[<<s, j>>] # 0 => states'[j] = "used")
    BY <2>1 DEF StatesTakenOnce, SignOnTypeOK
  <2>4. \A g \in Handlers : req'[g].pc = "take" => g # h /\ req'[g] = req[g]
    BY <1>2, <2>1
  <2> QED
    BY <2>1, <2>2, <2>3, <2>4 DEF StatesTakenOnce
<1>7. CASE StateTaken(h)
  <2> DEFINE s0 == req[h].server
             i0 == req[h].session
             x0 == <<s0, i0>>
  <2>1. /\ req[h].pc = "take" /\ states' = [states EXCEPT ![i0] = "used"]
        /\ taken' = [taken EXCEPT ![x0] = @ + 1] /\ req'[h].pc = "provision"
    BY <1>7, SMT DEF StateTaken, GoesTo, RequestsOK, RequestsTypeOK, Request
  <2>2. s0 \in Servers /\ i0 \in 1 .. MaxStates /\ taken[x0] = 0
    BY <1>3, <2>1 DEF StatesTakenOnce
  <2>3. SignOnTypeOK'
    BY <2>1, <2>2 DEF SignOnTypeOK
  <2>4. /\ taken'[x0] = 1 /\ states'[i0] = "used"
        /\ \A s \in Servers, j \in 1 .. MaxStates : <<s, j>> # x0 => taken'[<<s, j>>] = taken[<<s, j>>]
        /\ \A j \in 1 .. MaxStates : j # i0 => states'[j] = states[j]
    BY <2>1, <2>2 DEF SignOnTypeOK
  <2>5. \A s \in Servers, j \in 1 .. MaxStates :
          taken'[<<s, j>>] <= 1 /\ (taken'[<<s, j>>] # 0 => states'[j] = "used")
    <3>1. ASSUME NEW s \in Servers, NEW j \in 1 .. MaxStates
          PROVE  taken'[<<s, j>>] <= 1 /\ (taken'[<<s, j>>] # 0 => states'[j] = "used")
      <4>1. CASE s = s0 /\ j = i0
        BY <2>4, <4>1
      <4>2. CASE ~(s = s0 /\ j = i0)
        <5>1. taken'[<<s, j>>] = taken[<<s, j>>]
          BY <2>4, <4>2
        <5>2. states[j] = "used" => states'[j] = "used"
          BY <2>4
        <5> QED
          BY <5>1, <5>2 DEF StatesTakenOnce
      <4> QED
        BY <4>1, <4>2
    <3> QED
      BY <3>1
  <2>6. \A g \in Handlers : req'[g].pc = "take" => g # h /\ req'[g] = req[g]
    BY <1>2, <2>1
  <2>7. \A g \in Handlers : req'[g].pc = "take" => <<req[g].server, req[g].session>> # x0
    BY <2>1, <2>6, SMT DEF StatesTakenOnce
  <2>8. \A g \in Handlers : req'[g].pc = "take" => taken'[<<req'[g].server, req'[g].session>>] = 0
    BY <1>3, <2>4, <2>6, <2>7 DEF StatesTakenOnce
  <2> QED
    BY <2>3, <2>5, <2>6, <2>8 DEF StatesTakenOnce
<1> QED
  BY <1>5, <1>6, <1>7

-----------------------------------------------------------------------------
(* Failed sign-ins.                                                        *)

Verifying(n) == {h \in Handlers : req[h].pc = "verify" /\ req[h].name = n}

FailuresHeld ==
    /\ failures \in [Names -> Nat]
    /\ \A n \in Names : failures[n] + Cardinality(Verifying(n)) < MaxFailures + Cardinality(Handlers)

LEMMA VerifyingCount ==
    ASSUME NEW n
    PROVE  /\ IsFiniteSet(Verifying(n)) /\ Cardinality(Verifying(n)) \in Nat
           /\ Cardinality(Verifying(n)) <= Cardinality(Handlers)
           /\ Cardinality(Handlers) \in Nat \ {0}
<1>1. Verifying(n) \subseteq Handlers /\ IsFiniteSet(Handlers)
  BY RequestsAssumption DEF Verifying
<1>2. Cardinality(Handlers) # 0
  BY <1>1, RequestsAssumption, FS_EmptySet
<1> QED
  BY <1>1, <1>2, FS_Subset, FS_CardinalityType

LEMMA FailuresStay ==
    ASSUME RequestsOK, RequestsOK', FailuresHeld, NEW h \in Handlers, RequestStep(h),
           \/ UNCHANGED failures
           \/ LoginVerifies(h)
           \/ \E n \in Names, p \in 1 .. MaxPasswords : LoginStarts(h, n, p)
    PROVE  FailuresHeld'
<1>1. PICK r : req' = [req EXCEPT ![h] = r] /\ (r.pc \in Guarded => Justified(h, r))
  BY DEF RequestStep
<1>2. req'[h] = r /\ \A g \in Handlers : g # h => req'[g] = req[g]
  BY <1>1 DEF RequestsOK, RequestsTypeOK
<1>3. /\ MaxFailures \in Nat /\ \A n \in Names : failures[n] \in Nat
      /\ req[h].name \in Names
  BY AccountsAssumption DEF FailuresHeld, RequestsOK, RequestsTypeOK, Request
<1>4. \A n : (Verifying(n))' = {g \in Handlers : req'[g].pc = "verify" /\ req'[g].name = n}
  BY DEF Verifying
<1>5. \A n : /\ Cardinality(Verifying(n)) \in Nat /\ IsFiniteSet(Verifying(n))
             /\ Cardinality(Handlers) \in Nat
  BY VerifyingCount
<1>6. ASSUME NEW n, r.pc # "verify" \/ r.name # n
      PROVE  /\ Cardinality(Verifying(n))' <= Cardinality(Verifying(n))
             /\ Cardinality(Verifying(n))' \in Nat
             /\ h \in Verifying(n) => Cardinality(Verifying(n))' <= Cardinality(Verifying(n)) - 1
  <2>1. Verifying(n)' \subseteq Verifying(n) \ {h}
    BY <1>2, <1>4, <1>6 DEF Verifying
  <2>2. IsFiniteSet(Verifying(n) \ {h}) /\ (h \in Verifying(n) => Cardinality(Verifying(n) \ {h}) = Cardinality(Verifying(n)) - 1)
        /\ (h \notin Verifying(n) => Cardinality(Verifying(n) \ {h}) = Cardinality(Verifying(n)))
    BY <1>5, FS_RemoveElement
  <2>3. Cardinality(Verifying(n)') <= Cardinality(Verifying(n) \ {h}) /\ Cardinality(Verifying(n)') \in Nat
    BY <2>1, <2>2, FS_Subset, FS_CardinalityType
  <2> QED
    BY <1>5, <2>2, <2>3
<1>7. ASSUME NEW m \in Names, NEW p, LoginStarts(h, m, p), r.pc = "verify" => r.name = m PROVE FailuresHeld'
  <2>1. PICK left \in 0 .. failures[m] : left < MaxFailures /\ failures' = [failures EXCEPT ![m] = left]
    BY <1>7 DEF LoginStarts
  <2>2. left \in Nat
    BY <1>3, <2>1
  <2>3. failures' \in [Names -> Nat]
    BY <2>1, <2>2 DEF FailuresHeld
  <2>4. ASSUME NEW n \in Names PROVE failures'[n] + Cardinality(Verifying(n))' < MaxFailures + Cardinality(Handlers)
    <3>1. CASE n = m
      <4>1. failures'[n] = left
        BY <2>1, <3>1 DEF FailuresHeld
      <4>2. IsFiniteSet(Handlers) /\ Verifying(n)' \subseteq Handlers
        BY <1>4, RequestsAssumption
      <4>3. Cardinality(Verifying(n))' <= Cardinality(Handlers) /\ Cardinality(Verifying(n))' \in Nat
        BY <4>2, FS_Subset, FS_CardinalityType
      <4>4. Cardinality(Handlers) \in Nat
        BY <1>5
      <4> QED
        BY <1>3, <2>1, <2>2, <4>1, <4>3, <4>4, SMT
    <3>2. CASE n # m
      <4>1. failures'[n] = failures[n]
        BY <2>1, <3>2 DEF FailuresHeld
      <4>2. r.pc # "verify" \/ r.name # n
        BY <1>7, <3>2
      <4> QED
        BY <1>3, <1>5, <1>6, <4>1, <4>2 DEF FailuresHeld
    <3> QED
      BY <3>1, <3>2
  <2> QED
    BY <2>3, <2>4 DEF FailuresHeld
<1>8. CASE r.pc = "verify"
  <2>1. LoginStarts(h, r.name, r.password)
    BY <1>1, <1>8, Zenon DEF Justified, Guarded, SettingUp
  <2>2. r.name \in Names
    BY <1>2 DEF RequestsOK, RequestsTypeOK, Request
  <2> QED
    BY <1>7, <2>1, <2>2
<1>9. CASE r.pc # "verify"
  <2>1. CASE UNCHANGED failures
    BY <1>3, <1>5, <1>6, <1>9, <2>1 DEF FailuresHeld
  <2>2. CASE LoginVerifies(h)
    <3> DEFINE m == req[h].name
    <3>1. h \in Verifying(m)
      BY <2>2 DEF LoginVerifies, Verifying
    <3>2. failures' = [failures EXCEPT ![m] = @ + 1] \/ failures' = [failures EXCEPT ![m] = 0]
      BY <2>2 DEF LoginVerifies
    <3>3. failures' \in [Names -> Nat] /\ failures'[m] <= failures[m] + 1
          /\ \A n \in Names : n # m => failures'[n] = failures[n]
      BY <1>3, <3>2 DEF FailuresHeld
    <3>4. ASSUME NEW n \in Names PROVE failures'[n] + Cardinality(Verifying(n))' < MaxFailures + Cardinality(Handlers)
      <4>1. failures[n] + Cardinality(Verifying(n)) < MaxFailures + Cardinality(Handlers)
        BY DEF FailuresHeld
      <4>2. CASE n = m
        BY <1>3, <1>5, <1>6, <1>9, <3>1, <3>3, <4>1, <4>2, SMT
      <4>3. CASE n # m
        BY <1>3, <1>5, <1>6, <1>9, <3>3, <4>1, <4>3, SMT
      <4> QED
        BY <4>2, <4>3
    <3> QED
      BY <3>3, <3>4 DEF FailuresHeld
  <2>3. ASSUME NEW n \in Names, NEW p, LoginStarts(h, n, p) PROVE FailuresHeld'
    BY <1>7, <1>9, <2>3
  <2> QED
    BY <2>1, <2>2, <2>3
<1> QED
  BY <1>8, <1>9

-----------------------------------------------------------------------------
(* Members.                                                                *)

LEMMA AdminOfOrganizationStays ==
    ASSUME DirectoryTypeOK, TableStep, users' = users,
           NEW o \in DOMAIN orgs \intersect DOMAIN orgs', ActingAdmins(o) # {}
    PROVE  ActingAdmins(o)' # {}
<1> DEFINE Acts(m, v) == /\ v \in DOMAIN users /\ <<o, v>> \in DOMAIN m /\ m[<<o, v>>] = "admin"
                         /\ ~users[v].disabled /\ Can(v, "repos.create")
<1>1. \A v : (v \in ActingAdmins(o) <=> Acts(members, v)) /\ (v \in ActingAdmins(o)' <=> Acts(members', v))
  BY DEF ActingAdmins, Can
<1>2. PICK v : v \in ActingAdmins(o)
  OBVIOUS
<1>3. ASSUME NEW u, ~LastActingAdmin(o, u) PROVE \E w \in ActingAdmins(o) : w # u
  <2>1. CASE u \in ActingAdmins(o)
    <3>1. IsFiniteSet(ActingAdmins(o))
      BY FiniteUsers DEF ActingAdmins
    <3> QED
      BY <1>3, <2>1, <3>1, AnotherOne DEF LastActingAdmin
  <2>2. CASE u \notin ActingAdmins(o)
    BY <1>2, <2>2
  <2> QED
    BY <2>1, <2>2
<1>4. ASSUME NEW w \in ActingAdmins(o), <<o, w>> \in DOMAIN members', members'[<<o, w>>] = members[<<o, w>>]
      PROVE  ActingAdmins(o)' # {}
  <2>1. Acts(members', w)
    BY <1>1, <1>4
  <2> QED
    BY <1>1, <2>1
<1> HIDE DEF Acts
<1>5. \A w \in ActingAdmins(o) : <<o, w>> \in DOMAIN members /\ w \in DOMAIN users
  BY DEF ActingAdmins
<1>6. CASE members' = members
  BY <1>2, <1>4, <1>5, <1>6
<1>7. CASE AccountDeleted
  <2>1. PICK u : DeleteAccount(u)
    BY <1>7 DEF AccountDeleted
  <2>2. /\ DOMAIN users' = {w \in DOMAIN users : w # u}
        /\ members' = [m \in {m \in DOMAIN members : m[2] # u} |-> members[m]]
    BY <2>1 DEF DeleteAccount, Keep
  <2>3. v # u
    BY <1>2, <1>5, <2>2
  <2> QED
    BY <1>2, <1>4, <1>5, <2>2, <2>3
<1>8. CASE OrganizationGone
  <2>1. PICK p : DeleteOrganization(p)
    BY <1>8 DEF OrganizationGone
  <2>2. /\ DOMAIN orgs' = {q \in DOMAIN orgs : q # p}
        /\ members' = [m \in {m \in DOMAIN members : m[1] # p} |-> members[m]]
    BY <2>1 DEF DeleteOrganization, Keep
  <2> QED
    BY <1>2, <1>4, <1>5, <2>2
<1>9. CASE MemberSet
  <2>1. PICK p \in DOMAIN orgs, u \in DOMAIN users, role \in OrgRoles :
          (role = "admin" \/ ~LastActingAdmin(p, u)) /\ SetMember(p, u, role)
    BY <1>9 DEF MemberSet
  <2>2. members' = [m \in DOMAIN members \union {<<p, u>>} |-> IF m = <<p, u>> THEN role ELSE members[m]]
    BY <2>1 DEF SetMember
  <2>3. ASSUME NEW w \in ActingAdmins(o), w # u \/ p # o PROVE ActingAdmins(o)' # {}
    <3>1. <<o, w>> # <<p, u>>
      BY <2>3
    <3>2. <<o, w>> \in DOMAIN members' /\ members'[<<o, w>>] = members[<<o, w>>]
      BY <1>5, <2>2, <3>1
    <3> QED
      BY <1>4, <3>2
  <2>4. CASE p # o \/ v # u
    BY <1>2, <2>3, <2>4
  <2>5. CASE p = o /\ v = u /\ role = "admin"
    <3>1. <<o, v>> \in DOMAIN members' /\ members'[<<o, v>>] = "admin"
      BY <2>2, <2>5
    <3>2. Acts(members', v)
      BY <1>1, <1>2, <3>1 DEF Acts
    <3> QED
      BY <1>1, <3>2
  <2>6. CASE p = o /\ ~LastActingAdmin(p, u)
    BY <1>3, <2>3, <2>6
  <2> QED
    BY <2>1, <2>4, <2>5, <2>6
<1>10. CASE MemberGone
  <2>1. PICK p, u : ~LastActingAdmin(p, u) /\ RemoveMember(p, u)
    BY <1>10 DEF MemberGone
  <2>2. members' = [m \in {m \in DOMAIN members : m # <<p, u>>} |-> members[m]]
    BY <2>1 DEF RemoveMember, Keep
  <2>3. PICK w \in ActingAdmins(o) : w # u \/ p # o
    BY <1>2, <1>3, <2>1
  <2>4. <<o, w>> # <<p, u>>
    BY <2>3
  <2> QED
    BY <1>4, <1>5, <2>2, <2>4
<1> QED
  BY <1>6, <1>7, <1>8, <1>9, <1>10, Zenon
     DEF TableStep, tables, AccountCreated, InsertAccount, AccountUpdated, UpdateAccount,
         PasswordSet, PasswordWritten, SetPassword, SessionOpened, InsertSession, CredentialsGone,
         TokenCreated, SetTokens, OrganizationCreated, InsertOrganization, ReposWritten, SetRepos

-----------------------------------------------------------------------------
(* The inductive invariant.                                                *)

SiteInv ==
    /\ DirectoryTypeOK /\ RequestsOK /\ SignOnTypeOK
    /\ IdsGiven /\ NamesDistinct /\ OneAccountPerSubject /\ OwnerUnique
    /\ ActiveAdministratorStays /\ Established
    /\ SessionsKnown /\ Holds /\ SessionsFresh /\ RepositoriesUnderTheirOwner
    /\ StatesTakenOnce /\ FailuresHeld

(* One step of one request. *)
LEMMA StepFacts ==
    ASSUME SiteInv, Next
    PROVE  \E h \in Handlers :
             /\ TableStep /\ RequestsOK' /\ RequestStep(h)
             /\ req[h].pc = "sign_out" => SignedOut(h)
             /\ UNCHANGED signOnVars \/ (\E state \in 1 .. MaxStates : SignOnStarts(h, state)) \/ StateTaken(h)
             /\ \/ UNCHANGED failures \/ LoginVerifies(h)
                \/ \E n \in Names, p \in 1 .. MaxPasswords : LoginStarts(h, n, p)
<1>0. RequestsOK /\ DirectoryTypeOK /\ Established /\ SessionsKnown /\ IdsGiven
  BY DEF SiteInv
<1>1. PICK h \in Handlers :
        \/ (SignIn(h) \/ OwnAccount(h) \/ Administration(h)) /\ UNCHANGED signOnVars
        \/ SingleSignOn(h)
        \/ (Membership(h) \/ Ownership(h)) /\ UNCHANGED <<failures, signOnVars>>
  BY DEF Next
<1>2. TableStep
  BY <1>0, <1>1, SignInTables, OwnAccountTables, AdministrationTables, SingleSignOnTables, MembershipTables, OwnershipTables
<1>3. RequestsOK'
  BY <1>0, <1>1, SignInRequest, OwnAccountRequest, AdministrationRequest, SingleSignOnRequest, MembershipRequest, OwnershipRequest
<1>4. RequestStep(h)
  BY <1>0, <1>1, SignInStep, OwnAccountStep, AdministrationStep, SingleSignOnStep, MembershipStep, OwnershipStep
<1>5. req[h].pc = "sign_out" => SignedOut(h)
  BY <1>1, SignsOut
<1>6. UNCHANGED signOnVars \/ (\E state \in 1 .. MaxStates : SignOnStarts(h, state)) \/ StateTaken(h)
  BY <1>1, SignOnFollows DEF signOnVars
<1>7. SignIn(h) => \/ UNCHANGED failures \/ LoginVerifies(h)
                   \/ \E n \in Names, p \in 1 .. MaxPasswords : LoginStarts(h, n, p)
  BY Zenon DEF SignIn, SetupStarts, SetupCounts, SetupInserts, OpenSession
<1>8. OwnAccount(h) => UNCHANGED failures
  BY Zenon DEF OwnAccount, Expire, Logout, RevokeSession, RevokeOthers, ChangePassword, CreateToken, DeleteToken,
         PasswordWritten, SignedOut, TokensDropped, TokenInserted
<1>9. Administration(h) => UNCHANGED failures
  BY Zenon DEF Administration, ResetPassword, DeleteUser, RevokeFromAdmin, UpdateUser, CreateUser,
         UserUpdated, DisabledSignedOut, UserInserted, RepositoriesReassigned, UserDeleted
<1>10. SingleSignOn(h) => UNCHANGED failures
  BY Zenon DEF SingleSignOn, SignOnStarts, CallbackStarts, StateSelected, StateTaken, SignOnRefused, SubjectFound,
         NameChosen, SubjectInserted
<1> QED
  BY <1>1, <1>2, <1>3, <1>4, <1>5, <1>6, <1>7, <1>8, <1>9, <1>10, Zenon

LEMMA SiteNext ==
    ASSUME SiteInv, [Next]_vars PROVE SiteInv'
<1> USE DEF SiteInv
<1>1. CASE UNCHANGED vars
  <2>0. /\ UNCHANGED <<users, orgs, members, repos, sessions, tokens, given>>
        /\ UNCHANGED <<req, asked, failures, states, taken>>
    BY <1>1 DEF vars, tables, requestVars, signOnVars
  <2>1. DirectoryTypeOK' /\ SignOnTypeOK'
    BY <2>0 DEF DirectoryTypeOK, SignOnTypeOK
  <2>2. RequestsOK'
    BY <2>0 DEF RequestsOK, RequestsTypeOK
  <2>3. IdsGiven' /\ NamesDistinct' /\ OneAccountPerSubject' /\ OwnerUnique'
    BY <2>0 DEF IdsGiven, NamesDistinct, OneAccountPerSubject, OwnerUnique
  <2>4. ActiveAdministratorStays' /\ Established'
    BY <2>0 DEF ActiveAdministratorStays, ActiveAdmins, Established
  <2>5. SessionsKnown' /\ Holds'
    BY <2>0 DEF SessionsKnown, Holds, NameHeld, SessionHeld
  <2>6. SessionsFresh'
    BY <2>0 DEF SessionsFresh, SignsOutLater
  <2>7. RepositoriesUnderTheirOwner' /\ StatesTakenOnce'
    BY <2>0 DEF RepositoriesUnderTheirOwner, StatesTakenOnce
  <2>8. FailuresHeld'
    BY <2>0 DEF FailuresHeld, Verifying
  <2> QED
    BY <2>1, <2>2, <2>3, <2>4, <2>5, <2>6, <2>7, <2>8
<1>2. CASE Next
  <2>1. PICK h \in Handlers :
             /\ TableStep /\ RequestsOK' /\ RequestStep(h)
             /\ req[h].pc = "sign_out" => SignedOut(h)
             /\ UNCHANGED signOnVars \/ (\E state \in 1 .. MaxStates : SignOnStarts(h, state)) \/ StateTaken(h)
             /\ \/ UNCHANGED failures \/ LoginVerifies(h)
                \/ \E n \in Names, p \in 1 .. MaxPasswords : LoginStarts(h, n, p)
    BY <1>2, StepFacts
  <2>2. DirectoryTypeOK'
    BY <2>1, TablesTyped
  <2>3. IdsGiven' /\ NamesDistinct' /\ OneAccountPerSubject' /\ OwnerUnique'
    BY <2>1, UniqueStays
  <2>4. ActiveAdministratorStays'
    BY <2>1, <2>2, AdministratorStays
  <2>5. Established'
    BY <2>1, <2>2, EstablishedStays
  <2>6. SessionsKnown'
    BY <2>1, SessionHeldStays
  <2>7. Holds'
    BY <2>1, HoldsStays
  <2>8. SessionsFresh'
    BY <2>1, <2>2, <2>6, FreshStays
  <2>9. RepositoriesUnderTheirOwner'
    BY <2>1, RepositoriesFollow
  <2>10. SignOnTypeOK' /\ StatesTakenOnce'
    BY <2>1, StatesStay
  <2>11. FailuresHeld'
    BY <2>1, FailuresStay
  <2> QED
    BY <2>1, <2>2, <2>3, <2>4, <2>5, <2>6, <2>7, <2>8, <2>9, <2>10, <2>11
<1> QED
  BY <1>1, <1>2

LEMMA InitRequests ==
    ASSUME Init
    PROVE  RequestsOK /\ SignOnTypeOK /\ Established /\ Holds /\ StatesTakenOnce /\ FailuresHeld
<1>1. /\ req = [h \in Handlers |-> Idle] /\ asked = 0 /\ failures = SeedFailures /\ SignOnInit
      /\ \A h \in Handlers : req[h] = Idle
  BY DEF Init
<1>2. RequestsOK
  BY <1>1, IdleType, RequestsAssumption DEF RequestsOK, RequestsTypeOK
<1>3. SignOnTypeOK
  BY <1>1 DEF SignOnInit, SignOnTypeOK
<1>4. Established /\ Holds
  BY <1>1, IdleType DEF Established, Holds
<1>5. StatesTakenOnce
  BY <1>1, IdleType DEF StatesTakenOnce, SignOnInit
<1>6. FailuresHeld
  <2>1. MaxFailures \in Nat /\ SeedFailures \in [Names -> 0 .. MaxFailures]
    BY AccountsAssumption, SeedAssumption
  <2>2. \A n \in Names : failures[n] \in 0 .. MaxFailures
    BY <1>1, <2>1
  <2>3. failures \in [Names -> Nat]
    BY <1>1, <2>1
  <2>4. \A n : Verifying(n) = {}
    BY <1>1, IdleType DEF Verifying
  <2>5. \A n : Cardinality(Verifying(n)) = 0 /\ Cardinality(Handlers) \in Nat \ {0}
    BY <2>4, FS_EmptySet, VerifyingCount
  <2> QED
    BY <2>1, <2>2, <2>3, <2>5 DEF FailuresHeld
<1> QED
  BY <1>2, <1>3, <1>4, <1>5, <1>6

LEMMA SiteInit ==
    ASSUME Init PROVE SiteInv
<1>1. RequestsOK /\ SignOnTypeOK /\ Established /\ Holds /\ StatesTakenOnce /\ FailuresHeld
  BY InitRequests
<1>0. MaxAccounts \in Nat /\ MaxOrgs \in Nat /\ MaxSessions \in Nat /\ MaxPasswords \in Nat
  BY DirectoryAssumption
<1>2. CASE EmptyTables
  <2>1. /\ users = << >> /\ orgs = << >> /\ members = << >>
        /\ repos = {} /\ sessions = {} /\ tokens = {}
        /\ given = [users |-> 0, orgs |-> 0, sessions |-> 0]
    BY <1>2 DEF EmptyTables
  <2>2. DOMAIN users = {} /\ DOMAIN orgs = {} /\ DOMAIN members = {}
    BY <2>1, SMT
  <2>3. /\ users \in [DOMAIN users -> Account] /\ orgs \in [DOMAIN orgs -> Names]
        /\ members \in [DOMAIN members -> OrgRoles]
    BY <2>1, SMT
  <2>4. given \in [users : 0 .. MaxAccounts, orgs : 0 .. MaxOrgs, sessions : 0 .. MaxSessions]
    BY <1>0, <2>1, SMT
  <2>5. DirectoryTypeOK
    BY <2>1, <2>2, <2>3, <2>4 DEF DirectoryTypeOK
  <2>6. IdsGiven /\ NamesDistinct /\ OneAccountPerSubject /\ OwnerUnique /\ ActiveAdministratorStays
    BY <2>1, <2>2 DEF IdsGiven, NamesDistinct, OneAccountPerSubject, OwnerUnique, ActiveAdministratorStays
  <2>7. SessionsKnown /\ SessionsFresh /\ RepositoriesUnderTheirOwner
    BY <2>1 DEF SessionsKnown, SessionsFresh, RepositoriesUnderTheirOwner
  <2> QED
    BY <1>1, <2>5, <2>6, <2>7 DEF SiteInv
<1>3. CASE SeededTables
  <2> DEFINE U == Cardinality(DOMAIN SeedUsers)
             O == Cardinality(DOMAIN SeedOrgs)
             Session0(u) == [id |-> u, user |-> u, proved |-> users[u].password, late |-> FALSE]
  <2>1. /\ users = SeedUsers /\ orgs = SeedOrgs /\ members = SeedMembers /\ repos = SeedRepos
        /\ tokens = {} /\ sessions = {Session0(u) : u \in DOMAIN users}
        /\ given = [users |-> U, orgs |-> O, sessions |-> U]
    BY <1>3 DEF SeededTables
  <2>2. /\ U \in 0 .. MaxSessions /\ DOMAIN users = 1 .. U /\ DOMAIN users \subseteq UserIds
        /\ users \in [DOMAIN users -> Account]
        /\ O \in Nat /\ DOMAIN orgs = 1 .. O /\ DOMAIN orgs \subseteq OrgIds
        /\ orgs \in [DOMAIN orgs -> Names]
        /\ DOMAIN members \subseteq (DOMAIN orgs) \X (DOMAIN users)
        /\ members \in [DOMAIN members -> OrgRoles] /\ repos \subseteq Repository
    BY <2>1, SeedAssumption
  <2> HIDE DEF U, O
  <2>3. U \in 0 .. MaxAccounts /\ O \in 0 .. MaxOrgs
    BY <1>0, <2>2, SMT DEF UserIds, OrgIds
  <2>4. given \in [users : 0 .. MaxAccounts, orgs : 0 .. MaxOrgs, sessions : 0 .. MaxSessions]
    BY <2>1, <2>2, <2>3, SMT
  <2>5. ASSUME NEW u \in DOMAIN users
        PROVE  /\ Session0(u) \in Session /\ Session0(u).id = u /\ Session0(u).user = u
               /\ Session0(u).proved = users[u].password
    <3>1. users[u].password \in 0 .. MaxPasswords /\ u \in UserIds /\ u \in 1 .. MaxSessions
      BY <1>0, <2>2, SMT DEF Account
    <3> QED
      BY <3>1, SMT DEF Session
  <2> HIDE DEF Session0
  <2>6. DirectoryTypeOK
    BY <2>1, <2>2, <2>4, <2>5 DEF DirectoryTypeOK
  <2>7. IdsGiven
    BY <2>1, <2>2 DEF IdsGiven
  <2>8. NamesDistinct /\ OneAccountPerSubject /\ OwnerUnique
    BY <2>1, SeedAssumption, SMT DEF NamesDistinct, OneAccountPerSubject, OwnerUnique
  <2>9. ActiveAdministratorStays
    BY <2>1, SeedAssumption DEF ActiveAdministratorStays, ActiveAdmins
  <2>10. SessionsKnown
    BY <2>1, <2>2, <2>5, SMT DEF SessionsKnown
  <2>11. SessionsFresh
    BY <2>1, <2>5 DEF SessionsFresh
  <2>12. RepositoriesUnderTheirOwner
    BY <2>1, SeedAssumption DEF RepositoriesUnderTheirOwner
  <2> QED
    BY <1>1, <2>6, <2>7, <2>8, <2>9, <2>10, <2>11, <2>12 DEF SiteInv
<1> QED
  BY <1>2, <1>3 DEF Init

(* The strengthened invariant is one: the properties below are read off it. *)
THEOREM SiteInvariant == Spec => []SiteInv
<1>1. Init => SiteInv
  BY SiteInit
<1>2. SiteInv /\ [Next]_vars => SiteInv'
  BY SiteNext
<1> QED
  BY <1>1, <1>2, PTL DEF Spec

(* Rows of every table, requests, states of single sign-on and counts of    *)
(* failures stay of their types, the references between tables (a           *)
(* membership has its organization and its account, a token its account)    *)
(* included.                                                                *)
THEOREM TypeCorrect == Spec => []TypeOK
<1>1. SiteInv => TypeOK
  BY DEF SiteInv, TypeOK, RequestsOK, FailuresHeld
<1> QED
  BY <1>1, SiteInvariant, PTL

(* Whatever administrators do to each other at the same moment, a site that *)
(* has accounts has an administrator who is not disabled                    *)
(* (update_user_guarded, delete_user).                                      *)
THEOREM AdministratorAlways == Spec => []ActiveAdministratorStays
<1>1. SiteInv => ActiveAdministratorStays
  BY DEF SiteInv
<1> QED
  BY <1>1, SiteInvariant, PTL

(* Setup makes at most one account, on any number of servers: the insert    *)
(* asks for an empty table in its own transaction (create_user).            *)
THEOREM OneOwnerAlways == Spec => []OneOwner
<1>1. ASSUME SiteInv PROVE OneOwner
  <2> DEFINE S == {u \in DOMAIN users : users[u].made = "setup"}
  <2>1. IsFiniteSet(S)
    BY <1>1, FiniteUsers DEF SiteInv
  <2>2. \A x, y \in S : x = y
    BY <1>1 DEF SiteInv, OwnerUnique
  <2>3. CASE S = {}
    BY <2>3, FS_EmptySet, SMT DEF OneOwner
  <2>4. CASE S # {}
    <3>1. PICK x \in S : TRUE
      BY <2>4
    <3>2. Cardinality(S) <= 1
      BY <2>1, <2>2, <3>1, AnotherOne
    <3> QED
      BY <3>2 DEF OneOwner
  <2> QED
    BY <2>3, <2>4
<1> QED
  BY <1>1, SiteInvariant, PTL

(* No two accounts or organizations share a name, however looking for a     *)
(* free one and taking it are interleaved.                                  *)
THEOREM NamesAlwaysDistinct == Spec => []NamesDistinct
<1>1. SiteInv => NamesDistinct
  BY DEF SiteInv
<1> QED
  BY <1>1, SiteInvariant, PTL

(* Two callbacks of one person end in one account.                          *)
THEOREM SubjectsAlwaysDistinct == Spec => []OneAccountPerSubject
<1>1. SiteInv => OneAccountPerSubject
  BY DEF SiteInv
<1> QED
  BY <1>1, SiteInvariant, PTL

(* A repository stays under the name of its organization or account,        *)
(* although the request that creates or renames it read that name before    *)
(* accounts and organizations may have gone and their names been given anew. *)
THEOREM RepositoriesAlwaysUnderTheirOwner == Spec => []RepositoriesUnderTheirOwner
<1>1. SiteInv => RepositoriesUnderTheirOwner
  BY DEF SiteInv
<1> QED
  BY <1>1, SiteInvariant, PTL

(* A session opened with a password that is no longer the account's either  *)
(* was late, or a request that is still to sign the account out is under    *)
(* way (change_password, reset_password).                                   *)
THEOREM OldSessionsAlwaysEnd == Spec => []OldSessionsEnd
<1>1. SiteInv => OldSessionsEnd
  BY DEF SiteInv, SessionsFresh, SignsOutLater, OldSessionsEnd
<1> QED
  BY <1>1, SiteInvariant, PTL

(* A server redeems a state of single sign-on once (take_oidc_state).       *)
THEOREM StatesAlwaysUsedOncePerServer == Spec => []StateUsedOncePerServer
<1>1. SiteInv => StateUsedOncePerServer
  BY DEF SiteInv, StatesTakenOnce, SignOnTypeOK, StateUsedOncePerServer
<1> QED
  BY <1>1, SiteInvariant, PTL

(* Attempts that passed the limit together exceed it by less than the       *)
(* requests that run at the same time (rate limit of sign-ins).             *)
THEOREM FailuresAlwaysBounded == Spec => []FailuresBounded
<1>1. ASSUME SiteInv PROVE FailuresBounded
  <2>1. ASSUME NEW n \in Names PROVE failures[n] < MaxFailures + Cardinality(Handlers)
    <3>1. /\ failures[n] \in Nat /\ failures[n] + Cardinality(Verifying(n)) < MaxFailures + Cardinality(Handlers)
          /\ Cardinality(Verifying(n)) \in Nat
      BY <1>1, VerifyingCount DEF SiteInv, FailuresHeld
    <3>2. MaxFailures \in Nat /\ Cardinality(Handlers) \in Nat
      BY AccountsAssumption, VerifyingCount
    <3> QED
      BY <3>1, <3>2, SMT
  <2> QED
    BY <2>1 DEF FailuresBounded
<1> QED
  BY <1>1, SiteInvariant, PTL

(* No change of members takes away an organization's last admin who can act *)
(* as one (set_organization_member, remove_organization_member).            *)
THEOREM MembershipAlwaysKeepsAnAdmin == Spec => MembershipKeepsAnAdmin
<1> DEFINE Kept == \A o \in DOMAIN orgs \cap DOMAIN orgs' :
                     ActingAdmins(o) # {} /\ ActingAdmins(o)' = {} => users' # users
<1>1. ASSUME SiteInv, Next PROVE Kept
  <2>1. TableStep /\ DirectoryTypeOK
    BY <1>1, StepFacts DEF SiteInv
  <2> QED
    BY <2>1, AdminOfOrganizationStays
<1>2. SiteInv /\ [Next]_vars => [Kept]_vars
  BY <1>1
<1> QED
  BY <1>2, SiteInvariant, PTL DEF Spec, MembershipKeepsAnAdmin
=============================================================================
