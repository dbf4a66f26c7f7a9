------------------------------ MODULE Accounts ------------------------------
(***************************************************************************)
(* Accounts, passwords, sessions and API tokens: AuthService               *)
(* (backend/app/auth.py) and the routes that use it (main.py).             *)
(***************************************************************************)
EXTENDS Requests

CONSTANTS
    MaxFailures     \* MAX_FAILURES_PER_ACCOUNT (8 in the code)

ASSUME AccountsAssumption == MaxFailures \in Nat \ {0}

VARIABLES
    failures    \* failed sign-ins within the window, per name

(* Setup: the first account, an administrator.  count_users and the insert   *)
(* are under _setup_lock, which is of one server.                            *)
NewOwner(n) == [name |-> n, role |-> "admin", disabled |-> FALSE, password |-> 1,
                subject |-> NoSubject, made |-> "setup"]

SetupStarts(h, n, s) ==
    /\ users = << >>
    /\ Begins(h, [Idle EXCEPT !.pc = "owner", !.name = n, !.server = s])
    /\ UNCHANGED <<tables, failures>>

SetupLocked(s) == \E h \in Handlers : req[h].pc \in {"owner_insert", "provision_insert"} /\ req[h].server = s

SetupCounts(h) ==
    /\ req[h].pc = "owner" /\ ~SetupLocked(req[h].server)
    /\ IF users = << >> THEN GoesTo(h, "owner_insert") ELSE Ends(h)
    /\ UNCHANGED <<tables, failures>>

SetupInserts(h) ==
    /\ req[h].pc = "owner_insert"
    /\ IF CreateRefused(NewOwner(req[h].name), TRUE)
        THEN Ends(h) /\ UNCHANGED tables
        ELSE /\ InsertAccount(NewOwner(req[h].name))
             /\ Continues(h, [req[h] EXCEPT !.pc = "open", !.who = NewAccount, !.password = 1])
    /\ UNCHANGED failures

(* create_session: the last step of every way to sign in.  An account       *)
(* deleted meanwhile has no session (foreign key).                           *)
OpenSession(h) ==
    /\ req[h].pc = "open" /\ Ends(h)
    /\ IF req[h].who \in DOMAIN users
        THEN InsertSession(req[h].who, req[h].password)
        ELSE UNCHANGED tables
    /\ UNCHANGED failures

(* Broken variant of LoginStarts: no limit is asked about.                   *)
LoginStartsFreely(h, n, password) ==
    /\ Begins(h, [Idle EXCEPT !.pc = "verify", !.name = n, !.password = password])
    /\ UNCHANGED <<tables, failures>>

(* Sign in with a password: failures older than the window are forgotten,    *)
(* then comes the rate limit, then the account as it is read, and the       *)
(* password checked against that row.  The count of the        *)
(* address, which is the same but for its bound and for the reset, is left   *)
(* out.                                                                      *)
LoginStarts(h, n, password) ==
    /\ \E left \in 0 .. failures[n] :
         left < MaxFailures /\ failures' = [failures EXCEPT ![n] = left]
    /\ Begins(h, [Idle EXCEPT !.pc = "verify", !.name = n, !.password = password])
    /\ UNCHANGED tables

Verified(n, password) == {u \in HasName(n) : users[u].password = password /\ password # External}

LoginVerifies(h) ==
    LET found == Verified(req[h].name, req[h].password)
    IN  /\ req[h].pc = "verify"
        /\ \/ /\ found = {}
              /\ failures' = [failures EXCEPT ![req[h].name] = @ + 1]
              /\ Ends(h)
           \/ \E u \in found :
                /\ failures' = [failures EXCEPT ![req[h].name] = 0]
                /\ IF users[u].disabled THEN Ends(h)
                   ELSE Continues(h, [req[h] EXCEPT !.pc = "open", !.who = u])
        /\ UNCHANGED tables

(* A request finds its session too old, or idle for too long.               *)
Expire(h, s) ==
    /\ s \in sessions
    /\ Answers(h) /\ DeleteSessions({s}) /\ UNCHANGED failures

Logout(h, s) ==
    /\ s \in sessions /\ Enabled(s.user)
    /\ Answers(h) /\ DeleteSessions({s}) /\ UNCHANGED failures

RevokeSession(h, s, other) ==
    /\ s \in sessions /\ Enabled(s.user) /\ other \in SessionsOf(s.user)
    /\ Answers(h) /\ DeleteSessions({other}) /\ UNCHANGED failures

RevokeOthers(h, s) ==
    /\ s \in sessions /\ Enabled(s.user)
    /\ Answers(h) /\ DeleteSessions(SessionsOf(s.user) \ {s}) /\ UNCHANGED failures

(* Change one's own password: the current one is verified against the row,   *)
(* then written, then every other session and every token is deleted.        *)
ChangePassword(h, s) ==
    /\ s \in sessions /\ Enabled(s.user) /\ users[s.user].password # External
    /\ Begins(h, [Idle EXCEPT !.pc = "password", !.who = s.user, !.session = s.id])
    /\ UNCHANGED <<tables, failures>>

(* An administrator resets someone else's: no session is kept.               *)
ResetPassword(h, a, u) ==
    /\ BySession(a) /\ Can(a, "users.manage") /\ u # a /\ u \in DOMAIN users
    /\ users[u].subject = NoSubject
    /\ Begins(h, [Idle EXCEPT !.pc = "password", !.who = u])
    /\ UNCHANGED <<tables, failures>>

PasswordWritten(h) ==
    /\ req[h].pc = "password" /\ SetPassword(req[h].who, req[h].session)
    /\ GoesTo(h, "sign_out") /\ UNCHANGED failures

(* Broken variant: whoever is signed in stays so.                            *)
SignedOutNobody(h) ==
    /\ req[h].pc = "sign_out" /\ UNCHANGED tables
    /\ GoesTo(h, "drop_tokens") /\ UNCHANGED failures

SignedOut(h) ==
    /\ req[h].pc = "sign_out"
    /\ DeleteSessions({s \in SessionsOf(req[h].who) : s.id # req[h].session})
    /\ GoesTo(h, "drop_tokens") /\ UNCHANGED failures

TokensDropped(h) ==
    /\ req[h].pc = "drop_tokens" /\ SetTokens(tokens \ TokensOf(req[h].who))
    /\ Ends(h) /\ UNCHANGED failures

(* Tokens: a write token takes a role that uploads.                          *)
CreateToken(h, u, scope) ==
    /\ BySession(u) /\ Can(u, "tokens.manage") /\ scope = "write" => Can(u, "repos.create")
    /\ Begins(h, [Idle EXCEPT !.pc = "token", !.who = u,
                              !.role = IF scope = "write" THEN "write" ELSE "read"])
    /\ UNCHANGED <<tables, failures>>

TokenInserted(h) ==
    /\ req[h].pc = "token" /\ Ends(h)
    /\ IF req[h].who \in DOMAIN users
        THEN SetTokens(tokens \union {<<req[h].who, req[h].role>>})
        ELSE UNCHANGED tables
    /\ UNCHANGED failures

DeleteToken(h, a, t) ==
    /\ t \in tokens /\ BySession(a)
    /\ a = t[1] \/ Can(a, "users.manage")
    /\ Answers(h) /\ SetTokens(tokens \ {t}) /\ UNCHANGED failures

(* An administrator changes an account's role or disables or enables it: the *)
(* target is read, and the change written only where an active administrator *)
(* is left.  A disabled account is signed out in a further transaction.      *)
UpdateUser(h, a, u, role, disabled) ==
    LET change == {f \in {"role", "disabled"} :
                      IF f = "role" THEN role # users[u].role ELSE disabled # users[u].disabled}
    IN  /\ BySession(a) /\ Can(a, "users.manage") /\ u # a
        /\ change # {}
        /\ Begins(h, [Idle EXCEPT !.pc = "update", !.who = u, !.to = role,
                                  !.disabled = disabled, !.change = change])
        /\ UNCHANGED <<tables, failures>>

(* Only the fields that changed are written, over the row as it is by then.  *)
UserUpdated(h) ==
    LET r == req[h]
        row == users[r.who]
        role == IF "role" \in r.change THEN r.to ELSE row.role
        disabled == IF "disabled" \in r.change THEN r.disabled ELSE row.disabled
        signOut == "disabled" \in r.change /\ r.disabled
    IN  /\ r.pc = "update" /\ UNCHANGED failures
        /\ IF r.who \notin DOMAIN users
            THEN Ends(h) /\ UNCHANGED tables
            ELSE IF UpdateRefused(r.who, role, disabled)
            THEN Ends(h) /\ UNCHANGED tables
            ELSE /\ UpdateAccount(r.who, role, disabled)
                 /\ IF signOut THEN GoesTo(h, "disable") ELSE Ends(h)

DisabledSignedOut(h) ==
    /\ req[h].pc = "disable" /\ DeleteSessions(SessionsOf(req[h].who))
    /\ Ends(h) /\ UNCHANGED failures

(* Revoke: sessions, tokens, or both.                                        *)
RevokeFromAdmin(h, a, u, both) ==
    /\ BySession(a) /\ Can(a, "users.manage") /\ u \in DOMAIN users
    /\ Answers(h) /\ UNCHANGED <<users, orgs, members, repos, given, failures>>
    /\ \/ sessions' = sessions \ SessionsOf(u)
          /\ tokens' = IF both THEN tokens \ TokensOf(u) ELSE tokens
       \/ tokens' = tokens \ TokensOf(u) /\ UNCHANGED sessions

(* An administrator creates an account, in at most one organization, which   *)
(* was looked up before; then adds it to the organization.                   *)
CreateUser(h, a, n, role, o, orgRole) ==
    /\ BySession(a) /\ Can(a, "users.manage")
    /\ o # NoOrg => (o \in DOMAIN orgs /\ (orgRole = "read" \/ "repos.create" \in Capabilities(role)))
    /\ Begins(h, [Idle EXCEPT !.pc = "insert", !.name = n, !.to = role,
                              !.org = o, !.role = orgRole])
    /\ UNCHANGED <<tables, failures>>

NewUser(r) == [name |-> r.name, role |-> r.to, disabled |-> FALSE, password |-> 1,
               subject |-> NoSubject, made |-> "admin"]

UserInserted(h) ==
    /\ req[h].pc = "insert" /\ UNCHANGED failures
    /\ IF CreateRefused(NewUser(req[h]), FALSE)
        THEN Ends(h) /\ UNCHANGED tables
        ELSE /\ InsertAccount(NewUser(req[h]))
             /\ IF req[h].org = NoOrg THEN Ends(h)
                ELSE Continues(h, [req[h] EXCEPT !.pc = "join", !.who = NewAccount])

(* Delete an account: everything is asked first - its repositories, its     *)
(* organizations, the administrators - and only then anything changes.       *)
DeleteUser(h, a, u) ==
    /\ BySession(a) /\ Can(a, "users.manage") /\ u \in DOMAIN users /\ u # a
    /\ PersonalOf(u) = {} /\ OnlyAdministeredBy(u) = {} /\ ~LastAdmin(u)
    /\ Begins(h, [Idle EXCEPT !.pc = "reassign", !.by = a, !.who = u])
    /\ UNCHANGED <<tables, failures>>

(* The administrator who deletes becomes the creator of organization ones;   *)
(* if that account is gone by now the update fails, and the deletion ends.   *)
RepositoriesReassigned(h) ==
    LET left == Reassign(req[h].who, req[h].by)
    IN  /\ req[h].pc = "reassign" /\ UNCHANGED failures
        /\ IF \A r \in left : OwnerFits(r)
            THEN SetRepos(left) /\ GoesTo(h, "delete")
            ELSE UNCHANGED tables /\ Ends(h)

UserDeleted(h) ==
    /\ req[h].pc = "delete" /\ Ends(h) /\ UNCHANGED failures
    /\ IF DeleteRefused(req[h].who) THEN UNCHANGED tables ELSE DeleteAccount(req[h].who)

SignIn(h) ==
    \/ /\ Free(h)
       /\ \E n \in Names :
            \/ \E s \in Servers : SetupStarts(h, n, s)
            \/ \E p \in 1 .. MaxPasswords : LoginStarts(h, n, p)
    \/ SetupCounts(h) \/ SetupInserts(h)
    \/ LoginVerifies(h) \/ OpenSession(h)

OwnAccount(h) ==
    \/ /\ Free(h)
       /\ \/ \E s \in sessions :
               \/ Expire(h, s) \/ Logout(h, s) \/ RevokeOthers(h, s) \/ ChangePassword(h, s)
               \/ \E other \in sessions : RevokeSession(h, s, other)
          \/ \E u \in DOMAIN users :
               \/ \E scope \in {"read", "write"} : CreateToken(h, u, scope)
               \/ \E t \in tokens : DeleteToken(h, u, t)
    \/ PasswordWritten(h) \/ SignedOut(h) \/ TokensDropped(h)
    \/ TokenInserted(h)

Administration(h) ==
    \/ /\ Free(h)
       /\ \/ \E a, u \in DOMAIN users :
               \/ ResetPassword(h, a, u) \/ DeleteUser(h, a, u)
               \/ \E both \in BOOLEAN : RevokeFromAdmin(h, a, u, both)
               \/ \E role \in Roles, disabled \in BOOLEAN : UpdateUser(h, a, u, role, disabled)
          \/ \E a \in DOMAIN users, n \in Names, role \in Roles,
               o \in DOMAIN orgs \union {NoOrg}, orgRole \in OrgRoles :
               CreateUser(h, a, n, role, o, orgRole)
    \/ UserUpdated(h) \/ DisabledSignedOut(h) \/ UserInserted(h)
    \/ RepositoriesReassigned(h) \/ UserDeleted(h)
=============================================================================
