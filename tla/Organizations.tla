---------------------------- MODULE Organizations ----------------------------
(***************************************************************************)
(* Organizations, their members, and who owns an uploaded repository: the  *)
(* routes of main.py and create_repository, rename_repository and          *)
(* delete_repository of UploadManager (backend/app/uploads.py), as far as   *)
(* the database goes.                                                      *)
(***************************************************************************)
EXTENDS Requests

(* A new organization, and then its creator as its admin, in a transaction   *)
(* of its own.                                                               *)
CreateOrganization(h, u, n) ==
    /\ BySession(u) /\ Can(u, "orgs.manage") /\ ~NamespaceTaken(n)
    /\ Begins(h, [Idle EXCEPT !.pc = "join", !.who = u, !.org = given.orgs + 1, !.role = "admin"])
    /\ InsertOrganization(n)

(* set_organization_member: it fails when the organization or the account is *)
(* gone, and the last admin who acts as one stays.                           *)
MemberWritten(r) ==
    IF ~MemberFits(r.org, r.who) \/ (r.role # "admin" /\ LastActingAdmin(r.org, r.who))
    THEN UNCHANGED tables
    ELSE SetMember(r.org, r.who, r.role)

(* An account just created joins, or who just created the organization.      *)
MemberJoins(h) == req[h].pc = "join" /\ Ends(h) /\ MemberWritten(req[h])

(* Organization admins and server administrators manage the members.         *)
Manages(u, o) == Can(u, "orgs.manage") \/ EffectiveRole(o, u) = "admin"

ChangeMember(h, u, o, m, role) ==
    /\ BySession(u) /\ o \in DOMAIN orgs /\ Manages(u, o) /\ m \in DOMAIN users
    /\ role = "read" \/ Can(m, "repos.create")
    /\ Begins(h, [Idle EXCEPT !.pc = "member", !.who = m, !.org = o, !.role = role])
    /\ UNCHANGED tables

MemberChanged(h) == req[h].pc = "member" /\ Ends(h) /\ MemberWritten(req[h])

LeaveOrganization(h, u, o, m) ==
    /\ BySession(u) /\ o \in DOMAIN orgs /\ m \in DOMAIN users
    /\ m = u \/ Manages(u, o)
    /\ Begins(h, [Idle EXCEPT !.pc = "leave", !.who = m, !.org = o])
    /\ UNCHANGED tables

(* Broken variant: anyone may leave, the last admin too.                     *)
MemberRemovedFreely(h) ==
    /\ req[h].pc = "leave" /\ Ends(h)
    /\ RemoveMember(req[h].org, req[h].who)

MemberRemoved(h) ==
    LET r == req[h] IN
    /\ r.pc = "leave" /\ Ends(h)
    /\ IF LastActingAdmin(r.org, r.who)
        THEN UNCHANGED tables
        ELSE RemoveMember(r.org, r.who)

OrganizationDeleted(h, u, o) ==
    /\ BySession(u) /\ Can(u, "orgs.manage") /\ o \in DOMAIN orgs
    /\ Answers(h) /\ DeleteOrganization(o)

----------------------------------------------------------------------------
(* Where an account may create repositories: under its own name and those   *)
(* of the organizations it writes to.                                        *)
CreateRepository(h, u, slug, o) ==
    /\ Caller(u, "repos.create", FALSE)
    /\ o # NoOrg => OrgRole(o, u) \in {"admin", "write"}
    /\ Begins(h, [Idle EXCEPT !.pc = "repo", !.who = u, !.org = o, !.slug = slug,
                              !.name = IF o = NoOrg THEN users[u].name ELSE orgs[o]])
    /\ UNCHANGED tables

(* Under the lock of the name: taken, or inserted.                           *)
RepositoryInserted(h) ==
    LET r == req[h]
        row == [ns |-> r.name, slug |-> r.slug, owner |-> r.who, org |-> r.org]
    IN  /\ r.pc = "repo" /\ Ends(h)
        /\ IF IdTaken(r.name, r.slug) \/ ~OwnerFits(row)
            THEN UNCHANGED tables ELSE SetRepos(repos \union {row})

(* How an account may treat a repository: its own as an admin, and those of  *)
(* an organization as its role there says.                                   *)
Access(r, u) == IF r.org # NoOrg THEN OrgRole(r.org, u)
                ELSE IF r.owner = u THEN "admin" ELSE "none"

CanManage(r, u) ==
    \/ Can(u, "storage.manage")
    \/ Can(u, "repos.create") /\ Access(r, u) = "admin"

(* The new owner: oneself or an organization one writes to; for an           *)
(* administrator, any.                                                       *)
TransferAllowed(u, org, account) ==
    \/ Can(u, "storage.manage")
    \/ org # NoOrg /\ OrgRole(org, u) \in {"admin", "write"}
    \/ org = NoOrg /\ account = u

(* Rename or transfer: to an organization, or to an account when org is      *)
(* NoOrg.                                                                    *)
RenameRepository(h, u, r, org, account, slug) ==
    LET ns == IF org # NoOrg THEN orgs[org] ELSE users[account].name
    IN  /\ BySession(u) /\ CanManage(r, u) /\ TransferAllowed(u, org, account)
        /\ ~IdTaken(ns, slug)
        /\ Begins(h, [Idle EXCEPT !.pc = "rename", !.name = ns, !.slug = slug, !.org = org,
                                  !.who = IF org # NoOrg THEN u ELSE account, !.old = {r}])
        /\ UNCHANGED tables

(* Asked again under the lock of the new name, and then moved in one         *)
(* transaction, if the repository still has its old name.                    *)
RepositoryRenamed(h) ==
    LET r == req[h]
        row == [ns |-> r.name, slug |-> r.slug, owner |-> r.who, org |-> r.org]
        same == {x \in repos : \E o \in r.old : x.ns = o.ns /\ x.slug = o.slug}
    IN  /\ r.pc = "rename" /\ Ends(h)
        /\ IF IdTaken(r.name, r.slug) \/ same = {} \/ ~OwnerFits(row)
            THEN UNCHANGED tables ELSE SetRepos((repos \ same) \union {row})

DeleteRepository(h, u, r) ==
    /\ BySession(u) /\ CanManage(r, u)
    /\ Answers(h) /\ SetRepos(repos \ {r})

Membership(h) ==
    \/ /\ Free(h)
       /\ \E u \in DOMAIN users :
            \/ \E n \in Names : CreateOrganization(h, u, n)
            \/ \E o \in DOMAIN orgs :
                 \/ OrganizationDeleted(h, u, o)
                 \/ \E m \in DOMAIN users :
                      \/ \E role \in OrgRoles : ChangeMember(h, u, o, m, role)
                      \/ LeaveOrganization(h, u, o, m)
    \/ MemberJoins(h) \/ MemberChanged(h) \/ MemberRemoved(h)

Ownership(h) ==
    \/ /\ Free(h)
       /\ \E u \in DOMAIN users, s \in Slugs :
            \/ \E o \in DOMAIN orgs \union {NoOrg} : CreateRepository(h, u, s, o)
            \/ \E r \in repos :
                 \/ \E account \in DOMAIN users : RenameRepository(h, u, r, NoOrg, account, s)
                 \/ \E o \in DOMAIN orgs : RenameRepository(h, u, r, o, u, s)
    \/ /\ Free(h)
       /\ \E u \in DOMAIN users, r \in repos : DeleteRepository(h, u, r)
    \/ RepositoryInserted(h) \/ RepositoryRenamed(h)
=============================================================================
