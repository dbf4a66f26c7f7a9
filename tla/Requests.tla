------------------------------ MODULE Requests ------------------------------
(***************************************************************************)
(* Requests being answered (backend/app/main.py).  FastAPI runs each one   *)
(* on a thread of its own, and several servers may share one database, so  *)
(* a request is a sequence of steps between which others run; a step is    *)
(* the transaction it names, with the reads just before it.  `pc' is the   *)
(* step a request comes to, the other fields what it has read so far.      *)
(***************************************************************************)
EXTENDS Directory

CONSTANTS
    Handlers,       \* requests answered at the same time
    Servers,        \* servers sharing the database
    MaxRequests     \* bound on requests in a run

ASSUME RequestsAssumption ==
    /\ MaxRequests \in Nat
    /\ IsFiniteSet(Handlers) /\ Handlers # {}
    /\ Servers # {} /\ Names # {} /\ Slugs # {}

VARIABLES
    req,        \* what each handler is doing
    asked       \* requests so far

requestVars == <<req, asked>>

Steps == {"idle", "owner", "owner_insert", "verify", "open",
          "password", "sign_out", "drop_tokens", "update", "disable",
          "insert", "join", "reassign", "delete", "token",
          "select", "take", "provision", "name", "provision_insert",
          "member", "leave", "repo", "rename"}

Request == [pc : Steps, server : Servers, by : UserIds \union {Nobody},
            who : UserIds \union {Nobody}, name : Names, slug : Slugs,
            role : Roles \union OrgRoles \union {"none"}, to : Roles,
            disabled : BOOLEAN, org : OrgIds \union {NoOrg},
            password : 0 .. MaxPasswords, session : Nat,
            subject : Subjects \union {NoSubject}, old : SUBSET Repository,
            change : SUBSET {"role", "disabled"}]

Idle == [pc |-> "idle", server |-> CHOOSE s \in Servers : TRUE, by |-> Nobody,
         who |-> Nobody, name |-> CHOOSE n \in Names : TRUE,
         slug |-> CHOOSE s \in Slugs : TRUE, role |-> "none", to |-> "viewer",
         disabled |-> FALSE, org |-> NoOrg, password |-> External, session |-> 0,
         subject |-> NoSubject, old |-> {}, change |-> {}]

RequestsTypeOK ==
    /\ req \in [Handlers -> Request]
    /\ asked \in 0 .. MaxRequests

(* A new request arrives, and comes to the step of r.                       *)
Free(h) == req[h].pc = "idle" /\ asked < MaxRequests

Begins(h, r) ==
    /\ Free(h)
    /\ asked' = asked + 1
    /\ req' = [req EXCEPT ![h] = r]

(* A request that is answered in one step.                                  *)
Answers(h) == Begins(h, Idle)

GoesTo(h, step) == req' = [req EXCEPT ![h].pc = step] /\ UNCHANGED asked
Continues(h, r) == req' = [req EXCEPT ![h] = r] /\ UNCHANGED asked
Ends(h) == Continues(h, Idle)

(* Who is calling: an enabled account with a session or a token, whose role  *)
(* allows it; some routes take a session only, and a token that writes.      *)
BySession(u) == Enabled(u) /\ SessionsOf(u) # {}
Caller(u, capability, sessionOnly) ==
    /\ Enabled(u) /\ Can(u, capability)
    /\ SessionsOf(u) # {} \/ (~sessionOnly /\ <<u, "write">> \in tokens)
=============================================================================
