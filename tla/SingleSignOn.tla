---------------------------- MODULE SingleSignOn ----------------------------
(***************************************************************************)
(* Signing in with an identity provider: the OIDC routes of main.py,       *)
(* provision_external_user (auth.py) and what oidc.py asks of the          *)
(* provider, which either vouches for one person or fails.                 *)
(***************************************************************************)
EXTENDS Accounts

CONSTANTS
    MaxStates       \* bound on sign-ins started

ASSUME SignOnAssumption == MaxStates \in Nat

VARIABLES
    states,     \* oidc_states: sign-ins not yet started, pending or used
    taken       \* ghost: <<server, state>> for each time a state was used

signOnVars == <<states, taken>>

SignOnTypeOK ==
    /\ states \in [1 .. MaxStates -> {"new", "pending", "used"}]
    /\ taken \in [Servers \X (1 .. MaxStates) -> Nat]

SignOnInit ==
    /\ states \in [1 .. MaxStates -> {"new", "pending"}]
    /\ taken = [x \in Servers \X (1 .. MaxStates) |-> 0]

(* oidc_login: a state is kept for the browser that was sent away.           *)
SignOnStarts(h, state) ==
    /\ users # << >> /\ states[state] = "new"
    /\ Answers(h) /\ states' = [states EXCEPT ![state] = "pending"]
    /\ UNCHANGED <<tables, failures, taken>>

(* Broken variant: the lock is not taken.                                    *)
TakingFreely(server) == FALSE

(* oidc_callback comes back with a state.  take_oidc_state reads the row and *)
(* deletes it under the write lock of its server.                            *)
Taking(server) == \E h \in Handlers : req[h].pc = "take" /\ req[h].server = server

CallbackStarts(h, state, server) ==
    /\ users # << >> /\ states[state] # "new"
    /\ Begins(h, [Idle EXCEPT !.pc = "select", !.session = state, !.server = server])
    /\ UNCHANGED <<tables, failures, signOnVars>>

StateSelected(h) ==
    /\ req[h].pc = "select" /\ ~Taking(req[h].server)
    /\ IF states[req[h].session] = "pending" THEN GoesTo(h, "take") ELSE Ends(h)
    /\ UNCHANGED <<tables, failures, signOnVars>>

StateTaken(h) ==
    /\ req[h].pc = "take" /\ GoesTo(h, "provision")
    /\ states' = [states EXCEPT ![req[h].session] = "used"]
    /\ taken' = [taken EXCEPT ![<<req[h].server, req[h].session>>] = @ + 1]
    /\ UNCHANGED <<tables, failures>>

(* The callback is refused: another browser, too late, an error of the       *)
(* provider, a code or token it does not accept, or no group allowed here.   *)
SignOnRefused(h) ==
    /\ req[h].pc = "provision" /\ Ends(h)
    /\ UNCHANGED <<tables, failures, signOnVars>>

(* The provider vouches for x: its account, if it has one, is signed in.     *)
SubjectFound(h, x) ==
    /\ req[h].pc = "provision"
    /\ IF WithSubject(x) = {}
        THEN Continues(h, [req[h] EXCEPT !.pc = "name", !.subject = x])
        ELSE \E u \in WithSubject(x) :
               IF users[u].disabled THEN Ends(h)
               ELSE Continues(h, [req[h] EXCEPT !.pc = "open", !.who = u,
                                                !.password = External, !.session = 0])
    /\ UNCHANGED <<tables, failures, signOnVars>>

(* Otherwise a free name is chosen: the one wanted, or that with a number.   *)
(* The account is created under _setup_lock, which is of one server.         *)
Available(wanted) ==
    IF ~NamespaceTaken(wanted) THEN {wanted} ELSE {n \in Names : ~NamespaceTaken(n)}

NameChosen(h, wanted) ==
    /\ req[h].pc = "name" /\ ~SetupLocked(req[h].server)
    /\ \E n \in Available(wanted) :
         Continues(h, [req[h] EXCEPT !.pc = "provision_insert", !.name = n])
    /\ UNCHANGED <<tables, failures, signOnVars>>

Provisioned(r) == [name |-> r.name, role |-> "viewer", disabled |-> FALSE,
                   password |-> External, subject |-> r.subject, made |-> "sign-on"]

SubjectInserted(h) ==
    /\ req[h].pc = "provision_insert"
    /\ IF CreateRefused(Provisioned(req[h]), FALSE)
        THEN Ends(h) /\ UNCHANGED tables
        ELSE /\ InsertAccount(Provisioned(req[h]))
             /\ Continues(h, [req[h] EXCEPT !.pc = "open", !.who = NewAccount,
                                            !.password = External, !.session = 0])
    /\ UNCHANGED <<failures, signOnVars>>

SingleSignOn(h) ==
    \/ \E state \in 1 .. MaxStates : SignOnStarts(h, state)
    \/ \E state \in 1 .. MaxStates, s \in Servers : CallbackStarts(h, state, s)
    \/ StateSelected(h) \/ StateTaken(h) \/ SignOnRefused(h)
    \/ \E x \in Subjects : SubjectFound(h, x)
    \/ \E n \in Names : NameChosen(h, n)
    \/ SubjectInserted(h)
=============================================================================
