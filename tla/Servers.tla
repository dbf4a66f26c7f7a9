------------------------------- MODULE Servers -------------------------------
(***************************************************************************)
(* The two ways HuggingHack is run: a single server, which loads models of *)
(* its local cache into inference servers, or several that share the       *)
(* library, which keep models in buckets only and refuse to load them.     *)
(***************************************************************************)
EXTENDS RuntimeJobs, Cluster

VARIABLE shared     \* CLUSTER_MODE

vars == <<runtimeVars, clusterVars, shared>>

TypeOK == shared \in BOOLEAN /\ RuntimeTypeOK /\ ClusterTypeOK

Init == shared \in BOOLEAN /\ RuntimeInit /\ ClusterInit(IF shared THEN Servers ELSE {})

Next ==
    /\ UNCHANGED shared
    /\ \/ ~shared /\ (RuntimeNext \/ RuntimeRestart) /\ UNCHANGED clusterVars
       \/ shared /\ ClusterNext /\ UNCHANGED runtimeVars

(* Threads that can go on do; a heartbeat nobody writes gets old.  A server  *)
(* that stopped need not come back.                                          *)
Fairness ==
    /\ \A j \in Jobs :
         /\ WF_vars(~shared /\ JobWorker(j) /\ UNCHANGED <<clusterVars, shared>>)
         /\ WF_vars(~shared /\ CancelWrite(j) /\ UNCHANGED <<clusterVars, shared>>)
    /\ \A s \in Servers :
         /\ WF_vars(shared /\ Tick(s) /\ UNCHANGED <<runtimeVars, shared>>)
         /\ WF_vars(shared /\ Recover(s) /\ UNCHANGED <<runtimeVars, shared>>)
         /\ WF_vars(shared /\ MoveWorker(s) /\ UNCHANGED <<runtimeVars, shared>>)
    /\ \A m \in MoveIds :
         WF_vars(shared /\ moves[m].by \notin up /\ GoQuiet(m) /\ UNCHANGED <<runtimeVars, shared>>)

Spec == Init /\ [][Next]_vars /\ Fairness

----------------------------------------------------------------------------
(* A job that has ended stays as it ended, but for a cancel of it that was   *)
(* under way by then (runtimes.cancel writes whatever the row says).         *)
FinishedStays ==
    [][\A j \in Jobs :
         jobs[j].status \in Finished /\ jobs'[j].status # jobs[j].status
            => jobs'[j].status = "cancelled" /\ j \in cancelling]_vars

(* vLLM serves the model of its last job, once that is ready, and no other:  *)
(* unless it took up a request its job had given up.                         *)
ReadyIsServed ==
    \A j \in Jobs :
      kind = "vllm" /\ jobs[j].status = "ready" /\ (\A i \in Jobs : i > j => jobs[i].status = "none")
        => serving = {jobs[j].repo} \/ displaced

(* Whoever leads, stops or loses its connection, the model's row names a     *)
(* bucket that holds all of it: unless a server that only was slow, or a     *)
(* leader's own thread after its election, lost its move to a recovery, or   *)
(* a move started while a server was not done with the one before.           *)
ModelKept ==
    (held[location] = Files /\ location \in listed) \/ overlaps \intersect {"slow", "elected", "late"} # {}

(* Every job ends, and every move too while a server runs: unless it is that *)
(* of a server that came back under its INSTANCE_ID, or that lost the lead   *)
(* and goes on, which keeps its heartbeat and takes it up no more; or one    *)
(* that its own server recovered at an election while it worked on it.       *)
Settles ==
    /\ \A j \in Jobs : jobs[j].status \in Active ~> jobs[j].status \in Finished
    /\ \A m \in MoveIds :
         moves[m].status \in Unfinished ~> moves[m].status \in Settled \/ up = {} \/ overlaps \intersect {"restart", "demoted", "elected"} # {}
=============================================================================
