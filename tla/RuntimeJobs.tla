---------------------------- MODULE RuntimeJobs ----------------------------
(***************************************************************************)
(* Runtime jobs (backend/app/runtimes.py, vllm_agent.py): a model of the   *)
(* local cache is loaded into an inference server.  Requests queue and     *)
(* cancel jobs; a worker carries each out with requests of its own, which  *)
(* it abandons when the job is cancelled or they take too long: the        *)
(* inference server answers those too, later.                              *)
(***************************************************************************)
EXTENDS Naturals, FiniteSets

CONSTANTS
    Models,         \* models of the local cache
    MaxClients,     \* requests answered at the same time
    MaxJobs         \* bound on jobs

ASSUME RuntimeAssumption ==
    MaxJobs \in Nat /\ MaxClients \in Nat /\ IsFiniteSet(Models) /\ Models # {}

VARIABLES
    kind,           \* the runtime target: vLLM, which serves one model at a time, or Ollama
    jobs,           \* the runtime_jobs table, and the worker of each row
    sent,           \* jobs whose request is with the inference server
    loading,        \* the job the inference server is loading
    serving,        \* the models vLLM serves
    inserting,      \* requests that are to insert a job of each model
    cancelling,     \* jobs whose event is set and whose row is to be written
    displaced       \* ghost: it took up a request nobody waited for

runtimeVars == <<kind, jobs, sent, loading, serving, inserting, cancelling, displaced>>

Jobs == 1 .. MaxJobs
Active == {"queued", "preparing", "transferring", "loading"}
Finished == {"ready", "failed", "cancelled"}

Job == [status : Active \union Finished \union {"none"}, repo : Models,
        pc : {"none", "submitted", "update", "write", "wait"}, to : Active \union Finished, event : BOOLEAN]

Something == CHOOSE m \in Models : TRUE
NoJob == [status |-> "none", repo |-> Something, pc |-> "none", to |-> "queued", event |-> FALSE]

RuntimeTypeOK ==
    /\ kind \in {"vllm", "ollama"}
    /\ jobs \in [Jobs -> Job]
    /\ sent \subseteq Jobs
    /\ loading \in 0 .. MaxJobs /\ serving \subseteq Models
    /\ inserting \in [Models -> 0 .. MaxClients] /\ cancelling \subseteq Jobs
    /\ displaced \in BOOLEAN

RuntimeInit ==
    /\ kind \in {"vllm", "ollama"}
    /\ jobs = [j \in Jobs |-> NoJob] /\ sent = {}
    /\ loading = 0 /\ serving = {}
    /\ inserting = [m \in Models |-> 0] /\ cancelling = {} /\ displaced = FALSE

ActiveJobs == {j \in Jobs : jobs[j].status \in Active}
Requests == Cardinality(cancelling) + Cardinality({x \in Models \X (1 .. MaxClients) : x[2] <= inserting[x[1]]})

(* A job conflicts with an active one of the same model, and at vLLM with    *)
(* any.  It is asked for first, and the table's unique indexes refuse what   *)
(* was queued since.                                                         *)
Conflicts(m) == \E j \in ActiveJobs : kind = "vllm" \/ jobs[j].repo = m
NoConflicts(m) == FALSE
Refused(m) == Conflicts(m)

Queue(m) ==
    /\ Requests < MaxClients /\ ~Conflicts(m)
    /\ inserting' = [inserting EXCEPT ![m] = @ + 1]
    /\ UNCHANGED <<kind, jobs, sent, loading, serving, cancelling, displaced>>

QueueInsert(m) ==
    /\ inserting[m] > 0
    /\ inserting' = [inserting EXCEPT ![m] = @ - 1]
    /\ IF Refused(m) THEN UNCHANGED jobs
       ELSE \E j \in Jobs :
              /\ jobs[j].status = "none" /\ \A i \in 1 .. j - 1 : jobs[i].status # "none"
              /\ jobs' = [jobs EXCEPT ![j] = [NoJob EXCEPT !.status = "queued", !.repo = m, !.pc = "submitted"]]
    /\ UNCHANGED <<kind, sent, loading, serving, cancelling, displaced>>

(* Cancelling: a job that is active gets its event set, then its row written *)
(* whatever it says by then.                                                 *)
Cancel(j) ==
    /\ Requests < MaxClients /\ jobs[j].status \in Active
    /\ cancelling' = cancelling \union {j}
    /\ jobs' = [jobs EXCEPT ![j].event = TRUE]
    /\ UNCHANGED <<kind, sent, loading, serving, inserting, displaced>>

CancelWrite(j) ==
    /\ j \in cancelling /\ cancelling' = cancelling \ {j}
    /\ jobs' = [jobs EXCEPT ![j].status = "cancelled"]
    /\ UNCHANGED <<kind, sent, loading, serving, inserting, displaced>>

----------------------------------------------------------------------------
(* The worker: what it writes after each status, and where it sends a        *)
(* request before it goes on.                                                *)
Following(status) ==
    CASE status = "queued" -> IF kind = "vllm" THEN "loading" ELSE "preparing"
      [] status = "preparing" -> "transferring"
      [] status = "transferring" -> "loading"
      [] status = "loading" -> "ready"
SendsAt == {"transferring", "loading"}

Left(j) == [jobs EXCEPT ![j].pc = "none", ![j].to = "queued", ![j].event = FALSE]
OnlyJobs == UNCHANGED <<kind, loading, serving, inserting, cancelling, displaced>>

JobStarts(j) ==
    /\ jobs[j].pc = "submitted"
    /\ jobs' = IF jobs[j].status \in Active
               THEN [jobs EXCEPT ![j].pc = "update", ![j].to = Following(jobs[j].status)]
               ELSE Left(j)
    /\ UNCHANGED sent /\ OnlyJobs

(* An update looks at the event, then writes the row unless it says the job  *)
(* was cancelled.                                                            *)
UpdateChecks(j) ==
    /\ jobs[j].pc = "update"
    /\ jobs' = IF jobs[j].event THEN Left(j) ELSE [jobs EXCEPT ![j].pc = "write"]
    /\ UNCHANGED sent /\ OnlyJobs

KeepsItsStatus(j) == jobs[j].status = "cancelled"
KeepsNothing(j) == FALSE
Kept(j) == KeepsItsStatus(j)

UpdateWrites(j) ==
    /\ jobs[j].pc = "write"
    /\ LET to == jobs[j].to
       IN  IF Kept(j) THEN jobs' = Left(j) /\ UNCHANGED sent
           ELSE IF to \in Finished THEN jobs' = [Left(j) EXCEPT ![j].status = to] /\ UNCHANGED sent
           ELSE IF to \in SendsAt
           THEN jobs' = [jobs EXCEPT ![j].status = to, ![j].pc = "wait"] /\ sent' = sent \union {j}
           ELSE jobs' = [jobs EXCEPT ![j].status = to, ![j].pc = "update", ![j].to = Following(to)]
                  /\ UNCHANGED sent
    /\ OnlyJobs

(* A worker that waits for an answer looks at the event as well; it gives up *)
(* after the read timeout, as it does on any error.  The request goes on     *)
(* without it.                                                               *)
Abandon(j) ==
    /\ jobs[j].pc = "wait" /\ jobs[j].event
    /\ jobs' = Left(j)
    /\ UNCHANGED sent /\ OnlyJobs

Fails(j) ==
    /\ jobs[j].pc = "wait" \/ (jobs[j].pc = "update" /\ jobs[j].to \in Active)
    /\ jobs' = [jobs EXCEPT ![j].pc = "update", ![j].to = "failed"]
    /\ UNCHANGED sent /\ OnlyJobs

----------------------------------------------------------------------------
(* The inference server.  vLLM's agent loads one model at a time, after it   *)
(* stopped the one before; what Ollama was sent it has besides the others.   *)
Awaited(j) == jobs[j].pc = "wait" /\ ~jobs[j].event
Displaces(j) == displaced' = (displaced \/ ~Awaited(j))
Answered(j, to) ==
    /\ sent' = sent \ {j}
    /\ jobs' = IF jobs[j].pc = "wait" THEN [jobs EXCEPT ![j].pc = "update", ![j].to = to] ELSE jobs

AgentTakes(j) ==
    /\ j \in sent /\ kind = "vllm" /\ loading = 0 /\ Displaces(j)
    /\ IF serving = {jobs[j].repo}
       THEN Answered(j, "ready") /\ UNCHANGED <<loading, serving>>
       ELSE loading' = j /\ serving' = {} /\ UNCHANGED <<sent, jobs>>
    /\ UNCHANGED <<kind, inserting, cancelling>>

AgentLoads ==
    /\ loading # 0 /\ Displaces(loading)
    /\ \/ serving' = {jobs[loading].repo} /\ Answered(loading, "ready")
       \/ UNCHANGED serving /\ Answered(loading, "failed")
    /\ loading' = 0
    /\ UNCHANGED <<kind, inserting, cancelling>>

OllamaAnswers(j) ==
    /\ j \in sent /\ kind = "ollama"
    /\ \E to \in {"failed", IF jobs[j].status = "transferring" THEN "loading" ELSE "ready"} : Answered(j, to)
    /\ UNCHANGED <<kind, loading, serving, inserting, cancelling, displaced>>

(* After a restart nobody works on a job: those unfinished have failed.      *)
KeepUnfinished == [j \in Jobs |-> [jobs[j] EXCEPT !.pc = "none", !.event = FALSE]]
FailUnfinished ==
    [j \in Jobs |-> [jobs[j] EXCEPT !.pc = "none", !.event = FALSE,
                       !.status = IF @ \in Active THEN "failed" ELSE @]]
RuntimeRestart ==
    /\ jobs' = FailUnfinished
    /\ inserting' = [m \in Models |-> 0] /\ cancelling' = {}
    /\ UNCHANGED <<kind, sent, loading, serving, displaced>>

JobWorker(j) == JobStarts(j) \/ UpdateChecks(j) \/ UpdateWrites(j) \/ Abandon(j) \/ Fails(j)

RuntimeNext ==
    \/ \E m \in Models : Queue(m) \/ QueueInsert(m)
    \/ \E j \in Jobs : Cancel(j) \/ CancelWrite(j) \/ JobWorker(j) \/ AgentTakes(j) \/ OllamaAnswers(j)
    \/ AgentLoads
=============================================================================
