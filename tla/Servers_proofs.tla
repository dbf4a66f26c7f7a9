---------------------------- MODULE Servers_proofs ----------------------------
(***************************************************************************)
(* Theorems on the two ways HuggingHack is run, for every number of models *)
(* and jobs, of servers, buckets, files, moves and faults.                 *)
(***************************************************************************)
EXTENDS Servers, FiniteSetTheorems, TLAPS

----------------------------------------------------------------------------
(* What every step of servers that share the library keeps.                  *)
Runs == {"tick", "elected"}
Working == {"taken", "copy", "verify", "publish", "locate", "unlist", "clean"}
Recovering == {"discard", "write"}

(* A thread works on a move when it is past its loop, and a run when it      *)
(* discards or writes; a server that does not run has none of them.          *)
ThreadsHold ==
    /\ \A s \in Servers : worker[s].pc \in Working <=> worker[s].move # 0
    /\ \A s \in Servers : \A w \in Runs : runs[s][w].pc \in Recovering <=> runs[s][w].move # 0
    /\ \A s \in Servers \ up : worker[s].pc = "none" /\ \A w \in Runs : runs[s][w].move = 0

(* The moves somebody has to do with.                                        *)
WorkedOn(m) == \E s \in Servers : worker[s].move = m
RecoveredBy(s, w, m) == runs[s][w].move = m
InWork(m) ==
    moves[m].status \in Unfinished \/ WorkedOn(m) \/ \E s \in Servers : \E w \in Runs : RecoveredBy(s, w, m)

(* Where a worker is says what its move's row says, and what it did so far.  *)
Agrees(pc, status) ==
    \/ pc = "taken" /\ status \in {"queued", "cancelled"}
    \/ pc = "copy" /\ status = "copying"
    \/ pc = "verify" /\ status = "verifying"
    \/ pc \in {"publish", "locate", "unlist"} /\ status = "switching"
    \/ pc = "clean" /\ status \in {"cleaning", "draining"}

WorkerFits(s) ==
    LET m == worker[s].move
        pc == worker[s].pc
    IN  m # 0 =>
          /\ moves[m].by = s /\ ~moves[m].quiet /\ Agrees(pc, moves[m].status)
          /\ pc \in {"taken", "publish", "locate"} => location # moves[m].to
          /\ pc \in {"publish", "locate"} => held[moves[m].to] = Files
          /\ pc = "locate" => moves[m].to \in listed
          /\ pc = "unlist" => location = moves[m].to

(* A recovery works on its own move, alone but for a worker that removes the *)
(* old copy; once the model switched it only goes on to drain.               *)
RunFits(s, w) ==
    LET m == runs[s][w].move
    IN  m # 0 =>
          /\ moves[m].by = s /\ ~moves[m].quiet
          /\ location # moves[m].to => moves[m].status \in Copying \union {"failed"}
          /\ location = moves[m].to =>
               /\ moves[m].status \in {"switching", "draining", "cleaning", "done", "failed"}
               /\ runs[s][w].pc = "discard" /\ runs[s][w].seen = "switching"
          /\ \A t \in Servers : worker[t].move = m => worker[t].pc = "clean"

(* The model is at one end of the move in work: at the start until it was    *)
(* copied, at its end once it switched.                                      *)
MoveFits(m) ==
    /\ moves[m].from # moves[m].to /\ location \in {moves[m].from, moves[m].to}
    /\ moves[m].status \in {"queued", "copying", "verifying"} => location # moves[m].to
    /\ moves[m].status \in Switched => location = moves[m].to

Whole == held[location] = Files /\ location \in listed
OneInWork == \A m, k \in MoveIds : InWork(m) /\ InWork(k) => m = k

Alone == overlaps \intersect {"slow", "elected", "late"} = {}
MoveInv ==
    /\ Whole /\ OneInWork
    /\ \A m \in MoveIds : InWork(m) => MoveFits(m)
    /\ \A s \in Servers : WorkerFits(s)
    /\ \A s \in Servers : \A w \in Runs : RunFits(s, w)

ClusterInv == ClusterTypeOK /\ ThreadsHold /\ (Alone => MoveInv)

----------------------------------------------------------------------------
(* Types.                                                                    *)
ThreadsTyped ==
    /\ runs \in [Servers -> [Runs -> Run]]
    /\ worker \in [Servers -> Thread] /\ stopping \in [Servers -> SUBSET MoveIds]
    /\ moves \in [MoveIds -> Move]

LEMMA TypedThreads ==
    ASSUME ClusterTypeOK, ThreadsHold
    PROVE  /\ ThreadsTyped
           /\ \A s \in Servers : worker[s].pc \in Working => worker[s].move \in MoveIds
           /\ \A s \in Servers : \A w \in Runs : runs[s][w].pc \in Recovering => runs[s][w].move \in MoveIds
           /\ held \in [Buckets -> SUBSET Files] /\ listed \subseteq Buckets /\ location \in Buckets
<1>1. ThreadsTyped
  BY DEF ClusterTypeOK, ThreadsTyped, Runs
<1>2. \A s \in Servers : worker[s].move \in 0 .. MaxMoves
  BY <1>1 DEF ThreadsTyped, Thread
<1>3. \A s \in Servers : \A w \in Runs : runs[s][w].move \in 0 .. MaxMoves
  BY <1>1 DEF ThreadsTyped, Run
<1>4. \A i \in 0 .. MaxMoves : i # 0 => i \in MoveIds
  BY ClusterAssumption DEF MoveIds
<1> QED BY <1>1, <1>2, <1>3, <1>4 DEF ThreadsHold, ClusterTypeOK

LEMMA WrittenMove ==
    ASSUME moves \in [MoveIds -> Move], NEW m \in MoveIds,
           NEW status \in Unfinished \union Settled \union {"none"}, Writes(m, status)
    PROVE  /\ moves' \in [MoveIds -> Move]
           /\ \A k \in MoveIds \ {m} : moves'[k] = moves[k]
           /\ moves'[m].status = status /\ moves'[m].from = moves[m].from /\ moves'[m].to = moves[m].to
           /\ moves'[m].by = moves[m].by /\ moves'[m].quiet = moves[m].quiet
<1>1. moves' \in [MoveIds -> Move]
  BY DEF Writes, Move
<1>2. \A k \in MoveIds \ {m} : moves'[k] = moves[k]
  BY DEF Writes
<1>3. /\ moves'[m].status = status /\ moves'[m].from = moves[m].from /\ moves'[m].to = moves[m].to
      /\ moves'[m].by = moves[m].by /\ moves'[m].quiet = moves[m].quiet
  BY DEF Writes, Move
<1> QED BY <1>1, <1>2, <1>3

LEMMA ClaimedMove ==
    ASSUME moves \in [MoveIds -> Move], NEW m \in MoveIds, NEW s \in Servers
    PROVE  /\ Claimed(s, m) \in [MoveIds -> Move]
           /\ \A k \in MoveIds \ {m} : Claimed(s, m)[k] = moves[k]
           /\ Claimed(s, m)[m].status = moves[m].status
           /\ Claimed(s, m)[m].from = moves[m].from /\ Claimed(s, m)[m].to = moves[m].to
           /\ Claimed(s, m)[m].by = s /\ ~Claimed(s, m)[m].quiet
<1>1. Claimed(s, m) \in [MoveIds -> Move]
  BY DEF Claimed, Move
<1>2. \A k \in MoveIds \ {m} : Claimed(s, m)[k] = moves[k]
  BY DEF Claimed
<1>3. /\ Claimed(s, m)[m].status = moves[m].status
      /\ Claimed(s, m)[m].from = moves[m].from /\ Claimed(s, m)[m].to = moves[m].to
      /\ Claimed(s, m)[m].by = s /\ ~Claimed(s, m)[m].quiet
  BY DEF Claimed, Move
<1> QED BY <1>1, <1>2, <1>3

LEMMA ThreadGoes ==
    ASSUME worker \in [Servers -> Thread], NEW s \in Servers,
           NEW pc \in Working \union {"none", "loop"}, WorkerTo(s, pc)
    PROVE  /\ worker' \in [Servers -> Thread]
           /\ \A t \in Servers \ {s} : worker'[t] = worker[t]
           /\ worker'[s].pc = pc /\ worker'[s].move = worker[s].move /\ worker'[s].done = worker[s].done
<1>1. worker' \in [Servers -> Thread]
  BY DEF WorkerTo, Thread, Working
<1>2. \A t \in Servers \ {s} : worker'[t] = worker[t]
  BY DEF WorkerTo
<1>3. worker'[s].pc = pc /\ worker'[s].move = worker[s].move /\ worker'[s].done = worker[s].done
  BY DEF WorkerTo, Thread
<1> QED BY <1>1, <1>2, <1>3

LEMMA ThreadLoops ==
    ASSUME worker \in [Servers -> Thread], NEW s \in Servers, worker' = [worker EXCEPT ![s] = Looping]
    PROVE  /\ worker' \in [Servers -> Thread]
           /\ \A t \in Servers \ {s} : worker'[t] = worker[t]
           /\ worker'[s].pc = "loop" /\ worker'[s].move = 0
<1>1. Looping \in Thread /\ Looping.pc = "loop" /\ Looping.move = 0
  BY ClusterAssumption DEF Looping, NoThread, Thread
<1> QED BY <1>1

LEMMA WorkerStarted ==
    ASSUME worker \in [Servers -> Thread], NEW s \in Servers
    PROVE  /\ WithWorker(s) \in [Servers -> Thread]
           /\ \A t \in Servers \ {s} : WithWorker(s)[t] = worker[t]
           /\ \/ WithWorker(s)[s] = worker[s]
              \/ worker[s].pc = "none" /\ WithWorker(s)[s].pc = "loop" /\ WithWorker(s)[s].move = 0
<1>1. Looping \in Thread /\ Looping.pc = "loop" /\ Looping.move = 0
  BY ClusterAssumption DEF Looping, NoThread, Thread
<1> QED BY <1>1 DEF WithWorker

LEMMA RunTypes ==
    ASSUME ClusterTypeOK, NEW s \in Servers, NEW w \in Runs, NEW r \in Run,
           runs' = [runs EXCEPT ![s][w] = r]
    PROVE  /\ runs' \in [Servers -> [Runs -> Run]]
           /\ \A t \in Servers \ {s} : runs'[t] = runs[t]
           /\ \A v \in Runs \ {w} : runs'[s][v] = runs[s][v]
           /\ runs'[s][w] = r
<1>1. runs \in [Servers -> [Runs -> Run]]
  BY DEF ClusterTypeOK, Runs
<1> QED BY <1>1

LEMMA FreshRun ==
    ASSUME NEW pc \in {"none", "wait", "list"}
    PROVE  RunAt(pc) \in Run /\ RunAt(pc).move = 0 /\ RunAt(pc).pc = pc
BY ClusterAssumption DEF RunAt, Run, Copying

LEMMA RecoversRun ==
    ASSUME moves \in [MoveIds -> Move], NEW m \in MoveIds, moves[m].status \in Copying
    PROVE  /\ Recovers(m) \in Run /\ Recovers(m).pc = "discard" /\ Recovers(m).move = m
           /\ Recovers(m).seen = moves[m].status
BY ClusterAssumption DEF Recovers, Run, MoveIds

(* A worker at work is alone, with its own move; so is a recovery, but for a *)
(* worker that removes the old copy and another recovery of its server.      *)
LEMMA WorksAlone ==
    ASSUME ClusterInv, Alone, NEW s \in Servers, worker[s].move # 0
    PROVE  /\ worker[s].move \in MoveIds /\ InWork(worker[s].move)
           /\ \A k \in MoveIds : InWork(k) => k = worker[s].move
           /\ \A t \in Servers \ {s} : worker[t].move = 0
           /\ worker[s].pc # "clean" => \A t \in Servers : \A w \in Runs : runs[t][w].move = 0
           /\ WorkerFits(s) /\ MoveFits(worker[s].move)
<1>1. MoveInv
  BY DEF ClusterInv
<1>2. \A t \in Servers : worker[t].move # 0 => worker[t].move \in MoveIds
  BY TypedThreads DEF ClusterInv, ThreadsHold
<1>3. \A t \in Servers : \A w \in Runs : runs[t][w].move # 0 => runs[t][w].move \in MoveIds
  BY TypedThreads DEF ClusterInv, ThreadsHold
<1> DEFINE m == worker[s].move
<1>4. m \in MoveIds /\ InWork(m)
  BY <1>2 DEF InWork, WorkedOn
<1>5. \A k \in MoveIds : InWork(k) => k = m
  BY <1>1, <1>4 DEF MoveInv, OneInWork
<1>6. ASSUME NEW t \in Servers, worker[t].move # 0 PROVE t = s
  <2>1. worker[t].move = m
    BY <1>2, <1>5, <1>6 DEF InWork, WorkedOn
  <2> QED BY <1>1, <1>6, <2>1 DEF MoveInv, WorkerFits
<1>7. ASSUME NEW t \in Servers, NEW w \in Runs, runs[t][w].move # 0 PROVE worker[s].pc = "clean"
  <2>1. runs[t][w].move = m
    BY <1>3, <1>5, <1>7 DEF InWork, RecoveredBy
  <2> QED BY <1>1, <1>7, <2>1 DEF MoveInv, RunFits
<1> QED BY <1>1, <1>4, <1>5, <1>6, <1>7 DEF MoveInv

LEMMA RecoversAlone ==
    ASSUME ClusterInv, Alone, NEW s \in Servers, NEW w \in Runs, runs[s][w].move # 0
    PROVE  LET m == runs[s][w].move
           IN  /\ m \in MoveIds /\ InWork(m) /\ \A k \in MoveIds : InWork(k) => k = m
               /\ \A t \in Servers : worker[t].move # 0 => t = s /\ worker[s].move = m /\ worker[s].pc = "clean"
               /\ \A t \in Servers : \A v \in Runs : runs[t][v].move # 0 => t = s /\ runs[s][v].move = m
               /\ RunFits(s, w) /\ MoveFits(m)
<1>1. MoveInv
  BY DEF ClusterInv
<1>2. \A t \in Servers : worker[t].move # 0 => worker[t].move \in MoveIds
  BY TypedThreads DEF ClusterInv, ThreadsHold
<1>3. \A t \in Servers : \A v \in Runs : runs[t][v].move # 0 => runs[t][v].move \in MoveIds
  BY TypedThreads DEF ClusterInv, ThreadsHold
<1> DEFINE m == runs[s][w].move
<1>4. m \in MoveIds /\ InWork(m)
  BY <1>3 DEF InWork, RecoveredBy
<1>5. \A k \in MoveIds : InWork(k) => k = m
  BY <1>1, <1>4 DEF MoveInv, OneInWork
<1>6. ASSUME NEW t \in Servers, worker[t].move # 0
      PROVE  t = s /\ worker[s].move = m /\ worker[s].pc = "clean"
  <2>1. worker[t].move = m
    BY <1>2, <1>5, <1>6 DEF InWork, WorkedOn
  <2> QED BY <1>1, <1>6, <2>1 DEF MoveInv, WorkerFits, RunFits
<1>7. ASSUME NEW t \in Servers, NEW v \in Runs, runs[t][v].move # 0 PROVE t = s /\ runs[s][v].move = m
  <2>1. runs[t][v].move = m
    BY <1>3, <1>5, <1>7 DEF InWork, RecoveredBy
  <2> QED BY <1>1, <1>7, <2>1 DEF MoveInv, RunFits
<1> QED BY <1>1, <1>4, <1>5, <1>6, <1>7 DEF MoveInv

----------------------------------------------------------------------------
(* The worker's steps.                                                       *)
LEMMA ThreadsHeld ==
    ASSUME ClusterInv, NEW s \in up, UNCHANGED <<up, runs>>, \A t \in Servers \ {s} : worker'[t] = worker[t],
           worker'[s].pc \in Working <=> worker'[s].move # 0
    PROVE  ThreadsHold'
BY DEF ThreadsHold, ClusterInv

LEMMA OneMove ==
    ASSUME NEW m \in MoveIds, Whole', InWork(m)' => MoveFits(m)',
           \A t \in Servers : worker'[t].move \in {0, m} /\ WorkerFits(t)',
           \A t \in Servers : \A w \in Runs : runs'[t][w].move \in {0, m} /\ RunFits(t, w)',
           \A k \in MoveIds \ {m} : moves'[k].status \notin Unfinished
    PROVE  MoveInv'
<1>1. 0 \notin MoveIds
  BY ClusterAssumption DEF MoveIds
<1>2. ASSUME NEW k \in MoveIds, InWork(k)' PROVE k = m
  BY <1>1, <1>2 DEF InWork, WorkedOn, RecoveredBy
<1> QED BY <1>2 DEF MoveInv, OneInWork

LEMMA SoleWorker ==
    ASSUME NEW s \in Servers, NEW m \in MoveIds,
           \A t \in Servers \ {s} : worker'[t].move = 0, worker'[s].move \in {0, m},
           \A t \in Servers : \A w \in Runs : runs'[t][w].move = 0,
           \A k \in MoveIds \ {m} : moves'[k].status \notin Unfinished,
           Whole', InWork(m)' => MoveFits(m)', WorkerFits(s)'
    PROVE  MoveInv'
<1>1. \A t \in Servers : worker'[t].move \in {0, m} /\ WorkerFits(t)'
  BY DEF WorkerFits
<1>2. \A t \in Servers : \A w \in Runs : runs'[t][w].move \in {0, m} /\ RunFits(t, w)'
  BY DEF RunFits
<1> QED BY <1>1, <1>2, OneMove

(* A step of a worker that copies, up to its switch, keeps everything when   *)
(* what it did to its own move fits.                                         *)
LEMMA CopyingStep ==
    ASSUME ClusterInv, NEW s \in up, NEW CONSTANT m \in MoveIds, worker[s].move = m,
           worker[s].pc \in Working \ {"clean"}, UNCHANGED <<leaderVars, runs, overlaps>>,
           faults' \in 0 .. MaxFaults,
           moves' \in [MoveIds -> Move], worker' \in [Servers -> Thread],
           stopping' \in [Servers -> SUBSET MoveIds],
           location' \in Buckets, held' \in [Buckets -> SUBSET Files], listed' \subseteq Buckets,
           \A k \in MoveIds \ {m} : moves'[k] = moves[k],
           \A t \in Servers \ {s} : worker'[t] = worker[t],
           worker'[s].pc \in Working <=> worker'[s].move # 0,
           worker'[s].move \in {0, m},
           Alone /\ MoveInv => Whole' /\ (InWork(m)' => MoveFits(m)') /\ WorkerFits(s)'
    PROVE  ClusterInv'
<1>1. s \in Servers /\ UNCHANGED <<up, lock, session, leader, runs, overlaps>>
  BY DEF leaderVars, ClusterInv, ClusterTypeOK
<1>2. ClusterTypeOK'
  BY <1>1 DEF ClusterInv, ClusterTypeOK
<1>3. ThreadsHold'
  BY <1>1, ThreadsHeld
<1>4. ASSUME Alone' PROVE MoveInv'
  <2>1. Alone /\ MoveInv
    BY <1>1, <1>4 DEF Alone, ClusterInv
  <2>2. worker[s].move # 0
    BY <1>1 DEF ClusterInv, ThreadsHold
  <2>3. /\ \A k \in MoveIds : InWork(k) => k = m
        /\ \A t \in Servers \ {s} : worker[t].move = 0
        /\ \A t \in Servers : \A w \in Runs : runs[t][w].move = 0
    BY <1>1, <2>1, <2>2, WorksAlone
  <2>4. \A k \in MoveIds \ {m} : moves'[k].status \notin Unfinished
    BY <2>3 DEF InWork
  <2>5. /\ \A t \in Servers \ {s} : worker'[t].move = 0
        /\ \A t \in Servers : \A w \in Runs : runs'[t][w].move = 0
    BY <1>1, <2>3
  <2>6. Whole' /\ (InWork(m)' => MoveFits(m)') /\ WorkerFits(s)' /\ worker'[s].move \in {0, m}
    BY <2>1
  <2> QED BY <1>1, <2>4, <2>5, <2>6, SoleWorker
<1> QED BY <1>2, <1>3, <1>4 DEF ClusterInv

LEMMA OfWorker ==
    ASSUME ClusterInv, NEW s \in Servers, worker[s].pc \in Working
    PROVE  /\ worker[s].move \in MoveIds /\ worker[s].move # 0
           /\ moves \in [MoveIds -> Move] /\ worker \in [Servers -> Thread]
           /\ stopping \in [Servers -> SUBSET MoveIds]
           /\ held \in [Buckets -> SUBSET Files] /\ listed \subseteq Buckets /\ location \in Buckets
           /\ moves[worker[s].move].to \in Buckets /\ moves[worker[s].move].from \in Buckets
           /\ OnlyWorker => UNCHANGED <<leaderVars, runs, overlaps>> /\ faults' \in 0 .. MaxFaults
           /\ MoveInv => WorkerFits(s) /\ MoveFits(worker[s].move) /\ Whole
<1>1. /\ worker[s].move \in MoveIds /\ worker[s].move # 0
      /\ moves \in [MoveIds -> Move] /\ worker \in [Servers -> Thread]
      /\ stopping \in [Servers -> SUBSET MoveIds]
      /\ held \in [Buckets -> SUBSET Files] /\ listed \subseteq Buckets /\ location \in Buckets
  BY TypedThreads DEF ClusterInv, ThreadsTyped, ThreadsHold
<1>2. moves[worker[s].move].to \in Buckets /\ moves[worker[s].move].from \in Buckets
  BY <1>1 DEF Move
<1>3. MoveInv => WorkerFits(s) /\ MoveFits(worker[s].move) /\ Whole
  BY <1>1 DEF MoveInv, InWork, WorkedOn
<1>4. OnlyWorker => UNCHANGED <<leaderVars, runs, overlaps>> /\ faults' \in 0 .. MaxFaults
  BY DEF OnlyWorker, ClusterInv, ClusterTypeOK
<1> QED BY <1>1, <1>2, <1>3, <1>4

LEMMA BeginCopyKeeps ==
    ASSUME ClusterInv, NEW s \in Servers, BeginCopy(s)
    PROVE  ClusterInv'
<1>1. /\ s \in up /\ worker[s].pc = "taken" /\ WorkerTo(s, "copy") /\ OnlyWorker
      /\ UNCHANGED <<stopping, location, held, listed>>
  BY DEF BeginCopy, In, bucketVars
<1>2. PICK m \in MoveIds : m = worker[s].move /\ Writes(m, "copying")
  BY <1>1, OfWorker DEF BeginCopy, Its, Working
<1> USE OfWorker DEF Working
<1>3. /\ worker' \in [Servers -> Thread] /\ \A t \in Servers \ {s} : worker'[t] = worker[t]
      /\ worker'[s].pc = "copy" /\ worker'[s].move = m
  BY <1>1, <1>2, ThreadGoes
<1>4. /\ moves' \in [MoveIds -> Move] /\ \A k \in MoveIds \ {m} : moves'[k] = moves[k]
      /\ moves'[m].status = "copying" /\ moves'[m].from = moves[m].from /\ moves'[m].to = moves[m].to
      /\ moves'[m].by = moves[m].by /\ moves'[m].quiet = moves[m].quiet
  BY <1>1, <1>2, WrittenMove DEF Unfinished, Copying
<1>5. ASSUME MoveInv PROVE Whole' /\ MoveFits(m)' /\ WorkerFits(s)'
  <2>1. WorkerFits(s) /\ MoveFits(m) /\ Whole /\ m # 0
    BY <1>1, <1>2, <1>5
  <2>2. Whole'
    BY <1>1, <2>1 DEF Whole
  <2>3. MoveFits(m)'
    BY <1>1, <1>2, <1>4, <2>1 DEF MoveFits, WorkerFits, Copying, Switched
  <2>4. WorkerFits(s)'
    BY <1>1, <1>2, <1>3, <1>4, <2>1 DEF WorkerFits, Agrees
  <2> QED BY <2>2, <2>3, <2>4
<1> QED BY <1>1, <1>2, <1>3, <1>4, <1>5, CopyingStep

LEMMA CopyFileKeeps ==
    ASSUME ClusterInv, NEW s \in Servers, CopyFile(s)
    PROVE  ClusterInv'
<1>1. /\ s \in up /\ worker[s].pc = "copy" /\ OnlyWorker
      /\ UNCHANGED <<moves, stopping, location, listed>>
  BY DEF CopyFile, In
<1>2. PICK m \in MoveIds : m = worker[s].move
  BY <1>1, OfWorker DEF Working
<1>3. PICK next \in Files : /\ held' = [held EXCEPT ![moves[m].to] = @ \union {next}]
                            /\ worker' = [worker EXCEPT ![s].done = next]
  <2>1. held[moves[m].from] \subseteq Files
    BY <1>1, <1>2, OfWorker DEF Working
  <2> QED BY <1>2, <2>1 DEF CopyFile, Its
<1> USE OfWorker DEF Working
<1>4. /\ worker' \in [Servers -> Thread] /\ \A t \in Servers \ {s} : worker'[t] = worker[t]
      /\ worker'[s].pc = "copy" /\ worker'[s].move = m
  <2>1. next \in 0 .. MaxFiles
    BY ClusterAssumption DEF Files
  <2> QED BY <1>1, <1>2, <1>3, <2>1 DEF Thread
<1>5. /\ held' \in [Buckets -> SUBSET Files]
      /\ \A b \in Buckets \ {moves[m].to} : held'[b] = held[b]
  BY <1>1, <1>2, <1>3
<1>6. ASSUME MoveInv PROVE Whole' /\ MoveFits(m)' /\ WorkerFits(s)'
  <2>1. WorkerFits(s) /\ MoveFits(m) /\ Whole /\ m # 0
    BY <1>1, <1>2, <1>6
  <2>2. location # moves[m].to /\ location \in Buckets
    BY <1>1, <1>2, <2>1 DEF WorkerFits, MoveFits, Agrees
  <2>3. Whole'
    BY <1>1, <1>5, <2>1, <2>2 DEF Whole
  <2>4. MoveFits(m)'
    BY <1>1, <2>1 DEF MoveFits
  <2>5. WorkerFits(s)'
    BY <1>1, <1>2, <1>4, <2>1 DEF WorkerFits, Agrees
  <2> QED BY <2>3, <2>4, <2>5
<1> QED BY <1>1, <1>2, <1>4, <1>5, <1>6, CopyingStep

LEMMA BeginVerifyKeeps ==
    ASSUME ClusterInv, NEW s \in Servers, BeginVerify(s) \/ Verify(s)
    PROVE  ClusterInv'
<1>1. PICK to \in {"verify", "publish"} :
      /\ s \in up /\ worker[s].pc = (IF to = "verify" THEN "copy" ELSE "verify")
      /\ Writes(Its(s), IF to = "verify" THEN "verifying" ELSE "switching")
      /\ WorkerTo(s, to) /\ OnlyWorker
      /\ UNCHANGED <<stopping, location, held, listed>>
      /\ to = "publish" => held[moves[Its(s)].to] = Files
  BY DEF BeginVerify, Verify, In, bucketVars
<1> DEFINE status == IF to = "verify" THEN "verifying" ELSE "switching"
<1>2. PICK m \in MoveIds : m = worker[s].move /\ Writes(m, status)
  BY <1>1, OfWorker DEF Its, Working
<1> USE OfWorker DEF Working
<1>3. /\ worker' \in [Servers -> Thread] /\ \A t \in Servers \ {s} : worker'[t] = worker[t]
      /\ worker'[s].pc = to /\ worker'[s].move = m
  BY <1>1, <1>2, ThreadGoes
<1>4. /\ moves' \in [MoveIds -> Move] /\ \A k \in MoveIds \ {m} : moves'[k] = moves[k]
      /\ moves'[m].status = status /\ moves'[m].from = moves[m].from /\ moves'[m].to = moves[m].to
      /\ moves'[m].by = moves[m].by /\ moves'[m].quiet = moves[m].quiet
  BY <1>1, <1>2, WrittenMove DEF Unfinished, Copying
<1>5. ASSUME MoveInv PROVE Whole' /\ MoveFits(m)' /\ WorkerFits(s)'
  <2>1. WorkerFits(s) /\ MoveFits(m) /\ Whole /\ m # 0
    BY <1>1, <1>2, <1>5
  <2>2. Whole'
    BY <1>1, <2>1 DEF Whole
  <2>3. location # moves[m].to /\ moves[m].by = s /\ ~moves[m].quiet
    BY <1>1, <1>2, <2>1 DEF WorkerFits, MoveFits, Agrees
  <2>4. MoveFits(m)'
    BY <1>1, <1>4, <2>1, <2>3 DEF MoveFits, Switched
  <2>5. WorkerFits(s)'
    BY <1>1, <1>2, <1>3, <1>4, <2>3 DEF WorkerFits, Agrees, Its
  <2> QED BY <2>2, <2>4, <2>5
<1> HIDE DEF status
<1> QED BY <1>1, <1>2, <1>3, <1>4, <1>5, CopyingStep

LEMMA PublishKeeps ==
    ASSUME ClusterInv, NEW s \in Servers, Publish(s)
    PROVE  ClusterInv'
<1> USE OfWorker DEF Working
<1>1. /\ s \in up /\ worker[s].pc = "publish" /\ WorkerTo(s, "locate") /\ OnlyWorker
      /\ UNCHANGED <<stopping, moves, location, held>>
  BY DEF Publish, In
<1>2. PICK m \in MoveIds : m = worker[s].move /\ listed' = listed \union {moves[m].to}
  BY <1>1 DEF Publish, Its
<1>3. /\ worker' \in [Servers -> Thread] /\ \A t \in Servers \ {s} : worker'[t] = worker[t]
      /\ worker'[s].pc = "locate" /\ worker'[s].move = m
  BY <1>1, <1>2, ThreadGoes
<1>4. ASSUME MoveInv PROVE Whole' /\ MoveFits(m)' /\ WorkerFits(s)'
  <2>1. WorkerFits(s) /\ MoveFits(m) /\ Whole /\ m # 0
    BY <1>1, <1>2, <1>4
  <2>2. Whole'
    BY <1>1, <1>2, <2>1 DEF Whole
  <2>3. MoveFits(m)'
    BY <1>1, <2>1 DEF MoveFits
  <2>4. WorkerFits(s)'
    BY <1>1, <1>2, <1>3, <2>1 DEF WorkerFits, Agrees
  <2> QED BY <2>2, <2>3, <2>4
<1>5. listed' \subseteq Buckets
  BY <1>1, <1>2
<1> QED BY <1>1, <1>2, <1>3, <1>4, <1>5, CopyingStep

LEMMA LocateKeeps ==
    ASSUME ClusterInv, NEW s \in Servers, Locate(s)
    PROVE  ClusterInv'
<1> USE OfWorker DEF Working
<1>1. /\ s \in up /\ worker[s].pc = "locate" /\ WorkerTo(s, "unlist") /\ OnlyWorker
      /\ UNCHANGED <<stopping, moves, listed, held>>
  BY DEF Locate, In
<1>2. PICK m \in MoveIds : m = worker[s].move /\ location' = moves[m].to
  BY <1>1 DEF Locate, Its
<1>3. /\ worker' \in [Servers -> Thread] /\ \A t \in Servers \ {s} : worker'[t] = worker[t]
      /\ worker'[s].pc = "unlist" /\ worker'[s].move = m
  BY <1>1, <1>2, ThreadGoes
<1>4. ASSUME MoveInv PROVE Whole' /\ MoveFits(m)' /\ WorkerFits(s)'
  <2>1. WorkerFits(s) /\ MoveFits(m) /\ m # 0
    BY <1>1, <1>2, <1>4
  <2>2. /\ held[moves[m].to] = Files /\ moves[m].to \in listed /\ moves[m].status = "switching"
        /\ moves[m].by = s /\ ~moves[m].quiet
    BY <1>1, <1>2, <2>1 DEF WorkerFits, Agrees
  <2>3. Whole'
    BY <1>1, <1>2, <2>2 DEF Whole
  <2>4. MoveFits(m)'
    BY <1>1, <1>2, <2>1, <2>2 DEF MoveFits, Switched
  <2>5. WorkerFits(s)'
    BY <1>1, <1>2, <1>3, <2>2 DEF WorkerFits, Agrees
  <2> QED BY <2>3, <2>4, <2>5
<1>5. location' \in Buckets
  BY <1>1, <1>2
<1> QED BY <1>1, <1>2, <1>3, <1>4, <1>5, CopyingStep

LEMMA DrainKeeps ==
    ASSUME ClusterInv, NEW s \in Servers, Drain(s)
    PROVE  ClusterInv'
<1> USE OfWorker DEF Working
<1>1. /\ s \in up /\ worker[s].pc = "unlist" /\ worker' = [worker EXCEPT ![s] = Looping] /\ OnlyWorker
      /\ UNCHANGED <<location, held>> /\ stopping' = [stopping EXCEPT ![s] = @ \ {Its(s)}]
  BY DEF Drain, In
<1>2. PICK m \in MoveIds : /\ m = worker[s].move /\ listed' = listed \ {moves[m].from}
                           /\ Writes(m, "draining")
  BY <1>1 DEF Drain, Its
<1>3. /\ worker' \in [Servers -> Thread] /\ \A t \in Servers \ {s} : worker'[t] = worker[t]
      /\ worker'[s].pc = "loop" /\ worker'[s].move = 0
  BY <1>1, ThreadLoops
<1>4. /\ moves' \in [MoveIds -> Move] /\ \A k \in MoveIds \ {m} : moves'[k] = moves[k]
      /\ moves'[m].status = "draining" /\ moves'[m].from = moves[m].from /\ moves'[m].to = moves[m].to
      /\ moves'[m].by = moves[m].by
  BY <1>1, <1>2, WrittenMove DEF Unfinished, Switched
<1>5. ASSUME MoveInv PROVE Whole' /\ MoveFits(m)' /\ WorkerFits(s)'
  <2>1. WorkerFits(s) /\ MoveFits(m) /\ Whole /\ m # 0
    BY <1>1, <1>2, <1>5
  <2>2. location = moves[m].to /\ location # moves[m].from
    BY <1>1, <1>2, <2>1 DEF WorkerFits, MoveFits
  <2>3. Whole'
    BY <1>1, <1>2, <2>1, <2>2 DEF Whole
  <2>4. MoveFits(m)'
    BY <1>1, <1>4, <2>2 DEF MoveFits, Copying
  <2>5. WorkerFits(s)'
    BY <1>3 DEF WorkerFits
  <2> QED BY <2>3, <2>4, <2>5
<1>6. stopping' \in [Servers -> SUBSET MoveIds] /\ listed' \subseteq Buckets
  BY <1>1, <1>2
<1> QED BY <1>1, <1>2, <1>3, <1>4, <1>5, <1>6, CopyingStep

(* Discarding a copy removes nothing from where the model is.                *)
LEMMA Discarded ==
    ASSUME ClusterTypeOK, NEW m \in MoveIds, DiscardCopy(m)
    PROVE  /\ held' \in [Buckets -> SUBSET Files] /\ listed' \subseteq Buckets
           /\ faults' \in 0 .. MaxFaults
           /\ Whole /\ location' = location => Whole'
<1>1. held \in [Buckets -> SUBSET Files] /\ listed \subseteq Buckets /\ faults \in 0 .. MaxFaults
      /\ location \in Buckets /\ MaxFaults \in Nat /\ moves[m].to \in Buckets
  BY ClusterAssumption DEF ClusterTypeOK, Move
<1>2. CASE Discards(m) /\ UNCHANGED faults /\ held' = [held EXCEPT ![moves[m].to] = {}] /\ listed' = listed \ {moves[m].to}
  BY <1>1, <1>2 DEF Discards, Whole
<1>3. CASE ~Discards(m) /\ UNCHANGED <<held, listed, faults>>
  BY <1>1, <1>3 DEF Whole
<1>4. CASE Discards(m) /\ Fault /\ UNCHANGED <<held, listed>>
  BY <1>1, <1>4 DEF Fault, Whole
<1> QED BY <1>2, <1>3, <1>4 DEF DiscardCopy

LEMMA GiveUpKeeps ==
    ASSUME ClusterInv, NEW s \in Servers, GiveUp(s)
    PROVE  ClusterInv'
<1> USE OfWorker DEF Working
<1>1. /\ s \in up /\ worker[s].pc \in Working \ {"clean"} /\ worker' = [worker EXCEPT ![s] = Looping]
      /\ UNCHANGED <<leaderVars, runs, overlaps, location>> /\ stopping' = [stopping EXCEPT ![s] = @ \ {Its(s)}]
  BY DEF GiveUp, In
<1>2. PICK m \in MoveIds : m = worker[s].move /\ DiscardCopy(m) /\ \E st \in {"cancelled", "failed"} : Writes(m, st)
  BY <1>1 DEF GiveUp, Its
<1>3. /\ worker' \in [Servers -> Thread] /\ \A t \in Servers \ {s} : worker'[t] = worker[t]
      /\ worker'[s].pc = "loop" /\ worker'[s].move = 0
  BY <1>1, ThreadLoops
<1>4. /\ moves' \in [MoveIds -> Move] /\ \A k \in MoveIds \ {m} : moves'[k] = moves[k]
      /\ moves'[m].status \in {"cancelled", "failed"}
  BY <1>1, <1>2, WrittenMove DEF Settled
<1>5. /\ held' \in [Buckets -> SUBSET Files] /\ listed' \subseteq Buckets /\ faults' \in 0 .. MaxFaults
      /\ Whole => Whole'
  BY <1>1, <1>2, Discarded DEF ClusterInv
<1>6. ASSUME Alone, MoveInv PROVE Whole' /\ (InWork(m)' => MoveFits(m)') /\ WorkerFits(s)'
  <2>1. Whole'
    BY <1>5, <1>6 DEF MoveInv
  <2>2. WorkerFits(s)'
    BY <1>3 DEF WorkerFits
  <2>3. ~InWork(m)'
    BY <1>6, <1>1, <1>2, <1>3, <1>4, WorksAlone, ClusterAssumption DEF InWork, WorkedOn, RecoveredBy, Unfinished, Copying, Switched, MoveIds
  <2> QED BY <2>1, <2>2, <2>3
<1>7. stopping' \in [Servers -> SUBSET MoveIds] /\ location' \in Buckets
  BY <1>1
<1> QED BY <1>1, <1>2, <1>3, <1>4, <1>5, <1>6, <1>7, CopyingStep

LEMMA TakeKeeps ==
    ASSUME ClusterInv, NEW s \in Servers, NEW m \in MoveIds, Take(s, m)
    PROVE  ClusterInv'
<1>1. /\ s \in up /\ worker[s].pc = "loop" /\ OnlyWorker /\ moves' = Claimed(s, m)
      /\ UNCHANGED <<stopping, location, held, listed>> /\ moves[m].status = "queued" /\ Claims(s, m)
      /\ worker' = [worker EXCEPT ![s] = [pc |-> "taken", move |-> m, done |-> 0]]
  BY DEF Take, In, bucketVars
<1>2. /\ moves \in [MoveIds -> Move] /\ worker \in [Servers -> Thread] /\ worker[s].move = 0
      /\ UNCHANGED <<up, leader, lock, session, runs, faults, overlaps>>
  BY <1>1 DEF ClusterInv, ClusterTypeOK, ThreadsHold, Working, OnlyWorker, leaderVars
<1>3. /\ worker' \in [Servers -> Thread] /\ \A t \in Servers \ {s} : worker'[t] = worker[t]
      /\ worker'[s].pc = "taken" /\ worker'[s].move = m
  <2>1. [pc |-> "taken", move |-> m, done |-> 0] \in Thread
    BY ClusterAssumption DEF Thread, MoveIds
  <2> QED BY <1>1, <1>2, <2>1
<1>4. /\ moves' \in [MoveIds -> Move] /\ \A k \in MoveIds \ {m} : moves'[k] = moves[k]
      /\ moves'[m].status = "queued" /\ moves'[m].from = moves[m].from /\ moves'[m].to = moves[m].to
      /\ moves'[m].by = s /\ ~moves'[m].quiet
  BY <1>1, <1>2, ClaimedMove
<1>5. ClusterTypeOK'
  BY <1>1, <1>2, <1>3, <1>4 DEF ClusterInv, ClusterTypeOK
<1>6. ThreadsHold'
  <2>1. m # 0
    BY ClusterAssumption DEF MoveIds
  <2> QED BY <1>1, <1>2, <1>3, <2>1, ThreadsHeld DEF Working
<1>7. ASSUME Alone' PROVE MoveInv'
  <2>1. Alone /\ MoveInv /\ InWork(m)
    BY <1>1, <1>2, <1>7 DEF Alone, ClusterInv, InWork, Unfinished
  <2>2. ASSUME NEW t \in Servers, worker[t].move # 0 PROVE FALSE
    <3>1. worker[t].move = m /\ WorkerFits(t)
      BY <2>1, <2>2, WorksAlone
    <3>2. moves[m].by = t /\ ~moves[m].quiet
      BY <2>2, <3>1 DEF WorkerFits
    <3> QED BY <1>1, <1>2, <2>2, <3>2, ClusterAssumption DEF Claims
  <2>3. ASSUME NEW t \in Servers, NEW w \in Runs, runs[t][w].move # 0 PROVE FALSE
    <3>1. runs[t][w].move = m /\ RunFits(t, w)
      BY <2>1, <2>3, RecoversAlone
    <3> QED BY <1>1, <2>3, <3>1 DEF RunFits, Copying
  <2>4. MoveFits(m) /\ Whole
    BY <2>1 DEF MoveInv
  <2>5. MoveFits(m)' /\ Whole'
    BY <1>1, <1>4, <2>4 DEF MoveFits, Whole, Switched
  <2>6. WorkerFits(s)'
    BY <1>1, <1>3, <1>4, <2>4 DEF WorkerFits, MoveFits, Agrees
  <2>7. \A k \in MoveIds \ {m} : moves'[k].status \notin Unfinished
    BY <1>4, <2>1 DEF MoveInv, OneInWork, InWork
  <2> QED BY <1>2, <1>3, <2>2, <2>3, <2>5, <2>6, <2>7, SoleWorker
<1> QED BY <1>5, <1>6, <1>7 DEF ClusterInv

LEMMA FinishKeeps ==
    ASSUME ClusterInv, NEW s \in Servers, NEW m \in MoveIds, Finish(s, m)
    PROVE  ClusterInv'
<1>1. /\ s \in up /\ worker[s].pc = "loop" /\ OnlyWorker
      /\ moves' = [Claimed(s, m) EXCEPT ![m].status = "cleaning"]
      /\ UNCHANGED <<stopping, location, held, listed>> /\ moves[m].status \in Switched /\ Claims(s, m)
      /\ worker' = [worker EXCEPT ![s] = [pc |-> "clean", move |-> m, done |-> 0]]
  BY DEF Finish, In, bucketVars
<1>2. /\ moves \in [MoveIds -> Move] /\ worker \in [Servers -> Thread] /\ worker[s].move = 0
      /\ UNCHANGED <<up, leader, lock, session, runs, faults, overlaps>>
  BY <1>1 DEF ClusterInv, ClusterTypeOK, ThreadsHold, Working, OnlyWorker, leaderVars
<1>3. /\ worker' \in [Servers -> Thread] /\ \A t \in Servers \ {s} : worker'[t] = worker[t]
      /\ worker'[s].pc = "clean" /\ worker'[s].move = m
  <2>1. [pc |-> "clean", move |-> m, done |-> 0] \in Thread
    BY ClusterAssumption DEF Thread, MoveIds
  <2> QED BY <1>1, <1>2, <2>1
<1>4. /\ moves' \in [MoveIds -> Move] /\ \A k \in MoveIds \ {m} : moves'[k] = moves[k]
      /\ moves'[m].status = "cleaning" /\ moves'[m].from = moves[m].from /\ moves'[m].to = moves[m].to
      /\ moves'[m].by = s /\ ~moves'[m].quiet
  <2> DEFINE claimed == Claimed(s, m)
  <2>1. /\ claimed \in [MoveIds -> Move] /\ \A k \in MoveIds \ {m} : claimed[k] = moves[k]
        /\ claimed[m].from = moves[m].from /\ claimed[m].to = moves[m].to
        /\ claimed[m].by = s /\ ~claimed[m].quiet
    BY <1>2, ClaimedMove
  <2>2. moves' = [claimed EXCEPT ![m].status = "cleaning"]
    BY <1>1
  <2> HIDE DEF claimed
  <2>3. moves' \in [MoveIds -> Move]
    BY <2>1, <2>2 DEF Move, Unfinished, Switched
  <2>4. \A k \in MoveIds \ {m} : moves'[k] = moves[k]
    BY <2>1, <2>2
  <2>5. /\ moves'[m].status = "cleaning" /\ moves'[m].from = moves[m].from /\ moves'[m].to = moves[m].to
        /\ moves'[m].by = s /\ ~moves'[m].quiet
    BY <2>1, <2>2 DEF Move
  <2> QED BY <2>3, <2>4, <2>5
<1>5. ClusterTypeOK'
  BY <1>1, <1>2, <1>3, <1>4 DEF ClusterInv, ClusterTypeOK
<1>6. ThreadsHold'
  <2>1. m # 0
    BY ClusterAssumption DEF MoveIds
  <2> QED BY <1>1, <1>2, <1>3, <2>1, ThreadsHeld DEF Working
<1>7. ASSUME Alone' PROVE MoveInv'
  <2>1. Alone /\ MoveInv /\ InWork(m)
    BY <1>1, <1>2, <1>7 DEF Alone, ClusterInv, InWork, Unfinished
  <2>2. ASSUME NEW t \in Servers, worker[t].move # 0 PROVE FALSE
    <3>1. worker[t].move = m /\ WorkerFits(t)
      BY <2>1, <2>2, WorksAlone
    <3>2. moves[m].by = t /\ ~moves[m].quiet
      BY <2>2, <3>1 DEF WorkerFits
    <3> QED BY <1>1, <1>2, <2>2, <3>2, ClusterAssumption DEF Claims
  <2>3. MoveFits(m) /\ Whole /\ location = moves[m].to
    BY <1>1, <2>1 DEF MoveInv, MoveFits
  <2>4. ASSUME NEW t \in Servers, NEW w \in Runs
        PROVE  runs'[t][w].move \in {0, m} /\ RunFits(t, w)'
    <3>1. CASE runs[t][w].move = 0
      BY <1>2, <3>1 DEF RunFits
    <3>2. CASE runs[t][w].move # 0
      <4>1. runs[t][w].move = m /\ RunFits(t, w)
        BY <2>1, <3>2, RecoversAlone
      <4>2. moves[m].by = t /\ ~moves[m].quiet /\ runs[t][w].pc = "discard" /\ runs[t][w].seen = "switching"
        BY <2>3, <3>2, <4>1 DEF RunFits
      <4>3. t = s
        BY <1>1, <4>2, ClusterAssumption DEF Claims
      <4>4. \A u \in Servers : worker'[u].move = m => worker'[u].pc = "clean"
        BY <1>3, <2>2, ClusterAssumption DEF MoveIds
      <4> QED BY <1>1, <1>2, <1>4, <2>3, <4>1, <4>2, <4>3, <4>4 DEF RunFits
    <3> QED BY <3>1, <3>2
  <2>5. MoveFits(m)' /\ Whole'
    BY <1>1, <1>4, <2>3 DEF MoveFits, Whole
  <2>6. ASSUME NEW t \in Servers PROVE worker'[t].move \in {0, m} /\ WorkerFits(t)'
    <3>1. CASE t = s
      BY <1>3, <1>4, <3>1 DEF WorkerFits, Agrees
    <3>2. CASE t # s
      BY <1>3, <2>2, <3>2 DEF WorkerFits
    <3> QED BY <3>1, <3>2
  <2>7. \A k \in MoveIds \ {m} : moves'[k].status \notin Unfinished
    BY <1>4, <2>1 DEF MoveInv, OneInWork, InWork
  <2> QED BY <2>4, <2>5, <2>6, <2>7, OneMove
<1> QED BY <1>5, <1>6, <1>7 DEF ClusterInv

LEMMA CleanKeeps ==
    ASSUME ClusterInv, NEW s \in Servers, Clean(s)
    PROVE  ClusterInv'
<1> USE OfWorker DEF Working
<1>1. /\ s \in up /\ worker[s].pc = "clean" /\ worker' = [worker EXCEPT ![s] = Looping] /\ OnlyWorker
      /\ UNCHANGED <<stopping, location>>
      /\ UNCHANGED <<up, leader, lock, session, runs, faults, overlaps>>
  BY DEF Clean, In, OnlyWorker, leaderVars
<1>2. PICK m \in MoveIds :
         /\ m = worker[s].move
         /\ \/ /\ held' = [held EXCEPT ![moves[m].from] = {}] /\ listed' = listed \ {moves[m].from}
            \/ UNCHANGED <<held, listed>>
         /\ \E st \in {"done", "failed"} : Writes(m, st)
  BY <1>1 DEF Clean, Its
<1>3. /\ worker' \in [Servers -> Thread] /\ \A t \in Servers \ {s} : worker'[t] = worker[t]
      /\ worker'[s].pc = "loop" /\ worker'[s].move = 0
  BY <1>1, ThreadLoops
<1>4. /\ moves' \in [MoveIds -> Move] /\ \A k \in MoveIds \ {m} : moves'[k] = moves[k]
      /\ moves'[m].status \in {"done", "failed"} /\ moves'[m].from = moves[m].from /\ moves'[m].to = moves[m].to
      /\ moves'[m].by = moves[m].by /\ moves'[m].quiet = moves[m].quiet
  BY <1>1, <1>2, WrittenMove DEF Settled
<1>5. held' \in [Buckets -> SUBSET Files] /\ listed' \subseteq Buckets
  BY <1>1, <1>2
<1>6. ClusterTypeOK'
  BY <1>1, <1>3, <1>4, <1>5 DEF ClusterInv, ClusterTypeOK
<1>7. ThreadsHold'
  BY <1>1, <1>3, ThreadsHeld
<1>8. ASSUME Alone' PROVE MoveInv'
  <2>1. Alone /\ MoveInv
    BY <1>1, <1>8 DEF Alone, ClusterInv
  <2>2. /\ worker[s].move # 0 /\ InWork(m) /\ \A k \in MoveIds : InWork(k) => k = m
        /\ \A t \in Servers \ {s} : worker[t].move = 0
        /\ WorkerFits(s) /\ MoveFits(m)
    BY <1>1, <1>2, <2>1, WorksAlone
  <2>3. location = moves[m].to /\ location # moves[m].from /\ moves[m].by = s /\ ~moves[m].quiet
    BY <1>1, <1>2, <2>2 DEF WorkerFits, Agrees, MoveFits, Switched
  <2>4. Whole'
    BY <1>1, <1>2, <2>1, <2>3 DEF MoveInv, Whole
  <2>5. MoveFits(m)'
    BY <1>1, <1>4, <2>2 DEF MoveFits, Switched
  <2>6. ASSUME NEW t \in Servers PROVE worker'[t].move \in {0, m} /\ WorkerFits(t)'
    BY <1>3, <2>2 DEF WorkerFits
  <2>7. ASSUME NEW t \in Servers, NEW w \in Runs PROVE runs'[t][w].move \in {0, m} /\ RunFits(t, w)'
    <3>1. CASE runs[t][w].move = 0
      BY <1>1, <3>1 DEF RunFits
    <3>2. CASE runs[t][w].move # 0
      <4>1. runs[t][w].move = m /\ RunFits(t, w)
        BY <2>1, <2>2, <3>2, RecoversAlone
      <4>2. moves[m].by = t /\ ~moves[m].quiet /\ runs[t][w].pc = "discard" /\ runs[t][w].seen = "switching"
        BY <2>3, <3>2, <4>1 DEF RunFits
      <4>3. \A u \in Servers : worker'[u].move # m
        BY <1>3, <2>2, ClusterAssumption DEF MoveIds
      <4> QED BY <1>1, <1>4, <2>3, <4>1, <4>2, <4>3 DEF RunFits
    <3> QED BY <3>1, <3>2
  <2>8. \A k \in MoveIds \ {m} : moves'[k].status \notin Unfinished
    BY <1>4, <2>2 DEF InWork
  <2> QED BY <2>4, <2>5, <2>6, <2>7, <2>8, OneMove
<1> QED BY <1>6, <1>7, <1>8 DEF ClusterInv

LEMMA MoveWorkerKeeps ==
    ASSUME ClusterInv, NEW s \in Servers, MoveWorker(s)
    PROVE  ClusterInv'
BY TakeKeeps, FinishKeeps, BeginCopyKeeps, CopyFileKeeps, BeginVerifyKeeps, PublishKeeps, LocateKeeps,
   DrainKeeps, GiveUpKeeps, CleanKeeps DEF MoveWorker

----------------------------------------------------------------------------
(* Recovery.                                                                 *)
LEMMA EnsuredWorker ==
    ASSUME ClusterInv, NEW s \in Servers, NEW w, EnsureWorker(s, w)
    PROVE  /\ worker' \in [Servers -> Thread]
           /\ \A t \in Servers \ {s} : worker'[t] = worker[t]
           /\ \/ worker'[s] = worker[s]
              \/ worker[s].pc = "none" /\ worker'[s].pc = "loop" /\ worker'[s].move = 0
           /\ worker'[s].pc \in Working <=> worker'[s].move # 0
           /\ \A t \in Servers : worker'[t].move # 0 => worker'[t] = worker[t]
<1>1. worker \in [Servers -> Thread]
  BY DEF ClusterInv, ClusterTypeOK
<1>2. worker[s].pc \in Working <=> worker[s].move # 0
  BY DEF ClusterInv, ThreadsHold
<1> QED BY <1>1, <1>2, WorkerStarted DEF EnsureWorker, Working

LEMMA GoneOn ==
    ASSUME ClusterInv, NEW s \in Servers, NEW w \in Runs, GoTo(s, w, Recovered(w))
    PROVE  /\ runs' \in [Servers -> [Runs -> Run]]
           /\ \A t \in Servers \ {s} : runs'[t] = runs[t]
           /\ \A v \in Runs \ {w} : runs'[s][v] = runs[s][v]
           /\ runs'[s][w].pc \notin Recovering /\ runs'[s][w].move = 0
<1>1. Recovered(w) \in {"none", "wait"}
  BY DEF Recovered
<1>2. /\ RunAt(Recovered(w)) \in Run /\ RunAt(Recovered(w)).move = 0
      /\ RunAt(Recovered(w)).pc \notin Recovering
  BY <1>1, FreshRun DEF Recovering
<1> QED BY <1>2, RunTypes DEF GoTo, ClusterInv

LEMMA RunsHeld ==
    ASSUME ClusterInv, NEW s \in up, NEW w \in Runs, UNCHANGED up,
           \A t \in Servers \ {s} : worker'[t] = worker[t],
           worker'[s].pc \in Working <=> worker'[s].move # 0,
           \A t \in Servers \ {s} : runs'[t] = runs[t],
           \A v \in Runs \ {w} : runs'[s][v] = runs[s][v],
           runs'[s][w].pc \in Recovering <=> runs'[s][w].move # 0
    PROVE  ThreadsHold'
<1>1. ASSUME NEW t \in Servers PROVE worker'[t].pc \in Working <=> worker'[t].move # 0
  BY DEF ClusterInv, ThreadsHold
<1>2. ASSUME NEW t \in Servers, NEW v \in Runs PROVE runs'[t][v].pc \in Recovering <=> runs'[t][v].move # 0
  <2>1. CASE t = s /\ v = w
    BY <2>1
  <2>2. CASE ~(t = s /\ v = w)
    <3>1. runs'[t][v] = runs[t][v]
      BY <2>2
    <3> QED BY <3>1 DEF ClusterInv, ThreadsHold
  <2> QED BY <2>1, <2>2
<1>3. ASSUME NEW t \in Servers \ up PROVE worker'[t].pc = "none" /\ \A v \in Runs : runs'[t][v].move = 0
  BY DEF ClusterInv, ThreadsHold
<1> QED BY <1>1, <1>2, <1>3 DEF ThreadsHold

(* A step of a recovery keeps everything when what it did to its own move    *)
(* and run fits.                                                             *)
LEMMA RecoveringStep ==
    ASSUME ClusterInv, NEW s \in up, NEW w \in Runs, NEW CONSTANT m \in MoveIds,
           runs[s][w].move = m, UNCHANGED <<leaderVars, stopping, overlaps, location>>,
           faults' \in 0 .. MaxFaults,
           held' \in [Buckets -> SUBSET Files], listed' \subseteq Buckets,
           moves' \in [MoveIds -> Move], \A k \in MoveIds \ {m} : moves'[k] = moves[k],
           moves'[m].from = moves[m].from, moves'[m].to = moves[m].to,
           moves'[m].by = moves[m].by, moves'[m].quiet = moves[m].quiet,
           worker' \in [Servers -> Thread],
           \A t \in Servers \ {s} : worker'[t] = worker[t],
           worker'[s].pc \in Working <=> worker'[s].move # 0,
           \A t \in Servers : worker'[t].move # 0 => worker'[t] = worker[t],
           runs' \in [Servers -> [Runs -> Run]],
           \A t \in Servers \ {s} : runs'[t] = runs[t],
           \A v \in Runs \ {w} : runs'[s][v] = runs[s][v],
           runs'[s][w].pc \in Recovering <=> runs'[s][w].move # 0,
           runs'[s][w].move \in {0, m}, 
           Alone /\ MoveInv =>
             /\ Whole' /\ RunFits(s, w)'
             /\ \/ location = moves[m].to /\ moves'[m].status = "draining"
                \/ location # moves[m].to /\ moves'[m].status \in {moves[m].status, "failed"}
    PROVE  ClusterInv'
<1>1. s \in Servers /\ UNCHANGED <<up, lock, session, leader>> /\ m # 0
  BY ClusterAssumption DEF leaderVars, ClusterInv, ClusterTypeOK, MoveIds
<1>2. ClusterTypeOK'
  BY <1>1 DEF ClusterInv, ClusterTypeOK, Runs
<1>3. ThreadsHold'
  BY <1>1, RunsHeld
<1>4. ASSUME Alone' PROVE MoveInv'
  <2>1. Alone /\ MoveInv
    BY <1>4 DEF Alone, ClusterInv
  <2>2. /\ InWork(m) /\ \A k \in MoveIds : InWork(k) => k = m
        /\ \A t \in Servers : worker[t].move # 0 => t = s /\ worker[s].move = m /\ worker[s].pc = "clean"
        /\ \A t \in Servers : \A v \in Runs : runs[t][v].move # 0 => t = s /\ runs[s][v].move = m
        /\ RunFits(s, w) /\ MoveFits(m)
    BY <1>1, <2>1, RecoversAlone
  <2>3. \/ location = moves[m].to /\ moves'[m].status = "draining"
        \/ location # moves[m].to /\ moves'[m].status \in {moves[m].status, "failed"}
    BY <2>1
  <2>4. MoveFits(m)'
    BY <2>2, <2>3 DEF MoveFits, Switched
  <2>5. ASSUME NEW t \in Servers PROVE worker'[t].move \in {0, m} /\ WorkerFits(t)'
    <3>1. CASE worker'[t].move = 0
      BY <3>1 DEF WorkerFits
    <3>2. CASE worker'[t].move # 0
      <4>1. t = s /\ worker'[t] = worker[t] /\ worker[s].move = m /\ worker[s].pc = "clean"
        BY <2>2, <3>2
      <4>2. WorkerFits(s) /\ location = moves[m].to
        BY <1>1, <2>1, <2>2, <4>1 DEF MoveInv, WorkerFits, Agrees, MoveFits, Switched
      <4> QED BY <1>1, <2>3, <4>1, <4>2 DEF WorkerFits, Agrees
    <3> QED BY <3>1, <3>2
  <2>6. ASSUME NEW t \in Servers, NEW v \in Runs PROVE runs'[t][v].move \in {0, m} /\ RunFits(t, v)'
    <3>1. CASE t = s /\ v = w
      BY <2>1, <3>1
    <3>2. CASE ~(t = s /\ v = w) /\ runs'[t][v].move = 0
      BY <3>2 DEF RunFits
    <3>3. CASE ~(t = s /\ v = w) /\ runs'[t][v].move # 0
      <4>1. t = s /\ runs'[t][v] = runs[t][v] /\ runs[s][v].move = m
        BY <2>2, <3>3
      <4>2. RunFits(s, v)
        BY <1>1, <2>1 DEF MoveInv
      <4>3. \A u \in Servers : worker'[u].move = m => worker'[u].pc = "clean"
        BY <1>1, <2>2
      <4> QED BY <1>1, <2>3, <4>1, <4>2, <4>3 DEF RunFits, Copying
    <3> QED BY <3>1, <3>2, <3>3
  <2>7. \A k \in MoveIds \ {m} : moves'[k].status \notin Unfinished
    BY <2>2 DEF InWork
  <2> QED BY <2>1, <2>4, <2>5, <2>6, <2>7, OneMove
<1> QED BY <1>2, <1>3, <1>4 DEF ClusterInv

LEMMA RecoverDiscardsKeeps ==
    ASSUME ClusterInv, NEW s \in Servers, NEW w \in Runs, RecoverDiscards(s, w)
    PROVE  ClusterInv'
<1>1. /\ s \in up /\ runs[s][w].pc = "discard" /\ UNCHANGED <<leaderVars, stopping, overlaps>>
      /\ runs \in [Servers -> [Runs -> Run]] /\ worker \in [Servers -> Thread]
      /\ moves \in [MoveIds -> Move] /\ runs[s][w].move # 0 /\ faults \in 0 .. MaxFaults
  BY DEF RecoverDiscards, At, ClusterInv, ClusterTypeOK, Runs, ThreadsHold, Recovering
<1>2. PICK m \in MoveIds : m = runs[s][w].move
  BY <1>1, TypedThreads DEF ClusterInv, Recovering
<1>3. /\ held \in [Buckets -> SUBSET Files] /\ listed \subseteq Buckets /\ location \in Buckets
  BY DEF ClusterInv, ClusterTypeOK
<1>4. Alone /\ MoveInv => RunFits(s, w) /\ MoveFits(m) /\ Whole
  BY <1>1, <1>2, RecoversAlone DEF MoveInv
<1>5. CASE runs[s][w].seen = "switching" /\ location = moves[m].to
  <2>1. Writes(m, "draining") /\ GoTo(s, w, Recovered(w)) /\ EnsureWorker(s, w) /\ UNCHANGED <<location, held, listed, faults>>
    BY <1>2, <1>5 DEF RecoverDiscards, bucketVars
  <2>2. /\ moves' \in [MoveIds -> Move] /\ \A k \in MoveIds \ {m} : moves'[k] = moves[k]
        /\ moves'[m].status = "draining" /\ moves'[m].from = moves[m].from /\ moves'[m].to = moves[m].to
        /\ moves'[m].by = moves[m].by /\ moves'[m].quiet = moves[m].quiet
    BY <1>1, <2>1, WrittenMove DEF Unfinished, Switched
  <2>3. /\ runs' \in [Servers -> [Runs -> Run]] /\ \A t \in Servers \ {s} : runs'[t] = runs[t]
        /\ \A v \in Runs \ {w} : runs'[s][v] = runs[s][v]
        /\ runs'[s][w].pc \notin Recovering /\ runs'[s][w].move = 0
    BY <2>1, GoneOn
  <2>4. /\ worker' \in [Servers -> Thread] /\ \A t \in Servers \ {s} : worker'[t] = worker[t]
        /\ worker'[s].pc \in Working <=> worker'[s].move # 0
        /\ \A t \in Servers : worker'[t].move # 0 => worker'[t] = worker[t]
    BY <2>1, EnsuredWorker
  <2>5. Alone /\ MoveInv => Whole' /\ RunFits(s, w)'
    BY <1>4, <2>1, <2>3 DEF Whole, RunFits
  <2>6. /\ UNCHANGED <<leaderVars, stopping, overlaps, location>> /\ faults' \in 0 .. MaxFaults
        /\ held' \in [Buckets -> SUBSET Files] /\ listed' \subseteq Buckets
    BY <1>1, <1>3, <2>1
  <2>7. /\ runs'[s][w].pc \in Recovering <=> runs'[s][w].move # 0
        /\ runs'[s][w].move \in {0, m}
    BY <2>3
  <2>8. Alone /\ MoveInv => /\ Whole' /\ RunFits(s, w)'
                           /\ location = moves[m].to /\ moves'[m].status = "draining"
    BY <1>5, <2>2, <2>5
  <2>9. s \in up /\ runs[s][w].move = m
    BY <1>1, <1>2
  <2> QED BY <2>2, <2>3, <2>4, <2>6, <2>7, <2>8, <2>9, RecoveringStep, SMTT(60)
<1>6. CASE ~(runs[s][w].seen = "switching" /\ location = moves[m].to)
  <2>1. DiscardCopy(m) /\ runs' = [runs EXCEPT ![s][w].pc = "write"] /\ UNCHANGED <<location, moves, worker>>
    BY <1>2, <1>6 DEF RecoverDiscards
  <2>2. /\ held' \in [Buckets -> SUBSET Files] /\ listed' \subseteq Buckets /\ faults' \in 0 .. MaxFaults
        /\ Whole => Whole'
    BY <2>1, Discarded DEF ClusterInv
  <2>3. /\ runs' \in [Servers -> [Runs -> Run]] /\ \A t \in Servers \ {s} : runs'[t] = runs[t]
        /\ \A v \in Runs \ {w} : runs'[s][v] = runs[s][v]
        /\ runs'[s][w].pc = "write" /\ runs'[s][w].move = m
    <3> DEFINE r == [runs[s][w] EXCEPT !.pc = "write"]
    <3>1. r \in Run /\ r.pc = "write" /\ r.move = m
      <4>1. runs[s][w] \in Run
        BY <1>1
      <4> QED BY <1>2, <4>1 DEF Run
    <3>2. runs' = [runs EXCEPT ![s][w] = r]
      BY <2>1
    <3> HIDE DEF r
    <3> QED BY <3>1, <3>2, RunTypes DEF ClusterInv
  <2>4. /\ worker[s].pc \in Working <=> worker[s].move # 0
    BY DEF ClusterInv, ThreadsHold
  <2>5. Alone /\ MoveInv => Whole' /\ RunFits(s, w)' /\ location # moves[m].to
    BY <1>1, <1>2, <1>4, <1>6, <2>1, <2>2, <2>3 DEF RunFits
  <2>6. runs'[s][w].pc \in Recovering
    BY <2>3 DEF Recovering
  <2> QED BY <1>1, <1>2, <1>3, <2>1, <2>2, <2>3, <2>4, <2>5, <2>6, RecoveringStep
<1> QED BY <1>5, <1>6

LEMMA RecoverWritesKeeps ==
    ASSUME ClusterInv, NEW s \in Servers, NEW w \in Runs, RecoverWrites(s, w)
    PROVE  ClusterInv'
<1>1. /\ s \in up /\ runs[s][w].pc = "write" /\ UNCHANGED <<leaderVars, stopping, overlaps>>
      /\ UNCHANGED <<location, held, listed, faults>> /\ GoTo(s, w, Recovered(w)) /\ EnsureWorker(s, w)
      /\ moves \in [MoveIds -> Move] /\ runs[s][w].move # 0 /\ faults \in 0 .. MaxFaults
      /\ held \in [Buckets -> SUBSET Files] /\ listed \subseteq Buckets
  BY DEF RecoverWrites, At, ClusterInv, ClusterTypeOK, Runs, ThreadsHold, Recovering, bucketVars
<1>2. PICK m \in MoveIds : m = runs[s][w].move /\ Writes(m, "failed")
  BY <1>1, TypedThreads DEF ClusterInv, Recovering, RecoverWrites
<1>3. Alone /\ MoveInv => RunFits(s, w) /\ MoveFits(m) /\ Whole
  BY <1>1, <1>2, RecoversAlone DEF MoveInv
<1>4. /\ moves' \in [MoveIds -> Move] /\ \A k \in MoveIds \ {m} : moves'[k] = moves[k]
      /\ moves'[m].status = "failed" /\ moves'[m].from = moves[m].from /\ moves'[m].to = moves[m].to
      /\ moves'[m].by = moves[m].by /\ moves'[m].quiet = moves[m].quiet
  BY <1>1, <1>2, WrittenMove DEF Settled
<1>5. /\ runs' \in [Servers -> [Runs -> Run]] /\ \A t \in Servers \ {s} : runs'[t] = runs[t]
      /\ \A v \in Runs \ {w} : runs'[s][v] = runs[s][v]
      /\ runs'[s][w].pc \notin Recovering /\ runs'[s][w].move = 0
  BY <1>1, GoneOn
<1>6. /\ worker' \in [Servers -> Thread] /\ \A t \in Servers \ {s} : worker'[t] = worker[t]
      /\ worker'[s].pc \in Working <=> worker'[s].move # 0
      /\ \A t \in Servers : worker'[t].move # 0 => worker'[t] = worker[t]
  BY <1>1, EnsuredWorker
<1>7. Alone /\ MoveInv => Whole' /\ RunFits(s, w)' /\ location # moves[m].to
  BY <1>1, <1>2, <1>3, <1>5 DEF Whole, RunFits
<1> QED BY <1>1, <1>2, <1>4, <1>5, <1>6, <1>7, RecoveringStep

(* A step that gives work up, or writes a row that no longer needs it, keeps *)
(* what holds of the rest.                                                   *)
LEMMA LessWork ==
    ASSUME MoveInv, UNCHANGED <<location, held, listed>>,
           \A t \in Servers : worker'[t].move = 0 \/ worker'[t] = worker[t],
           \A t \in Servers : \A w \in Runs : runs'[t][w].move = 0 \/ runs'[t][w] = runs[t][w],
           \A m \in MoveIds :
              /\ moves'[m].from = moves[m].from /\ moves'[m].to = moves[m].to /\ moves'[m].by = moves[m].by
              /\ \/ moves'[m].status = moves[m].status
                 \/ moves[m].status = "queued" /\ moves'[m].status = "cancelled"
              /\ moves'[m].quiet => \/ moves[m].quiet
                                    \/ \A t \in Servers : /\ worker'[t].move # m
                                                          /\ \A w \in Runs : runs'[t][w].move # m,
           \A t \in Servers : worker[t].move # 0 => worker[t].move \in MoveIds,
           \A t \in Servers : \A w \in Runs : runs[t][w].move # 0 => runs[t][w].move \in MoveIds
    PROVE  MoveInv'
<1>1. 0 \notin MoveIds
  BY ClusterAssumption DEF MoveIds
<1>2. ASSUME NEW m \in MoveIds, InWork(m)' PROVE InWork(m)
  BY <1>1, <1>2 DEF InWork, WorkedOn, RecoveredBy, Unfinished, Copying, Switched
<1>3. OneInWork'
  BY <1>2 DEF OneInWork, MoveInv
<1>4. ASSUME NEW m \in MoveIds, InWork(m)' PROVE MoveFits(m)'
  <2>1. MoveFits(m)
    BY <1>2, <1>4 DEF MoveInv
  <2> QED BY <2>1 DEF MoveFits, Switched
<1>5. ASSUME NEW t \in Servers PROVE WorkerFits(t)'
  <2>1. CASE worker'[t].move = 0
    BY <2>1 DEF WorkerFits
  <2>2. CASE worker'[t].move # 0
    <3>1. worker'[t] = worker[t] /\ worker[t].move \in MoveIds /\ WorkerFits(t)
      BY <2>2 DEF MoveInv
    <3> QED BY <2>2, <3>1 DEF WorkerFits, Agrees
  <2> QED BY <2>1, <2>2
<1>6. ASSUME NEW t \in Servers, NEW w \in Runs PROVE RunFits(t, w)'
  <2>1. CASE runs'[t][w].move = 0
    BY <2>1 DEF RunFits
  <2>2. CASE runs'[t][w].move # 0
    <3>1. runs'[t][w] = runs[t][w] /\ runs[t][w].move \in MoveIds /\ RunFits(t, w)
      BY <2>2 DEF MoveInv
    <3>2. \A u \in Servers : worker'[u].move = runs[t][w].move => worker'[u].pc = "clean"
      BY <1>1, <2>2, <3>1 DEF RunFits
    <3> QED BY <2>2, <3>1, <3>2 DEF RunFits, Copying
  <2> QED BY <2>1, <2>2
<1> QED BY <1>3, <1>4, <1>5, <1>6 DEF MoveInv, Whole

(* Whoever may claim a move that has begun: only its own threads, if any,    *)
(* work on it, and nobody on another.                                        *)
LEMMA ClaimsAlone ==
    ASSUME ClusterInv, Alone, NEW s \in Servers, NEW m \in MoveIds,
           moves[m].status \in Copying, Claims(s, m)
    PROVE  /\ InWork(m) /\ MoveFits(m) /\ Whole /\ \A k \in MoveIds : InWork(k) => k = m
           /\ \A t \in Servers : worker[t].move # 0 => t = s /\ worker[s].move = m /\ moves[m].by = s
           /\ \A t \in Servers : \A w \in Runs :
                 runs[t][w].move # 0 => t = s /\ runs[s][w].move = m /\ moves[m].by = s /\ RunFits(s, w)
<1>1. MoveInv /\ InWork(m)
  BY DEF ClusterInv, InWork, Unfinished
<1>2. ASSUME NEW t \in Servers, worker[t].move # 0
      PROVE  t = s /\ worker[s].move = m /\ moves[m].by = s
  <2>1. worker[t].move = m /\ WorkerFits(t)
    BY <1>1, <1>2, WorksAlone
  <2>2. moves[m].by = t /\ ~moves[m].quiet
    BY <1>2, <2>1 DEF WorkerFits
  <2> QED BY <2>1, <2>2, ClusterAssumption DEF Claims
<1>3. ASSUME NEW t \in Servers, NEW w \in Runs, runs[t][w].move # 0
      PROVE  t = s /\ runs[s][w].move = m /\ moves[m].by = s /\ RunFits(s, w)
  <2>1. runs[t][w].move = m /\ RunFits(t, w)
    BY <1>1, <1>3, RecoversAlone
  <2>2. moves[m].by = t /\ ~moves[m].quiet
    BY <1>3, <2>1 DEF RunFits
  <2> QED BY <2>1, <2>2, ClusterAssumption DEF Claims
<1> QED BY <1>1, <1>2, <1>3 DEF MoveInv, OneInWork

(* A claim of a recovery, of a move no worker has to do with.                *)
LEMMA ClaimingStep ==
    ASSUME ClusterInv, NEW s \in up, NEW w \in Runs, NEW CONSTANT m \in MoveIds,
           moves[m].status \in Copying, Claims(s, m),
           \A t \in Servers : worker'[t] = worker[t] /\ worker[t].move = 0,
           UNCHANGED <<location, held, listed>>, Alone,
           moves'[m].status = moves[m].status,
           moves'[m].from = moves[m].from, moves'[m].to = moves[m].to,
           moves'[m].by = s, ~moves'[m].quiet,
           \A k \in MoveIds \ {m} : moves'[k].status = moves[k].status,
           \A t \in Servers : \A v \in Runs :
              \/ t = s /\ v = w
              \/ runs'[t][v].move = 0
              \/ runs'[t][v] = runs[t][v],
           runs'[s][w].move = m, runs'[s][w].pc = "discard", runs'[s][w].seen = moves[m].status
    PROVE  MoveInv'
<1>1. s \in Servers /\ m # 0
  BY ClusterAssumption DEF ClusterInv, ClusterTypeOK, MoveIds
<1>2. /\ MoveFits(m) /\ Whole /\ \A k \in MoveIds : InWork(k) => k = m
      /\ \A t \in Servers : \A v \in Runs :
            runs[t][v].move # 0 => t = s /\ runs[s][v].move = m /\ moves[m].by = s /\ RunFits(s, v)
  BY <1>1, ClaimsAlone
<1>3. Whole' /\ MoveFits(m)'
  BY <1>2 DEF Whole, MoveFits
<1>4. \A t \in Servers : worker'[t].move \in {0, m} /\ WorkerFits(t)'
  BY DEF WorkerFits
<1>5. ASSUME NEW t \in Servers, NEW v \in Runs PROVE runs'[t][v].move \in {0, m} /\ RunFits(t, v)'
  <2>1. CASE t = s /\ v = w
    BY <1>1, <1>2, <2>1 DEF RunFits, MoveFits, Copying
  <2>2. CASE ~(t = s /\ v = w) /\ runs'[t][v].move = 0
    BY <2>2 DEF RunFits
  <2>3. CASE ~(t = s /\ v = w) /\ runs'[t][v].move # 0
    <3>1. runs'[t][v] = runs[t][v]
      BY <2>3
    <3>2. t = s /\ runs[s][v].move = m /\ RunFits(s, v)
      BY <1>2, <2>3, <3>1
    <3> QED BY <1>1, <3>1, <3>2 DEF RunFits
  <2> QED BY <2>1, <2>2, <2>3
<1>6. \A k \in MoveIds \ {m} : moves'[k].status \notin Unfinished
  BY <1>2 DEF InWork
<1> QED BY <1>3, <1>4, <1>5, <1>6, OneMove

LEMMA MovesInPlace ==
    ASSUME ClusterInv
    PROVE  /\ \A t \in Servers : worker[t].move # 0 => worker[t].move \in MoveIds
           /\ \A t \in Servers : \A w \in Runs : runs[t][w].move # 0 => runs[t][w].move \in MoveIds
BY TypedThreads DEF ClusterInv, ThreadsHold

LEMMA RecoverClaimsKeeps ==
    ASSUME ClusterInv, NEW s \in Servers, RecoverClaims(s)
    PROVE  ClusterInv'
<1>1. /\ s \in up /\ runs[s]["elected"].pc = "list" /\ UNCHANGED <<leaderVars, faults, stopping, location, held, listed>>
      /\ runs \in [Servers -> [Runs -> Run]] /\ worker \in [Servers -> Thread]
      /\ moves \in [MoveIds -> Move] /\ "elected" \in Runs
      /\ overlaps \subseteq {"slow", "elected", "late", "restart", "demoted"}
  BY DEF RecoverClaims, At, ClusterInv, ClusterTypeOK, Runs, bucketVars
<1>2. UNCHANGED <<up, lock, session, leader>>
  BY <1>1 DEF leaderVars
<1>3. CASE Recoverable(s, "elected") = {}
  <2>1. GoTo(s, "elected", "none") /\ UNCHANGED <<moves, overlaps>> /\ EnsureWorker(s, "elected")
    BY <1>3 DEF RecoverClaims
  <2>2. /\ runs' \in [Servers -> [Runs -> Run]]
        /\ \A t \in Servers \ {s} : runs'[t] = runs[t]
        /\ \A v \in Runs \ {"elected"} : runs'[s][v] = runs[s][v]
        /\ runs'[s]["elected"].pc \notin Recovering /\ runs'[s]["elected"].move = 0
    BY <1>1, <2>1, GoneOn DEF Recovered
  <2>3. /\ worker' \in [Servers -> Thread] /\ \A t \in Servers \ {s} : worker'[t] = worker[t]
        /\ worker'[s].pc \in Working <=> worker'[s].move # 0
        /\ \A t \in Servers : worker'[t].move # 0 => worker'[t] = worker[t]
    BY <2>1, EnsuredWorker
  <2>4. ClusterTypeOK'
    BY <1>1, <1>2, <2>1, <2>2, <2>3 DEF ClusterInv, ClusterTypeOK, Runs
  <2>5. ThreadsHold'
    BY <1>1, <1>2, <2>2, <2>3, RunsHeld
  <2>6. ASSUME Alone' PROVE MoveInv'
    <3>1. MoveInv
      BY <2>1, <2>6 DEF Alone, ClusterInv
    <3>2. \A t \in Servers : \A w \in Runs : runs'[t][w].move = 0 \/ runs'[t][w] = runs[t][w]
      BY <2>2
    <3> QED BY <1>1, <2>1, <2>3, <3>1, <3>2, MovesInPlace, LessWork
  <2> QED BY <2>4, <2>5, <2>6 DEF ClusterInv
<1>4. CASE Recoverable(s, "elected") # {}
  <2>1. PICK m \in Recoverable(s, "elected") :
           /\ moves' = Claimed(s, m) /\ runs' = [runs EXCEPT ![s]["elected"] = Recovers(m)]
           /\ Overlaps("elected", Works(s, m)) /\ UNCHANGED worker
    BY <1>4 DEF RecoverClaims
  <2>2. m \in MoveIds /\ moves[m].status \in Copying /\ Claims(s, m)
    BY DEF Recoverable
  <2>3. /\ moves' \in [MoveIds -> Move] /\ \A k \in MoveIds \ {m} : moves'[k] = moves[k]
        /\ moves'[m].status = moves[m].status /\ moves'[m].from = moves[m].from /\ moves'[m].to = moves[m].to
        /\ moves'[m].by = s /\ ~moves'[m].quiet
    BY <1>1, <2>1, <2>2, ClaimedMove
  <2>4. /\ Recovers(m) \in Run /\ Recovers(m).pc = "discard" /\ Recovers(m).move = m
        /\ Recovers(m).seen = moves[m].status
    BY <1>1, <2>2, RecoversRun
  <2>5. /\ runs' \in [Servers -> [Runs -> Run]] /\ \A t \in Servers \ {s} : runs'[t] = runs[t]
        /\ \A v \in Runs \ {"elected"} : runs'[s][v] = runs[s][v]
        /\ runs'[s]["elected"] = Recovers(m)
    BY <1>1, <2>1, <2>4, RunTypes DEF ClusterInv
  <2>6. overlaps' \subseteq {"slow", "elected", "late", "restart", "demoted"}
    BY <1>1, <2>1 DEF Overlaps
  <2>7. ClusterTypeOK'
    BY <1>1, <1>2, <2>1, <2>3, <2>5, <2>6 DEF ClusterInv, ClusterTypeOK, Runs
  <2>8. ThreadsHold'
    <3>1. m # 0 /\ runs'[s]["elected"].pc \in Recovering /\ runs'[s]["elected"].move # 0
      BY <2>2, <2>4, <2>5, ClusterAssumption DEF MoveIds, Recovering
    <3>2. worker[s].pc \in Working <=> worker[s].move # 0
      BY DEF ClusterInv, ThreadsHold
    <3> QED BY <1>1, <1>2, <2>1, <2>5, <3>1, <3>2, RunsHeld
  <2>9. ASSUME Alone' PROVE MoveInv'
    <3>1. Alone /\ ~Works(s, m)
      BY <2>1, <2>9 DEF Alone, Overlaps
    <3>2. \A t \in Servers : worker'[t] = worker[t] /\ worker[t].move = 0
      BY <2>1, <2>2, <3>1, ClaimsAlone DEF Works
    <3>3. /\ runs'[s]["elected"].move = m /\ runs'[s]["elected"].pc = "discard"
          /\ runs'[s]["elected"].seen = moves[m].status
      BY <2>4, <2>5
    <3>4. \A t \in Servers : \A v \in Runs : (t = s /\ v = "elected") \/ runs'[t][v] = runs[t][v]
      BY <2>5
    <3> QED BY <1>1, <2>2, <2>3, <3>1, <3>2, <3>3, <3>4, ClaimingStep
  <2> QED BY <2>7, <2>8, <2>9 DEF ClusterInv
<1> QED BY <1>3, <1>4

----------------------------------------------------------------------------
(* A tick.                                                                   *)
Beats(s) == [m \in MoveIds |-> [moves[m] EXCEPT !.quiet = @ /\ moves[m].by # s]]

LEMMA BeatsFit ==
    ASSUME moves \in [MoveIds -> Move], NEW s \in Servers
    PROVE  /\ Beats(s) \in [MoveIds -> Move]
           /\ \A m \in MoveIds :
                /\ Beats(s)[m].status = moves[m].status /\ Beats(s)[m].by = moves[m].by
                /\ Beats(s)[m].from = moves[m].from /\ Beats(s)[m].to = moves[m].to
                /\ Beats(s)[m].quiet => moves[m].quiet
<1>1. ASSUME NEW m \in MoveIds
      PROVE  /\ Beats(s)[m] \in Move
             /\ Beats(s)[m].status = moves[m].status /\ Beats(s)[m].by = moves[m].by
             /\ Beats(s)[m].from = moves[m].from /\ Beats(s)[m].to = moves[m].to
             /\ Beats(s)[m].quiet => moves[m].quiet
  <2> DEFINE r == moves[m]
             q == r.quiet /\ r.by # s
  <2>1. r \in Move
    OBVIOUS
  <2>2. Beats(s)[m] = [r EXCEPT !.quiet = q]
    BY DEF Beats
  <2>3. q \in BOOLEAN /\ (q => r.quiet)
    OBVIOUS
  <2> HIDE DEF r, q
  <2>4. [r EXCEPT !.quiet = q] \in Move
    BY <2>1, <2>3 DEF Move
  <2>5. /\ [r EXCEPT !.quiet = q].status = r.status /\ [r EXCEPT !.quiet = q].by = r.by
        /\ [r EXCEPT !.quiet = q].from = r.from /\ [r EXCEPT !.quiet = q].to = r.to
        /\ [r EXCEPT !.quiet = q].quiet = q
    BY <2>1 DEF Move
  <2> QED BY <2>2, <2>3, <2>4, <2>5 DEF r
<1>2. Beats(s) = [m \in MoveIds |-> Beats(s)[m]]
  BY DEF Beats
<1> QED BY <1>1, <1>2

(* What a tick does, said in one step at a time.                             *)
LEMMA TickEffect ==
    ASSUME ClusterInv, NEW s \in Servers, Tick(s)
    PROVE  /\ s \in up /\ runs[s]["tick"].pc = "wait"
           /\ session' \in [Servers -> {"none", "open", "lost"}]
           /\ lock' \in Servers \union {Nobody} /\ leader' \subseteq up
           /\ overlaps' \in {overlaps, overlaps \union {"demoted"}}
           /\ UNCHANGED <<up, faults, location, held, listed>>
           /\ stopping' \in [Servers -> SUBSET MoveIds]
           /\ \E elects \in Run :
                /\ elects = runs[s]["elected"] \/ (elects.move = 0 /\ elects.pc \notin Recovering)
                /\ \/ \E m \in Recoverable(s, "tick") :
                        /\ moves' = [Beats(s) EXCEPT ![m].by = s, ![m].quiet = FALSE]
                        /\ runs' = [runs EXCEPT ![s] = [tick |-> Recovers(m), elected |-> elects]]
                        /\ UNCHANGED worker
                   \/ /\ moves' = Beats(s) /\ runs' = [runs EXCEPT ![s]["elected"] = elects]
                      /\ EnsureWorker(s, "tick") \/ UNCHANGED worker
<1>1. /\ s \in up /\ runs[s]["tick"].pc = "wait" /\ UNCHANGED <<up, faults, location, held, listed>>
      /\ stopping' = [stopping EXCEPT ![s] = @ \union
           {m \in MoveIds : moves[m].by = s /\ moves[m].cancel /\ moves[m].status \in {"copying", "verifying"}}]
  BY DEF Tick, At, bucketVars
<1>2. /\ session \in [Servers -> {"none", "open", "lost"}] /\ lock \in Servers \union {Nobody}
      /\ leader \subseteq up /\ stopping \in [Servers -> SUBSET MoveIds]
      /\ runs \in [Servers -> [Runs -> Run]] /\ "elected" \in Runs
  BY DEF ClusterInv, ClusterTypeOK, Runs
<1> DEFINE lost == session[s] = "lost"
           wins == ~lost /\ lock = Nobody
           leads == wins \/ (~lost /\ lock = s)
           elects == IF wins /\ runs[s]["elected"].pc = "none" THEN RunAt("list") ELSE runs[s]["elected"]
<1>3. /\ session' = [session EXCEPT ![s] = IF lost THEN "none" ELSE "open"]
      /\ lock' = IF wins THEN s ELSE lock
      /\ leader' = IF leads THEN leader \union {s} ELSE leader \ {s}
  BY DEF Tick
<1>4. session' \in [Servers -> {"none", "open", "lost"}] /\ lock' \in Servers \union {Nobody} /\ leader' \subseteq up
  <2> HIDE DEF lost, wins, leads
  <2> QED BY <1>1, <1>2, <1>3
<1>5. overlaps' \in {overlaps, overlaps \union {"demoted"}}
  BY DEF Tick, Overlaps
<1>6. stopping' \in [Servers -> SUBSET MoveIds]
  BY <1>1, <1>2
<1>7. elects \in Run /\ (elects = runs[s]["elected"] \/ (elects.move = 0 /\ elects.pc \notin Recovering))
  BY <1>2, FreshRun DEF Recovering
<1>8. \/ \E m \in Recoverable(s, "tick") :
           /\ moves' = [Beats(s) EXCEPT ![m].by = s, ![m].quiet = FALSE]
           /\ runs' = [runs EXCEPT ![s] = [tick |-> Recovers(m), elected |-> elects]]
           /\ UNCHANGED worker
      \/ /\ moves' = Beats(s) /\ runs' = [runs EXCEPT ![s]["elected"] = elects]
         /\ EnsureWorker(s, "tick") \/ UNCHANGED worker
  BY DEF Tick, Beats
<1> HIDE DEF elects
<1> QED BY <1>1, <1>4, <1>5, <1>6, <1>7, <1>8

LEMMA TickKeeps ==
    ASSUME ClusterInv, NEW s \in Servers, Tick(s)
    PROVE  ClusterInv'
<1>1. /\ s \in up /\ runs[s]["tick"].pc = "wait"
      /\ session' \in [Servers -> {"none", "open", "lost"}]
      /\ lock' \in Servers \union {Nobody} /\ leader' \subseteq up
      /\ overlaps' \in {overlaps, overlaps \union {"demoted"}}
      /\ UNCHANGED <<up, faults, location, held, listed>>
      /\ stopping' \in [Servers -> SUBSET MoveIds]
  BY TickEffect
<1>2. PICK elects \in Run :
         /\ elects = runs[s]["elected"] \/ (elects.move = 0 /\ elects.pc \notin Recovering)
         /\ \/ \E m \in Recoverable(s, "tick") :
                 /\ moves' = [Beats(s) EXCEPT ![m].by = s, ![m].quiet = FALSE]
                 /\ runs' = [runs EXCEPT ![s] = [tick |-> Recovers(m), elected |-> elects]]
                 /\ UNCHANGED worker
            \/ /\ moves' = Beats(s) /\ runs' = [runs EXCEPT ![s]["elected"] = elects]
               /\ EnsureWorker(s, "tick") \/ UNCHANGED worker
  BY TickEffect
<1>3. /\ runs \in [Servers -> [Runs -> Run]] /\ worker \in [Servers -> Thread] /\ moves \in [MoveIds -> Move]
      /\ "elected" \in Runs /\ "tick" \in Runs /\ runs[s]["tick"].move = 0
      /\ worker[s].pc \in Working <=> worker[s].move # 0
      /\ elects.pc \in Recovering <=> elects.move # 0
      /\ overlaps' \subseteq {"slow", "elected", "late", "restart", "demoted"}
      /\ up \subseteq Servers
  BY <1>1, <1>2 DEF ClusterInv, ClusterTypeOK, ThreadsHold, Runs, Recovering
<1>4. Alone' => Alone /\ MoveInv
  BY <1>1 DEF Alone, ClusterInv
<1>5. /\ Beats(s) \in [MoveIds -> Move]
      /\ \A m \in MoveIds :
                /\ Beats(s)[m].status = moves[m].status /\ Beats(s)[m].by = moves[m].by
                /\ Beats(s)[m].from = moves[m].from /\ Beats(s)[m].to = moves[m].to
                /\ Beats(s)[m].quiet => moves[m].quiet
  BY <1>3, BeatsFit
<1>6. ASSUME NEW m \in Recoverable(s, "tick"),
             moves' = [Beats(s) EXCEPT ![m].by = s, ![m].quiet = FALSE],
             runs' = [runs EXCEPT ![s] = [tick |-> Recovers(m), elected |-> elects]],
             UNCHANGED worker
      PROVE  ClusterInv'
  <2>1. m \in MoveIds /\ moves[m].status \in Copying /\ Claims(s, m) /\ moves[m].by # s
    BY DEF Recoverable
  <2>2. moves' \in [MoveIds -> Move]
    <3> DEFINE beats == Beats(s)
    <3>1. beats \in [MoveIds -> Move] /\ moves' = [beats EXCEPT ![m].by = s, ![m].quiet = FALSE]
      BY <1>5, <1>6
    <3> HIDE DEF beats
    <3> QED BY <2>1, <3>1 DEF Move
  <2>3. /\ \A k \in MoveIds \ {m} : moves'[k] = Beats(s)[k]
        /\ moves'[m].status = moves[m].status /\ moves'[m].from = moves[m].from /\ moves'[m].to = moves[m].to
        /\ moves'[m].by = s /\ ~moves'[m].quiet
    BY <1>5, <1>6, <2>1 DEF Move
  <2>4. /\ Recovers(m) \in Run /\ Recovers(m).pc = "discard" /\ Recovers(m).move = m
        /\ Recovers(m).seen = moves[m].status
    BY <1>3, <2>1, RecoversRun
  <2>5. /\ runs' \in [Servers -> [Runs -> Run]] /\ \A t \in Servers \ {s} : runs'[t] = runs[t]
        /\ runs'[s]["tick"] = Recovers(m) /\ runs'[s]["elected"] = elects
    BY <1>2, <1>3, <1>6, <2>4 DEF Runs
  <2>6. ClusterTypeOK'
    BY <1>1, <1>3, <1>6, <2>2, <2>5 DEF ClusterInv, ClusterTypeOK, Runs
  <2>7. m # 0
    BY <2>1, ClusterAssumption DEF MoveIds
  <2>8. ThreadsHold'
    <3>1. ASSUME NEW v \in Runs PROVE runs'[s][v].pc \in Recovering <=> runs'[s][v].move # 0
      BY <1>3, <2>4, <2>5, <2>7 DEF Runs, Recovering
    <3> QED BY <1>1, <1>6, <2>5, <3>1 DEF ClusterInv, ThreadsHold
  <2>9. ASSUME Alone' PROVE MoveInv'
    <3>1. Alone
      BY <1>4, <2>9
    <3>2. \A t \in Servers : worker'[t] = worker[t] /\ worker[t].move = 0
      BY <1>6, <2>1, <3>1, ClaimsAlone
    <3>3. /\ runs'[s]["tick"].move = m /\ runs'[s]["tick"].pc = "discard"
          /\ runs'[s]["tick"].seen = moves[m].status
      BY <2>4, <2>5
    <3>4. ASSUME NEW t \in Servers, NEW v \in Runs
          PROVE  (t = s /\ v = "tick") \/ runs'[t][v].move = 0 \/ runs'[t][v] = runs[t][v]
      BY <1>2, <2>5 DEF Runs
    <3>5. \A k \in MoveIds \ {m} : moves'[k].status = moves[k].status
      BY <1>5, <2>3
    <3> QED BY <1>1, <1>3, <2>1, <2>3, <3>1, <3>2, <3>3, <3>4, <3>5, ClaimingStep
  <2> QED BY <2>6, <2>8, <2>9 DEF ClusterInv
<1>7. ASSUME moves' = Beats(s), runs' = [runs EXCEPT ![s]["elected"] = elects],
             EnsureWorker(s, "tick") \/ UNCHANGED worker
      PROVE  ClusterInv'
  <2>1. /\ worker' \in [Servers -> Thread] /\ \A t \in Servers \ {s} : worker'[t] = worker[t]
        /\ worker'[s].pc \in Working <=> worker'[s].move # 0
        /\ \A t \in Servers : worker'[t].move # 0 => worker'[t] = worker[t]
    BY <1>3, <1>7, EnsuredWorker
  <2>2. /\ runs' \in [Servers -> [Runs -> Run]] /\ \A t \in Servers \ {s} : runs'[t] = runs[t]
        /\ \A v \in Runs \ {"elected"} : runs'[s][v] = runs[s][v]
        /\ runs'[s]["elected"] = elects
    BY <1>3, <1>7, RunTypes DEF ClusterInv
  <2>3. ClusterTypeOK'
    BY <1>1, <1>3, <1>5, <1>7, <2>1, <2>2 DEF ClusterInv, ClusterTypeOK, Runs
  <2>4. ThreadsHold'
    <3>1. s \in up /\ "elected" \in Runs /\ UNCHANGED up
      BY <1>1, <1>3
    <3>2. runs'[s]["elected"].pc \in Recovering <=> runs'[s]["elected"].move # 0
      BY <1>3, <2>2
    <3>3. /\ \A t \in Servers \ {s} : worker'[t] = worker[t] /\ runs'[t] = runs[t]
          /\ worker'[s].pc \in Working <=> worker'[s].move # 0
          /\ \A v \in Runs \ {"elected"} : runs'[s][v] = runs[s][v]
      BY <2>1, <2>2
    <3> QED BY <3>1, <3>2, <3>3, RunsHeld
  <2>5. ASSUME Alone' PROVE MoveInv'
    <3>1. MoveInv
      BY <1>4, <2>5
    <3>2. \A t \in Servers : \A w \in Runs : runs'[t][w].move = 0 \/ runs'[t][w] = runs[t][w]
      BY <1>2, <2>2
    <3> QED BY <1>1, <1>5, <1>7, <2>1, <3>1, <3>2, MovesInPlace, LessWork
  <2> QED BY <2>3, <2>4, <2>5 DEF ClusterInv
<1> QED BY <1>2, <1>6, <1>7

----------------------------------------------------------------------------
(* The requests, and the faults.                                             *)
LEMMA StartMoveKeeps ==
    ASSUME ClusterInv, NEW s \in Servers, NEW m \in MoveIds, NEW to \in Buckets, StartMove(s, m, to)
    PROVE  ClusterInv'
<1>1. /\ s \in up /\ \A k \in MoveIds : moves[k].status \notin Unfinished
      /\ to # location /\ Overlaps("late", \E t \in Servers : Busy(t))
      /\ moves' = [moves EXCEPT ![m] = [@ EXCEPT !.status = "queued", !.from = location, !.to = to]]
      /\ worker' = WithWorker(s) \/ UNCHANGED worker
      /\ UNCHANGED <<up, lock, session, leader, faults, runs, stopping, location, held, listed>>
  BY DEF StartMove, leaderVars, bucketVars
<1>2. /\ runs \in [Servers -> [Runs -> Run]] /\ worker \in [Servers -> Thread] /\ moves \in [MoveIds -> Move]
      /\ worker[s].pc \in Working <=> worker[s].move # 0
      /\ location \in Buckets
      /\ overlaps \subseteq {"slow", "elected", "late", "restart", "demoted"}
  BY DEF ClusterInv, ClusterTypeOK, ThreadsHold, Runs
<1>3. /\ worker' \in [Servers -> Thread] /\ \A t \in Servers \ {s} : worker'[t] = worker[t]
      /\ worker'[s].pc \in Working <=> worker'[s].move # 0
      /\ \A t \in Servers : worker'[t].move # 0 => worker'[t] = worker[t]
  <2>1. worker \in [Servers -> Thread]
    BY <1>2
  <2>2. worker[s].pc \in Working <=> worker[s].move # 0
    BY <1>2
  <2>3. worker' = WithWorker(s) \/ worker' = worker
    BY <1>1
  <2> QED BY <2>1, <2>2, <2>3, WorkerStarted DEF Working
<1>4. /\ moves' \in [MoveIds -> Move] /\ \A k \in MoveIds \ {m} : moves'[k] = moves[k]
      /\ moves'[m].status = "queued" /\ moves'[m].from = location /\ moves'[m].to = to
  <2> DEFINE r == moves[m]
             r1 == [r EXCEPT !.status = "queued"]
             r2 == [r1 EXCEPT !.from = location]
             new == [r2 EXCEPT !.to = to]
  <2>1. r1 \in Move /\ r1.status = "queued"
    BY <1>2 DEF Move, Unfinished
  <2>2. r2 \in Move /\ r2.status = "queued" /\ r2.from = location
    <3>1. location \in Buckets
      BY <1>2
    <3> HIDE DEF r1
    <3> QED BY <2>1, <3>1 DEF Move
  <2>3. new \in Move /\ new.status = "queued" /\ new.from = location /\ new.to = to
    <3> HIDE DEF r2
    <3> QED BY <2>2 DEF Move
  <2>4. moves' = [moves EXCEPT ![m] = new]
    BY <1>1, Zenon
  <2> HIDE DEF new
  <2> QED BY <1>2, <2>3, <2>4
<1>5. overlaps' \subseteq {"slow", "elected", "late", "restart", "demoted"}
  BY <1>1, <1>2 DEF Overlaps
<1>6. ClusterTypeOK'
  BY <1>1, <1>2, <1>3, <1>4, <1>5 DEF ClusterInv, ClusterTypeOK
<1>7. ThreadsHold'
  BY <1>1, <1>3, ThreadsHeld
<1>8. ASSUME Alone' PROVE MoveInv'
  <2>1. Alone /\ \A t \in Servers : ~Busy(t)
    BY <1>1, <1>8 DEF Alone, Overlaps
  <2>2. /\ \A t \in Servers : worker[t].move = 0
        /\ \A t \in Servers : \A w \in Runs : runs[t][w].move = 0
    BY <2>1 DEF Busy, Runs
  <2>3. Whole'
    BY <1>1, <2>1 DEF ClusterInv, MoveInv, Whole
  <2>4. MoveFits(m)'
    BY <1>1, <1>4 DEF MoveFits, Switched
  <2>5. \A t \in Servers : worker'[t].move = 0
    BY <1>3, <2>2
  <2>6. \A t \in Servers : \A w \in Runs : runs'[t][w].move = 0
    BY <1>1, <2>2
  <2>7. \A k \in MoveIds \ {m} : moves'[k].status \notin Unfinished
    BY <1>1, <1>4
  <2>8. WorkerFits(s)'
    BY <2>5 DEF WorkerFits
  <2> QED BY <2>3, <2>4, <2>5, <2>6, <2>7, <2>8, SoleWorker
<1> QED BY <1>6, <1>7, <1>8 DEF ClusterInv

LEMMA CancelMoveKeeps ==
    ASSUME ClusterInv, NEW s \in Servers, NEW m \in MoveIds, CancelMove(s, m)
    PROVE  ClusterInv'
<1>1. /\ UNCHANGED <<up, lock, session, leader, faults, runs, worker, location, held, listed, overlaps>>
      /\ moves \in [MoveIds -> Move] /\ stopping \in [Servers -> SUBSET MoveIds]
  BY DEF CancelMove, leaderVars, bucketVars, ClusterInv, ClusterTypeOK
<1>2. \/ moves[m].status = "queued" /\ Writes(m, "cancelled") /\ UNCHANGED stopping
      \/ stopping' = [stopping EXCEPT ![s] = @ \union {m}] /\ UNCHANGED moves
      \/ moves' = [moves EXCEPT ![m].cancel = TRUE] /\ UNCHANGED stopping
  BY DEF CancelMove
<1>3. /\ moves' \in [MoveIds -> Move] /\ stopping' \in [Servers -> SUBSET MoveIds]
      /\ \A k \in MoveIds :
           /\ moves'[k].from = moves[k].from /\ moves'[k].to = moves[k].to /\ moves'[k].by = moves[k].by
           /\ \/ moves'[k].status = moves[k].status
              \/ moves[k].status = "queued" /\ moves'[k].status = "cancelled"
           /\ moves'[k].quiet = moves[k].quiet
  <2>1. CASE moves[m].status = "queued" /\ Writes(m, "cancelled") /\ UNCHANGED stopping
    BY <1>1, <2>1, WrittenMove DEF Settled
  <2>2. CASE stopping' = [stopping EXCEPT ![s] = @ \union {m}] /\ UNCHANGED moves
    BY <1>1, <2>2
  <2>3. CASE moves' = [moves EXCEPT ![m].cancel = TRUE] /\ UNCHANGED stopping
    <3>1. moves' \in [MoveIds -> Move]
      BY <1>1, <2>3 DEF Move
    <3> QED BY <1>1, <2>3, <3>1 DEF Move
  <2> QED BY <1>2, <2>1, <2>2, <2>3
<1>4. ClusterTypeOK' /\ ThreadsHold'
  BY <1>1, <1>3 DEF ClusterInv, ClusterTypeOK, ThreadsHold
<1>5. ASSUME Alone' PROVE MoveInv'
  <2>1. MoveInv
    BY <1>1, <1>5 DEF Alone, ClusterInv
  <2> QED BY <1>1, <1>3, <2>1, MovesInPlace, LessWork
<1> QED BY <1>4, <1>5 DEF ClusterInv

LEMMA FreshServer ==
    /\ FreshRuns \in [Runs -> Run] /\ \A w \in Runs : FreshRuns[w].move = 0 /\ FreshRuns[w].pc \notin Recovering
    /\ NoThread \in Thread /\ NoThread.move = 0 /\ NoThread.pc = "none"
<1>1. ASSUME NEW w \in Runs
      PROVE  FreshRuns[w] \in Run /\ FreshRuns[w].move = 0 /\ FreshRuns[w].pc \notin Recovering
  BY FreshRun DEF FreshRuns, Runs, Recovering
<1>2. FreshRuns = [w \in Runs |-> FreshRuns[w]]
  BY DEF FreshRuns, Runs
<1>3. NoThread \in Thread /\ NoThread.move = 0 /\ NoThread.pc = "none"
  BY ClusterAssumption DEF NoThread, Thread
<1> QED BY <1>1, <1>2, <1>3

LEMMA CrashKeeps ==
    ASSUME ClusterInv, NEW s \in Servers, Crash(s)
    PROVE  ClusterInv'
<1>1. /\ up' = up \ {s} /\ leader' = leader \ {s} /\ lock' = Released(s)
      /\ session' = [session EXCEPT ![s] = "none"] /\ Fault
      /\ runs' = [runs EXCEPT ![s] = FreshRuns] /\ worker' = [worker EXCEPT ![s] = NoThread]
      /\ stopping' = [stopping EXCEPT ![s] = {}]
      /\ UNCHANGED <<moves, location, held, listed, overlaps>>
  BY DEF Crash, Resigns, bucketVars
<1>2. /\ runs \in [Servers -> [Runs -> Run]] /\ worker \in [Servers -> Thread]
      /\ faults \in 0 .. MaxFaults /\ MaxFaults \in Nat
  BY ClusterAssumption DEF ClusterInv, ClusterTypeOK, Runs
<1>3. /\ runs' \in [Servers -> [Runs -> Run]] /\ \A t \in Servers \ {s} : runs'[t] = runs[t]
      /\ runs'[s] = FreshRuns
      /\ worker' \in [Servers -> Thread] /\ \A t \in Servers \ {s} : worker'[t] = worker[t]
      /\ worker'[s] = NoThread
  BY <1>1, <1>2, FreshServer
<1>4. faults' \in 0 .. MaxFaults /\ lock' \in Servers \union {Nobody}
  BY <1>1, <1>2 DEF Fault, Released, ClusterInv, ClusterTypeOK
<1>5. ClusterTypeOK'
  BY <1>1, <1>3, <1>4 DEF ClusterInv, ClusterTypeOK, Runs
<1>6. ThreadsHold'
  BY <1>1, <1>3, FreshServer DEF ClusterInv, ThreadsHold, Working
<1>7. ASSUME Alone' PROVE MoveInv'
  <2>1. MoveInv
    BY <1>1, <1>7 DEF Alone, ClusterInv
  <2>2. /\ \A t \in Servers : worker'[t].move = 0 \/ worker'[t] = worker[t]
        /\ \A t \in Servers : \A w \in Runs : runs'[t][w].move = 0 \/ runs'[t][w] = runs[t][w]
    BY <1>3, FreshServer
  <2> QED BY <1>1, <2>1, <2>2, MovesInPlace, LessWork
<1> QED BY <1>5, <1>6, <1>7 DEF ClusterInv

LEMMA StartKeeps ==
    ASSUME ClusterInv, NEW s \in Servers, Start(s) \/ LoseConnection(s)
    PROVE  ClusterInv'
<1>1. /\ up \subseteq up' /\ up' \subseteq Servers /\ faults' \in 0 .. MaxFaults
      /\ overlaps' \in {overlaps, overlaps \union {"restart"}}
      /\ lock' \in Servers \union {Nobody} /\ session' \in [Servers -> {"none", "open", "lost"}]
      /\ UNCHANGED <<leader, runs, worker, stopping, moves, location, held, listed>>
  BY ClusterAssumption DEF Start, LoseConnection, Fault, Released, Overlaps, bucketVars, ClusterInv, ClusterTypeOK
<1>2. ClusterTypeOK'
  BY <1>1 DEF ClusterInv, ClusterTypeOK
<1>3. ThreadsHold'
  BY <1>1 DEF ClusterInv, ThreadsHold
<1>4. ASSUME Alone' PROVE MoveInv'
  <2>1. MoveInv
    BY <1>1, <1>4 DEF Alone, ClusterInv
  <2> QED BY <1>1, <2>1, MovesInPlace, LessWork
<1> QED BY <1>2, <1>3, <1>4 DEF ClusterInv

LEMMA GoQuietKeeps ==
    ASSUME ClusterInv, NEW m \in MoveIds, GoQuiet(m)
    PROVE  ClusterInv'
<1>1. /\ moves' = [moves EXCEPT ![m].quiet = TRUE] /\ moves[m].by # Nobody
      /\ IF moves[m].by \in up THEN Fault /\ Overlaps("slow", TRUE) ELSE UNCHANGED <<faults, overlaps>>
      /\ UNCHANGED <<up, lock, session, leader, runs, worker, stopping, location, held, listed>>
      /\ moves \in [MoveIds -> Move] /\ faults \in 0 .. MaxFaults /\ MaxFaults \in Nat
  BY ClusterAssumption DEF GoQuiet, bucketVars, ClusterInv, ClusterTypeOK
<1>2. /\ moves' \in [MoveIds -> Move] /\ \A k \in MoveIds \ {m} : moves'[k] = moves[k]
      /\ moves'[m].status = moves[m].status /\ moves'[m].from = moves[m].from
      /\ moves'[m].to = moves[m].to /\ moves'[m].by = moves[m].by
  <2>1. moves' \in [MoveIds -> Move]
    BY <1>1 DEF Move
  <2> QED BY <1>1, <2>1 DEF Move
<1>3. /\ faults' \in 0 .. MaxFaults /\ overlaps \subseteq overlaps'
      /\ overlaps' \subseteq {"slow", "elected", "late", "restart", "demoted"}
      /\ Alone' => moves[m].by \notin up
  <2>1. overlaps \subseteq {"slow", "elected", "late", "restart", "demoted"}
    BY DEF ClusterInv, ClusterTypeOK
  <2>2. CASE moves[m].by \in up
    <3>1. faults' = faults + 1 /\ faults < MaxFaults /\ overlaps' = overlaps \union {"slow"}
      BY <1>1, <2>2 DEF Fault, Overlaps
    <3>2. faults' \in 0 .. MaxFaults
      BY <1>1, <3>1
    <3> QED BY <2>1, <3>1, <3>2 DEF Alone
  <2>3. CASE moves[m].by \notin up
    BY <1>1, <2>1, <2>3
  <2> QED BY <2>2, <2>3
<1>4. ClusterTypeOK'
  BY <1>1, <1>2, <1>3 DEF ClusterInv, ClusterTypeOK
<1>5. ThreadsHold'
  BY <1>1 DEF ClusterInv, ThreadsHold
<1>6. ASSUME Alone' PROVE MoveInv'
  <2>1. MoveInv
    BY <1>3, <1>6 DEF Alone, ClusterInv
  <2>2. m # 0
    BY ClusterAssumption DEF MoveIds
  <2>3. ASSUME NEW t \in Servers, worker[t].move = m PROVE FALSE
    <3>1. moves[m].by = t
      BY <2>1, <2>2, <2>3 DEF MoveInv, WorkerFits
    <3> QED BY <1>3, <1>6, <2>2, <2>3, <3>1 DEF ClusterInv, ThreadsHold, Working
  <2>4. ASSUME NEW t \in Servers, NEW w \in Runs, runs[t][w].move = m PROVE FALSE
    <3>1. moves[m].by = t
      BY <2>1, <2>2, <2>4 DEF MoveInv, RunFits
    <3> QED BY <1>3, <1>6, <2>2, <2>4, <3>1 DEF ClusterInv, ThreadsHold
  <2> QED BY <1>1, <1>2, <2>1, <2>3, <2>4, MovesInPlace, LessWork
<1> QED BY <1>4, <1>5, <1>6 DEF ClusterInv

LEMMA ClusterStarts ==
    ASSUME NEW running \in SUBSET Servers, ClusterInit(running)
    PROVE  ClusterInv
<1>1. /\ up = running /\ lock = Nobody /\ leader = {} /\ session = [s \in Servers |-> "none"]
      /\ runs = [s \in Servers |-> FreshRuns] /\ worker = [s \in Servers |-> NoThread]
      /\ stopping = [s \in Servers |-> {}] /\ location = CHOOSE b \in Buckets : TRUE
      /\ held = [b \in Buckets |-> IF b = location THEN Files ELSE {}] /\ listed = {location}
      /\ moves = [m \in MoveIds |-> [status |-> "none", from |-> location, to |-> location,
                                     by |-> Nobody, quiet |-> FALSE, cancel |-> FALSE]]
      /\ faults = 0 /\ overlaps = {}
  BY DEF ClusterInit
<1>2. location \in Buckets
  BY <1>1, ClusterAssumption
<1>3. ClusterTypeOK
  <2>1. runs \in [Servers -> [Runs -> Run]] /\ worker \in [Servers -> Thread]
    BY <1>1, FreshServer
  <2>2. moves \in [MoveIds -> Move]
    BY <1>1, <1>2 DEF Move
  <2>3. held \in [Buckets -> SUBSET Files] /\ listed \subseteq Buckets
    BY <1>1, <1>2
  <2>4. faults \in 0 .. MaxFaults
    BY <1>1, ClusterAssumption
  <2>5. up \subseteq Servers /\ leader \subseteq up /\ lock \in Servers \union {Nobody}
        /\ session \in [Servers -> {"none", "open", "lost"}] /\ stopping \in [Servers -> SUBSET MoveIds]
        /\ overlaps \subseteq {"slow", "elected", "late", "restart", "demoted"}
    BY <1>1
  <2> QED BY <1>2, <2>1, <2>2, <2>3, <2>4, <2>5 DEF ClusterTypeOK, Runs
<1>4. /\ \A s \in Servers : worker[s].move = 0 /\ worker[s].pc = "none"
      /\ \A s \in Servers : \A w \in Runs : runs[s][w].move = 0 /\ runs[s][w].pc \notin Recovering
  BY <1>1, FreshServer
<1>5. ThreadsHold
  BY <1>4 DEF ThreadsHold, Working
<1>6. MoveInv
  <2>1. Whole
    BY <1>1, <1>2 DEF Whole
  <2>2. \A m \in MoveIds : moves[m].status = "none" /\ m # 0
    BY <1>1, ClusterAssumption DEF MoveIds
  <2>3. \A m \in MoveIds : ~InWork(m)
    BY <1>4, <2>2 DEF InWork, WorkedOn, RecoveredBy, Unfinished, Copying, Switched
  <2> QED BY <1>4, <2>1, <2>3 DEF MoveInv, OneInWork, WorkerFits, RunFits
<1> QED BY <1>3, <1>5, <1>6 DEF ClusterInv

LEMMA ClusterKeeps ==
    ASSUME ClusterInv, ClusterNext
    PROVE  ClusterInv'
<1>1. ASSUME NEW s \in Servers, Recover(s) PROVE ClusterInv'
  BY <1>1, RecoverClaimsKeeps, RecoverDiscardsKeeps, RecoverWritesKeeps DEF Recover, Runs
<1> QED BY <1>1, CancelMoveKeeps, StartMoveKeeps, TickKeeps, MoveWorkerKeeps, CrashKeeps, StartKeeps,
           GoQuietKeeps DEF ClusterNext

----------------------------------------------------------------------------
(* A worker holds a job that goes on or was cancelled; it was given a job    *)
(* that was only queued; and the cancelled job it still holds has its event  *)
(* set.  A cancel has a job to write.                                        *)
WorkersHold ==
    \A j \in Jobs :
       /\ jobs[j].pc # "none" => jobs[j].status \in Active \union {"cancelled"}
       /\ jobs[j].pc = "submitted" => jobs[j].status \in {"queued", "cancelled"}
       /\ jobs[j].status = "cancelled" /\ jobs[j].pc # "none" => jobs[j].event
       /\ j \in cancelling => jobs[j].status # "none" /\ (jobs[j].pc # "none" => jobs[j].event)

(* Jobs are given their places in order, and one that goes on is the last    *)
(* there is at vLLM.                                                         *)
InOrder == \A i, j \in Jobs : i < j /\ jobs[j].status # "none" => jobs[i].status # "none"
OneAtATime ==
    kind = "vllm" => \A i, j \in Jobs : i < j /\ jobs[i].status \in Active => jobs[j].status = "none"

(* A job about to be ready, and the last one once it is, is what vLLM        *)
(* serves, unless the inference server took up what nobody waited for.       *)
AboutToBeReady(j) == jobs[j].status \in Active /\ jobs[j].pc \in {"update", "write"} /\ jobs[j].to = "ready"
LastReady(j) == jobs[j].status = "ready" /\ \A i \in Jobs : i > j => jobs[i].status = "none"
Served ==
    kind = "vllm" /\ ~displaced =>
      \A j \in Jobs : AboutToBeReady(j) \/ LastReady(j) => serving = {jobs[j].repo}

RuntimeInv == RuntimeTypeOK /\ WorkersHold /\ InOrder /\ OneAtATime /\ Served

----------------------------------------------------------------------------
(* A request more than are answered at the same time is refused, so no model *)
(* has more than MaxClients requests that insert a job of it.                *)
LEMMA RoomForOneMore ==
    ASSUME RuntimeTypeOK, NEW m \in Models, Requests < MaxClients
    PROVE  inserting[m] < MaxClients
<1> DEFINE Waiting == {x \in Models \X (1 .. MaxClients) : x[2] <= inserting[x[1]]}
           Own == {m} \X (1 .. MaxClients)
<1>1. /\ MaxClients \in Nat /\ inserting[m] \in 0 .. MaxClients
      /\ IsFiniteSet(cancelling)
  <2>1. IsFiniteSet(Jobs)
    BY FS_Interval, RuntimeAssumption DEF Jobs
  <2> QED BY <2>1, FS_Subset, RuntimeAssumption DEF RuntimeTypeOK
<1>2. IsFiniteSet(1 .. MaxClients) /\ Cardinality(1 .. MaxClients) = MaxClients
  BY <1>1, FS_Interval
<1>3. IsFiniteSet(Waiting)
  <2>1. IsFiniteSet(Models \X (1 .. MaxClients))
    BY <1>2, FS_Product, RuntimeAssumption
  <2> QED BY <2>1, FS_Subset
<1>4. IsFiniteSet(Own) /\ Cardinality(Own) = MaxClients
  <2>1. IsFiniteSet({m}) /\ Cardinality({m}) = 1
    BY FS_Singleton
  <2> DEFINE Product == {m} \X (1 .. MaxClients)
  <2>2. IsFiniteSet(Product) /\ Cardinality(Product) = Cardinality({m}) * Cardinality(1 .. MaxClients)
    BY <2>1, <1>2, FS_Product, Zenon
  <2>3. Own = Product
    OBVIOUS
  <2> HIDE DEF Product
  <2> QED BY <2>1, <2>2, <2>3, <1>1, <1>2
<1>5. SUFFICES ASSUME inserting[m] = MaxClients PROVE FALSE
  BY <1>1
<1>6. Own \subseteq Waiting
  BY <1>1, <1>5
<1>7. MaxClients <= Cardinality(Waiting)
  BY <1>3, <1>4, <1>6, FS_Subset
<1>8. Cardinality(cancelling) \in Nat /\ Cardinality(Waiting) \in Nat
  BY <1>1, <1>3, FS_CardinalityType
<1>9. Requests = Cardinality(cancelling) + Cardinality(Waiting)
  BY DEF Requests
<1> HIDE DEF Waiting, Own
<1> QED BY <1>1, <1>7, <1>8, <1>9

LEMMA NoJobTyped == NoJob \in Job
BY RuntimeAssumption DEF NoJob, Job, Something, Active, Finished

LEMMA RuntimeStarts == RuntimeInit => RuntimeInv
<1> SUFFICES ASSUME RuntimeInit PROVE RuntimeInv
  OBVIOUS
<1>1. NoJob \in Job
  BY NoJobTyped
<1>2. RuntimeTypeOK
  <2>1. jobs \in [Jobs -> Job] /\ inserting \in [Models -> 0 .. MaxClients] /\ loading \in 0 .. MaxJobs
    BY <1>1, RuntimeAssumption DEF RuntimeInit
  <2>2. kind \in {"vllm", "ollama"} /\ sent = {} /\ serving = {} /\ cancelling = {} /\ displaced = FALSE
    BY DEF RuntimeInit
  <2> QED BY <2>1, <2>2 DEF RuntimeTypeOK
<1>3. \A j \in Jobs : jobs[j].status = "none" /\ jobs[j].pc = "none"
  BY DEF RuntimeInit, NoJob
<1>4. serving = {} /\ cancelling = {}
  BY DEF RuntimeInit
<1> QED BY <1>2, <1>3, <1>4 DEF RuntimeInv, WorkersHold, InOrder, OneAtATime, Served, AboutToBeReady, LastReady, Active

LEMMA LeftJob ==
    ASSUME RuntimeTypeOK, NEW j \in Jobs
    PROVE  /\ Left(j) \in [Jobs -> Job]
           /\ \A i \in Jobs \ {j} : Left(j)[i] = jobs[i]
           /\ Left(j)[j].status = jobs[j].status /\ Left(j)[j].repo = jobs[j].repo
           /\ Left(j)[j].pc = "none" /\ Left(j)[j].to = "queued" /\ ~Left(j)[j].event
<1>1. jobs \in [Jobs -> Job]
  BY DEF RuntimeTypeOK
<1>2. Left(j) \in [Jobs -> Job]
  BY <1>1 DEF Left, Job, Active
<1>3. \A i \in Jobs \ {j} : Left(j)[i] = jobs[i]
  BY <1>1 DEF Left
<1>4. /\ Left(j)[j].status = jobs[j].status /\ Left(j)[j].repo = jobs[j].repo
      /\ Left(j)[j].pc = "none" /\ Left(j)[j].to = "queued" /\ ~Left(j)[j].event
  BY <1>1 DEF Left, Job
<1> QED BY <1>2, <1>3, <1>4

(* What a step does to the row of one job; the others stay as they were.     *)
RowOf(j, status, pc, to, event) ==
    /\ jobs' \in [Jobs -> Job]
    /\ \A i \in Jobs \ {j} : jobs'[i] = jobs[i]
    /\ jobs'[j].status = status /\ jobs'[j].repo = jobs[j].repo
    /\ jobs'[j].pc = pc /\ jobs'[j].to = to /\ jobs'[j].event = event

LEMMA Leaves ==
    ASSUME RuntimeTypeOK, NEW j \in Jobs, jobs' = Left(j)
    PROVE  RowOf(j, jobs[j].status, "none", "queued", FALSE)
BY LeftJob DEF RowOf

LEMMA NextStatus ==
    ASSUME NEW status \in Active
    PROVE  /\ Following(status) \in Active \union {"ready"}
           /\ Following(status) = "ready" => status = "loading"
BY DEF Following, Active

LEMMA QueueStep ==
    ASSUME RuntimeTypeOK, NEW m \in Models, QueueInsert(m)
    PROVE  \/ jobs' = jobs
           \/ \E j \in Jobs : /\ jobs' \in [Jobs -> Job] /\ \A i \in Jobs \ {j} : jobs'[i] = jobs[i]
                              /\ jobs[j].status = "none" /\ \A i \in Jobs : i < j => jobs[i].status # "none"
                              /\ jobs'[j].status = "queued" /\ jobs'[j].pc = "submitted" /\ ~jobs'[j].event
                              /\ ~Conflicts(m)
<1>1. CASE Refused(m)
  BY <1>1 DEF QueueInsert
<1>2. CASE ~Refused(m)
  <2>1. PICK j \in Jobs :
           /\ jobs[j].status = "none" /\ \A i \in 1 .. j - 1 : jobs[i].status # "none"
           /\ jobs' = [jobs EXCEPT ![j] = [NoJob EXCEPT !.status = "queued", !.repo = m, !.pc = "submitted"]]
    BY <1>2 DEF QueueInsert
  <2>2. NoJob \in Job
    BY NoJobTyped
  <2> DEFINE new == [NoJob EXCEPT !.status = "queued", !.repo = m, !.pc = "submitted"]
  <2>3. new \in Job
    BY <2>2 DEF Job, Active
  <2>4. new.status = "queued" /\ new.pc = "submitted" /\ ~new.event
    BY DEF NoJob
  <2>5. jobs \in [Jobs -> Job]
    BY DEF RuntimeTypeOK
  <2>6. jobs' \in [Jobs -> Job] /\ jobs'[j] = new /\ \A i \in Jobs \ {j} : jobs'[i] = jobs[i]
    <3> HIDE DEF new
    <3>1. jobs' = [jobs EXCEPT ![j] = new]
      BY <2>1 DEF new
    <3> QED BY <2>3, <2>5, <3>1
  <2>7. \A i \in Jobs : i < j => jobs[i].status # "none"
    BY <2>1, RuntimeAssumption DEF Jobs
  <2> HIDE DEF new
  <2> QED BY <1>2, <2>1, <2>4, <2>6, <2>7 DEF Refused
<1> QED BY <1>1, <1>2

----------------------------------------------------------------------------
(* A step that changes the row of one job and nothing vLLM serves keeps what *)
(* holds when the row is one of a job that is as far as it says.             *)
RowFits(j) ==
    /\ jobs'[j].status \in Active \union Finished \union {"none"}
    /\ jobs'[j].status \in Active => jobs[j].status \in Active
    /\ jobs'[j].status = "none" <=> jobs[j].status = "none"
    /\ jobs'[j].pc # "none" => jobs'[j].status \in Active \union {"cancelled"}
    /\ jobs'[j].pc = "submitted" => jobs'[j].status \in {"queued", "cancelled"}
    /\ jobs'[j].status = "cancelled" /\ jobs'[j].pc # "none" => jobs'[j].event
    /\ j \in cancelling' => jobs'[j].status # "none" /\ (jobs'[j].pc # "none" => jobs'[j].event)
    /\ cancelling' \subseteq cancelling \union {j}

LEMMA FittingRow ==
    ASSUME RuntimeInv, NEW j \in Jobs, UNCHANGED kind, RowFits(j),
           jobs' \in [Jobs -> Job], \A i \in Jobs \ {j} : jobs'[i] = jobs[i]
    PROVE  WorkersHold' /\ InOrder' /\ OneAtATime'
<1>1. WorkersHold'
  BY DEF WorkersHold, RowFits, RuntimeInv
<1>2. InOrder'
  BY DEF InOrder, RowFits, RuntimeInv
<1>3. OneAtATime'
  BY DEF OneAtATime, RowFits, RuntimeInv
<1> QED BY <1>1, <1>2, <1>3

(* ... and it keeps what vLLM serves, when it makes no job ready it does not  *)
(* serve.                                                                    *)
LEMMA StillServed ==
    ASSUME RuntimeInv, NEW j \in Jobs, UNCHANGED <<kind, serving, displaced>>, RowFits(j),
           jobs' \in [Jobs -> Job], \A i \in Jobs \ {j} : jobs'[i] = jobs[i],
           jobs'[j].repo = jobs[j].repo,
           kind = "vllm" /\ (AboutToBeReady(j)' \/ jobs'[j].status = "ready")
             => AboutToBeReady(j) \/ jobs[j].status = "ready"
    PROVE  Served'
<1> SUFFICES ASSUME kind = "vllm", ~displaced, NEW i \in Jobs, AboutToBeReady(i)' \/ LastReady(i)'
             PROVE  serving = {jobs'[i].repo}
  BY DEF Served
<1>1. \A k \in Jobs : jobs'[k].status = "none" <=> jobs[k].status = "none"
  BY DEF RowFits
<1>2. CASE i # j
  BY <1>1, <1>2 DEF AboutToBeReady, LastReady, Served, RuntimeInv
<1>3. CASE i = j
  <2>1. AboutToBeReady(j)' => jobs[j].status \in Active
    BY DEF AboutToBeReady, RowFits
  <2>2. AboutToBeReady(j) \/ LastReady(j)
    BY <1>1, <1>3, <2>1 DEF AboutToBeReady, LastReady, Active
  <2> QED BY <1>3, <2>2 DEF Served, RuntimeInv
<1> QED BY <1>2, <1>3

----------------------------------------------------------------------------
(* The requests: a queued one inserts a job, a cancel sets its event and     *)
(* writes its row.                                                           *)
LEMMA QueueKeeps ==
    ASSUME RuntimeInv, NEW m \in Models, Queue(m)
    PROVE  RuntimeInv'
<1>1. inserting' \in [Models -> 0 .. MaxClients]
  <2>1. inserting[m] < MaxClients
    BY RoomForOneMore DEF Queue, RuntimeInv
  <2> QED BY <2>1, RuntimeAssumption DEF Queue, RuntimeInv, RuntimeTypeOK
<1>2. UNCHANGED <<kind, jobs, sent, loading, serving, cancelling, displaced>>
  BY DEF Queue
<1>3. RuntimeTypeOK'
  BY <1>1, <1>2 DEF RuntimeInv, RuntimeTypeOK
<1> QED BY <1>2, <1>3 DEF RuntimeInv, WorkersHold, InOrder, OneAtATime, Served, AboutToBeReady, LastReady

LEMMA InsertKeeps ==
    ASSUME RuntimeInv, NEW m \in Models, QueueInsert(m)
    PROVE  RuntimeInv'
<1>1. UNCHANGED <<kind, sent, loading, serving, cancelling, displaced>>
  BY DEF QueueInsert
<1>2. inserting' \in [Models -> 0 .. MaxClients]
  BY RuntimeAssumption DEF QueueInsert, RuntimeInv, RuntimeTypeOK
<1>3. CASE jobs' = jobs
  BY <1>1, <1>2, <1>3 DEF RuntimeInv, RuntimeTypeOK, WorkersHold, InOrder, OneAtATime, Served, AboutToBeReady, LastReady
<1>4. ASSUME NEW j \in Jobs, jobs' \in [Jobs -> Job], \A i \in Jobs \ {j} : jobs'[i] = jobs[i],
             jobs[j].status = "none", \A i \in Jobs : i < j => jobs[i].status # "none",
             jobs'[j].status = "queued", jobs'[j].pc = "submitted", ~jobs'[j].event, ~Conflicts(m)
      PROVE  RuntimeInv'
  <2>1. RuntimeTypeOK'
    BY <1>1, <1>2, <1>4 DEF RuntimeInv, RuntimeTypeOK
  <2>2. WorkersHold'
    BY <1>1, <1>4 DEF WorkersHold, RuntimeInv, Active
  <2>3. InOrder'
    BY <1>4, RuntimeAssumption DEF InOrder, RuntimeInv, Jobs
  <2>4. \A i \in Jobs : j < i => jobs[i].status = "none"
    BY <1>4 DEF InOrder, RuntimeInv
  <2>5. kind = "vllm" => \A i \in Jobs : jobs[i].status \notin Active
    BY <1>4 DEF Conflicts, ActiveJobs
  <2>6. OneAtATime'
    BY <1>1, <1>4, <2>4, <2>5 DEF OneAtATime, Active
  <2>7. Served'
    <3> SUFFICES ASSUME kind = "vllm", ~displaced, NEW i \in Jobs, AboutToBeReady(i)' \/ LastReady(i)'
                 PROVE  serving = {jobs'[i].repo}
      BY <1>1 DEF Served
    <3>1. i # j
      BY <1>4 DEF AboutToBeReady, LastReady
    <3>2. LastReady(i)'
      BY <1>4, <2>5, <3>1 DEF AboutToBeReady
    <3>3. LastReady(i)
      BY <1>4, <3>1, <3>2 DEF LastReady
    <3> QED BY <1>4, <3>1, <3>3 DEF Served, RuntimeInv
  <2> QED BY <2>1, <2>2, <2>3, <2>6, <2>7 DEF RuntimeInv
<1> QED BY <1>3, <1>4, QueueStep DEF RuntimeInv

LEMMA CancelKeeps ==
    ASSUME RuntimeInv, NEW j \in Jobs, Cancel(j) \/ CancelWrite(j)
    PROVE  RuntimeInv'
<1>1. UNCHANGED <<kind, sent, loading, serving, inserting, displaced>> /\ jobs \in [Jobs -> Job]
  BY DEF Cancel, CancelWrite, RuntimeInv, RuntimeTypeOK
<1>2. CASE Cancel(j)
  <2>1. /\ RowOf(j, jobs[j].status, jobs[j].pc, jobs[j].to, TRUE) /\ jobs[j].status \in Active
        /\ cancelling' = cancelling \union {j}
    BY <1>1, <1>2 DEF Cancel, RowOf, Job
  <2>2. RowFits(j)
    BY <1>1, <2>1 DEF RowFits, RowOf, RuntimeInv, WorkersHold, Active, Job
  <2>3. RuntimeTypeOK'
    BY <1>1, <2>1 DEF RowOf, RuntimeInv, RuntimeTypeOK
  <2>4. Served'
    BY <1>1, <2>1, <2>2, StillServed DEF RowOf, AboutToBeReady
  <2> QED BY <1>1, <2>1, <2>2, <2>3, <2>4, FittingRow DEF RowOf, RuntimeInv
<1>3. CASE CancelWrite(j)
  <2>1. /\ RowOf(j, "cancelled", jobs[j].pc, jobs[j].to, jobs[j].event)
        /\ j \in cancelling /\ cancelling' = cancelling \ {j}
    BY <1>1, <1>3 DEF CancelWrite, RowOf, Job, Finished
  <2>2. RowFits(j)
    BY <1>1, <2>1 DEF RowFits, RowOf, RuntimeInv, WorkersHold, Active, Finished, Job
  <2>3. RuntimeTypeOK'
    BY <1>1, <2>1 DEF RowOf, RuntimeInv, RuntimeTypeOK
  <2>4. Served'
    BY <1>1, <2>1, <2>2, StillServed DEF RowOf, AboutToBeReady, Active
  <2> QED BY <1>1, <2>1, <2>2, <2>3, <2>4, FittingRow DEF RowOf, RuntimeInv
<1> QED BY <1>2, <1>3

----------------------------------------------------------------------------
(* The worker's steps.                                                       *)
LEMMA WorkerKeeps ==
    ASSUME RuntimeInv, NEW j \in Jobs, OnlyJobs, sent' \subseteq Jobs, RowFits(j),
           jobs' \in [Jobs -> Job], \A i \in Jobs \ {j} : jobs'[i] = jobs[i], jobs'[j].repo = jobs[j].repo,
           kind = "vllm" /\ (AboutToBeReady(j)' \/ jobs'[j].status = "ready")
             => AboutToBeReady(j) \/ jobs[j].status = "ready"
    PROVE  RuntimeInv'
<1>1. UNCHANGED <<kind, loading, serving, inserting, cancelling, displaced>>
  BY DEF OnlyJobs
<1>2. RuntimeTypeOK'
  BY <1>1 DEF RuntimeInv, RuntimeTypeOK
<1>3. Served'
  BY <1>1, StillServed
<1> QED BY <1>1, <1>2, <1>3, FittingRow DEF RuntimeInv

LEMMA StartsKeeps ==
    ASSUME RuntimeInv, NEW j \in Jobs, JobStarts(j)
    PROVE  RuntimeInv'
<1>1. OnlyJobs /\ sent' = sent /\ sent \subseteq Jobs /\ jobs \in [Jobs -> Job] /\ cancelling' = cancelling
  BY DEF JobStarts, OnlyJobs, RuntimeInv, RuntimeTypeOK
<1>2. CASE jobs[j].status \in Active
  <2>1. Following(jobs[j].status) \in Active
    BY <1>2, NextStatus DEF JobStarts, RuntimeInv, WorkersHold, Active
  <2>2. RowOf(j, jobs[j].status, "update", Following(jobs[j].status), jobs[j].event)
    BY <1>1, <1>2, <2>1 DEF JobStarts, RowOf, Job
  <2>3. RowFits(j)
    BY <1>1, <1>2, <2>2 DEF RowFits, RowOf, RuntimeInv, WorkersHold, Active, JobStarts
  <2> QED BY <1>1, <1>2, <2>1, <2>2, <2>3, WorkerKeeps DEF RowOf, AboutToBeReady, Active
<1>3. CASE jobs[j].status \notin Active
  <2>1. RowOf(j, jobs[j].status, "none", "queued", FALSE)
    BY <1>3, Leaves DEF JobStarts, RuntimeInv
  <2>2. RowFits(j)
    BY <1>1, <1>3, <2>1 DEF RowFits, RowOf, RuntimeInv, WorkersHold, Job
  <2> QED BY <1>1, <1>3, <2>1, <2>2, WorkerKeeps DEF RowOf, AboutToBeReady
<1> QED BY <1>2, <1>3

LEMMA LeftKeeps ==
    ASSUME RuntimeInv, NEW j \in Jobs, jobs' = Left(j), OnlyJobs, UNCHANGED sent
    PROVE  RuntimeInv'
<1>1. RowOf(j, jobs[j].status, "none", "queued", FALSE)
  BY Leaves DEF RuntimeInv
<1>2. sent' \subseteq Jobs /\ jobs \in [Jobs -> Job] /\ cancelling' = cancelling
  BY DEF OnlyJobs, RuntimeInv, RuntimeTypeOK
<1>3. RowFits(j)
  BY <1>1, <1>2 DEF RowFits, RowOf, RuntimeInv, WorkersHold, Job
<1> QED BY <1>1, <1>2, <1>3, WorkerKeeps DEF RowOf, AboutToBeReady

LEMMA ChecksKeeps ==
    ASSUME RuntimeInv, NEW j \in Jobs, UpdateChecks(j)
    PROVE  RuntimeInv'
<1>1. OnlyJobs /\ sent' = sent /\ sent \subseteq Jobs /\ jobs \in [Jobs -> Job] /\ cancelling' = cancelling
  BY DEF UpdateChecks, OnlyJobs, RuntimeInv, RuntimeTypeOK
<1>2. CASE jobs[j].event
  BY <1>1, <1>2, LeftKeeps DEF UpdateChecks
<1>3. CASE ~jobs[j].event
  <2>1. RowOf(j, jobs[j].status, "write", jobs[j].to, jobs[j].event) /\ jobs[j].pc = "update"
    BY <1>1, <1>3 DEF UpdateChecks, RowOf, Job
  <2>2. RowFits(j)
    BY <1>1, <2>1 DEF RowFits, RowOf, RuntimeInv, WorkersHold, Job
  <2> QED BY <1>1, <2>1, <2>2, WorkerKeeps DEF RowOf, AboutToBeReady
<1> QED BY <1>2, <1>3

LEMMA WritesKeeps ==
    ASSUME RuntimeInv, NEW j \in Jobs, UpdateWrites(j)
    PROVE  RuntimeInv'
<1>1. /\ OnlyJobs /\ sent \subseteq Jobs /\ jobs \in [Jobs -> Job] /\ cancelling' = cancelling
      /\ jobs[j].pc = "write" /\ jobs[j].to \in Active \union Finished
  BY DEF UpdateWrites, OnlyJobs, RuntimeInv, RuntimeTypeOK, Job
<1>2. CASE Kept(j)
  BY <1>1, <1>2, LeftKeeps DEF UpdateWrites
<1> DEFINE to == jobs[j].to
<1>3. CASE ~Kept(j) /\ to \in Finished
  <2>1. jobs' = [Left(j) EXCEPT ![j].status = to] /\ sent' = sent
    BY <1>3 DEF UpdateWrites
  <2>2. RowOf(j, to, "none", "queued", FALSE)
    <3> DEFINE left == Left(j)
    <3>1. /\ left \in [Jobs -> Job] /\ \A i \in Jobs \ {j} : left[i] = jobs[i]
          /\ left[j].repo = jobs[j].repo /\ left[j].pc = "none" /\ left[j].to = "queued" /\ ~left[j].event
      BY LeftJob DEF RuntimeInv
    <3>2. jobs' = [left EXCEPT ![j].status = to]
      BY <2>1
    <3> HIDE DEF left
    <3>3. jobs' \in [Jobs -> Job]
      BY <1>3, <3>1, <3>2 DEF Job
    <3>4. jobs'[j].status = to /\ jobs'[j].repo = jobs[j].repo /\ jobs'[j].pc = "none"
            /\ jobs'[j].to = "queued" /\ ~jobs'[j].event
      BY <3>1, <3>2 DEF Job
    <3> QED BY <3>1, <3>2, <3>3, <3>4 DEF RowOf
  <2>3. jobs[j].status \in Active
    BY <1>1, <1>3 DEF Kept, KeepsItsStatus, RuntimeInv, WorkersHold
  <2>4. RowFits(j)
    BY <1>1, <1>3, <2>2, <2>3 DEF RowFits, RowOf, Active, Finished
  <2> QED BY <1>1, <2>1, <2>2, <2>3, <2>4, WorkerKeeps DEF RowOf, AboutToBeReady
<1>4. CASE ~Kept(j) /\ to \notin Finished
  <2>1. to \in Active /\ jobs[j].status \in Active
    BY <1>1, <1>4 DEF Kept, KeepsItsStatus, RuntimeInv, WorkersHold
  <2>2. CASE to \in SendsAt
    <3>1. jobs' = [jobs EXCEPT ![j].status = to, ![j].pc = "wait"] /\ sent' = sent \union {j}
      BY <1>4, <2>2 DEF UpdateWrites
    <3>2. RowOf(j, to, "wait", to, jobs[j].event)
      BY <1>1, <2>1, <3>1 DEF RowOf, Job
    <3>3. RowFits(j)
      BY <1>1, <2>1, <3>2 DEF RowFits, RowOf, RuntimeInv, WorkersHold, Active
    <3> QED BY <1>1, <2>1, <3>1, <3>2, <3>3, WorkerKeeps DEF RowOf, AboutToBeReady, Active
  <2>3. CASE to \notin SendsAt
    <3>1. jobs' = [jobs EXCEPT ![j].status = to, ![j].pc = "update", ![j].to = Following(to)] /\ sent' = sent
      BY <1>4, <2>3 DEF UpdateWrites
    <3>2. Following(to) \in Active
      BY <2>1, <2>3, NextStatus DEF SendsAt
    <3>3. RowOf(j, to, "update", Following(to), jobs[j].event)
      BY <1>1, <2>1, <3>1, <3>2 DEF RowOf, Job
    <3>4. RowFits(j)
      BY <1>1, <2>1, <3>3 DEF RowFits, RowOf, RuntimeInv, WorkersHold, Active
    <3> QED BY <1>1, <2>1, <3>1, <3>2, <3>3, <3>4, WorkerKeeps DEF RowOf, AboutToBeReady, Active
  <2> QED BY <2>2, <2>3
<1> QED BY <1>2, <1>3, <1>4

LEMMA FailsKeeps ==
    ASSUME RuntimeInv, NEW j \in Jobs, Fails(j)
    PROVE  RuntimeInv'
<1>1. OnlyJobs /\ sent' = sent /\ sent \subseteq Jobs /\ jobs \in [Jobs -> Job] /\ cancelling' = cancelling
  BY DEF Fails, OnlyJobs, RuntimeInv, RuntimeTypeOK
<1>2. RowOf(j, jobs[j].status, "update", "failed", jobs[j].event) /\ jobs[j].pc # "none"
  BY <1>1 DEF Fails, RowOf, Job, Finished
<1>3. RowFits(j)
  BY <1>1, <1>2 DEF RowFits, RowOf, RuntimeInv, WorkersHold, Job
<1> QED BY <1>1, <1>2, <1>3, WorkerKeeps DEF RowOf, AboutToBeReady

LEMMA JobWorkerKeeps ==
    ASSUME RuntimeInv, NEW j \in Jobs, JobWorker(j)
    PROVE  RuntimeInv'
<1>1. CASE Abandon(j)
  BY <1>1, LeftKeeps DEF Abandon
<1> QED BY <1>1, StartsKeeps, ChecksKeeps, WritesKeeps, FailsKeeps DEF JobWorker

----------------------------------------------------------------------------
(* The inference server.  At vLLM no job is ready, or about to be, while one *)
(* waits for the answer it is given.                                         *)
LEMMA AwaitedAlone ==
    ASSUME RuntimeInv, kind = "vllm", NEW j \in Jobs, Awaited(j)
    PROVE  /\ jobs[j].status \in Active
           /\ \A i \in Jobs : ~AboutToBeReady(i) /\ ~LastReady(i)
<1>1. jobs[j].status \in Active
  BY DEF Awaited, RuntimeInv, WorkersHold
<1>2. ASSUME NEW i \in Jobs PROVE ~AboutToBeReady(i)
  <2>1. CASE i = j
    BY <2>1 DEF AboutToBeReady, Awaited
  <2>2. CASE i # j
    <3>1. i < j \/ j < i
      BY <2>2, RuntimeAssumption DEF Jobs
    <3> QED BY <1>1, <3>1 DEF AboutToBeReady, RuntimeInv, OneAtATime, Active
  <2> QED BY <2>1, <2>2
<1>3. ASSUME NEW i \in Jobs PROVE ~LastReady(i)
  <2>1. SUFFICES ASSUME LastReady(i) PROVE FALSE
    OBVIOUS
  <2>2. i # j
    BY <1>1, <2>1 DEF LastReady, Active
  <2>3. i < j \/ j < i
    BY <2>2, RuntimeAssumption DEF Jobs
  <2> QED BY <1>1, <2>1, <2>3 DEF LastReady, RuntimeInv, OneAtATime, Active
<1> QED BY <1>1, <1>2, <1>3

LEMMA AnswerKeeps ==
    ASSUME RuntimeInv, NEW j \in Jobs, NEW to \in Active \union Finished, Answered(j, to),
           UNCHANGED <<kind, inserting, cancelling>>
    PROVE  /\ RowFits(j) /\ jobs' \in [Jobs -> Job] /\ \A i \in Jobs \ {j} : jobs'[i] = jobs[i]
           /\ jobs'[j].status = jobs[j].status /\ jobs'[j].repo = jobs[j].repo
           /\ jobs'[j].pc \in {"update", "write"} => jobs'[j].to = to \/ jobs' = jobs
           /\ sent' \subseteq Jobs
           /\ WorkersHold' /\ InOrder' /\ OneAtATime'
<1>1. jobs \in [Jobs -> Job] /\ sent' \subseteq Jobs /\ cancelling' = cancelling
  BY DEF Answered, RuntimeInv, RuntimeTypeOK
<1>2. CASE jobs[j].pc = "wait"
  <2>1. RowOf(j, jobs[j].status, "update", to, jobs[j].event)
    BY <1>1, <1>2 DEF Answered, RowOf, Job
  <2>2. RowFits(j)
    BY <1>1, <1>2, <2>1 DEF RowFits, RowOf, RuntimeInv, WorkersHold, Job
  <2> QED BY <1>1, <2>1, <2>2, FittingRow DEF RowOf
<1>3. CASE jobs[j].pc # "wait"
  <2>1. jobs' = jobs
    BY <1>3 DEF Answered
  <2>2. RowFits(j)
    BY <1>1, <2>1 DEF RowFits, RuntimeInv, WorkersHold, Job
  <2> QED BY <1>1, <2>1, <2>2, FittingRow
<1> QED BY <1>2, <1>3

(* What vLLM serves once it answered, when somebody waited for the answer.   *)
LEMMA AnswerServed ==
    ASSUME RuntimeInv, NEW j \in Jobs, NEW to \in {"ready", "failed"}, Answered(j, to),
           Displaces(j), UNCHANGED <<kind, inserting, cancelling>>,
           to = "ready" => serving' = {jobs[j].repo}
    PROVE  Served'
<1>1. /\ jobs' \in [Jobs -> Job] /\ \A i \in Jobs \ {j} : jobs'[i] = jobs[i]
      /\ jobs'[j].status = jobs[j].status /\ jobs'[j].repo = jobs[j].repo
      /\ jobs'[j].pc \in {"update", "write"} => jobs'[j].to = to \/ jobs' = jobs
  BY AnswerKeeps DEF Finished
<1> SUFFICES ASSUME kind = "vllm", ~displaced', NEW i \in Jobs, AboutToBeReady(i)' \/ LastReady(i)'
             PROVE  serving' = {jobs'[i].repo}
  BY DEF Served
<1>2. Awaited(j) /\ jobs' # jobs
  <2>1. Awaited(j)
    BY DEF Displaces
  <2>2. jobs' = [jobs EXCEPT ![j].pc = "update", ![j].to = to]
    BY <2>1 DEF Answered, Awaited
  <2>3. jobs \in [Jobs -> Job]
    BY DEF RuntimeInv, RuntimeTypeOK
  <2>4. jobs'[j].pc = "update"
    BY <2>2, <2>3 DEF Job
  <2> QED BY <2>1, <2>4 DEF Awaited
<1>3. jobs[j].status \in Active /\ \A k \in Jobs : ~AboutToBeReady(k) /\ ~LastReady(k)
  BY <1>2, AwaitedAlone
<1>4. i = j
  BY <1>1, <1>3 DEF AboutToBeReady, LastReady
<1>5. AboutToBeReady(j)'
  BY <1>1, <1>3, <1>4 DEF LastReady, Active
<1>6. to = "ready"
  BY <1>1, <1>2, <1>5 DEF AboutToBeReady
<1> QED BY <1>1, <1>4, <1>6

LEMMA TakesKeeps ==
    ASSUME RuntimeInv, NEW j \in Jobs, AgentTakes(j)
    PROVE  RuntimeInv'
<1>1. kind = "vllm" /\ Displaces(j) /\ UNCHANGED <<kind, inserting, cancelling>> /\ displaced' \in BOOLEAN
  BY DEF AgentTakes, Displaces, RuntimeInv, RuntimeTypeOK
<1>2. CASE serving = {jobs[j].repo}
  <2>1. Answered(j, "ready") /\ UNCHANGED <<loading, serving>>
    BY <1>2 DEF AgentTakes
  <2>2. jobs' \in [Jobs -> Job] /\ sent' \subseteq Jobs /\ WorkersHold' /\ InOrder' /\ OneAtATime'
    BY <1>1, <2>1, AnswerKeeps DEF Finished
  <2>3. Served'
    BY <1>1, <1>2, <2>1, AnswerServed
  <2> QED BY <1>1, <2>1, <2>2, <2>3 DEF RuntimeInv, RuntimeTypeOK
<1>3. CASE serving # {jobs[j].repo}
  <2>1. loading' = j /\ serving' = {} /\ UNCHANGED <<sent, jobs>>
    BY <1>3 DEF AgentTakes
  <2>2. RuntimeTypeOK'
    BY <1>1, <2>1, RuntimeAssumption DEF RuntimeInv, RuntimeTypeOK, Jobs
  <2>3. Served'
    BY <1>1, <2>1, AwaitedAlone DEF Served, AboutToBeReady, LastReady, Displaces
  <2> QED BY <1>1, <2>1, <2>2, <2>3 DEF RuntimeInv, WorkersHold, InOrder, OneAtATime
<1> QED BY <1>2, <1>3

LEMMA LoadsKeeps ==
    ASSUME RuntimeInv, AgentLoads
    PROVE  RuntimeInv'
<1>1. /\ loading \in Jobs /\ Displaces(loading) /\ UNCHANGED <<kind, inserting, cancelling>>
      /\ displaced' \in BOOLEAN /\ loading' = 0
  BY RuntimeAssumption DEF AgentLoads, Displaces, RuntimeInv, RuntimeTypeOK, Jobs
<1>2. PICK to \in {"ready", "failed"} :
         Answered(loading, to) /\ serving' = IF to = "ready" THEN {jobs[loading].repo} ELSE serving
  BY DEF AgentLoads
<1>3. jobs' \in [Jobs -> Job] /\ sent' \subseteq Jobs /\ WorkersHold' /\ InOrder' /\ OneAtATime'
  BY <1>1, <1>2, AnswerKeeps DEF Finished
<1>4. Served'
  BY <1>1, <1>2, AnswerServed
<1>5. serving' \subseteq Models
  BY <1>1, <1>2 DEF RuntimeInv, RuntimeTypeOK, Job
<1>6. RuntimeTypeOK'
  BY <1>1, <1>3, <1>5, RuntimeAssumption DEF RuntimeInv, RuntimeTypeOK
<1> QED BY <1>3, <1>4, <1>6 DEF RuntimeInv

LEMMA OllamaKeeps ==
    ASSUME RuntimeInv, NEW j \in Jobs, OllamaAnswers(j)
    PROVE  RuntimeInv'
<1>1. kind = "ollama" /\ UNCHANGED <<kind, loading, serving, inserting, cancelling, displaced>>
  BY DEF OllamaAnswers
<1>2. PICK to \in {"failed", "loading", "ready"} : Answered(j, to)
  BY DEF OllamaAnswers
<1>3. jobs' \in [Jobs -> Job] /\ sent' \subseteq Jobs /\ WorkersHold' /\ InOrder' /\ OneAtATime'
  BY <1>1, <1>2, AnswerKeeps DEF Active, Finished
<1>4. Served'
  BY <1>1 DEF Served
<1> QED BY <1>1, <1>3, <1>4 DEF RuntimeInv, RuntimeTypeOK

LEMMA RestartKeeps ==
    ASSUME RuntimeInv, RuntimeRestart
    PROVE  RuntimeInv'
<1>1. /\ UNCHANGED <<kind, sent, loading, serving, displaced>> /\ cancelling' = {}
      /\ inserting' \in [Models -> 0 .. MaxClients] /\ jobs \in [Jobs -> Job]
  BY RuntimeAssumption DEF RuntimeRestart, RuntimeInv, RuntimeTypeOK
<1>2. ASSUME NEW j \in Jobs
      PROVE  /\ jobs'[j] \in Job /\ jobs'[j].pc = "none" /\ jobs'[j].repo = jobs[j].repo
             /\ jobs'[j].status = IF jobs[j].status \in Active THEN "failed" ELSE jobs[j].status
  BY <1>1 DEF RuntimeRestart, FailUnfinished, Job, Active, Finished
<1>3. jobs' \in [Jobs -> Job]
  <2>1. jobs' = [j \in Jobs |-> jobs'[j]]
    BY DEF RuntimeRestart, FailUnfinished
  <2> QED BY <1>2, <2>1
<1>4. \A j \in Jobs : jobs'[j].status \notin Active /\ (jobs'[j].status = "none" <=> jobs[j].status = "none")
  BY <1>2 DEF Active
<1>5. WorkersHold' /\ InOrder' /\ OneAtATime'
  BY <1>1, <1>2, <1>4 DEF RuntimeInv, WorkersHold, InOrder, OneAtATime
<1>6. \A j \in Jobs : ~AboutToBeReady(j)' /\ (LastReady(j)' => LastReady(j))
  BY <1>2, <1>4 DEF AboutToBeReady, LastReady
<1>7. Served'
  BY <1>1, <1>2, <1>6 DEF RuntimeInv, Served
<1> QED BY <1>1, <1>3, <1>5, <1>7 DEF RuntimeInv, RuntimeTypeOK

LEMMA RuntimeKeeps ==
    ASSUME RuntimeInv, RuntimeNext \/ RuntimeRestart
    PROVE  RuntimeInv'
BY QueueKeeps, InsertKeeps, CancelKeeps, JobWorkerKeeps, TakesKeeps, OllamaKeeps, LoadsKeeps, RestartKeeps
   DEF RuntimeNext

----------------------------------------------------------------------------
(* A job that has ended changes its status only to cancelled, by a cancel    *)
(* that was under way.                                                       *)
EndsAsItDid(j) ==
    jobs[j].status \in Finished /\ jobs'[j].status # jobs[j].status
      => jobs'[j].status = "cancelled" /\ j \in cancelling

LEMMA WorkerEndsNothing ==
    ASSUME RuntimeInv, NEW j \in Jobs, NEW i \in Jobs, JobWorker(i)
    PROVE  EndsAsItDid(j)
<1>1. jobs \in [Jobs -> Job]
  BY DEF RuntimeInv, RuntimeTypeOK
<1>2. CASE jobs' = Left(i)
  BY <1>2, LeftJob DEF EndsAsItDid, RuntimeInv
<1>3. CASE UpdateWrites(i) /\ jobs' # Left(i)
  <2>1. jobs[i].status \in Active
    BY <1>3 DEF UpdateWrites, Kept, KeepsItsStatus, RuntimeInv, WorkersHold
  <2>2. CASE i = j
    BY <2>1, <2>2 DEF EndsAsItDid, Active, Finished
  <2>3. CASE i # j
    <3>1. CASE jobs' = [Left(i) EXCEPT ![i].status = jobs[i].to]
      BY <2>3, <3>1, LeftJob DEF EndsAsItDid, RuntimeInv
    <3>2. CASE jobs' # [Left(i) EXCEPT ![i].status = jobs[i].to]
      BY <1>1, <1>3, <2>3, <3>2 DEF EndsAsItDid, UpdateWrites
    <3> QED BY <3>1, <3>2
  <2> QED BY <2>2, <2>3
<1>4. CASE JobStarts(i) /\ jobs' # Left(i)
  BY <1>1, <1>4 DEF JobStarts, EndsAsItDid, Job
<1>5. CASE UpdateChecks(i) /\ jobs' # Left(i)
  BY <1>1, <1>5 DEF UpdateChecks, EndsAsItDid, Job
<1>6. CASE Fails(i)
  BY <1>1, <1>6 DEF Fails, EndsAsItDid, Job
<1> QED BY <1>2, <1>3, <1>4, <1>5, <1>6 DEF JobWorker, Abandon

LEMMA FinishedKept ==
    ASSUME RuntimeInv, RuntimeNext \/ RuntimeRestart, NEW j \in Jobs
    PROVE  EndsAsItDid(j)
<1>1. jobs \in [Jobs -> Job]
  BY DEF RuntimeInv, RuntimeTypeOK
<1>2. ASSUME NEW m \in Models, Queue(m) \/ QueueInsert(m) PROVE EndsAsItDid(j)
  <2>1. CASE jobs' = jobs
    BY <2>1 DEF EndsAsItDid
  <2>2. CASE jobs' # jobs
    <3>1. QueueInsert(m)
      BY <1>2, <2>2 DEF Queue
    <3>2. PICK i \in Jobs : jobs[i].status = "none" /\ \A k \in Jobs \ {i} : jobs'[k] = jobs[k]
      BY <2>2, <3>1, QueueStep DEF RuntimeInv
    <3> QED BY <3>2 DEF EndsAsItDid, Finished
  <2> QED BY <2>1, <2>2
<1>3. ASSUME NEW i \in Jobs, Cancel(i) \/ CancelWrite(i) PROVE EndsAsItDid(j)
  <2>1. CASE Cancel(i)
    BY <1>1, <2>1 DEF Cancel, EndsAsItDid, Job
  <2>2. CASE CancelWrite(i)
    BY <1>1, <2>2 DEF CancelWrite, EndsAsItDid, Job
  <2> QED BY <1>3, <2>1, <2>2
<1>4. ASSUME NEW i \in Jobs, NEW to, Answered(i, to) PROVE EndsAsItDid(j)
  BY <1>1, <1>4 DEF Answered, EndsAsItDid, Job
<1>5. ASSUME NEW i \in Jobs, AgentTakes(i) \/ OllamaAnswers(i) PROVE EndsAsItDid(j)
  <2>1. CASE jobs' = jobs
    BY <2>1 DEF EndsAsItDid
  <2>2. CASE jobs' # jobs
    <3>1. \E to \in {"failed", "loading", "ready"} : Answered(i, to)
      BY <1>5, <2>2 DEF AgentTakes, OllamaAnswers
    <3> QED BY <3>1, <1>4
  <2> QED BY <2>1, <2>2
<1>6. CASE AgentLoads
  <2>1. loading \in Jobs
    BY <1>6, RuntimeAssumption DEF AgentLoads, RuntimeInv, RuntimeTypeOK, Jobs
  <2> QED BY <1>4, <1>6, <2>1 DEF AgentLoads
<1>7. CASE RuntimeRestart
  BY <1>1, <1>7 DEF RuntimeRestart, FailUnfinished, EndsAsItDid, Active, Finished, Job
<1> QED BY <1>2, <1>3, <1>5, <1>6, <1>7, WorkerEndsNothing DEF RuntimeNext

----------------------------------------------------------------------------
(* Both parts together.                                                      *)
ServersInv == shared \in BOOLEAN /\ RuntimeInv /\ ClusterInv

----------------------------------------------------------------------------
LEMMA RuntimeStays ==
    ASSUME RuntimeInv, UNCHANGED runtimeVars
    PROVE  RuntimeInv' /\ \A j \in Jobs : EndsAsItDid(j)
<1>1. UNCHANGED <<kind, jobs, sent, loading, serving, inserting, cancelling, displaced>>
  BY DEF runtimeVars
<1>2. RuntimeTypeOK' /\ WorkersHold'
  BY <1>1 DEF RuntimeInv, RuntimeTypeOK, WorkersHold
<1>3. InOrder' /\ OneAtATime'
  BY <1>1 DEF RuntimeInv, InOrder, OneAtATime
<1>4. Served'
  BY <1>1 DEF RuntimeInv, Served, AboutToBeReady, LastReady
<1>5. \A j \in Jobs : EndsAsItDid(j)
  BY <1>1 DEF EndsAsItDid
<1> QED BY <1>2, <1>3, <1>4, <1>5 DEF RuntimeInv

LEMMA ClusterStays ==
    ASSUME ClusterInv, UNCHANGED clusterVars
    PROVE  ClusterInv'
<1>1. UNCHANGED <<up, lock, session, leader, runs, worker, stopping, moves,
                  location, held, listed, faults, overlaps>>
  BY DEF clusterVars
<1>2. ClusterTypeOK' /\ ThreadsHold'
  BY <1>1 DEF ClusterInv, ClusterTypeOK, ThreadsHold
<1>3. ASSUME Alone' PROVE MoveInv'
  <2>1. MoveInv
    BY <1>1, <1>3 DEF ClusterInv, Alone
  <2> QED BY <1>1, <2>1, MovesInPlace, LessWork
<1> QED BY <1>2, <1>3 DEF ClusterInv

LEMMA ServersStart == Init => ServersInv
<1> SUFFICES ASSUME Init PROVE ServersInv
  OBVIOUS
<1> DEFINE running == IF shared THEN Servers ELSE {}
<1>1. ClusterInit(running) /\ running \in SUBSET Servers
  BY DEF Init
<1> HIDE DEF running
<1>2. ClusterInv
  BY <1>1, ClusterStarts
<1> QED BY <1>2, RuntimeStarts DEF Init, ServersInv

LEMMA ServersStep ==
    ASSUME ServersInv, [Next]_vars
    PROVE  ServersInv' /\ \A j \in Jobs : EndsAsItDid(j)
<1>1. RuntimeInv /\ ClusterInv /\ shared \in BOOLEAN /\ shared' = shared
  BY DEF ServersInv, Next, vars
<1>2. CASE (RuntimeNext \/ RuntimeRestart) /\ UNCHANGED clusterVars
  BY <1>1, <1>2, RuntimeKeeps, FinishedKept, ClusterStays DEF ServersInv
<1>3. CASE ClusterNext /\ UNCHANGED runtimeVars
  BY <1>1, <1>3, ClusterKeeps, RuntimeStays DEF ServersInv
<1>4. CASE UNCHANGED <<runtimeVars, clusterVars>>
  BY <1>1, <1>4, ClusterStays, RuntimeStays DEF ServersInv
<1> QED BY <1>2, <1>3, <1>4 DEF Next, vars

(* What all the theorems rest on.                                            *)
THEOREM ServersInvariant == Spec => []ServersInv
<1>1. Init => ServersInv
  BY ServersStart
<1>2. ServersInv /\ [Next]_vars => ServersInv'
  BY ServersStep
<1> QED BY <1>1, <1>2, PTL DEF Spec

----------------------------------------------------------------------------
(* Every variable keeps its type (Servers.TypeOK).                           *)
THEOREM TypeCorrect == Spec => []TypeOK
<1>1. ServersInv => TypeOK
  BY DEF ServersInv, TypeOK, RuntimeInv, ClusterInv
<1> QED BY <1>1, ServersInvariant, PTL

(* However requests, cancels, workers, inference server and restarts meet,   *)
(* vLLM serves the model of the last job, once that is ready, and no other   *)
(* (Servers.ReadyIsServed): runtimes.py refuses the request for a second     *)
(* model while a job goes on, and the worker of a job that was given up      *)
(* writes nothing that says it is ready.                                     *)
THEOREM ReadyAlwaysServed == Spec => []ReadyIsServed
<1>1. ServersInv => ReadyIsServed
  BY DEF ServersInv, RuntimeInv, Served, LastReady, ReadyIsServed
<1> QED BY <1>1, ServersInvariant, PTL

(* Whatever servers crash, come back, are elected or stop answering the      *)
(* database, for any number of servers, buckets, files and moves, the        *)
(* model's row names a bucket that holds all of it (Servers.ModelKept):      *)
(* moves.py locates the model in its new bucket before it lists the old one  *)
(* no more and cleans it, and a recovery discards no copy the row names.     *)
(* That fails only once a server that ran was taken for dead, recovered its  *)
(* own move, or was still at a move when the next one began.                 *)
THEOREM ModelAlwaysKept == Spec => []ModelKept
<1>1. ServersInv => ModelKept
  BY DEF ServersInv, ClusterInv, Alone, MoveInv, Whole, ModelKept
<1> QED BY <1>1, ServersInvariant, PTL

(* A job that has ended stays as it ended but for a cancel that was under    *)
(* way by then (Servers.FinishedStays): whatever its worker, a restart or    *)
(* the inference server still do.                                            *)
THEOREM FinishedAlwaysStays == Spec => FinishedStays
<1>1. ServersInv /\ [Next]_vars
        => [\A j \in Jobs :
              jobs[j].status \in Finished /\ jobs'[j].status # jobs[j].status
                 => jobs'[j].status = "cancelled" /\ j \in cancelling]_vars
  BY ServersStep DEF EndsAsItDid
<1> QED BY <1>1, ServersInvariant, PTL DEF Spec, FinishedStays
=============================================================================
