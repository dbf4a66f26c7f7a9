------------------------------- MODULE Cluster -------------------------------
(***************************************************************************)
(* Servers sharing one library (backend/app/cluster.py, CLUSTER_MODE, with *)
(* the claims of moves.py): each ticks, one holds the leader lock with its *)
(* database connection, and the leader moves models between buckets and    *)
(* gives up the moves of servers that went quiet.  A server that lost the  *)
(* lock goes on with the move it works on.  There is one model.            *)
(***************************************************************************)
EXTENDS Naturals, FiniteSets

CONSTANTS
    Servers,        \* instances, by their INSTANCE_ID
    Buckets,        \* where a model can be
    MaxFiles,       \* files of the model
    MaxMoves,       \* bound on moves
    MaxFaults,      \* bound on crashes, lost connections and stalls
    Nobody          \* no server

ASSUME ClusterAssumption ==
    Nobody \notin Servers /\ {MaxFiles, MaxMoves, MaxFaults} \subseteq Nat /\ Buckets # {}

VARIABLES
    up,             \* servers that run
    lock,           \* the holder of the leader lock
    session,        \* each server's connection: none, open, or lost
    leader,         \* servers that take themselves for the leader
    runs,           \* each server's tick, its thread after an election, and the move each recovers
    worker,         \* each server's worker thread
    stopping,       \* the moves each server was told to stop
    moves,          \* the storage_moves table
    location,       \* the model's row: its bucket
    held, listed,   \* the files and the complete manifest in each bucket
    faults,
    overlaps        \* ghost: how two came to work on one move, or on two moves at once

clusterVars == <<up, lock, session, leader, runs, worker, stopping, moves,
                 location, held, listed, faults, overlaps>>
leaderVars == <<up, lock, session, leader>>
bucketVars == <<location, held, listed>>

MoveIds == 1 .. MaxMoves
Files == 1 .. MaxFiles
Copying == {"copying", "verifying", "switching"}
Switched == {"draining", "cleaning"}
Unfinished == {"queued"} \union Copying \union Switched
Settled == {"done", "failed", "cancelled"}

Move == [status : Unfinished \union Settled \union {"none"}, from : Buckets, to : Buckets,
         by : Servers \union {Nobody}, quiet : BOOLEAN, cancel : BOOLEAN]
Thread == [pc : {"none", "loop", "taken", "copy", "verify", "publish", "locate", "unlist", "clean"},
           move : 0 .. MaxMoves, done : 0 .. MaxFiles]
Run == [pc : {"none", "wait", "list", "discard", "write"},
        move : 0 .. MaxMoves, seen : Copying]

NoThread == [pc |-> "none", move |-> 0, done |-> 0]
Looping == [NoThread EXCEPT !.pc = "loop"]
RunAt(pc) == [pc |-> pc, move |-> 0, seen |-> "copying"]
FreshRuns == [w \in {"tick", "elected"} |-> RunAt(IF w = "tick" THEN "wait" ELSE "none")]

ClusterTypeOK ==
    /\ up \subseteq Servers /\ leader \subseteq up /\ lock \in Servers \union {Nobody}
    /\ session \in [Servers -> {"none", "open", "lost"}]
    /\ runs \in [Servers -> [{"tick", "elected"} -> Run]]
    /\ worker \in [Servers -> Thread] /\ stopping \in [Servers -> SUBSET MoveIds]
    /\ moves \in [MoveIds -> Move]
    /\ location \in Buckets /\ held \in [Buckets -> SUBSET Files] /\ listed \subseteq Buckets
    /\ faults \in 0 .. MaxFaults /\ overlaps \subseteq {"slow", "elected", "late", "restart", "demoted"}

ClusterInit(running) ==
    /\ up = running /\ lock = Nobody /\ leader = {}
    /\ session = [s \in Servers |-> "none"]
    /\ runs = [s \in Servers |-> FreshRuns]
    /\ worker = [s \in Servers |-> NoThread] /\ stopping = [s \in Servers |-> {}]
    /\ location = CHOOSE b \in Buckets : TRUE
    /\ held = [b \in Buckets |-> IF b = location THEN Files ELSE {}] /\ listed = {location}
    /\ moves = [m \in MoveIds |-> [status |-> "none", from |-> location, to |-> location,
                                   by |-> Nobody, quiet |-> FALSE, cancel |-> FALSE]]
    /\ faults = 0 /\ overlaps = {}

Overlaps(kind, happened) == overlaps' = IF happened THEN overlaps \union {kind} ELSE overlaps
Works(s, m) == worker[s].move = m
Busy(s) == worker[s].move # 0 \/ \E w \in {"tick", "elected"} : runs[s][w].move # 0
Writes(m, status) == moves' = [moves EXCEPT ![m].status = status]
WithWorker(s) == IF worker[s].pc = "none" THEN [worker EXCEPT ![s] = Looping] ELSE worker

(* A move may be claimed when nobody has, by the one who has, and from one   *)
(* whose heartbeat is 30 seconds old.                                        *)
ClaimsAny(s, m) == TRUE
Claims(s, m) == moves[m].by \in {Nobody, s} \/ moves[m].quiet
Claimed(s, m) == [moves EXCEPT ![m].by = s, ![m].quiet = FALSE]

(* Requests, answered by any server: a move to an empty bucket, and a cancel *)
(* that its own server sees at once and another at its next tick.  The       *)
(* cancel of a move that a worker took and has yet to begin only writes its  *)
(* row: a server may still be at work on a move when the next one starts.    *)
StartMove(s, m, to) ==
    /\ s \in up /\ moves[m].status = "none" /\ \A k \in MoveIds : k < m => moves[k].status # "none"
    /\ \A k \in MoveIds : moves[k].status \notin Unfinished
    /\ to # location /\ location \in listed /\ held[to] = {} /\ to \notin listed
    /\ moves' = [moves EXCEPT ![m] = [@ EXCEPT !.status = "queued", !.from = location, !.to = to]]
    /\ worker' = IF s \in leader THEN WithWorker(s) ELSE worker
    /\ Overlaps("late", \E t \in Servers : Busy(t))
    /\ UNCHANGED <<leaderVars, faults, runs, stopping, bucketVars>>

CancelMove(s, m) ==
    /\ s \in up
    /\ \/ moves[m].status = "queued" /\ Writes(m, "cancelled") /\ UNCHANGED stopping
       \/ /\ moves[m].status \in {"copying", "verifying"}
          /\ IF moves[m].by \in {Nobody, s}
             THEN stopping' = [stopping EXCEPT ![s] = @ \union {m}] /\ UNCHANGED moves
             ELSE moves' = [moves EXCEPT ![m].cancel = TRUE] /\ UNCHANGED stopping
    /\ UNCHANGED <<leaderVars, faults, runs, worker, bucketVars, overlaps>>

----------------------------------------------------------------------------
(* recover, by the tick (for others only) and after an election: a move that *)
(* did not switch is claimed, its copy discarded, and it has failed.         *)
At(s, w, pc) == s \in up /\ runs[s][w].pc = pc
GoTo(s, w, pc) == runs' = [runs EXCEPT ![s][w] = RunAt(pc)]
Recovered(w) == IF w = "tick" THEN "wait" ELSE "none"
EnsureWorker(s, w) ==
    worker' = IF w = "elected" \/ \E m \in MoveIds : moves'[m].status \in Unfinished THEN WithWorker(s) ELSE worker

Recoverable(s, w) ==
    {m \in MoveIds : moves[m].status \in Copying /\ Claims(s, m) /\ (w = "tick" => moves[m].by # s)}
Recovers(m) == [pc |-> "discard", move |-> m, seen |-> moves[m].status]

(* A tick: the lock, the heartbeat, then the tasks.  The lock goes to one    *)
(* session; a server whose session was lost gives up and closes it.  The     *)
(* leader recovers on the thread of its tick.                                *)
Tick(s) ==
    /\ At(s, "tick", "wait")
    /\ LET lost == session[s] = "lost"
           wins == ~lost /\ lock = Nobody
           leads == wins \/ (~lost /\ lock = s)
           elects == IF wins /\ runs[s]["elected"].pc = "none" THEN RunAt("list") ELSE runs[s]["elected"]
           beats == [m \in MoveIds |-> [moves[m] EXCEPT !.quiet = @ /\ moves[m].by # s]]
       IN  /\ session' = [session EXCEPT ![s] = IF lost THEN "none" ELSE "open"]
           /\ lock' = IF wins THEN s ELSE lock
           /\ leader' = IF leads THEN leader \union {s} ELSE leader \ {s}
           /\ IF leads /\ Recoverable(s, "tick") # {}
              THEN \E m \in Recoverable(s, "tick") :
                     /\ moves' = [beats EXCEPT ![m].by = s, ![m].quiet = FALSE]
                     /\ runs' = [runs EXCEPT ![s] = [tick |-> Recovers(m), elected |-> elects]]
                     /\ UNCHANGED worker
              ELSE /\ moves' = beats /\ runs' = [runs EXCEPT ![s]["elected"] = elects]
                   /\ IF leads THEN EnsureWorker(s, "tick") ELSE UNCHANGED worker
    /\ stopping' = [stopping EXCEPT ![s] = @ \union
           {m \in MoveIds : moves[m].by = s /\ moves[m].cancel /\ moves[m].status \in {"copying", "verifying"}}]
    /\ Overlaps("demoted", s \in leader \ leader' /\ \E m \in MoveIds : Works(s, m) \/ (moves[m].by = s /\ moves[m].status \in Unfinished))
    /\ UNCHANGED <<up, faults, bucketVars>>

RecoverClaims(s) ==
    /\ At(s, "elected", "list")
    /\ IF Recoverable(s, "elected") = {}
       THEN GoTo(s, "elected", "none") /\ UNCHANGED <<moves, overlaps>> /\ EnsureWorker(s, "elected")
       ELSE \E m \in Recoverable(s, "elected") :
              /\ moves' = Claimed(s, m)
              /\ runs' = [runs EXCEPT ![s]["elected"] = Recovers(m)]
              /\ Overlaps("elected", Works(s, m))
              /\ UNCHANGED worker
    /\ UNCHANGED <<leaderVars, faults, stopping, bucketVars>>

(* Removing a copy may fail, which is only logged.                           *)
Fault == faults < MaxFaults /\ faults' = faults + 1
Discards(m) == location # moves[m].to
DiscardCopy(m) ==
    LET to == moves[m].to
    IN  \/ /\ Discards(m) /\ UNCHANGED faults
           /\ held' = [held EXCEPT ![to] = {}] /\ listed' = listed \ {to}
        \/ ~Discards(m) /\ UNCHANGED <<held, listed, faults>>
        \/ Discards(m) /\ Fault /\ UNCHANGED <<held, listed>>

RecoverDiscards(s, w) ==
    /\ At(s, w, "discard")
    /\ LET m == runs[s][w].move
       IN  IF runs[s][w].seen = "switching" /\ location = moves[m].to
           THEN Writes(m, "draining") /\ GoTo(s, w, Recovered(w)) /\ EnsureWorker(s, w)
                  /\ UNCHANGED <<bucketVars, faults>>
           ELSE /\ DiscardCopy(m) /\ runs' = [runs EXCEPT ![s][w].pc = "write"]
                /\ UNCHANGED <<location, moves, worker>>
    /\ UNCHANGED <<leaderVars, stopping, overlaps>>

RecoverWrites(s, w) ==
    /\ At(s, w, "write")
    /\ Writes(runs[s][w].move, "failed") /\ GoTo(s, w, Recovered(w)) /\ EnsureWorker(s, w)
    /\ UNCHANGED <<leaderVars, faults, stopping, bucketVars, overlaps>>

----------------------------------------------------------------------------
(* The worker thread: the leader's takes moves, and goes on with the one it  *)
(* took whoever leads by then.                                               *)
In(s, pc) == s \in up /\ worker[s].pc = pc
Its(s) == worker[s].move
WorkerTo(s, pc) == worker' = [worker EXCEPT ![s].pc = pc]
Stopped(s) == Its(s) \in stopping[s]
OnlyWorker == UNCHANGED <<leaderVars, faults, runs, overlaps>>

Take(s, m) ==
    /\ In(s, "loop") /\ s \in leader /\ moves[m].status = "queued" /\ Claims(s, m)
    /\ moves' = Claimed(s, m)
    /\ worker' = [worker EXCEPT ![s] = [pc |-> "taken", move |-> m, done |-> 0]]
    /\ UNCHANGED <<stopping, bucketVars>> /\ OnlyWorker

BeginCopy(s) ==
    /\ In(s, "taken") /\ Writes(Its(s), "copying") /\ WorkerTo(s, "copy")
    /\ UNCHANGED <<stopping, bucketVars>> /\ OnlyWorker

CopyFile(s) ==
    LET m == Its(s)  next == worker[s].done + 1
    IN  /\ In(s, "copy") /\ next \in held[moves[m].from] /\ ~Stopped(s)
        /\ held' = [held EXCEPT ![moves[m].to] = @ \union {next}]
        /\ worker' = [worker EXCEPT ![s].done = next]
        /\ UNCHANGED <<moves, stopping, location, listed>> /\ OnlyWorker

BeginVerify(s) ==
    /\ In(s, "copy") /\ worker[s].done = MaxFiles
    /\ Writes(Its(s), "verifying") /\ WorkerTo(s, "verify")
    /\ UNCHANGED <<stopping, bucketVars>> /\ OnlyWorker

Verify(s) ==
    /\ In(s, "verify") /\ held[moves[Its(s)].to] = Files /\ ~Stopped(s)
    /\ Writes(Its(s), "switching") /\ WorkerTo(s, "publish")
    /\ UNCHANGED <<stopping, bucketVars>> /\ OnlyWorker

Publish(s) ==
    /\ In(s, "publish") /\ WorkerTo(s, "locate")
    /\ listed' = listed \union {moves[Its(s)].to}
    /\ UNCHANGED <<stopping, moves, location, held>> /\ OnlyWorker

Locate(s) ==
    /\ In(s, "locate") /\ WorkerTo(s, "unlist")
    /\ location' = moves[Its(s)].to
    /\ UNCHANGED <<stopping, moves, held, listed>> /\ OnlyWorker

Drain(s) ==
    /\ In(s, "unlist") /\ worker' = [worker EXCEPT ![s] = Looping]
    /\ listed' = listed \ {moves[Its(s)].from}
    /\ Writes(Its(s), "draining") /\ stopping' = [stopping EXCEPT ![s] = @ \ {Its(s)}]
    /\ UNCHANGED <<location, held>> /\ OnlyWorker

(* A storage call that fails, a copy that does not match, or a cancel that   *)
(* is seen: what was copied goes.                                            *)
GiveUp(s) ==
    /\ In(s, worker[s].pc) /\ worker[s].pc \in {"taken", "copy", "verify", "publish", "locate", "unlist"}
    /\ DiscardCopy(Its(s))
    /\ Writes(Its(s), IF Stopped(s) THEN "cancelled" ELSE "failed")
    /\ worker' = [worker EXCEPT ![s] = Looping] /\ stopping' = [stopping EXCEPT ![s] = @ \ {Its(s)}]
    /\ UNCHANGED <<leaderVars, runs, overlaps, location>>

(* The old copy is removed once it was kept for as long as a download may    *)
(* take (_keep_until: whenever Finish is taken).                             *)
Finish(s, m) ==
    /\ In(s, "loop") /\ s \in leader /\ moves[m].status \in Switched /\ Claims(s, m)
    /\ moves' = [Claimed(s, m) EXCEPT ![m].status = "cleaning"]
    /\ worker' = [worker EXCEPT ![s] = [pc |-> "clean", move |-> m, done |-> 0]]
    /\ UNCHANGED <<stopping, bucketVars>> /\ OnlyWorker

Clean(s) ==
    /\ In(s, "clean")
    /\ \/ /\ held' = [held EXCEPT ![moves[Its(s)].from] = {}] /\ listed' = listed \ {moves[Its(s)].from}
          /\ Writes(Its(s), "done")
       \/ Writes(Its(s), "failed") /\ UNCHANGED <<held, listed>>
    /\ worker' = [worker EXCEPT ![s] = Looping]
    /\ UNCHANGED <<stopping, location>> /\ OnlyWorker

----------------------------------------------------------------------------
(* Faults: a server stops, and comes back under the same INSTANCE_ID; its    *)
(* connection is lost; a heartbeat is late, which is no fault of a server    *)
(* that does not run.                                                        *)
StillLeads(s) == leader
Resigns(s) == leader \ {s}
Released(s) == IF lock = s THEN Nobody ELSE lock

Crash(s) ==
    /\ s \in up /\ Fault
    /\ up' = up \ {s} /\ leader' = Resigns(s)
    /\ lock' = Released(s) /\ session' = [session EXCEPT ![s] = "none"]
    /\ runs' = [runs EXCEPT ![s] = FreshRuns]
    /\ worker' = [worker EXCEPT ![s] = NoThread] /\ stopping' = [stopping EXCEPT ![s] = {}]
    /\ UNCHANGED <<moves, bucketVars, overlaps>>

Start(s) ==
    /\ s \notin up /\ up' = up \union {s}
    /\ Overlaps("restart", \E m \in MoveIds : moves[m].by = s /\ moves[m].status \in Unfinished)
    /\ UNCHANGED <<lock, session, leader, faults, runs, worker, stopping, moves, bucketVars>>

LoseConnection(s) ==
    /\ s \in up /\ lock = s /\ Fault     \* without the lock it changes nothing
    /\ session' = [session EXCEPT ![s] = "lost"] /\ lock' = Released(s)
    /\ UNCHANGED <<up, leader, runs, worker, stopping, moves, bucketVars, overlaps>>

GoQuiet(m) ==
    /\ moves[m].status \in Unfinished /\ moves[m].by # Nobody /\ ~moves[m].quiet
    /\ IF moves[m].by \in up THEN Fault /\ Overlaps("slow", TRUE) ELSE UNCHANGED <<faults, overlaps>>
    /\ moves' = [moves EXCEPT ![m].quiet = TRUE]
    /\ UNCHANGED <<up, lock, session, leader, runs, worker, stopping, bucketVars>>

Recover(s) == RecoverClaims(s) \/ \E w \in {"tick", "elected"} : RecoverDiscards(s, w) \/ RecoverWrites(s, w)
MoveWorker(s) ==
    \/ \E m \in MoveIds : Take(s, m) \/ Finish(s, m)
    \/ BeginCopy(s) \/ CopyFile(s) \/ BeginVerify(s) \/ Verify(s) \/ Publish(s) \/ Locate(s) \/ Drain(s)
    \/ GiveUp(s) \/ Clean(s)

ClusterNext ==
    \/ \E s \in Servers :
         \/ \E m \in MoveIds : CancelMove(s, m) \/ \E to \in Buckets : StartMove(s, m, to)
         \/ Tick(s) \/ Recover(s) \/ MoveWorker(s)
         \/ Crash(s) \/ Start(s) \/ LoseConnection(s)
    \/ \E m \in MoveIds : GoQuiet(m)
=============================================================================
