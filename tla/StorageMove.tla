----------------------------- MODULE StorageMove -----------------------------
(***************************************************************************)
(* Moving one model between storage locations while clients pull it:       *)
(* MoveManager (backend/app/moves.py) and ReadTracker (reads.py) of a      *)
(* single server (CLUSTER_MODE off), the local_models row they share, and  *)
(* the files at every location.                                            *)
(*                                                                         *)
(* A move is a row of the database (mv) and, while the one worker thread   *)
(* works on it, the thread's place in the code (at, cur).  It copies the   *)
(* files, reads the copy back, switches the row to the new location, waits *)
(* for reads of the old copy and removes it.  Requests start and cancel    *)
(* moves in two steps each, because the handlers read the database, work   *)
(* without a lock, and write.  Pulls take a lease, look the row up and     *)
(* read; previews look the row up first.  The server can stop at any step  *)
(* and recovers before it serves again; every storage call can fail.       *)
(*                                                                         *)
(* There is one repository: moves, leases and rows of different            *)
(* repositories share only the worker thread, which serialises them.       *)
(***************************************************************************)
EXTENDS Naturals, FiniteSets

CONSTANTS
    Remotes,    \* the buckets (storages.remotes)
    Direct,     \* the buckets with direct_downloads, which hand out links
    Local,      \* this server's disk (LOCAL_TARGET_ID)
    Moves,      \* ids of rows create_move may insert
    NoMove,     \* no row
    Requests,   \* start and cancel requests handled at the same time
    Pulls,      \* reads that look the row up under their lease
    Previews,   \* reads that look the row up before they take their lease
    TTL,        \* presign_ttl_seconds, in ticks
    MaxFaults   \* bound on crashes, failed storage calls and damaged copies

Places  == Remotes \union {Local}
Readers == Pulls \union Previews

ASSUME PlacesAssumption ==
    /\ Local \notin Remotes
    /\ Direct \subseteq Remotes
    /\ NoMove \notin Moves
    /\ Pulls \intersect Previews = {}
    /\ TTL \in Nat
    /\ MaxFaults \in Nat

VARIABLES
    row,        \* the local_models row: [place, cached]
    bytes,      \* the files at each place; at Local, those of the model's folder
    manifest,   \* buckets whose copy has a manifest with status "complete"
    staging,    \* moves whose copy is still in the hidden staging folder
    mv,         \* the storage_moves rows
    waitLeft,   \* ticks until TTL has passed since a move's switched_at
    at,         \* where the worker thread is
    cur,        \* the move it works on
    listed,     \* what the source held when the worker listed it
    held,       \* old_sha: whether the pinned revision resolved before this phase
    cancelled,  \* MoveManager._cancelled
    starting,   \* start requests between their checks and create_move
    cancelling, \* cancel requests between reading the row and acting
    up,         \* the server answers requests (lifespan has run recover)
    removing,   \* the repository is in ReadTracker._removing
    rd,         \* what each reader does
    stale,      \* readers whose lease is older than STALE_LEASE_SECONDS
    oldReads,   \* leases that began before a move's _switched time
    linkLeft,   \* ticks until the last link into each bucket expires
    resolves,   \* the revision clients pinned resolves to the current files
    overlap,    \* ghost: a move was created from checks that did not hold
    faults      \* crashes, failed storage calls and damaged copies so far

dataVars   == <<row, bytes, manifest, staging>>
workVars   == <<at, cur, listed, held>>
memVars    == <<cancelled, removing, oldReads>>
reqVars    == <<starting, cancelling, overlap>>
readVars   == <<rd, stale, linkLeft>>
clockVars  == <<waitLeft, linkLeft>>
vars == <<row, bytes, manifest, staging, mv, waitLeft, at, cur, listed, held,
          cancelled, starting, cancelling, up, removing, rd, stale, oldReads,
          linkLeft, resolves, overlap, faults>>

-----------------------------------------------------------------------------
(* A copy is whole, missing, cut short, or the right size with wrong bytes. *)
Copies == {"none", "partial", "damaged", "full"}

PreSwitch  == {"queued", "copying", "verifying", "switching"}
PostSwitch == {"draining", "cleaning"}
Unfinished == PreSwitch \union PostSwitch
Ended      == {"done", "failed", "cancelled"}
Statuses   == Unfinished \union Ended \union {"absent"}

(* The worker inside _run, before and after set_local_model_location. *)
BeforeLocation == {"picked", "copying", "copied", "verifying", "verified",
                   "switching", "published", "swapped", "placed"}
AfterLocation  == {"located", "unlisted", "relabelled"}
Undoing        == {"undoFailed", "undoCancelled", "undoneFailed", "undoneCancelled"}
Finishing      == {"cleaning", "uncache", "removed", "released", "releasing"}
WorkerPlaces   == {"loop"} \union BeforeLocation \union AfterLocation
                           \union Undoing \union Finishing

NoRequest == [kind |-> "none"]
StartReq  == [kind : {"start"}, src : Places, dst : Places, keep : BOOLEAN]
CancelReq == [kind : {"cancel"}, move : Moves, seen : {"queued", "copying", "verifying"}]

Row     == [place : Places, cached : BOOLEAN]
MoveRow == [status : Statuses, src : Places, dst : Places, keep : BOOLEAN,
            switchedAt : BOOLEAN]
Reader  == [pc : {"idle", "known", "leased", "found", "reading", "broken"},
            place : Places, cached : BOOLEAN, aside : BOOLEAN]
Idle    == [pc |-> "idle", place |-> Local, cached |-> FALSE, aside |-> FALSE]

(* A reader with a lease: reads.acquire returned, reads.release did not run. *)
Leased == {r \in Readers : rd[r].pc \in {"leased", "found", "reading"}}

(* Where a lookup finds the files: the local folder when the row says it is  *)
(* cached and it exists, else the row's bucket (HubRepositories._local_root).*)
Served(place, cached) ==
    IF cached /\ bytes[Local] # "none" THEN Local ELSE place

moving == \E m \in Moves : mv[m].status \in Unfinished

(* A move that is unfinished, or that the worker is still running.           *)
Active(m) == mv[m].status \in Unfinished \/ cur = m

TypeOK ==
    /\ row \in Row
    /\ bytes \in [Places -> Copies]
    /\ manifest \subseteq Remotes
    /\ staging \in [Moves -> Copies]
    /\ mv \in [Moves -> MoveRow]
    /\ waitLeft \in [Moves -> 0..TTL]
    /\ at \in WorkerPlaces
    /\ cur \in Moves \union {NoMove}
    /\ listed \in Copies
    /\ held \in BOOLEAN
    /\ cancelled \subseteq Moves
    /\ starting \in [Requests -> StartReq \union {NoRequest}]
    /\ cancelling \in [Requests -> CancelReq \union {NoRequest}]
    /\ up \in BOOLEAN
    /\ removing \in BOOLEAN
    /\ rd \in [Readers -> Reader]
    /\ stale \subseteq Readers
    /\ oldReads \in [Moves -> SUBSET Readers]
    /\ linkLeft \in [Remotes -> 0..TTL]
    /\ resolves \in BOOLEAN
    /\ overlap \in BOOLEAN
    /\ faults \in Nat

(* A complete model at one place, perhaps with a local cache, no moves yet.  *)
Init ==
    /\ row \in {r \in Row : r.place = Local => r.cached}
    /\ bytes = [p \in Places |-> IF p = row.place \/ (p = Local /\ row.cached)
                                   THEN "full" ELSE "none"]
    /\ manifest = {row.place} \intersect Remotes
    /\ staging = [m \in Moves |-> "none"]
    /\ mv = [m \in Moves |-> [status |-> "absent", src |-> Local, dst |-> Local,
                              keep |-> FALSE, switchedAt |-> FALSE]]
    /\ waitLeft = [m \in Moves |-> 0]
    /\ at = "loop" /\ cur = NoMove /\ listed = "none" /\ held = TRUE
    /\ cancelled = {} /\ oldReads = [m \in Moves |-> {}] /\ removing = FALSE
    /\ starting = [q \in Requests |-> NoRequest]
    /\ cancelling = [q \in Requests |-> NoRequest]
    /\ up = TRUE
    /\ rd = [r \in Readers |-> Idle] /\ stale = {}
    /\ linkLeft = [p \in Remotes |-> 0]
    /\ resolves = TRUE /\ overlap = FALSE /\ faults = 0

-----------------------------------------------------------------------------
(* Requests.                                                               *)

(* start: every check, made without a lock. *)
StartCheck(q, dst, keep) ==
    /\ up /\ starting[q] = NoRequest
    /\ dst # row.place
    /\ ~moving
    /\ row.place \in Remotes => row.place \in manifest
    /\ dst \in Remotes => bytes[dst] = "none" /\ dst \notin manifest
    /\ starting' = [starting EXCEPT ![q] =
           [kind |-> "start", src |-> row.place, dst |-> dst,
            keep |-> keep /\ dst \in Remotes /\ row.place = Local]]
    /\ UNCHANGED <<dataVars, mv, workVars, memVars, cancelling, overlap, up,
                   readVars, waitLeft, resolves, faults>>

(* start: create_move inserts the row, whatever happened since the checks. *)
StartCreate(q, m) ==
    LET s == starting[q] IN
    /\ up /\ s # NoRequest
    /\ mv[m].status = "absent"
    /\ mv' = [mv EXCEPT ![m] = [status |-> "queued", src |-> s.src, dst |-> s.dst,
                                keep |-> s.keep, switchedAt |-> FALSE]]
    /\ starting' = [starting EXCEPT ![q] = NoRequest]
    /\ overlap' = ( \/ overlap
                    \/ \E n \in Moves : Active(n)
                    \/ row.place # s.src
                    \/ s.dst \in Remotes /\ (bytes[s.dst] # "none" \/ s.dst \in manifest))
    /\ UNCHANGED <<dataVars, workVars, memVars, cancelling, up, readVars,
                   waitLeft, resolves, faults>>

(* cancel: read the row; past "verifying" it refuses. *)
CancelRead(q, m) ==
    /\ up /\ cancelling[q] = NoRequest
    /\ mv[m].status \in {"queued", "copying", "verifying"}
    /\ cancelling' = [cancelling EXCEPT ![q] =
           [kind |-> "cancel", move |-> m, seen |-> mv[m].status]]
    /\ UNCHANGED <<dataVars, mv, workVars, memVars, starting, overlap, up,
                   readVars, waitLeft, resolves, faults>>

(* cancel: a row read as queued is written "cancelled" as it is; otherwise *)
(* the worker is told through _cancelled.                                  *)
CancelApply(q) ==
    LET c == cancelling[q] IN
    /\ up /\ c # NoRequest
    /\ IF c.seen = "queued"
         THEN mv' = [mv EXCEPT ![c.move].status = "cancelled"] /\ UNCHANGED cancelled
         ELSE cancelled' = cancelled \union {c.move} /\ UNCHANGED mv
    /\ cancelling' = [cancelling EXCEPT ![q] = NoRequest]
    /\ UNCHANGED <<dataVars, workVars, removing, oldReads, starting, overlap, up,
                   readVars, waitLeft, resolves, faults>>

-----------------------------------------------------------------------------
(* The worker: _loop and _run up to the switch.                            *)

WorkerUnchanged == UNCHANGED <<reqVars, up, readVars, resolves>>

(* The worker's call returns: its locals are gone. *)
BackToLoop == at' = "loop" /\ cur' = NoMove /\ listed' = "none" /\ held' = TRUE

Fault == faults < MaxFaults /\ faults' = faults + 1

SetStatus(m, status) == mv' = [mv EXCEPT ![m].status = status]

(* _loop takes a queued move from the list it read. *)
Pick(m) ==
    /\ up /\ at = "loop"
    /\ mv[m].status = "queued"
    /\ at' = "picked" /\ cur' = m
    /\ UNCHANGED <<dataVars, mv, waitLeft, listed, held, memVars, faults>>
    /\ WorkerUnchanged

(* What the worker has written, or reads back, at the destination. *)
CopyOf(m) == IF mv[m].dst \in Remotes THEN bytes[mv[m].dst] ELSE staging[m]

WriteCopy(m, copy) ==
    IF mv[m].dst \in Remotes
      THEN bytes' = [bytes EXCEPT ![mv[m].dst] = copy] /\ UNCHANGED staging
      ELSE staging' = [staging EXCEPT ![m] = copy] /\ UNCHANGED bytes

(* _run lists the source, marks the row "copying" whatever it says now, and *)
(* begins to write.                                                         *)
BeginCopy ==
    /\ up /\ at = "picked"
    /\ listed' = bytes[mv[cur].src]
    /\ IF listed' = "none" \/ CopyOf(cur) = "full"
         THEN UNCHANGED <<bytes, staging>>
         ELSE WriteCopy(cur, "partial")
    /\ at' = "copying"
    /\ SetStatus(cur, "copying")
    /\ UNCHANGED <<row, manifest, waitLeft, cur, held, memVars, faults>>
    /\ WorkerUnchanged

(* _check runs on every chunk, so never when nothing was listed. *)
CancelSeen == cur \in cancelled /\ listed # "none"

(* Every chunk is through; one may have been changed on the way. *)
CopyFiles ==
    /\ up /\ at = "copying" /\ ~CancelSeen
    /\ bytes[mv[cur].src] = listed
    /\ \/ listed = "none" /\ UNCHANGED <<bytes, staging, faults>>
       \/ listed # "none" /\ WriteCopy(cur, listed) /\ UNCHANGED faults
       \/ listed # "none" /\ WriteCopy(cur, "damaged") /\ Fault
    /\ at' = "copied"
    /\ UNCHANGED <<row, manifest, mv, waitLeft, cur, listed, held, memVars>>
    /\ WorkerUnchanged

BeginVerify ==
    /\ up /\ at = "copied"
    /\ at' = "verifying"
    /\ SetStatus(cur, "verifying")
    /\ UNCHANGED <<dataVars, waitLeft, cur, listed, held, memVars, faults>>
    /\ WorkerUnchanged

(* The copy, read back, has the size and hash of every listed file.  (Broken *)
(* variant: the hash is not compared.)                                      *)
MatchesUnread == TRUE
Matches == listed = "none" \/ CopyOf(cur) = listed

VerifyCopy ==
    /\ up /\ at = "verifying" /\ ~CancelSeen
    /\ Matches
    /\ at' = "verified"
    /\ UNCHANGED <<dataVars, mv, waitLeft, cur, listed, held, memVars, faults>>
    /\ WorkerUnchanged

(* "switching"; _switch first takes the revision the model has now. *)
BeginSwitch ==
    /\ up /\ at = "verified"
    /\ at' = "switching"
    /\ held' = resolves
    /\ SetStatus(cur, "switching")
    /\ UNCHANGED <<dataVars, waitLeft, cur, listed, memVars, faults>>
    /\ WorkerUnchanged

-----------------------------------------------------------------------------
(* _switch.                                                                *)

(* To a bucket: its manifest first. *)
Publish ==
    /\ up /\ at = "switching" /\ mv[cur].dst \in Remotes
    /\ manifest' = manifest \union {mv[cur].dst}
    /\ at' = "published"
    /\ UNCHANGED <<row, bytes, staging, mv, waitLeft, cur, listed, held, memVars, faults>>
    /\ WorkerUnchanged

(* To local disk: the folder (a cache of the source) is renamed aside; reads *)
(* that have its files open keep them.                                       *)
SwapAside ==
    /\ up /\ at = "switching" /\ mv[cur].dst = Local
    /\ staging[cur] # "none"
    /\ bytes' = [bytes EXCEPT ![Local] = "none"]
    /\ rd' = [r \in Readers |->
                IF rd[r].pc = "reading" /\ rd[r].place = Local
                  THEN [rd[r] EXCEPT !.aside = TRUE] ELSE rd[r]]
    /\ resolves' = (resolves /\ Served(row.place, row.cached) # Local)
    /\ at' = "swapped"
    /\ UNCHANGED <<row, manifest, staging, mv, waitLeft, cur, listed, held, memVars,
                   reqVars, up, stale, linkLeft, faults>>

(* ... and the staging folder takes its place. *)
SwapIn ==
    /\ up /\ at = "swapped"
    /\ bytes' = [bytes EXCEPT ![Local] = staging[cur]]
    /\ staging' = [staging EXCEPT ![cur] = "none"]
    /\ resolves' = (resolves /\ ~row.cached)
    /\ at' = "placed"
    /\ UNCHANGED <<row, manifest, mv, waitLeft, cur, listed, held, memVars,
                   reqVars, up, readVars, faults>>

(* Broken variant of SetLocation: the row is changed before the staging      *)
(* folder takes the old one's place.                                        *)
SetLocationBeforeSwap ==
    /\ up /\ at \in {"published", "swapped"}
    /\ row' = [place |-> mv[cur].dst,
               cached |-> mv[cur].dst = Local \/ (row.cached /\ bytes[Local] # "none")]
    /\ resolves' = FALSE
    /\ at' = "located"
    /\ UNCHANGED <<bytes, manifest, staging, mv, waitLeft, cur, listed, held, memVars,
                   reqVars, up, readVars, faults>>

(* set_local_model_location: the row points at the new location. A local     *)
(* folder that was cached stays on as the cache of a bucket.                 *)
SetLocation ==
    /\ up /\ at \in {"published", "placed"}
    /\ row' = [place |-> mv[cur].dst,
               cached |-> mv[cur].dst = Local \/ (row.cached /\ bytes[Local] # "none")]
    /\ resolves' = (/\ resolves
                    /\ Served(row.place, row.cached) = Served(row'.place, row'.cached))
    /\ at' = "located"
    /\ UNCHANGED <<bytes, manifest, staging, mv, waitLeft, cur, listed, held, memVars,
                   reqVars, up, readVars, faults>>

(* The source bucket's manifest goes, so scans stop seeing the old copy. *)
DeleteSourceManifest ==
    /\ up /\ at = "located"
    /\ manifest' = manifest \ {mv[cur].src}
    /\ at' = "unlisted"
    /\ UNCHANGED <<row, bytes, staging, mv, waitLeft, cur, listed, held, memVars, faults>>
    /\ WorkerUnchanged

(* Broken variant of Relabel: no alias is recorded. *)
RelabelWithoutAlias == UNCHANGED <<resolves, faults>>

(* _relabel: the revision taken before becomes an alias of the new one, and *)
(* with it every alias that pointed there; silently not when the new        *)
(* location cannot be listed.                                               *)
Relabel ==
    \/ resolves' = (resolves \/ held) /\ UNCHANGED faults
    \/ Fault /\ UNCHANGED resolves

RelabelSwitched ==
    /\ up /\ at = "unlisted"
    /\ Relabel
    /\ at' = "relabelled"
    /\ UNCHANGED <<dataVars, mv, waitLeft, cur, listed, held, memVars, reqVars, up, readVars>>

(* "draining", with switched_at in the row and _switched in memory. *)
BeginDrain ==
    /\ up /\ at = "relabelled"
    /\ mv' = [mv EXCEPT ![cur] =
                 [@ EXCEPT !.status = "draining", !.switchedAt = TRUE]]
    /\ waitLeft' = [waitLeft EXCEPT ![cur] = IF mv[cur].src \in Direct THEN TTL ELSE 0]
    /\ oldReads' = [oldReads EXCEPT ![cur] = Leased]
    /\ cancelled' = cancelled \ {cur}
    /\ BackToLoop
    /\ UNCHANGED <<dataVars, removing, faults>>
    /\ WorkerUnchanged

-----------------------------------------------------------------------------
(* When _run or _switch raises.                                            *)

(* A storage call fails, a hash does not match, a file changed size or went *)
(* missing: any of it ends the run, as "cancelled" if a cancel was noted.   *)
CopyWrong == \/ at = "copying" /\ bytes[mv[cur].src] # listed
             \/ at = "verifying" /\ ~Matches
             \/ at = "switching" /\ mv[cur].dst = Local /\ staging[cur] = "none"

RunRaises ==
    /\ up /\ at \in BeforeLocation \union AfterLocation
    /\ \/ at \in {"copying", "verifying"} /\ CancelSeen /\ UNCHANGED faults
       \/ CopyWrong /\ UNCHANGED faults
       \/ Fault
    /\ at' = IF cur \in cancelled THEN "undoCancelled" ELSE "undoFailed"
    /\ UNCHANGED <<dataVars, mv, waitLeft, cur, listed, held, memVars>>
    /\ WorkerUnchanged

(* Broken variant of DeleteBucket: the manifest goes last. *)
DeleteBucketFilesFirst(p) ==
    \/ /\ bytes' = [bytes EXCEPT ![p] = "none"] /\ manifest' = manifest \ {p}
       /\ UNCHANGED faults
    \/ /\ bytes' = [bytes EXCEPT ![p] = IF @ = "none" THEN "none" ELSE "partial"]
       /\ UNCHANGED manifest /\ Fault

(* delete_repository: the manifest is among the first keys of the listing, so *)
(* a call that fails part-way has removed it.                                 *)
DeleteBucket(p) ==
    \/ /\ bytes' = [bytes EXCEPT ![p] = "none"] /\ manifest' = manifest \ {p}
       /\ UNCHANGED faults
    \/ /\ bytes' = [bytes EXCEPT ![p] = IF @ = "none" THEN "none" ELSE "partial"]
       /\ manifest' = manifest \ {p} /\ Fault
    \/ Fault /\ UNCHANGED <<bytes, manifest>>

(* _discard_copy; what it cannot remove it leaves. *)
DiscardCopy(m) ==
    /\ staging' = [staging EXCEPT ![m] = "none"]
    /\ IF mv[m].dst \in Remotes /\ row.place # mv[m].dst
         THEN DeleteBucket(mv[m].dst)
         ELSE UNCHANGED <<bytes, manifest, faults>>

UndoCopy ==
    /\ up /\ at \in {"undoFailed", "undoCancelled"}
    /\ DiscardCopy(cur)
    /\ at' = IF at = "undoFailed" THEN "undoneFailed" ELSE "undoneCancelled"
    /\ UNCHANGED <<row, mv, waitLeft, cur, listed, held, memVars>>
    /\ WorkerUnchanged

EndRun ==
    /\ up /\ at \in {"undoneFailed", "undoneCancelled"}
    /\ SetStatus(cur, IF at = "undoneFailed" THEN "failed" ELSE "cancelled")
    /\ cancelled' = cancelled \ {cur}
    /\ BackToLoop
    /\ UNCHANGED <<dataVars, waitLeft, removing, oldReads, faults>>
    /\ WorkerUnchanged

-----------------------------------------------------------------------------
(* _finish: remove the old copy once nothing can be reading it.            *)

(* A keep_local move leaves the local folder as the cache. *)
RemovesFiles(m) == mv[m].src \in Remotes \/ ~mv[m].keep

(* Broken variant: a link is taken to live one tick less than it does. *)
LinksOutstandingEarly(m) == mv[m].src \in Direct /\ mv[m].switchedAt /\ waitLeft[m] > 1

(* _links_outstanding: links signed before the recorded switch may be in use. *)
LinksOutstanding(m) == mv[m].src \in Direct /\ mv[m].switchedAt /\ waitLeft[m] > 0

(* Broken variants of Counted: reads from before the switch only, whatever   *)
(* the source; every read, whatever the source; leases that never age.      *)
CountedBeforeSwitch(m) == oldReads[m] \ stale
CountedAll(m) == Leased \ stale
CountedForever(m) == IF mv[m].src \in Remotes THEN oldReads[m] ELSE Leased

(* ReadTracker._count: of a bucket, only leases from before the switch; of *)
(* the local folder, every lease, since it is read until it is gone.       *)
Counted(m) == (IF mv[m].src \in Remotes THEN oldReads[m] ELSE Leased) \ stale

MayRemove(m) ==
    /\ ~LinksOutstanding(m)
    /\ RemovesFiles(m) => ~removing /\ Counted(m) = {}

(* try_begin_removal and "cleaning": new reads wait from here on. *)
BeginRemoval(m) ==
    /\ up /\ at = "loop"
    /\ mv[m].status \in PostSwitch
    /\ MayRemove(m)
    /\ removing' = (removing \/ RemovesFiles(m))
    /\ SetStatus(m, "cleaning")
    /\ held' = resolves
    /\ at' = "cleaning" /\ cur' = m
    /\ UNCHANGED <<dataVars, waitLeft, listed, cancelled, oldReads, faults>>
    /\ WorkerUnchanged

(* A move left in "cleaning" by a restart that has to wait again. *)
WaitAgain(m) ==
    /\ up /\ at = "loop"
    /\ mv[m].status = "cleaning"
    /\ ~MayRemove(m)
    /\ SetStatus(m, "draining")
    /\ UNCHANGED <<dataVars, waitLeft, workVars, memVars, faults>>
    /\ WorkerUnchanged

(* Broken variant of RemoveFromBucket: what cannot be removed is left, as     *)
(* rmtree(ignore_errors=True) does.                                         *)
RemoveFromBucketIgnoringErrors ==
    /\ up /\ at = "cleaning" /\ mv[cur].src \in Remotes
    /\ DeleteBucket(mv[cur].src)
    /\ at' = "removed"
    /\ UNCHANGED <<row, staging, mv, waitLeft, cur, listed, held, memVars>>
    /\ WorkerUnchanged

(* The old copy in a bucket. *)
RemoveFromBucket ==
    /\ up /\ at = "cleaning" /\ mv[cur].src \in Remotes
    /\ DeleteBucket(mv[cur].src)
    /\ IF faults' = faults
         THEN at' = "removed" /\ UNCHANGED mv
         ELSE at' = "releasing" /\ SetStatus(cur, "failed")
    /\ UNCHANGED <<row, staging, waitLeft, cur, listed, held, memVars>>
    /\ WorkerUnchanged

(* The old copy on local disk: rmtree, which may stop half-way. *)
RemoveLocal ==
    /\ up /\ at = "cleaning" /\ mv[cur].src = Local /\ ~mv[cur].keep
    /\ bytes[Local] # "none"
    /\ \/ /\ bytes' = [bytes EXCEPT ![Local] = "none"]
          /\ at' = "uncache"
          /\ UNCHANGED <<mv, faults>>
       \/ /\ bytes' = [bytes EXCEPT ![Local] = "partial"]
          /\ at' = "releasing" /\ SetStatus(cur, "failed") /\ Fault
    /\ resolves' = (resolves /\ ~row.cached)
    /\ UNCHANGED <<row, manifest, staging, waitLeft, cur, listed, held, memVars,
                   reqVars, up, readVars>>

(* ... after which the row says there is no cache. *)
Uncache ==
    /\ up /\ at = "uncache"
    /\ row' = [place |-> mv[cur].dst, cached |-> FALSE]
    /\ at' = "removed"
    /\ UNCHANGED <<bytes, manifest, staging, mv, waitLeft, cur, listed, held, memVars, faults>>
    /\ WorkerUnchanged

(* Nothing to remove: the local folder is kept, or already gone. *)
NothingToRemove ==
    /\ up /\ at = "cleaning" /\ mv[cur].src = Local
    /\ mv[cur].keep \/ bytes[Local] = "none"
    /\ at' = "removed"
    /\ UNCHANGED <<dataVars, mv, waitLeft, cur, listed, held, memVars, faults>>
    /\ WorkerUnchanged

(* The second _relabel, and end_removal on the way out. *)
RelabelRemoved ==
    /\ up /\ at = "removed"
    /\ Relabel
    /\ staging' = [staging EXCEPT ![cur] = "none"]
    /\ removing' = (removing /\ ~RemovesFiles(cur))
    /\ at' = "released"
    /\ UNCHANGED <<row, bytes, manifest, mv, waitLeft, cur, listed, held, cancelled,
                   oldReads, reqVars, up, readVars>>

RelabelRaises ==
    /\ up /\ at = "removed" /\ Fault
    /\ SetStatus(cur, "failed")
    /\ at' = "releasing"
    /\ UNCHANGED <<dataVars, waitLeft, cur, listed, held, memVars>>
    /\ WorkerUnchanged

(* "Moved". *)
EndMove ==
    /\ up /\ at = "released"
    /\ SetStatus(cur, "done")
    /\ BackToLoop
    /\ UNCHANGED <<dataVars, waitLeft, memVars, faults>>
    /\ WorkerUnchanged

(* "Moved, but the old copy was not removed": reads go on. *)
ReleaseAfterFailure ==
    /\ up /\ at = "releasing"
    /\ removing' = (removing /\ ~RemovesFiles(cur))
    /\ BackToLoop
    /\ UNCHANGED <<dataVars, mv, waitLeft, cancelled, oldReads, faults>>
    /\ WorkerUnchanged

-----------------------------------------------------------------------------
(* Stopping and starting.                                                  *)

(* A place whose files the worker is deleting. *)
Emptying(p) ==
    \/ at = "cleaning" /\ RemovesFiles(cur) /\ p = mv[cur].src
    \/ /\ at \in {"undoFailed", "undoCancelled"}
       /\ p = mv[cur].dst /\ p \in Remotes /\ p # row.place

(* Everything in memory goes: the thread, the leases, the requests; and a    *)
(* deletion under way stops where it is.                                     *)
Crash ==
    /\ Fault
    /\ \/ UNCHANGED <<bytes, manifest>>
       \/ \E p \in Places :
             /\ Emptying(p) /\ bytes[p] # "none"
             /\ bytes' = [bytes EXCEPT ![p] = "partial"]
             /\ manifest' = manifest \ {p}
    /\ BackToLoop
    /\ cancelled' = {} /\ removing' = FALSE
    /\ oldReads' = [m \in Moves |-> {}]
    /\ starting' = [q \in Requests |-> NoRequest]
    /\ cancelling' = [q \in Requests |-> NoRequest]
    /\ rd' = [r \in Readers |-> Idle] /\ stale' = {}
    /\ up' = FALSE
    /\ UNCHANGED <<row, staging, mv, waitLeft, linkLeft, resolves, overlap>>

Interrupted(m) == mv[m].status \in {"copying", "verifying", "switching"}

(* recover: a move whose row already points at its destination goes on ...  *)
RecoverSwitched(m) ==
    /\ ~up /\ mv[m].status = "switching" /\ row.place = mv[m].dst
    /\ SetStatus(m, "draining")
    /\ UNCHANGED <<dataVars, workVars, memVars, reqVars, up, readVars, waitLeft,
                   resolves, faults>>

(* ... any other is undone. *)
RecoverUndone(m) ==
    /\ ~up /\ Interrupted(m)
    /\ ~(mv[m].status = "switching" /\ row.place = mv[m].dst)
    /\ DiscardCopy(m)
    /\ SetStatus(m, "failed")
    /\ UNCHANGED <<row, workVars, memVars, reqVars, up, readVars, waitLeft, resolves>>

(* lifespan has run recover; requests are answered and the worker runs. *)
Serve ==
    /\ ~up /\ \A m \in Moves : ~Interrupted(m)
    /\ up' = TRUE
    /\ UNCHANGED <<dataVars, mv, workVars, memVars, reqVars, readVars, waitLeft,
                   resolves, faults>>

-----------------------------------------------------------------------------
(* Reads.                                                                  *)

ReadUnchanged == UNCHANGED <<dataVars, mv, waitLeft, workVars, cancelled, removing,
                             reqVars, up, resolves, faults>>

SetReader(r, pc, place, cached) ==
    rd' = [rd EXCEPT ![r] = [pc |-> pc, place |-> place, cached |-> cached, aside |-> FALSE]]

(* A preview's handler has the row before it reads (LocalCatalog.read_bytes). *)
PreviewLookup(r) ==
    /\ up /\ r \in Previews /\ rd[r].pc = "idle"
    /\ SetReader(r, "known", row.place, row.cached)
    /\ UNCHANGED <<stale, linkLeft, oldReads>>
    /\ ReadUnchanged

(* reads.acquire: waits while the old copy is being removed. *)
Acquire(r) ==
    /\ up /\ ~removing
    /\ rd[r].pc = IF r \in Pulls THEN "idle" ELSE "known"
    /\ rd' = [rd EXCEPT ![r].pc = "leased"]
    /\ UNCHANGED <<stale, linkLeft, oldReads>>
    /\ ReadUnchanged

(* Finding the files: a pull reads the row now, a preview has it. *)
Find(r) ==
    /\ up /\ rd[r].pc = "leased"
    /\ IF r \in Pulls
         THEN SetReader(r, "found", Served(row.place, row.cached), row.cached)
         ELSE SetReader(r, "found", Served(rd[r].place, rd[r].cached), rd[r].cached)
    /\ UNCHANGED <<stale, linkLeft, oldReads>>
    /\ ReadUnchanged

EndLease(r) ==
    /\ stale' = stale \ {r}
    /\ oldReads' = [m \in Moves |-> oldReads[m] \ {r}]

(* A pull from a bucket that hands out links gets one and is done here. *)
SendLink(r) ==
    /\ up /\ r \in Pulls /\ rd[r].pc = "found" /\ rd[r].place \in Direct
    /\ linkLeft' = [linkLeft EXCEPT ![rd[r].place] = TTL]
    /\ rd' = [rd EXCEPT ![r] = Idle]
    /\ EndLease(r)
    /\ ReadUnchanged

(* Any other opens the files, which must still be where it found them. *)
Open(r) ==
    /\ up /\ rd[r].pc = "found"
    /\ r \in Pulls => rd[r].place \notin Direct
    /\ IF rd[r].place = Local /\ bytes[Local] = "none"
         THEN rd' = [rd EXCEPT ![r] = [Idle EXCEPT !.pc = "broken"]] /\ EndLease(r)
         ELSE rd' = [rd EXCEPT ![r].pc = "reading"] /\ UNCHANGED <<stale, oldReads>>
    /\ UNCHANGED linkLeft
    /\ ReadUnchanged

(* LeasedResponse ends the lease however the sending ends. *)
Release(r) ==
    /\ up /\ rd[r].pc \in {"reading", "broken"}
    /\ rd' = [rd EXCEPT ![r] = Idle]
    /\ EndLease(r)
    /\ UNCHANGED linkLeft
    /\ ReadUnchanged

(* A lease nobody gave back for 24 hours no longer counts. *)
GoStale(r) ==
    /\ up /\ rd[r].pc = "reading"
    /\ stale' = stale \union {r}
    /\ UNCHANGED <<rd, linkLeft, oldReads>>
    /\ ReadUnchanged

(* Seconds left of a lifetime, never negative.  (Broken variant: no max.) *)
DecreaseUnclamped(n) == n - 1
Decrease(n) == IF n > 0 THEN n - 1 ELSE 0

(* Time passes; a request finds and signs a link within one tick. *)
Tick ==
    /\ \/ \E m \in Moves : waitLeft[m] > 0
       \/ \E p \in Remotes : linkLeft[p] > 0
    /\ \A r \in Readers : rd[r].pc # "found"
    /\ waitLeft' = [m \in Moves |-> Decrease(waitLeft[m])]
    /\ linkLeft' = [p \in Remotes |-> Decrease(linkLeft[p])]
    /\ UNCHANGED <<dataVars, mv, workVars, memVars, reqVars, up, rd, stale,
                   resolves, faults>>

-----------------------------------------------------------------------------
Request ==
    \E q \in Requests :
        \/ \E dst \in Places, keep \in BOOLEAN : StartCheck(q, dst, keep)
        \/ \E m \in Moves : StartCreate(q, m) \/ CancelRead(q, m)
        \/ CancelApply(q)

Run ==
    \/ BeginCopy \/ CopyFiles \/ BeginVerify \/ VerifyCopy \/ BeginSwitch
    \/ Publish \/ SwapAside \/ SwapIn \/ SetLocation
    \/ DeleteSourceManifest \/ RelabelSwitched \/ BeginDrain
    \/ RunRaises \/ UndoCopy \/ EndRun

Finish ==
    \/ RemoveFromBucket \/ RemoveLocal \/ Uncache \/ NothingToRemove
    \/ RelabelRemoved \/ RelabelRaises \/ EndMove \/ ReleaseAfterFailure

Loop == \E m \in Moves : Pick(m) \/ BeginRemoval(m) \/ WaitAgain(m)

Worker == Loop \/ Run \/ Finish

Recovery == (\E m \in Moves : RecoverSwitched(m) \/ RecoverUndone(m)) \/ Serve

Read ==
    \E r \in Readers :
        \/ PreviewLookup(r) \/ Acquire(r) \/ Find(r) \/ SendLink(r)
        \/ Open(r) \/ Release(r) \/ GoStale(r)

Next == Request \/ Worker \/ Crash \/ Recovery \/ Read \/ Tick

Spec == Init /\ [][Next]_vars

(* The thread runs, time passes, and a handler that holds a lease goes on; *)
(* a client may stay on the line for ever, until its lease is stale.       *)
Fairness ==
    /\ WF_vars(Worker) /\ WF_vars(Recovery) /\ SF_vars(Tick)
    /\ \A r \in Readers : WF_vars(Find(r)) /\ WF_vars(SendLink(r) \/ Open(r))
                          /\ WF_vars(GoStale(r))

FairSpec == Spec /\ Fairness

-----------------------------------------------------------------------------
(* Properties.  "Orderly" excludes one thing only: that a move is created  *)
(* while another of the model is being worked on, or from stale checks.    *)
Orderly == ~overlap

(* The location the row names holds every file, whole: after any copy, any  *)
(* failure and any restart (moves.py: "switches the model over" only after  *)
(* the hashes match, and undoes whatever did not switch).                   *)
Available == Orderly => bytes[row.place] = "full"

(* A bucket's manifest stands only over a complete copy, so a scan never    *)
(* picks up half of a model (storage.py: "publishes the manifest last, so a *)
(* half-copied repository is never discovered").                            *)
Discoverable == Orderly => \A p \in manifest : bytes[p] = "full"

(* A pull that found its files keeps them until it ends: the old copy in a  *)
(* bucket is not removed under it, nor the local folder emptied.  A lease   *)
(* older than 24 hours counts as gone.                                      *)
PullsKeepTheirCopy ==
    Orderly =>
        \A r \in Pulls \ stale :
            /\ rd[r].pc \in {"found", "reading"} /\ rd[r].place \in Remotes
               => bytes[rd[r].place] = "full"
            /\ rd[r].pc = "reading" /\ rd[r].place = Local /\ ~rd[r].aside
               => bytes[Local] # "none"

(* A switch the row has no switched_at for: the server stopped, or a call   *)
(* failed, between set_local_model_location and "draining".                 *)
SwitchUnrecorded(m) == mv[m].status \in PostSwitch \union Ended /\ ~mv[m].switchedAt

(* A signed link works until it expires: the copy it names is still there   *)
(* (_links_outstanding), unless the switch away from it was never recorded. *)
LinksHonoured ==
    Orderly => \A p \in Direct : linkLeft[p] > 0 =>
                  \/ bytes[p] = "full"
                  \/ \E m \in Moves : mv[m].src = p /\ SwitchUnrecorded(m)

(* Without faults, the revision a client pinned before a move names the     *)
(* same files whenever no move is between its steps (_relabel).             *)
PinKept == Orderly /\ faults = 0 /\ at = "loop" => resolves

(* As the guide has it: "Pulls keep working throughout", so once no move is *)
(* under way a pull finds the whole model, whatever requests came in while  *)
(* moves were started or cancelled (GUIDE.md).                              *)
WholeAfterMoves ==
    at = "loop" /\ ~moving => bytes[Served(row.place, row.cached)] = "full"

(* As the guide has it: a client that fixed the revision before the switch  *)
(* "keeps getting the same files" of a model that has been moved, with or   *)
(* without a restart on the way (GUIDE.md, moves.py).                       *)
DoneKeepsPin == at = "loop" /\ (\E m \in Moves : mv[m].status = "done") => resolves

(* As _finish has it: "The switch time is in the database, so a restart     *)
(* keeps waiting for the rest of it": no link dies with the copy it names.  *)
LinksAlwaysHonoured == \A p \in Direct : linkLeft[p] > 0 => bytes[p] = "full"

(* Placement: moves created in order implement ModelPlacement.  The row is   *)
(* the place; the switch is the one step that changes it, to a whole copy.  *)
Placement ==
    INSTANCE ModelPlacement
        WITH place <- row.place,
             whole <- {p \in Places : bytes[p] = "full"}

OrderlySpec == Init /\ [][Next /\ ~overlap']_vars

Switches == Placement!Spec

(* A move is "done" only when the old copy is gone, or was to be kept.      *)
DoneRemovesOldCopy ==
    [][\A m \in Moves :
          mv[m].status # "done" /\ mv'[m].status = "done"
          => mv[m].keep \/ bytes'[mv[m].src] = "none"]_vars

(* Every move out of a bucket ends, however long clients stay on the line   *)
(* and however many new pulls arrive: only reads from before it count.      *)
SettlesFromBucket ==
    \A m \in Moves : <>[](mv[m].src \in Remotes => mv[m].status \in Ended)

(* A move off local disk waits for every read; it ends once reads pause.    *)
SettlesWhenQuiet ==
    <>[](Leased \subseteq stale)
        => <>[](\A m \in Moves : mv[m].status \in Ended \union {"absent"})
=============================================================================
