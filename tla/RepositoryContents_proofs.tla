--------------------- MODULE RepositoryContents_proofs ---------------------
(***************************************************************************)
(* Theorems on what a repository holds, for all files, sessions, requests  *)
(* and downloads: an unfinished upload stays hidden, a file recorded as    *)
(* complete is there, a deletion leaves nothing, and a download that       *)
(* completes is whole.                                                     *)
(***************************************************************************)
EXTENDS RepositoryLife_proofs

----------------------------------------------------------------------------
(* What a step of a request does to the requests: this one goes on, with     *)
(* what it carries, or begins or ends, and the others stay as they are.      *)
Kept(h) == \A k \in Handlers \ {h} : req'[k] = req[k]
Carries(h) ==
    /\ req'[h].who = req[h].who /\ req'[h].file = req[h].file /\ req'[h].files = req[h].files
    /\ req'[h].gone = req[h].gone /\ req'[h].backup = req[h].backup /\ req'[h].saw = req[h].saw
    /\ req'[h].kind = req[h].kind /\ req'[h].local = req[h].local /\ req'[h].at = req[h].at
    /\ req'[h].moved = req[h].moved /\ req'[h].stale = req[h].stale
Moves(h, step) == Kept(h) /\ Carries(h) /\ req'[h].pc = step
Starts(h, step) ==
    /\ Kept(h) /\ req[h].pc = "idle" /\ req'[h].pc = step
    /\ req'[h].kind = "none" /\ req'[h].at = "none"
Rests(h) == Kept(h) /\ req'[h] = Idle /\ req'[h].pc = "idle" /\ req'[h].at = "none" /\ req'[h].kind = "none"

LEMMA GoesOn ==
    ASSUME req \in [Handlers -> Request], NEW h \in Handlers, NEW step, GoesTo(h, step)
    PROVE  Moves(h, step)
BY DEF GoesTo, Moves, Kept, Carries, Request

LEMMA TurnsTo ==
    ASSUME req \in [Handlers -> Request], NEW h \in Handlers, NEW r, Begins(h, r) \/ Continues(h, r)
    PROVE  Kept(h) /\ req'[h] = r
BY DEF Begins, Continues, Kept

LEMMA TurnsIdle ==
    ASSUME req \in [Handlers -> Request], NEW h \in Handlers, Ends(h) \/ Answers(h)
    PROVE  Rests(h)
<1>1. Kept(h) /\ req'[h] = Idle
  BY TurnsTo DEF Ends, Answers
<1> QED BY <1>1 DEF Idle, Rests

LEMMA CacheTurns ==
    ASSUME req \in [Handlers -> Request], NEW h \in Handlers, NEW downloading, NEW fetching
    PROVE  /\ Scan(h) => Starts(h, "scan")
           /\ ScanFolder(h, fetching) => Moves(h, IF place = "disk" THEN "scan_local" ELSE "scan_list")
           /\ ScanList(h) => \/ Moves(h, "scan_local")
                             \/ /\ Kept(h) /\ req'[h].pc = "scan_index" /\ req'[h].at = req[h].at
                                /\ req'[h].kind = (IF model.target = "local" THEN "none" ELSE manifest)
                                /\ req'[h].saw = bucket /\ req'[h].local = (label \in Complete)
           /\ ScanIndex(h) => Moves(h, IF req[h].kind # "none" /\ Registered(req[h].kind) THEN "scan_commit" ELSE "scan_local")
           /\ ScanCommit(h) \/ ScanLocal(h) => Moves(h, "sweep")
           /\ Restore(h, downloading) => Starts(h, "restore") /\ req'[h].files = DOMAIN bucket
           /\ RestoreFiles(h) => Moves(h, "restore_index") \/ Rests(h)
           /\ RestoreIndex(h) \/ EvictIndex(h) => Rests(h)
           /\ Evict(h, downloading) => Starts(h, "evict")
           /\ EvictFolder(h, fetching) => IF manifest # "none" THEN Moves(h, "evict_index") ELSE Rests(h)
<1>1. ASSUME Scan(h) PROVE Starts(h, "scan")
  <2>1. Kept(h) /\ req'[h] = [Idle EXCEPT !.pc = "scan"] /\ req[h].pc = "idle"
    BY <1>1, TurnsTo DEF Scan, Free
  <2> QED BY <2>1 DEF Starts, Idle
<1>2. ASSUME ScanList(h), ~Moves(h, "scan_local")
      PROVE  /\ Kept(h) /\ req'[h].pc = "scan_index" /\ req'[h].at = req[h].at
             /\ req'[h].kind = (IF model.target = "local" THEN "none" ELSE manifest)
             /\ req'[h].saw = bucket /\ req'[h].local = (label \in Complete)
  <2> DEFINE kind == IF model.target = "local" THEN "none" ELSE manifest
             local == label \in Complete
  <2>1. Kept(h) /\ req'[h] = [req[h] EXCEPT !.pc = "scan_index", !.saw = bucket, !.kind = kind, !.local = local]
    BY <1>2, TurnsTo, GoesOn DEF ScanList
  <2>2. req[h] \in Request
    OBVIOUS
  <2> HIDE DEF kind, local
  <2>3. req'[h].pc = "scan_index" /\ req'[h].at = req[h].at /\ req'[h].kind = kind /\ req'[h].saw = bucket /\ req'[h].local = local
    BY <2>1, <2>2 DEF Request
  <2> QED BY <2>1, <2>3 DEF kind, local
<1>3. ASSUME Restore(h, downloading) PROVE Starts(h, "restore") /\ req'[h].files = DOMAIN bucket
  <2>1. Kept(h) /\ req'[h] = [Idle EXCEPT !.pc = "restore", !.files = DOMAIN bucket] /\ req[h].pc = "idle"
    BY <1>3, TurnsTo DEF Restore, Free
  <2> QED BY <2>1 DEF Starts, Idle
<1>4. ASSUME Evict(h, downloading) PROVE Starts(h, "evict")
  <2>1. Kept(h) /\ req'[h] = [Idle EXCEPT !.pc = "evict"] /\ req[h].pc = "idle"
    BY <1>4, TurnsTo DEF Evict, Free
  <2> QED BY <2>1 DEF Starts, Idle
<1>5. ScanFolder(h, fetching) => Moves(h, IF place = "disk" THEN "scan_local" ELSE "scan_list")
  BY GoesOn DEF ScanFolder
<1>6. ScanIndex(h) => Moves(h, IF req[h].kind # "none" /\ Registered(req[h].kind) THEN "scan_commit" ELSE "scan_local")
  BY GoesOn DEF ScanIndex
<1>7. /\ RestoreFiles(h) => Moves(h, "restore_index") \/ Rests(h)
      /\ EvictFolder(h, fetching) => IF manifest # "none" THEN Moves(h, "evict_index") ELSE Rests(h)
  BY GoesOn, TurnsIdle DEF RestoreFiles, EvictFolder
<1>8. RestoreIndex(h) \/ EvictIndex(h) => Rests(h)
  BY TurnsIdle DEF RestoreIndex, EvictIndex
<1>9. ScanCommit(h) \/ ScanLocal(h) => Moves(h, "sweep")
  BY GoesOn DEF ScanCommit, ScanLocal
<1> QED BY <1>1, <1>2, <1>3, <1>4, <1>5, <1>6, <1>7, <1>8, <1>9

LEMMA UploadingTurns ==
    ASSUME req \in [Handlers -> Request], NEW h \in Handlers, NEW downloading, NEW fetching
    PROVE  /\ CreateUpload(h) => Rests(h) /\ req[h].pc = "idle"
           /\ \A f \in Files : Chunk(h, f) => Starts(h, "chunk") /\ req'[h].file = f
           /\ ChunkWritten(h) \/ BeginRecord(h) \/ CompleteRecord(h) => Rests(h)
           /\ \A w, f : BeginFile(h, w, f) =>
                IF <<w, f>> \in DOMAIN records THEN Rests(h)
                ELSE Starts(h, "begin_record") /\ req'[h].who = w /\ req'[h].file = f
           /\ \A w, f : CompleteFile(h, w, f) => Starts(h, "complete_record") /\ req'[h].who = w /\ req'[h].file = f
           /\ SweepList(h) => \/ Rests(h)
                              \/ Kept(h) /\ req'[h].pc = "sweep_discard" /\ req'[h].at = req[h].at
           /\ SweepDiscard(h) => Rests(h)
           /\ Finalize(h) => Starts(h, IF target THEN "publish" ELSE "finalize")
           /\ FinalizeChecked(h) => IF parts = {} /\ folder # << >>
                                    THEN /\ Kept(h) /\ req'[h].pc = "finalize_sync" /\ req'[h].kind = label
                                         /\ req'[h].at = req[h].at
                                    ELSE Rests(h)
           /\ FinalizeSync(h) => Moves(h, "finalize_index") \/ Rests(h)
           /\ FinalizeIndex(h) => Moves(h, "finalize_ready")
           /\ FinalizeReady(h) \/ PublishReady(h) => Rests(h)
           /\ Publish(h) => Moves(h, "publish_index") \/ Rests(h)
           /\ PublishIndex(h) => Moves(h, "publish_ready")
           /\ AbortUpload(h) => Moves(h, "unpublish")
           /\ Unpublish(h) => Moves(h, "unpublish_rows") \/ Rests(h)
           /\ UnpublishRows(h) \/ Forget(h) => Rests(h)
           /\ Remove(h, fetching) => Moves(h, "remove") \/ Rests(h)
           /\ RemoveFolder(h, fetching) => Moves(h, "forget")
<1>1. /\ CreateUpload(h) => Rests(h) /\ req[h].pc = "idle"
      /\ ChunkWritten(h) \/ BeginRecord(h) \/ CompleteRecord(h) => Rests(h)
      /\ SweepDiscard(h) => Rests(h)
      /\ FinalizeReady(h) \/ PublishReady(h) => Rests(h)
      /\ UnpublishRows(h) \/ Forget(h) => Rests(h)
  BY TurnsIdle DEF CreateUpload, Free, ChunkWritten, BeginRecord, CompleteRecord, SweepDiscard, FinalizeReady, PublishReady,
                   UnpublishRows, Forget
<1>2. /\ FinalizeIndex(h) => Moves(h, "finalize_ready")
      /\ PublishIndex(h) => Moves(h, "publish_ready")
      /\ AbortUpload(h) => Moves(h, "unpublish")
      /\ RemoveFolder(h, fetching) => Moves(h, "forget")
  BY GoesOn DEF FinalizeIndex, PublishIndex, AbortUpload, RemoveFolder
<1>3. /\ FinalizeSync(h) => Moves(h, "finalize_index") \/ Rests(h)
      /\ Publish(h) => Moves(h, "publish_index") \/ Rests(h)
      /\ Unpublish(h) => Moves(h, "unpublish_rows") \/ Rests(h)
      /\ Remove(h, fetching) => Moves(h, "remove") \/ Rests(h)
  BY GoesOn, TurnsIdle DEF FinalizeSync, Publish, Unpublish, Remove
<1>4. ASSUME NEW f \in Files, Chunk(h, f) PROVE Starts(h, "chunk") /\ req'[h].file = f
  <2>1. Kept(h) /\ req'[h] = [Idle EXCEPT !.pc = "chunk", !.file = f] /\ req[h].pc = "idle"
    BY <1>4, TurnsTo DEF Chunk, Free
  <2> QED BY <2>1 DEF Starts, Idle
<1>5. ASSUME NEW w, NEW f, BeginFile(h, w, f)
      PROVE  IF <<w, f>> \in DOMAIN records THEN Rests(h)
             ELSE Starts(h, "begin_record") /\ req'[h].who = w /\ req'[h].file = f
  <2>1. CASE <<w, f>> \in DOMAIN records
    BY <1>5, <2>1, TurnsIdle DEF BeginFile
  <2>2. CASE <<w, f>> \notin DOMAIN records
    <3>1. Kept(h) /\ req'[h] = [Idle EXCEPT !.pc = "begin_record", !.who = w, !.file = f] /\ req[h].pc = "idle"
      BY <1>5, <2>2, TurnsTo DEF BeginFile, Free
    <3> QED BY <2>2, <3>1 DEF Starts, Idle
  <2> QED BY <2>1, <2>2
<1>6. ASSUME NEW w, NEW f, CompleteFile(h, w, f)
      PROVE  Starts(h, "complete_record") /\ req'[h].who = w /\ req'[h].file = f
  <2>1. Kept(h) /\ req'[h] = [Idle EXCEPT !.pc = "complete_record", !.who = w, !.file = f] /\ req[h].pc = "idle"
    BY <1>6, TurnsTo DEF CompleteFile, Free
  <2> QED BY <2>1 DEF Starts, Idle
<1>7. ASSUME SweepList(h), ~Rests(h)
      PROVE  Kept(h) /\ req'[h].pc = "sweep_discard" /\ req'[h].at = req[h].at
  <2> DEFINE stale == DirectSessions \ fresh
  <2>1. Kept(h) /\ req'[h] = [req[h] EXCEPT !.pc = "sweep_discard", !.stale = stale]
    BY <1>7, TurnsTo, TurnsIdle DEF SweepList
  <2> HIDE DEF stale
  <2> QED BY <2>1 DEF Request
<1>8. ASSUME Finalize(h) PROVE Starts(h, IF target THEN "publish" ELSE "finalize")
  <2> DEFINE step == IF target THEN "publish" ELSE "finalize"
  <2>1. Kept(h) /\ req'[h] = [Idle EXCEPT !.pc = step] /\ req[h].pc = "idle"
    BY <1>8, TurnsTo DEF Finalize, Free
  <2> HIDE DEF step
  <2>2. Starts(h, step)
    BY <2>1 DEF Starts, Idle
  <2> QED BY <2>2 DEF step
<1>9. ASSUME FinalizeChecked(h)
      PROVE  IF parts = {} /\ folder # << >>
             THEN /\ Kept(h) /\ req'[h].pc = "finalize_sync" /\ req'[h].kind = label
                  /\ req'[h].at = req[h].at
             ELSE Rests(h)
  <2>1. CASE parts = {} /\ folder # << >>
    <3>1. Kept(h) /\ req'[h] = [req[h] EXCEPT !.pc = "finalize_sync", !.kind = label]
      BY <1>9, <2>1, TurnsTo DEF FinalizeChecked
    <3> QED BY <2>1, <3>1 DEF Request
  <2>2. CASE ~(parts = {} /\ folder # << >>)
    BY <1>9, <2>2, TurnsIdle DEF FinalizeChecked
  <2> QED BY <2>1, <2>2
<1> QED BY <1>1, <1>2, <1>3, <1>4, <1>5, <1>6, <1>7, <1>8, <1>9

LEMMA DeleteTurns ==
    ASSUME req \in [Handlers -> Request], NEW h \in Handlers, NEW downloading, Delete(h, downloading)
    PROVE  /\ Kept(h) /\ req[h].pc = "idle"
           /\ IF row # "none"
              THEN /\ req'[h].kind = "owned" /\ req'[h].at = "none"
                   /\ req'[h].pc = IF target /\ row # "ready" THEN "delete_upload" ELSE "delete"
              ELSE req'[h].pc = "delete" /\ req'[h].kind = "open" /\ req'[h].at = model.target
<1> DEFINE where == model.target
<1>1. CASE row # "none"
  <2> DEFINE step == IF target /\ row # "ready" THEN "delete_upload" ELSE "delete"
  <2>1. Kept(h) /\ req'[h] = [Idle EXCEPT !.pc = step, !.kind = "owned"] /\ req[h].pc = "idle"
    BY <1>1, TurnsTo DEF Delete, Free
  <2> HIDE DEF step
  <2>2. req'[h].pc = step /\ req'[h].kind = "owned" /\ req'[h].at = "none"
    BY <2>1 DEF Idle
  <2> QED BY <1>1, <2>1, <2>2 DEF step
<1>2. CASE row = "none"
  <2>1. Kept(h) /\ req'[h] = [Idle EXCEPT !.pc = "delete", !.kind = "open", !.at = where] /\ req[h].pc = "idle"
    BY <1>2, TurnsTo DEF Delete, Free
  <2> HIDE DEF where
  <2>2. req'[h].pc = "delete" /\ req'[h].kind = "open" /\ req'[h].at = where
    BY <2>1 DEF Idle
  <2> QED BY <1>2, <2>1, <2>2 DEF where
<1> QED BY <1>1, <1>2

LEMMA ChangingTurns ==
    ASSUME req \in [Handlers -> Request], NEW h \in Handlers, NEW downloading
    PROVE  /\ \A s : StartChange(h, s) => Rests(h) /\ req[h].pc = "idle"
           /\ \A s, f : StageChunk(h, s, f) => Rests(h) /\ req[h].pc = "idle"
           /\ \A s : Commit(h, s, downloading) =>
                /\ Kept(h) /\ req[h].pc = "idle"
                /\ req'[h].pc = IF session[s] = "direct" THEN "commit_upload" ELSE "commit"
                /\ req'[h].who = s /\ req'[h].kind = "none" /\ req'[h].at = model.target
                /\ req'[h].local = (model.cached /\ FolderExists)
           /\ CommitLocks(h) => Moves(h, "apply")
           /\ \A f : Apply(h, f) => \/ Rests(h)
                                    \/ /\ Kept(h) /\ req'[h].pc = "apply" /\ req'[h].who = req[h].who
                                       /\ req'[h].local = req[h].local /\ req'[h].at = req[h].at
           /\ ApplyRemovals(h) => /\ Kept(h) /\ req'[h].pc = "store" /\ req'[h].who = req[h].who
                                  /\ req'[h].local = req[h].local /\ req'[h].at = req[h].at
           /\ Store(h) => Moves(h, "commit_index") \/ Rests(h)
           /\ CommitRemote(h) => Moves(h, IF Local(h) THEN "fetch" ELSE "commit_index") \/ Rests(h)
           /\ FetchCopy(h) => Moves(h, "commit_index") \/ Rests(h)
           /\ CommitIndex(h) => Moves(h, "history")
           /\ CommitRecorded(h) => Rests(h)
<1>1. /\ \A s : StartChange(h, s) => Rests(h) /\ req[h].pc = "idle"
      /\ \A s, f : StageChunk(h, s, f) => Rests(h) /\ req[h].pc = "idle"
      /\ CommitRecorded(h) => Rests(h)
  BY TurnsIdle DEF StartChange, StageChunk, Free, CommitRecorded
<1>2. /\ CommitLocks(h) => Moves(h, "apply")
      /\ CommitIndex(h) => Moves(h, "history")
  BY GoesOn DEF CommitLocks, CommitIndex
<1>3. /\ Store(h) => Moves(h, "commit_index") \/ Rests(h)
      /\ FetchCopy(h) => Moves(h, "commit_index") \/ Rests(h)
  BY GoesOn, TurnsIdle DEF Store, FetchCopy
<1>4. CommitRemote(h) => Moves(h, IF Local(h) THEN "fetch" ELSE "commit_index") \/ Rests(h)
  BY GoesOn, TurnsIdle DEF CommitRemote
<1>5. ASSUME NEW s, Commit(h, s, downloading)
      PROVE  /\ Kept(h) /\ req[h].pc = "idle"
             /\ req'[h].pc = IF session[s] = "direct" THEN "commit_upload" ELSE "commit"
             /\ req'[h].who = s /\ req'[h].kind = "none" /\ req'[h].at = model.target
             /\ req'[h].local = (model.cached /\ FolderExists)
  <2> DEFINE files == IF session[s] = "direct" THEN Of1(s) ELSE Whole(s)
             gone == Deletes[s] \ files
             local == model.cached /\ FolderExists
             at == model.target
             step == IF session[s] = "direct" THEN "commit_upload" ELSE "commit"
  <2>1. Begins(h, [Idle EXCEPT !.pc = step, !.who = s, !.files = files, !.gone = gone, !.local = local, !.at = at])
    BY <1>5 DEF Commit
  <2> HIDE DEF files, gone, local, at, step
  <2>2. Kept(h) /\ req'[h] = [Idle EXCEPT !.pc = step, !.who = s, !.files = files, !.gone = gone, !.local = local, !.at = at]
    BY <2>1, TurnsTo
  <2>3. req'[h].pc = step /\ req'[h].who = s /\ req'[h].kind = "none" /\ req'[h].at = at /\ req'[h].local = local
    BY <2>2 DEF Idle
  <2> QED BY <1>5, <2>2, <2>3 DEF step, at, local, Commit, Free
<1>6. ASSUME NEW f, Apply(h, f), ~Rests(h)
      PROVE  /\ Kept(h) /\ req'[h].pc = "apply" /\ req'[h].who = req[h].who
             /\ req'[h].local = req[h].local /\ req'[h].at = req[h].at
  <2> DEFINE kept == Keeps(h, {f})
  <2>1. Kept(h) /\ req'[h] = [req[h] EXCEPT !.backup = kept, !.moved = @ \union {f}] /\ req[h].pc = "apply"
    BY <1>6, TurnsTo, TurnsIdle DEF Apply, At
  <2> HIDE DEF kept
  <2> QED BY <2>1 DEF Request
<1>7. ASSUME ApplyRemovals(h)
      PROVE  /\ Kept(h) /\ req'[h].pc = "store" /\ req'[h].who = req[h].who
             /\ req'[h].local = req[h].local /\ req'[h].at = req[h].at
  <2> DEFINE kept == Keeps(h, req[h].gone)
  <2>1. Kept(h) /\ req'[h] = [req[h] EXCEPT !.pc = "store", !.backup = kept]
    BY <1>7, TurnsTo DEF ApplyRemovals
  <2> HIDE DEF kept
  <2> QED BY <2>1 DEF Request
<1> QED BY <1>1, <1>2, <1>3, <1>4, <1>5, <1>6, <1>7

LEMMA AbortTurns ==
    ASSUME req \in [Handlers -> Request], NEW h, NEW s, AbortChange(h, s)
    PROVE  \A k \in Handlers : /\ req'[k].pc = req[k].pc /\ req'[k].who = req[k].who /\ req'[k].file = req[k].file
                               /\ req'[k].local = req[k].local /\ req'[k].at = req[k].at
                               /\ req[k].pc \notin {"apply", "store"} => req'[k] = req[k]
BY DEF AbortChange, Request

LEMMA FromTheHubTurns ==
    ASSUME req \in [Handlers -> Request], NEW h \in Handlers
    PROVE  /\ StartDownload(h) => Starts(h, "enqueue")
           /\ Enqueue(h) \/ CancelRow(h) => Rests(h)
           /\ \A d : Cancel(h, d) => Starts(h, "cancel")
           /\ CancelFolder(h) => Moves(h, "cancel_row")
<1>1. ASSUME StartDownload(h) PROVE Starts(h, "enqueue")
  <2>1. Kept(h) /\ req'[h] = [Idle EXCEPT !.pc = "enqueue"] /\ req[h].pc = "idle"
    BY <1>1, TurnsTo DEF StartDownload, Free
  <2> QED BY <2>1 DEF Starts, Idle
<1>2. ASSUME NEW d, Cancel(h, d) PROVE Starts(h, "cancel")
  <2>1. Kept(h) /\ req'[h] = [Idle EXCEPT !.pc = "cancel", !.job = d] /\ req[h].pc = "idle"
    BY <1>2, TurnsTo DEF Cancel, Free
  <2> QED BY <2>1 DEF Starts, Idle
<1>3. Enqueue(h) \/ CancelRow(h) => Rests(h)
  BY TurnsIdle DEF Enqueue, CancelRow
<1>4. CancelFolder(h) => Moves(h, "cancel_row")
  BY GoesOn DEF CancelFolder
<1> QED BY <1>1, <1>2, <1>3, <1>4

----------------------------------------------------------------------------
(* Where the repository is kept decides what can be there at all: no upload  *)
(* and no change goes straight to the bucket but where it may, and on the    *)
(* disk there is nothing in a bucket.                                        *)
RequestPlaced(h) ==
    /\ req[h].pc \in {"apply", "store"} => req[h].local
    /\ req[h].pc \in {"commit", "apply", "store"} => req[h].at # "none"
    /\ req[h].pc \in {"delete_upload", "unpublish", "unpublish_rows"} => place = "direct"
    /\ place = "disk" => /\ req[h].pc \notin {"scan_list", "scan_index", "scan_commit", "publish_index", "publish_ready",
                                           "fetch"}
                         /\ req[h].at # "bucket"
                         /\ At(h, "commit_index") => req[h].local
StatePlaced ==
    /\ model.target = "none" => model = NoModel
    /\ place # "direct" => ~target /\ DirectSessions = {}
    /\ place = "disk" => bucket = << >> /\ manifest = "none" /\ area = {} /\ model.target # "bucket"
PlaceInv == StatePlaced /\ \A h \in Handlers : RequestPlaced(h)

LEMMA PlacedStep ==
    ASSUME PlaceInv, UNCHANGED place, NEW h \in Handlers, Kept(h), RequestPlaced(h)', StatePlaced'
    PROVE  PlaceInv'
BY DEF PlaceInv, Kept, RequestPlaced, At

LEMMA FolderModelPlaced == FolderModel.target # "none" /\ (place = "disk" => FolderModel.target # "bucket")
BY DEF FolderModel, Target

LEMMA CachePlaced ==
    ASSUME LibraryTypeOK, PlaceInv, UNCHANGED <<place, uploadVars, sessionVars>>, NEW h \in Handlers,
           NEW downloading, NEW fetching, Cache(h, downloading, fetching)
    PROVE  PlaceInv'
<1>1. /\ req \in [Handlers -> Request] /\ model \in Model
      /\ StatePlaced /\ RequestPlaced(h)
  BY DEF LibraryTypeOK, PlaceInv
<1>2. UNCHANGED <<target, DirectSessions, area>>
  BY DEF uploadVars, sessionVars, DirectSessions
<1> SUFFICES Kept(h) /\ RequestPlaced(h)' /\ StatePlaced'
  BY PlacedStep
<1>3. CASE Scan(h) \/ Restore(h, downloading) \/ Evict(h, downloading)
  BY <1>1, <1>2, <1>3, CacheTurns DEF Scan, Restore, Evict, RequestPlaced, StatePlaced, Starts, At, bucketVars
<1>4. CASE ScanFolder(h, fetching)
  <2>1. model' \in {model, FolderModel, NoModel}
    BY <1>4 DEF ScanFolder, IndexPath
  <2>2. Moves(h, IF place = "disk" THEN "scan_local" ELSE "scan_list")
    BY <1>1, <1>4, CacheTurns
  <2> QED BY <1>1, <1>2, <1>4, <2>1, <2>2, FolderModelPlaced
          DEF ScanFolder, RequestPlaced, StatePlaced, Moves, Carries, At, bucketVars, NoModel
<1>5. CASE ScanList(h)
  BY <1>1, <1>2, <1>5, CacheTurns DEF ScanList, RequestPlaced, StatePlaced, Moves, Carries, At, bucketVars
<1>6. CASE ScanIndex(h)
  <2>1. model' \in {model, NoModel, [target |-> "bucket", cached |-> req[h].local]} /\ place # "disk"
    BY <1>1, <1>6 DEF ScanIndex, IndexRemote, RequestPlaced, At
  <2>2. Moves(h, "scan_local") \/ Moves(h, "scan_commit")
    BY <1>1, <1>6, CacheTurns
  <2> QED BY <1>1, <1>2, <1>6, <2>1, <2>2
          DEF ScanIndex, RequestPlaced, StatePlaced, Moves, Carries, At, bucketVars, NoModel
<1>7. CASE ScanCommit(h) \/ ScanLocal(h)
  BY <1>1, <1>2, <1>7, CacheTurns DEF ScanCommit, ScanLocal, RequestPlaced, StatePlaced, Moves, Carries, At, bucketVars
<1>8. CASE RestoreFiles(h) \/ EvictFolder(h, fetching)
  <2>1. Moves(h, "restore_index") \/ Moves(h, "evict_index") \/ Rests(h)
    BY <1>1, <1>8, CacheTurns
  <2> QED BY <1>1, <1>2, <1>8, <2>1
          DEF RestoreFiles, EvictFolder, RequestPlaced, StatePlaced, Moves, Rests, Carries, At, bucketVars
<1>9. CASE RestoreIndex(h)
  <2>1. model' \in {model, FolderModel}
    BY <1>9 DEF RestoreIndex, IndexPath
  <2> QED BY <1>1, <1>2, <1>9, <2>1, CacheTurns, FolderModelPlaced
          DEF RestoreIndex, RequestPlaced, StatePlaced, Rests, At, bucketVars
<1>10. CASE EvictIndex(h)
  <2>1. model' = [model EXCEPT !.cached = FALSE]
    BY <1>10 DEF EvictIndex
  <2>2. model'.target = model.target
    BY <1>1, <2>1 DEF Model
  <2>3. ASSUME model = NoModel PROVE model' = NoModel
    <3>1. model' = [NoModel EXCEPT !.cached = FALSE]
      BY <2>1, <2>3
    <3> QED BY <3>1 DEF NoModel
  <2> QED BY <1>1, <1>2, <1>10, <2>2, <2>3, CacheTurns DEF EvictIndex, RequestPlaced, StatePlaced, Rests, At, bucketVars
<1> QED BY <1>3, <1>4, <1>5, <1>6, <1>7, <1>8, <1>9, <1>10 DEF Cache

LEMMA DiscardPlaced ==
    ASSUME UploadsTypeOK, NEW gone, Discard(gone)
    PROVE  DirectSessions' \subseteq DirectSessions /\ area' \subseteq area
BY DEF Discard, DirectSessions

LEMMA UploadingPlaced ==
    ASSUME LibraryTypeOK, UploadsTypeOK, PlaceInv, UNCHANGED place, NEW h \in Handlers,
           NEW downloading, NEW fetching, Uploading(h, downloading, fetching)
    PROVE  PlaceInv'
<1>1. /\ req \in [Handlers -> Request] /\ model \in Model /\ target \in BOOLEAN
      /\ StatePlaced /\ RequestPlaced(h)
  BY DEF LibraryTypeOK, UploadsTypeOK, PlaceInv
<1>2. session' = session => DirectSessions' = DirectSessions
  BY DEF DirectSessions
<1> SUFFICES Kept(h) /\ RequestPlaced(h)' /\ StatePlaced'
  BY PlacedStep
<1>3. CASE CreateUpload(h)
  BY <1>1, <1>2, <1>3, UploadingTurns DEF CreateUpload, RequestPlaced, StatePlaced, Rests, At, bucketVars, sessionVars
<1>4. ASSUME NEW f \in Files, Chunk(h, f) PROVE Kept(h) /\ RequestPlaced(h)' /\ StatePlaced'
  BY <1>1, <1>2, <1>4, UploadingTurns DEF Chunk, RequestPlaced, StatePlaced, Starts, At, bucketVars, uploadVars, sessionVars
<1>5. CASE ChunkWritten(h) \/ BeginRecord(h) \/ CompleteRecord(h)
  <2>1. Rests(h)
    BY <1>1, <1>5, UploadingTurns
  <2>2. UNCHANGED <<model, target, session, bucket, manifest, area>>
    BY <1>5 DEF ChunkWritten, BeginRecord, CompleteRecord, bucketVars, uploadVars, sessionVars
  <2> QED BY <1>1, <1>2, <2>1, <2>2 DEF RequestPlaced, StatePlaced, Rests, At
<1>6. ASSUME NEW w \in Sessions \union {Upload}, NEW f \in Files, BeginFile(h, w, f)
      PROVE  Kept(h) /\ RequestPlaced(h)' /\ StatePlaced'
  BY <1>1, <1>2, <1>6, UploadingTurns DEF BeginFile, RequestPlaced, StatePlaced, Starts, Rests, At, bucketVars, sessionVars
<1>7. ASSUME NEW w \in Sessions \union {Upload}, NEW f \in Files, CompleteFile(h, w, f)
      PROVE  Kept(h) /\ RequestPlaced(h)' /\ StatePlaced'
  <2>1. place = "direct"
    BY <1>1, <1>7 DEF CompleteFile, Accepts, StatePlaced
  <2> QED BY <1>1, <1>2, <1>7, <2>1, UploadingTurns DEF CompleteFile, RequestPlaced, StatePlaced, Starts, At
<1>8. CASE SweepList(h)
  BY <1>1, <1>2, <1>8, UploadingTurns
  DEF SweepList, RequestPlaced, StatePlaced, Rests, At, bucketVars, uploadVars, sessionVars
<1>9. CASE SweepDiscard(h)
  <2>1. DirectSessions' \subseteq DirectSessions /\ area' \subseteq area
    BY <1>9 DEF SweepDiscard, DirectSessions
  <2> QED BY <1>1, <1>9, <2>1, UploadingTurns DEF SweepDiscard, RequestPlaced, StatePlaced, Rests, At, bucketVars
<1>10. CASE Finalize(h)
  BY <1>1, <1>2, <1>10, UploadingTurns
  DEF Finalize, RequestPlaced, StatePlaced, Starts, At, bucketVars, uploadVars, sessionVars
<1>11. CASE FinalizeChecked(h)
  BY <1>1, <1>2, <1>11, UploadingTurns
  DEF FinalizeChecked, RequestPlaced, StatePlaced, Rests, At, bucketVars, uploadVars, sessionVars
<1>12. CASE FinalizeSync(h)
  BY <1>1, <1>2, <1>12, UploadingTurns
  DEF FinalizeSync, RequestPlaced, StatePlaced, Moves, Carries, Rests, At, bucketVars, uploadVars, sessionVars
<1>13. CASE FinalizeIndex(h)
  <2>1. model' \in {model, FolderModel}
    BY <1>13 DEF FinalizeIndex, IndexPath
  <2> QED BY <1>1, <1>2, <1>13, <2>1, UploadingTurns, FolderModelPlaced
      DEF FinalizeIndex, RequestPlaced, StatePlaced, Moves, Carries, At, bucketVars, uploadVars, sessionVars
<1>14. CASE FinalizeReady(h) \/ PublishReady(h)
  <2>1. Rests(h)
    BY <1>1, <1>14, UploadingTurns
  <2>2. (target' => target) /\ UNCHANGED <<model, session, bucket, manifest, area>>
    BY <1>14 DEF FinalizeReady, PublishReady, bucketVars, uploadVars, sessionVars
  <2> QED BY <1>1, <1>2, <2>1, <2>2 DEF RequestPlaced, StatePlaced, Rests, At
<1>15. CASE Publish(h)
  <2>1. place = "disk" => Rests(h) /\ UNCHANGED manifest
    BY <1>1, <1>15, TurnsIdle DEF Publish, StatePlaced
  <2> QED BY <1>1, <1>2, <1>15, <2>1, UploadingTurns
      DEF Publish, RequestPlaced, StatePlaced, Moves, Carries, Rests, At, uploadVars, sessionVars
<1>16. CASE PublishIndex(h)
  <2>1. place # "disk" /\ model' = [target |-> "bucket", cached |-> FALSE]
    BY <1>1, <1>16 DEF PublishIndex, IndexRemote, RequestPlaced, At
  <2> QED BY <1>1, <1>2, <1>16, <2>1, UploadingTurns
      DEF PublishIndex, RequestPlaced, StatePlaced, Moves, Carries, At, uploadVars, sessionVars
<1>17. CASE Delete(h, downloading)
  <2>1. target => place = "direct"
    BY <1>1 DEF StatePlaced
  <2> QED BY <1>1, <1>2, <1>17, <2>1, DeleteTurns
      DEF Delete, RequestPlaced, StatePlaced, At, bucketVars, uploadVars, sessionVars
<1>18. CASE AbortUpload(h)
  BY <1>1, <1>2, <1>18, UploadingTurns
  DEF AbortUpload, RequestPlaced, StatePlaced, Moves, Carries, At, bucketVars, sessionVars
<1>19. CASE Unpublish(h)
  BY <1>1, <1>2, <1>19, UploadingTurns
  DEF Unpublish, RequestPlaced, StatePlaced, Moves, Rests, Carries, At, bucketVars, sessionVars
<1>20. CASE UnpublishRows(h)
  <2>1. DirectSessions' \subseteq DirectSessions /\ area' \subseteq area
    BY <1>20, DiscardPlaced DEF UnpublishRows
  <2> QED BY <1>1, <1>20, <2>1, UploadingTurns DEF UnpublishRows, RequestPlaced, StatePlaced, Rests, At, bucketVars, NoModel
<1>21. CASE Remove(h, fetching)
  <2>1. area' \in {area, {}} /\ bucket' \in {bucket, << >>} /\ manifest' \in {manifest, "none"}
    BY <1>21 DEF Remove, bucketVars
  <2> QED BY <1>1, <1>2, <1>21, <2>1, UploadingTurns
      DEF Remove, RequestPlaced, StatePlaced, Moves, Carries, Rests, At, sessionVars
<1>22. CASE RemoveFolder(h, fetching)
  <2>1. DirectSessions' = DirectSessions
    BY <1>22 DEF RemoveFolder, DirectSessions
  <2> QED BY <1>1, <1>22, <2>1, UploadingTurns
      DEF RemoveFolder, RequestPlaced, StatePlaced, Moves, Carries, At, bucketVars, uploadVars, NoModel
<1>23. CASE Forget(h)
  <2>1. DirectSessions' \subseteq DirectSessions /\ area' \subseteq area
    BY <1>23, DiscardPlaced DEF Forget
  <2> QED BY <1>1, <1>23, <2>1, UploadingTurns DEF Forget, RequestPlaced, StatePlaced, Rests, At, bucketVars
<1> QED BY <1>3, <1>4, <1>5, <1>6, <1>7, <1>8, <1>9, <1>10, <1>11, <1>12, <1>13, <1>14, <1>15, <1>16, <1>17, <1>18,
           <1>19, <1>20, <1>21, <1>22, <1>23 DEF Uploading

LEMMA ChangingPlaced ==
    ASSUME LibraryTypeOK, UploadsTypeOK, PlaceInv, UNCHANGED place, NEW h \in Handlers,
           NEW downloading, Changing(h, downloading)
    PROVE  PlaceInv'
<1>1. /\ req \in [Handlers -> Request] /\ model \in Model /\ target \in BOOLEAN
      /\ session \in [Sessions -> {"none", "staged", "direct"}]
      /\ StatePlaced /\ RequestPlaced(h)
  BY DEF LibraryTypeOK, UploadsTypeOK, PlaceInv
<1>2. session' = session => DirectSessions' = DirectSessions
  BY DEF DirectSessions
<1>3. ASSUME NEW s \in Sessions, AbortChange(h, s)
      PROVE  PlaceInv'
  <2>1. DirectSessions' \subseteq DirectSessions /\ area' \subseteq area
    BY <1>1, <1>3, DiscardPlaced DEF AbortChange, Unstage, DirectSessions
  <2>2. UNCHANGED <<model, target, bucket, manifest>>
    BY <1>3 DEF AbortChange, bucketVars
  <2>3. StatePlaced'
    BY <1>1, <2>1, <2>2 DEF StatePlaced
  <2>4. \A k \in Handlers : RequestPlaced(k)'
    BY <1>1, <1>3, AbortTurns DEF PlaceInv, RequestPlaced, At
  <2> QED BY <2>3, <2>4 DEF PlaceInv
<1>4. SUFFICES ASSUME ~\E s \in Sessions : AbortChange(h, s)
               PROVE  Kept(h) /\ RequestPlaced(h)' /\ StatePlaced'
  BY <1>3, PlacedStep
<1>5. ASSUME NEW s \in Sessions, StartChange(h, s)
      PROVE  Kept(h) /\ RequestPlaced(h)' /\ StatePlaced'
  <2>1. place # "direct" => DirectSessions' \subseteq DirectSessions
    BY <1>1, <1>5 DEF StartChange, DirectSessions
  <2> QED BY <1>1, <1>5, <2>1, ChangingTurns DEF StartChange, RequestPlaced, StatePlaced, Rests, At, bucketVars, uploadVars
<1>6. ASSUME NEW s \in Sessions, NEW f \in Files, StageChunk(h, s, f)
      PROVE  Kept(h) /\ RequestPlaced(h)' /\ StatePlaced'
  BY <1>1, <1>2, <1>6, ChangingTurns DEF StageChunk, RequestPlaced, StatePlaced, Rests, At, bucketVars, uploadVars
<1>7. ASSUME NEW s \in Sessions, Commit(h, s, downloading)
      PROVE  Kept(h) /\ RequestPlaced(h)' /\ StatePlaced'
  <2>1. model # NoModel /\ UNCHANGED <<model, target, session, bucket, manifest, area>>
    BY <1>7 DEF Commit, bucketVars, uploadVars, sessionVars
  <2>2. Kept(h) /\ req'[h].pc \in {"commit", "commit_upload"} /\ req'[h].at = model.target
    BY <1>1, <1>7, ChangingTurns
  <2> QED BY <1>1, <1>2, <2>1, <2>2 DEF RequestPlaced, StatePlaced, At
<1>8. CASE CommitLocks(h)
  BY <1>1, <1>2, <1>8, ChangingTurns
  DEF CommitLocks, RequestPlaced, StatePlaced, Moves, Carries, Local, At, bucketVars, uploadVars, sessionVars
<1>9. ASSUME NEW f \in Files, Apply(h, f)
      PROVE  Kept(h) /\ RequestPlaced(h)' /\ StatePlaced'
  BY <1>1, <1>2, <1>9, ChangingTurns
  DEF Apply, RequestPlaced, StatePlaced, Rests, At, bucketVars, uploadVars, sessionVars
<1>10. CASE ApplyRemovals(h)
  BY <1>1, <1>2, <1>10, ChangingTurns
  DEF ApplyRemovals, RequestPlaced, StatePlaced, At, bucketVars, uploadVars, sessionVars
<1>11. CASE Store(h)
  <2>1. req[h].at \in Targets /\ req[h].at # "none"
    BY <1>1, <1>11, RequestFields DEF Store, RequestPlaced, At
  <2>2. place = "disk" => UNCHANGED bucketVars
    BY <1>1, <1>11, <2>1 DEF Store, RequestPlaced, Targets
  <2> QED BY <1>1, <1>2, <1>11, <2>2, ChangingTurns
      DEF Store, RequestPlaced, StatePlaced, Moves, Carries, Rests, At, bucketVars, uploadVars, sessionVars
<1>12. CASE CommitRemote(h)
  <2>1. place = "disk" => UNCHANGED bucketVars /\ Rests(h)
    BY <1>1, <1>12, TurnsIdle DEF CommitRemote, RequestPlaced
  <2>2. Moves(h, "fetch") \/ Moves(h, "commit_index") \/ Rests(h)
    BY <1>1, <1>12, ChangingTurns
  <2> QED BY <1>1, <1>2, <1>12, <2>1, <2>2
      DEF CommitRemote, RequestPlaced, StatePlaced, Moves, Carries, Rests, At, bucketVars, uploadVars, sessionVars
<1>13. CASE FetchCopy(h)
  BY <1>1, <1>2, <1>13, ChangingTurns
  DEF FetchCopy, RequestPlaced, StatePlaced, Moves, Carries, Rests, At, bucketVars, uploadVars, sessionVars
<1>14. CASE CommitIndex(h)
  <2>1. DirectSessions' \subseteq DirectSessions /\ area' \subseteq area
    BY <1>1, <1>14, DiscardPlaced DEF CommitIndex, Unstage, DirectSessions
  <2>2. model' \in {model, FolderModel} \/ (place # "disk" /\ model' = [target |-> "bucket", cached |-> FALSE])
    BY <1>1, <1>14 DEF CommitIndex, IndexPath, IndexRemote, Local, RequestPlaced
  <2>3. Moves(h, "history") /\ UNCHANGED <<target, bucket, manifest>>
    BY <1>1, <1>14, ChangingTurns DEF CommitIndex, bucketVars
  <2>4. StatePlaced'
    BY <1>1, <2>1, <2>2, <2>3, FolderModelPlaced DEF StatePlaced
  <2> QED BY <1>1, <2>3, <2>4 DEF RequestPlaced, Moves, Carries, At
<1>15. CASE CommitRecorded(h)
  BY <1>1, <1>2, <1>15, ChangingTurns
  DEF CommitRecorded, RequestPlaced, StatePlaced, Rests, At, bucketVars, uploadVars, sessionVars
<1> QED BY <1>4, <1>5, <1>6, <1>7, <1>8, <1>9, <1>10, <1>11, <1>12, <1>13, <1>14, <1>15 DEF Changing

LEMMA FromTheHubPlaced ==
    ASSUME LibraryTypeOK, UploadsTypeOK, PlaceInv, UNCHANGED <<place, uploadVars, sessionVars>>, NEW h \in Handlers,
           FromTheHub(h)
    PROVE  PlaceInv'
<1>1. req \in [Handlers -> Request] /\ StatePlaced /\ RequestPlaced(h) /\ UNCHANGED <<target, DirectSessions, area>>
  BY DEF LibraryTypeOK, PlaceInv, uploadVars, sessionVars, DirectSessions
<1>2. UNCHANGED <<model, bucket, manifest>>
  BY DEF FromTheHub, StartDownload, Enqueue, Cancel, CancelFolder, CancelRow, bucketVars
<1>3. Starts(h, "enqueue") \/ Starts(h, "cancel") \/ Moves(h, "cancel_row") \/ Rests(h)
  BY <1>1, FromTheHubTurns DEF FromTheHub
<1>4. Kept(h) /\ RequestPlaced(h)' /\ StatePlaced'
  BY <1>1, <1>2, <1>3 DEF RequestPlaced, StatePlaced, Starts, Moves, Carries, Rests, At
<1> QED BY <1>4, PlacedStep

LEMMA RequestsKeepPlaced ==
    ASSUME PlaceInv, UNCHANGED <<place, req>>, StatePlaced'
    PROVE  PlaceInv'
BY DEF PlaceInv, RequestPlaced, At

LEMMA WorkerPlaced ==
    ASSUME LibraryTypeOK, UploadsTypeOK, PlaceInv, UNCHANGED <<place, uploadVars, sessionVars>>,
           NEW d \in DOMAIN downloads, Worker(d)
    PROVE  PlaceInv'
<1>1. req' = req /\ StatePlaced /\ UNCHANGED <<target, DirectSessions, area>>
  BY DEF PlaceInv, uploadVars, sessionVars, DirectSessions, Worker, Prepare, FetchFile, MonitorLooks, MonitorWrites,
         Fetched, SyncDownload, IndexDownload, FinishDownload, Steady, requestVars
<1>2. model' \in {model, FolderModel}
  BY DEF Worker, Prepare, FetchFile, MonitorLooks, MonitorWrites, Fetched, SyncDownload, IndexDownload,
         FinishDownload, IndexPath
<1>3. place = "disk" => UNCHANGED <<bucket, manifest>>
  BY DEF Worker, Prepare, FetchFile, MonitorLooks, MonitorWrites, Fetched, SyncDownload, IndexDownload,
         FinishDownload, bucketVars
<1>4. StatePlaced'
  BY <1>1, <1>2, <1>3, FolderModelPlaced DEF StatePlaced
<1> QED BY <1>1, <1>4, RequestsKeepPlaced

LEMMA PlaceStep ==
    ASSUME TypeOK, PlaceInv, [Next]_vars
    PROVE  PlaceInv'
<1>1. LibraryTypeOK /\ UploadsTypeOK /\ DownloadsTypeOK
  BY DEF TypeOK
<1>2. ASSUME NEW h \in Handlers, Cache(h, ActiveDownload, WorkerRuns), UNCHANGED <<place, uploadVars, sessionVars, downloads>>
      PROVE  PlaceInv'
  BY <1>1, <1>2, CachePlaced
<1>3. ASSUME NEW h \in Handlers, Uploading(h, ActiveDownload, WorkerRuns) \/ Changing(h, ActiveDownload), UNCHANGED place
      PROVE  PlaceInv'
  BY <1>1, <1>3, UploadingPlaced, ChangingPlaced
<1>4. ASSUME NEW h \in Handlers, FromTheHub(h), UNCHANGED <<place, uploadVars, sessionVars>>
      PROVE  PlaceInv'
  BY <1>1, <1>4, FromTheHubPlaced
<1>5. ASSUME NEW x \in open, PartsSent(x), UNCHANGED place
      PROVE  PlaceInv'
  <2>1. UNCHANGED <<place, req, model, bucket, manifest, target, area, session>>
    BY <1>5 DEF PartsSent, requestVars, bucketVars, sessionVars
  <2>2. StatePlaced'
    BY <2>1 DEF PlaceInv, StatePlaced, DirectSessions
  <2> QED BY <2>1, <2>2, RequestsKeepPlaced
<1>6. ASSUME NEW d \in DOMAIN downloads, Worker(d), UNCHANGED <<place, uploadVars, sessionVars>>
      PROVE  PlaceInv'
  BY <1>1, <1>6, WorkerPlaced
<1>7. ASSUME Restart, UNCHANGED <<place, uploadVars, sessionVars>>
      PROVE  PlaceInv'
  <2>1. UNCHANGED <<model, bucket, manifest, target, area, session>> /\ req' = [h \in Handlers |-> Idle]
    BY <1>7 DEF Restart, bucketVars, uploadVars, sessionVars
  <2>2. StatePlaced'
    BY <1>7, <2>1 DEF PlaceInv, StatePlaced, DirectSessions
  <2>3. \A h \in Handlers : RequestPlaced(h)'
    BY <2>1 DEF RequestPlaced, Idle, At
  <2> QED BY <2>2, <2>3 DEF PlaceInv
<1>8. ASSUME UNCHANGED vars
      PROVE  PlaceInv'
  <2>1. UNCHANGED <<place, req, model, bucket, manifest, target, area, session>>
    BY <1>8 DEF vars, requestVars, bucketVars, uploadVars, sessionVars
  <2>2. StatePlaced'
    BY <2>1 DEF PlaceInv, StatePlaced, DirectSessions
  <2> QED BY <2>1, <2>2, RequestsKeepPlaced
<1> QED BY <1>2, <1>3, <1>4, <1>5, <1>6, <1>7, <1>8 DEF Next

LEMMA PlaceStart == Init => PlaceInv
<1> SUFFICES ASSUME Init PROVE PlaceInv
  OBVIOUS
<1>1. \A h \in Handlers : RequestPlaced(h)
  BY DEF Init, RequestPlaced, Idle, At
<1> DEFINE none == NoSessions => DirectSessions = {} /\ area = {}
<1>2. none
  BY DEF NoSessions, DirectSessions
<1>3. ASSUME Absent, NoSessions, target = FALSE PROVE StatePlaced
  BY <1>2, <1>3 DEF StatePlaced, Absent, NoModel
<1>6. ASSUME NEW arrived \in SUBSET Files, Unfinished(arrived) PROVE StatePlaced
  BY <1>2, <1>6 DEF StatePlaced, Unfinished, NoUploads, NoModel
<1>4. ASSUME NEW content, NEW kind, NEW cached, Holds(content, kind, cached), OpenSessions PROVE StatePlaced
  <2>1. model.target = Target
    BY <1>4 DEF Holds
  <2>2. place # "direct" => DirectSessions = {} /\ area = {}
    BY <1>4 DEF OpenSessions, DirectSessions
  <2> QED BY <1>4, <2>1, <2>2 DEF StatePlaced, Holds, OpenSessions, Target
<1>5. StatePlaced
  <2>1. CASE NewName \/ Queued
    BY <1>3, <2>1 DEF NewName, Queued, NoUploads
  <2>2. CASE Uploaded
    BY <1>4, <2>2 DEF Uploaded
  <2>3. CASE Downloaded
    BY <1>4, <2>3 DEF Downloaded
  <2> QED BY <1>6, <2>1, <2>2, <2>3 DEF Init
<1> QED BY <1>1, <1>5 DEF PlaceInv

----------------------------------------------------------------------------
(* The locks: one request stores or publishes at a time, one stores or       *)
(* removes, and one begins or completes a file.                              *)
RepoSteps == StoringSteps \union PublishingSteps
WriteSteps == StoringSteps \union RemovingSteps
Alone(steps) == \A h, k \in Handlers : req[h].pc \in steps /\ req[k].pc \in steps => h = k
File(h) == <<req[h].who, req[h].file>>
FilesAlone ==
    \A h, k \in Handlers :
        req[h].pc \in RecordSteps /\ req[k].pc \in RecordSteps /\ File(h) = File(k) => h = k
LockInv == Alone(RepoSteps) /\ Alone(WriteSteps) /\ FilesAlone

Enters(h) ==
    /\ Kept(h)
    /\ req'[h].pc \in RepoSteps => req[h].pc \in RepoSteps \/ RepoLock(h)
    /\ req'[h].pc \in WriteSteps => req[h].pc \in WriteSteps \/ WriteLock(h)
    /\ req'[h].pc \in RecordSteps => FileLock(h, req'[h].who, req'[h].file)

LEMMA LocksKept ==
    ASSUME LockInv, NEW h \in Handlers, Enters(h)
    PROVE  LockInv'
<1>1. Alone(RepoSteps)'
  BY DEF LockInv, Alone, Enters, Kept, RepoLock, RepoSteps, Others
<1>2. Alone(WriteSteps)'
  BY DEF LockInv, Alone, Enters, Kept, WriteLock, WriteSteps, Others
<1>3. FilesAlone'
  <2>1. \A k \in Handlers \ {h} : req'[k] = req[k] /\ File(k)' = File(k)
    BY DEF Enters, Kept, File
  <2>2. ASSUME req'[h].pc \in RecordSteps, NEW k \in Handlers \ {h}, req[k].pc \in RecordSteps
        PROVE  File(h)' # File(k)
    BY <2>2 DEF Enters, FileLock, File, RecordSteps
  <2> QED BY <2>1, <2>2 DEF LockInv, FilesAlone
<1> QED BY <1>1, <1>2, <1>3 DEF LockInv

(* The steps that no lock is for.                                            *)
FreeSteps == {"idle", "scan", "scan_list", "scan_index", "scan_commit", "scan_local", "sweep", "sweep_discard",
              "restore", "restore_index", "evict", "evict_index", "enqueue", "cancel", "cancel_row",
              "chunk", "finalize", "publish", "delete", "delete_upload", "commit", "commit_upload", "history"}

LEMMA LocksOfSteps ==
    /\ \A step \in FreeSteps : step \notin RepoSteps /\ step \notin WriteSteps /\ step \notin RecordSteps
    /\ \A step \in RepoSteps \union WriteSteps : step \notin RecordSteps
    /\ RecordSteps \intersect (RepoSteps \union WriteSteps) = {}
    /\ {"remove", "forget"} \intersect RepoSteps = {}
    /\ {"publish_index", "publish_ready", "unpublish", "unpublish_rows"} \intersect WriteSteps = {}
    /\ {"finalize_sync", "finalize_index", "finalize_ready", "apply", "store", "fetch", "commit_index"}
          \subseteq StoringSteps
    /\ StoringSteps \subseteq RepoSteps /\ StoringSteps \subseteq WriteSteps
    /\ {"publish_index", "publish_ready", "unpublish", "unpublish_rows"} \subseteq RepoSteps
    /\ {"remove", "forget"} \subseteq WriteSteps
BY DEF FreeSteps, RepoSteps, WriteSteps, RecordSteps, StoringSteps, PublishingSteps, RemovingSteps

LEMMA NoLock ==
    ASSUME NEW h \in Handlers, Kept(h), req'[h].pc \in FreeSteps
    PROVE  Enters(h)
BY LocksOfSteps DEF Enters

LEMMA CacheEnters ==
    ASSUME LibraryTypeOK, NEW h \in Handlers, NEW downloading, NEW fetching, Cache(h, downloading, fetching)
    PROVE  Enters(h)
<1>1. req \in [Handlers -> Request]
  BY DEF LibraryTypeOK
<1>2. /\ Scan(h) \/ Restore(h, downloading) \/ Evict(h, downloading) => Kept(h) /\ req'[h].pc \in FreeSteps
      /\ ScanFolder(h, fetching) \/ ScanIndex(h) \/ ScanCommit(h) \/ ScanLocal(h) => Kept(h) /\ req'[h].pc \in FreeSteps
      /\ RestoreFiles(h) \/ RestoreIndex(h) \/ EvictIndex(h) => Kept(h) /\ req'[h].pc \in FreeSteps
      /\ ScanList(h) \/ EvictFolder(h, fetching) => Kept(h) /\ req'[h].pc \in FreeSteps
  BY <1>1, CacheTurns DEF Starts, Moves, Rests, FreeSteps
<1> QED BY <1>2, NoLock DEF Cache

LEMMA UploadingEnters ==
    ASSUME LibraryTypeOK, NEW h \in Handlers, NEW downloading, NEW fetching, Uploading(h, downloading, fetching)
    PROVE  Enters(h)
<1>1. req \in [Handlers -> Request]
  BY DEF LibraryTypeOK
<1>2. CASE \/ CreateUpload(h) \/ ChunkWritten(h) \/ BeginRecord(h) \/ CompleteRecord(h) \/ SweepDiscard(h)
           \/ FinalizeReady(h) \/ PublishReady(h) \/ UnpublishRows(h) \/ Forget(h)
  <2>1. Rests(h)
    BY <1>1, <1>2, UploadingTurns
  <2> QED BY <2>1, NoLock DEF Rests, FreeSteps
<1>3. CASE SweepList(h) \/ Finalize(h)
  <2>1. Kept(h) /\ req'[h].pc \in FreeSteps
    BY <1>1, <1>3, UploadingTurns DEF Rests, Starts, FreeSteps
  <2> QED BY <2>1, NoLock
<1>4. ASSUME NEW f \in Files, Chunk(h, f) PROVE Enters(h)
  <2>1. Kept(h) /\ req'[h].pc \in FreeSteps
    BY <1>1, <1>4, UploadingTurns DEF Starts, FreeSteps
  <2> QED BY <2>1, NoLock
<1>5. ASSUME NEW w \in Sessions \union {Upload}, NEW f \in Files, BeginFile(h, w, f) \/ CompleteFile(h, w, f)
      PROVE  Enters(h)
  <2>1. FileLock(h, w, f)
    BY <1>5 DEF BeginFile, CompleteFile
  <2>2. \/ Rests(h)
        \/ Kept(h) /\ req'[h].pc \in RecordSteps /\ req'[h].who = w /\ req'[h].file = f
    BY <1>1, <1>5, UploadingTurns DEF Starts, RecordSteps
  <2>3. CASE Rests(h)
    BY <2>3, NoLock DEF Rests, FreeSteps
  <2>4. CASE Kept(h) /\ req'[h].pc \in RecordSteps /\ req'[h].who = w /\ req'[h].file = f
    BY <2>1, <2>4, LocksOfSteps DEF Enters
  <2> QED BY <2>2, <2>3, <2>4
<1>6. CASE FinalizeChecked(h)
  <2>1. RepoLock(h) /\ WriteLock(h)
    BY <1>6 DEF FinalizeChecked
  <2>2. Kept(h) /\ req'[h].pc \in {"finalize_sync", "idle"}
    BY <1>1, <1>6, UploadingTurns DEF Rests
  <2> QED BY <2>1, <2>2, LocksOfSteps DEF Enters, FreeSteps
<1>7. CASE FinalizeSync(h) \/ FinalizeIndex(h)
  <2>1. req[h].pc \in StoringSteps
    BY <1>7, LocksOfSteps DEF FinalizeSync, FinalizeIndex, At
  <2>2. Kept(h) /\ req'[h].pc \in {"finalize_index", "finalize_ready", "idle"}
    BY <1>1, <1>7, UploadingTurns DEF Rests, Moves
  <2> QED BY <2>1, <2>2, LocksOfSteps DEF Enters, FreeSteps
<1>8. CASE Publish(h) \/ PublishIndex(h) \/ AbortUpload(h) \/ Unpublish(h)
  <2>1. req[h].pc \in RepoSteps \/ RepoLock(h)
    BY <1>8, LocksOfSteps DEF Publish, PublishIndex, AbortUpload, Unpublish, At
  <2>2. Kept(h) /\ req'[h].pc \in {"publish_index", "publish_ready", "unpublish", "unpublish_rows", "idle"}
    BY <1>1, <1>8, UploadingTurns DEF Rests, Moves
  <2> QED BY <2>1, <2>2, LocksOfSteps DEF Enters, FreeSteps
<1>9. CASE Delete(h, downloading)
  BY <1>1, <1>9, DeleteTurns, NoLock DEF FreeSteps
<1>10. CASE Remove(h, fetching) \/ RemoveFolder(h, fetching)
  <2>1. req[h].pc \in WriteSteps \/ WriteLock(h)
    BY <1>10, LocksOfSteps DEF Remove, RemoveFolder, At
  <2>2. Kept(h) /\ req'[h].pc \in {"remove", "forget", "idle"}
    BY <1>1, <1>10, UploadingTurns DEF Rests, Moves
  <2> QED BY <2>1, <2>2, LocksOfSteps DEF Enters, FreeSteps
<1> QED BY <1>2, <1>3, <1>4, <1>5, <1>6, <1>7, <1>8, <1>9, <1>10 DEF Uploading

LEMMA ChangingEnters ==
    ASSUME LibraryTypeOK, NEW h \in Handlers, NEW downloading, Changing(h, downloading),
           ~\E s \in Sessions : AbortChange(h, s)
    PROVE  Enters(h)
<1>1. req \in [Handlers -> Request]
  BY DEF LibraryTypeOK
<1>2. ASSUME NEW s \in Sessions, StartChange(h, s) \/ Commit(h, s, downloading) \/ \E f \in Files : StageChunk(h, s, f)
      PROVE  Enters(h)
  <2>1. Kept(h) /\ req'[h].pc \in FreeSteps
    BY <1>1, <1>2, ChangingTurns DEF Rests, FreeSteps
  <2> QED BY <2>1, NoLock
<1>3. CASE CommitLocks(h) \/ CommitRemote(h)
  <2>1. RepoLock(h) /\ WriteLock(h)
    BY <1>3 DEF CommitLocks, CommitRemote
  <2>2. Kept(h) /\ req'[h].pc \in {"apply", "fetch", "commit_index", "idle"}
    BY <1>1, <1>3, ChangingTurns DEF Moves, Rests
  <2> QED BY <2>1, <2>2, LocksOfSteps DEF Enters, FreeSteps
<1>4. CASE (\E f \in Files : Apply(h, f)) \/ ApplyRemovals(h) \/ Store(h) \/ FetchCopy(h) \/ CommitIndex(h)
  <2>1. req[h].pc \in StoringSteps
    BY <1>4, LocksOfSteps DEF Apply, ApplyRemovals, Store, FetchCopy, CommitIndex, At
  <2>2. Kept(h) /\ req'[h].pc \in {"apply", "store", "commit_index", "history", "idle"}
    BY <1>1, <1>4, ChangingTurns DEF Moves, Rests
  <2> QED BY <2>1, <2>2, LocksOfSteps DEF Enters, FreeSteps
<1>5. CASE CommitRecorded(h)
  <2>1. Rests(h)
    BY <1>1, <1>5, ChangingTurns
  <2> QED BY <2>1, NoLock DEF Rests, FreeSteps
<1> QED BY <1>2, <1>3, <1>4, <1>5 DEF Changing

LEMMA FromTheHubEnters ==
    ASSUME LibraryTypeOK, NEW h \in Handlers, FromTheHub(h)
    PROVE  Enters(h)
<1>1. req \in [Handlers -> Request]
  BY DEF LibraryTypeOK
<1>2. Starts(h, "enqueue") \/ Starts(h, "cancel") \/ Moves(h, "cancel_row") \/ Rests(h)
  BY <1>1, FromTheHubTurns DEF FromTheHub
<1> QED BY <1>2, NoLock DEF Starts, Moves, Rests, FreeSteps

(* Whatever a step is, the locks hold.                                       *)
LEMMA AbortLeaves ==
    ASSUME LibraryTypeOK, NEW h, NEW s, AbortChange(h, s)
    PROVE  \A k \in Handlers : req'[k].pc = req[k].pc /\ File(k)' = File(k)
BY AbortTurns DEF LibraryTypeOK, File

LEMMA WorkerRequests ==
    ASSUME NEW d \in DOMAIN downloads, Worker(d)
    PROVE  UNCHANGED <<req, asked, row>>
BY DEF Worker, Prepare, FetchFile, MonitorLooks, MonitorWrites, Fetched, SyncDownload, IndexDownload, FinishDownload,
       Steady, requestVars

LEMMA LockStep ==
    ASSUME TypeOK, LockInv, [Next]_vars
    PROVE  LockInv'
<1>1. LibraryTypeOK
  BY DEF TypeOK
<1>2. ASSUME NEW h \in Handlers,
             \/ Cache(h, ActiveDownload, WorkerRuns) \/ Uploading(h, ActiveDownload, WorkerRuns)
             \/ Changing(h, ActiveDownload) /\ ~\E s \in Sessions : AbortChange(h, s)
             \/ FromTheHub(h)
      PROVE  LockInv'
  <2>1. Enters(h)
    BY <1>1, <1>2, CacheEnters, UploadingEnters, ChangingEnters, FromTheHubEnters
  <2> QED BY <2>1, LocksKept
<1>3. ASSUME \A k \in Handlers : req'[k].pc = req[k].pc /\ File(k)' = File(k)
      PROVE  LockInv'
  BY <1>3 DEF LockInv, Alone, FilesAlone
<1>4. ASSUME NEW h \in Handlers, NEW s \in Sessions, AbortChange(h, s)
      PROVE  LockInv'
  BY <1>1, <1>3, <1>4, AbortLeaves
<1>5. ASSUME UNCHANGED req
      PROVE  LockInv'
  BY <1>3, <1>5 DEF File
<1>6. CASE Restart
  BY <1>6 DEF Restart, LockInv, Alone, FilesAlone, Idle, RepoSteps, WriteSteps, RecordSteps, StoringSteps,
              PublishingSteps, RemovingSteps
<1>7. (\E x \in open : PartsSent(x)) \/ (\E d \in DOMAIN downloads : Worker(d)) \/ UNCHANGED vars => UNCHANGED req
  BY WorkerRequests DEF PartsSent, requestVars, vars
<1> QED BY <1>2, <1>4, <1>5, <1>6, <1>7 DEF Next

LEMMA LockStart == Init => LockInv
<1> SUFFICES ASSUME Init PROVE LockInv
  OBVIOUS
<1>1. \A h \in Handlers : req[h].pc = "idle"
  BY DEF Init, Idle
<1> QED BY <1>1, LocksOfSteps DEF LockInv, Alone, FilesAlone, FreeSteps

----------------------------------------------------------------------------
(* What holds while no request came late for a repository, and what holds    *)
(* while the server did not start again under one either.                    *)
Timely == ~Except({"late"})
Orderly == ~Except({"late", "restart"})

LEMMA StraysGrow ==
    ASSUME LifeInv, [Next]_vars
    PROVE  strays \subseteq strays'
<1>1. LibraryTypeOK /\ UploadsTypeOK /\ DownloadsTypeOK /\ RecordsInv /\ DownloadsInv
  BY DEF LifeInv, TypeOK
<1>2. ASSUME NEW h \in Handlers, Cache(h, ActiveDownload, WorkerRuns) PROVE strays \subseteq strays'
  BY <1>1, <1>2, CacheLeaves
<1>3. ASSUME NEW h \in Handlers, Uploading(h, ActiveDownload, WorkerRuns) \/ Changing(h, ActiveDownload)
      PROVE  strays \subseteq strays'
  BY <1>1, <1>3, UploadingKeepsRecords, ChangingKeepsRecords
<1>4. ASSUME NEW h \in Handlers, FromTheHub(h) PROVE strays \subseteq strays'
  BY <1>1, <1>4, FromTheHubKeeps
<1>5. ASSUME NEW d \in DOMAIN downloads, Worker(d) PROVE strays \subseteq strays'
  BY <1>1, <1>5, WorkerKeeps
<1>6. Restart \/ UNCHANGED vars \/ (\E x \in open : PartsSent(x)) => strays \subseteq strays'
  BY DEF Restart, Strays, vars, ghosts, PartsSent
<1> QED BY <1>2, <1>3, <1>4, <1>5, <1>6 DEF Next

LEMMA TimelyBefore ==
    ASSUME strays \subseteq strays', Timely'
    PROVE  Timely /\ "late" \notin strays'
BY DEF Timely, Except

LEMMA OrderlyBefore ==
    ASSUME strays \subseteq strays', Orderly'
    PROVE  Orderly /\ "late" \notin strays' /\ "restart" \notin strays'
BY DEF Orderly, Except

(* A request that finalizes, or sends a file of the upload, has a row, and   *)
(* one that finalizes what came here is of an upload that comes here; what   *)
(* goes straight to the bucket is unfinished, or being forgotten, or was when *)
(* the server stopped; and a download is of a name that was free, and has    *)
(* its label.                                                                *)
FinalizingSteps == {"chunk", "finalize", "finalize_sync", "finalize_index", "finalize_ready"}
UploadSteps == FinalizingSteps \union {"publish", "publish_index", "publish_ready", "unpublish", "unpublish_rows"}
RequestRow(h) ==
    /\ req[h].pc \in UploadSteps \/ (req[h].pc \in RecordSteps /\ req[h].who = Upload) => row # "none"
    /\ req[h].pc \in FinalizingSteps /\ row = "uploading" => place # "direct"
TargetRow ==
    /\ row = "uploading" => (target <=> place = "direct")
    /\ target => row = "uploading" \/ Within({"forget"}) \/ "restart" \in strays
Labelled == label # "none" \/ manifest # "none"
WorkersRow == \A d \in DOMAIN downloads : downloads[d].pc \notin {"none", "submitted"} => row = "none" /\ Labelled
RowInv == TargetRow /\ WorkersRow /\ \A h \in Handlers : RequestRow(h)

LEMMA RowKept ==
    ASSUME RowInv, NEW h \in Handlers, Kept(h), RequestRow(h)', UNCHANGED <<place, row, target, downloads>>,
           ~At(h, "forget"), row = "none" /\ Labelled => Labelled', strays \subseteq strays'
    PROVE  RowInv'
<1>1. TargetRow'
  BY DEF RowInv, TargetRow, Within, Kept, At
<1>2. WorkersRow'
  BY DEF RowInv, WorkersRow
<1>3. \A k \in Handlers : RequestRow(k)'
  BY DEF RowInv, RequestRow, Kept
<1> QED BY <1>1, <1>2, <1>3 DEF RowInv

LEMMA CacheKeepsRow ==
    ASSUME LibraryTypeOK, RowInv, NEW h \in Handlers, NEW downloading, NEW fetching, Cache(h, downloading, fetching),
           UNCHANGED <<place, uploadVars, sessionVars, downloads>>, strays \subseteq strays'
    PROVE  RowInv'
<1>1. req \in [Handlers -> Request]
  BY DEF LibraryTypeOK
<1>2. UNCHANGED <<place, row, target, downloads>>
  BY DEF uploadVars, Cache, Scan, ScanFolder, ScanList, ScanIndex, ScanCommit, ScanLocal, Restore, RestoreFiles,
         RestoreIndex, Evict, EvictFolder, EvictIndex
<1>3. Labelled => Labelled'
  BY DEF Labelled, Cache, Scan, ScanFolder, ScanList, ScanIndex, ScanCommit, ScanLocal, Restore, RestoreFiles,
         RestoreIndex, Evict, EvictFolder, EvictIndex, bucketVars, diskVars
<1>4. ~At(h, "forget")
  BY DEF At, Free, Cache, Scan, ScanFolder, ScanList, ScanIndex, ScanCommit, ScanLocal, Restore, RestoreFiles,
         RestoreIndex, Evict, EvictFolder, EvictIndex
<1> DEFINE S == {"idle", "scan", "scan_list", "scan_index", "scan_commit", "scan_local", "sweep",
                 "restore", "restore_index", "evict", "evict_index"}
<1>5. Kept(h) /\ req'[h].pc \in S
  <2>1. /\ Scan(h) \/ Restore(h, downloading) \/ Evict(h, downloading) => Kept(h) /\ req'[h].pc \in S
        /\ ScanFolder(h, fetching) \/ ScanIndex(h) \/ ScanCommit(h) \/ ScanLocal(h) => Kept(h) /\ req'[h].pc \in S
        /\ RestoreFiles(h) \/ RestoreIndex(h) \/ EvictIndex(h) => Kept(h) /\ req'[h].pc \in S
        /\ ScanList(h) \/ EvictFolder(h, fetching) => Kept(h) /\ req'[h].pc \in S
    BY <1>1, CacheTurns DEF Starts, Moves, Rests
  <2> QED BY <2>1 DEF Cache
<1>6. RequestRow(h)'
  BY <1>5 DEF RequestRow, UploadSteps, FinalizingSteps, RecordSteps
<1> QED BY <1>2, <1>3, <1>4, <1>5, <1>6, RowKept

LEMMA UploadingKeepsRow ==
    ASSUME LibraryTypeOK, UploadsTypeOK, PlaceInv, RowInv, LockInv, NEW h \in Handlers, NEW downloading,
           Uploading(h, downloading, WorkerRuns), UNCHANGED <<place, downloads>>, "late" \notin strays', strays \subseteq strays'
    PROVE  RowInv'
<1>1. /\ req \in [Handlers -> Request] /\ target \in BOOLEAN /\ row \in {"none", "uploading", "ready"}
      /\ RequestRow(h) /\ TargetRow /\ WorkersRow /\ StatePlaced
  BY DEF LibraryTypeOK, UploadsTypeOK, RowInv, PlaceInv
<1>2. CASE CreateUpload(h)
  <2>1. Rests(h) /\ ~At(h, "forget")
    BY <1>1, <1>2, UploadingTurns DEF At
  <2>2. row = "none" /\ label = "none" /\ (place # "disk" => manifest = "none")
    BY <1>2 DEF CreateUpload, NameFree, FolderExists
  <2>3. manifest = "none"
    BY <1>1, <2>2 DEF StatePlaced
  <2>4. WorkersRow'
    BY <1>1, <2>2, <2>3 DEF WorkersRow, Labelled
  <2>5. row' = "uploading" /\ (target' <=> place = "direct")
    BY <1>1, <1>2 DEF CreateUpload, StatePlaced
  <2>6. ~Remembered(h)
    BY <1>2 DEF CreateUpload, Strays
  <2>7. \A k \in Handlers \ {h} : req[k].pc \notin RememberingSteps
    BY <2>6 DEF Remembered
  <2>8. FinalizingSteps \subseteq RememberingSteps
    BY DEF FinalizingSteps, RememberingSteps, StoringSteps, WaitingSteps
  <2>9. \A k \in Handlers : RequestRow(k)'
    BY <2>1, <2>5, <2>7, <2>8 DEF RequestRow, Rests, Kept, FinalizingSteps
  <2> QED BY <2>4, <2>5, <2>9 DEF RowInv, TargetRow
<1>3. ASSUME UNCHANGED <<row, target>>, Labelled => Labelled' \/ row # "none", ~At(h, "forget"), Kept(h), RequestRow(h)'
      PROVE  RowInv'
  BY <1>3, RowKept
<1>4. CASE \/ ChunkWritten(h) \/ BeginRecord(h) \/ CompleteRecord(h) \/ SweepList(h) \/ SweepDiscard(h)
  <2>1. Kept(h) /\ req'[h].pc \in {"idle", "sweep_discard"}
    BY <1>1, <1>4, UploadingTurns DEF Rests
  <2>2. UNCHANGED <<row, target, label, manifest>> /\ ~At(h, "forget")
    BY <1>4 DEF ChunkWritten, BeginRecord, CompleteRecord, SweepList, SweepDiscard, At, bucketVars, diskVars, uploadVars
  <2> QED BY <1>3, <2>1, <2>2 DEF RequestRow, UploadSteps, FinalizingSteps, RecordSteps, Labelled
<1>5. ASSUME NEW f \in Files, Chunk(h, f) PROVE RowInv'
  <2>1. Starts(h, "chunk") /\ UNCHANGED <<row, target, label, manifest>> /\ row = "uploading" /\ ~target
    BY <1>1, <1>5, UploadingTurns DEF Chunk, bucketVars, diskVars, uploadVars
  <2>2. RequestRow(h)'
    BY <1>1, <2>1 DEF RequestRow, Starts, TargetRow, UploadSteps, FinalizingSteps, RecordSteps
  <2> QED BY <1>3, <2>1, <2>2 DEF Starts, At, Labelled
<1>6. ASSUME NEW w \in Sessions \union {Upload}, NEW f \in Files, BeginFile(h, w, f) \/ CompleteFile(h, w, f)
      PROVE  RowInv'
  <2>1. UNCHANGED <<row, target, label, manifest>> /\ Accepts(w)
    BY <1>6 DEF BeginFile, CompleteFile, bucketVars, diskVars
  <2>2. Kept(h) /\ ~At(h, "forget") /\ (Rests(h) \/ (req'[h].pc \in RecordSteps /\ req'[h].who = w))
    BY <1>1, <1>6, UploadingTurns DEF Starts, Rests, RecordSteps, At, BeginFile, CompleteFile, Free
  <2>3. RequestRow(h)'
    BY <2>1, <2>2 DEF RequestRow, Accepts, Rests, UploadSteps, FinalizingSteps, RecordSteps
  <2> QED BY <1>3, <2>1, <2>2, <2>3 DEF Labelled
<1>7. CASE Finalize(h)
  <2>1. Starts(h, IF target THEN "publish" ELSE "finalize") /\ UNCHANGED <<row, target, label, manifest>> /\ row # "none"
    BY <1>1, <1>7, UploadingTurns DEF Finalize, bucketVars, diskVars, uploadVars
  <2>2. RequestRow(h)'
    BY <1>1, <2>1 DEF RequestRow, Starts, TargetRow, UploadSteps, FinalizingSteps, RecordSteps
  <2> QED BY <1>3, <2>1, <2>2 DEF Starts, At, Labelled
<1>8. CASE FinalizeChecked(h) \/ FinalizeSync(h) \/ FinalizeIndex(h)
  <2>1. Kept(h) /\ req'[h].pc \in {"finalize_sync", "finalize_index", "finalize_ready", "idle"}
    BY <1>1, <1>8, UploadingTurns DEF Moves, Rests
  <2>2. UNCHANGED <<row, target>> /\ req[h].pc \in FinalizingSteps
    BY <1>8 DEF FinalizeChecked, FinalizeSync, FinalizeIndex, At, FinalizingSteps, uploadVars
  <2>3. row # "none"
    BY <1>1, <2>2 DEF RequestRow, UploadSteps
  <2>4. RequestRow(h)' /\ ~At(h, "forget")
    BY <1>1, <2>1, <2>2, <2>3 DEF RequestRow, FinalizingSteps, RecordSteps, At
  <2> QED BY <1>3, <2>1, <2>2, <2>3, <2>4
<1>9. CASE FinalizeReady(h) \/ PublishReady(h)
  <2>1. Rests(h) /\ ~At(h, "forget")
    BY <1>1, <1>9, UploadingTurns DEF FinalizeReady, PublishReady, At
  <2>2. row # "none" /\ row' = "ready"
    BY <1>1, <1>9 DEF FinalizeReady, PublishReady, RequestRow, UploadSteps, FinalizingSteps, At, Ready
  <2>3. target' => target /\ row # "uploading"
    <3>1. CASE PublishReady(h)
      BY <3>1 DEF PublishReady
    <3>2. CASE FinalizeReady(h)
      BY <1>1, <3>2 DEF FinalizeReady, RequestRow, UploadSteps, FinalizingSteps, At, TargetRow, uploadVars
    <3> QED BY <1>9, <3>1, <3>2
  <2>4. TargetRow'
    BY <1>1, <2>1, <2>2, <2>3 DEF TargetRow, Within, At, Rests, Kept
  <2>5. WorkersRow'
    BY <1>1, <2>2 DEF WorkersRow
  <2>6. \A k \in Handlers : RequestRow(k)'
    BY <2>1, <2>2 DEF RequestRow, Rests, Kept, UploadSteps, FinalizingSteps, RecordSteps
  <2> QED BY <2>4, <2>5, <2>6 DEF RowInv
<1>10. CASE Publish(h) \/ PublishIndex(h) \/ Unpublish(h)
  <2>1. Kept(h) /\ req'[h].pc \in {"publish_index", "publish_ready", "unpublish_rows", "idle"}
    BY <1>1, <1>10, UploadingTurns DEF Moves, Rests
  <2>2. UNCHANGED <<row, target>> /\ req[h].pc \in UploadSteps /\ ~At(h, "forget")
    BY <1>10 DEF Publish, PublishIndex, Unpublish, At, UploadSteps, uploadVars
  <2>3. row # "none"
    BY <1>1, <2>2 DEF RequestRow
  <2>4. RequestRow(h)'
    BY <1>1, <2>1, <2>2, <2>3 DEF RequestRow, UploadSteps, FinalizingSteps, RecordSteps
  <2> QED BY <1>3, <2>1, <2>2, <2>3, <2>4
<1>11. CASE Delete(h, downloading)
  <2>1. Kept(h) /\ req'[h].pc \in {"delete", "delete_upload"} /\ ~At(h, "forget")
    BY <1>1, <1>11, DeleteTurns DEF At
  <2>2. UNCHANGED <<row, target, label, manifest>>
    BY <1>11 DEF Delete, bucketVars, diskVars, uploadVars
  <2> QED BY <1>3, <2>1, <2>2 DEF RequestRow, UploadSteps, FinalizingSteps, RecordSteps, Labelled
<1>12. CASE AbortUpload(h)
  <2>1. Moves(h, "unpublish") /\ UNCHANGED <<row, target, label, manifest>> /\ ~At(h, "forget")
    BY <1>1, <1>12, UploadingTurns DEF AbortUpload, bucketVars, diskVars, uploadVars, At
  <2>2. row = "uploading"
    BY <1>12 DEF AbortUpload, Strays
  <2> QED BY <1>3, <2>1, <2>2 DEF RequestRow, UploadSteps, FinalizingSteps, RecordSteps, Labelled, Moves
<1>13. CASE UnpublishRows(h)
  <2>1. Rests(h) /\ row # "none" /\ row' = "none" /\ ~target'
    BY <1>1, <1>13, UploadingTurns DEF UnpublishRows, RequestRow, UploadSteps, At
  <2>2. ~Overtakes(h)
    BY <1>13 DEF UnpublishRows, Strays
  <2>3. \A k \in Handlers \ {h} : req[k].pc \in {"idle", "sweep", "sweep_discard", "delete", "delete_upload"}
    BY <2>2, RequestFields, <1>1 DEF Overtakes, Others
  <2>4. \A k \in Handlers : RequestRow(k)'
    BY <2>1, <2>3 DEF RequestRow, Rests, Kept, UploadSteps, FinalizingSteps, RecordSteps
  <2>5. WorkersRow'
    BY <1>1, <2>1 DEF WorkersRow
  <2> QED BY <2>1, <2>4, <2>5 DEF RowInv, TargetRow
<1>14. CASE Remove(h, WorkerRuns)
  <2>1. Kept(h) /\ req'[h].pc \in {"remove", "idle"} /\ UNCHANGED <<row, target, label>> /\ ~At(h, "forget")
    BY <1>1, <1>14, UploadingTurns DEF Moves, Rests, Remove, diskVars, At
  <2>2. manifest' = manifest \/ ~WorkerRuns
    BY <1>14 DEF Remove, Strays, bucketVars
  <2>3. CASE manifest' = manifest
    BY <1>3, <2>1, <2>3 DEF RequestRow, UploadSteps, FinalizingSteps, RecordSteps, Labelled
  <2>4. CASE ~WorkerRuns
    <3>1. WorkersRow'
      BY <2>4 DEF WorkersRow, WorkerRuns
    <3>2. TargetRow'
      BY <1>1, <2>1 DEF TargetRow, Within, At, Kept
    <3>3. \A k \in Handlers : RequestRow(k)'
      BY <2>1 DEF RowInv, RequestRow, Kept, UploadSteps, FinalizingSteps, RecordSteps
    <3> QED BY <3>1, <3>2, <3>3 DEF RowInv
  <2> QED BY <2>2, <2>3, <2>4
<1>15. CASE RemoveFolder(h, WorkerRuns)
  <2>1. Moves(h, "forget") /\ row' = "none" /\ ~Overtakes(h) /\ ~WorkerRuns
    BY <1>1, <1>15, UploadingTurns DEF RemoveFolder, Strays
  <2>2. \A k \in Handlers \ {h} : req[k].pc \in {"idle", "sweep", "sweep_discard", "delete", "delete_upload"}
    BY <2>1, RequestFields, <1>1 DEF Overtakes, Others
  <2>3. \A k \in Handlers : RequestRow(k)'
    BY <2>1, <2>2 DEF RequestRow, Moves, Kept, UploadSteps, FinalizingSteps, RecordSteps
  <2>4. WorkersRow'
    BY <2>1 DEF WorkersRow, WorkerRuns
  <2>5. TargetRow'
    BY <2>1 DEF TargetRow, Within, Moves
  <2> QED BY <2>3, <2>4, <2>5 DEF RowInv
<1>16. CASE Forget(h)
  <2>1. Rests(h) /\ row' = row /\ ~target' /\ row = "none" /\ UNCHANGED <<label, manifest>>
    BY <1>1, <1>16, UploadingTurns DEF Forget, Strays, diskVars, bucketVars
  <2>2. \A k \in Handlers : RequestRow(k)'
    BY <2>1 DEF RowInv, RequestRow, Rests, Kept, UploadSteps, FinalizingSteps, RecordSteps
  <2>3. WorkersRow'
    BY <1>1, <2>1 DEF WorkersRow, Labelled
  <2> QED BY <2>1, <2>2, <2>3 DEF RowInv, TargetRow
<1> QED BY <1>2, <1>4, <1>5, <1>6, <1>7, <1>8, <1>9, <1>10, <1>11, <1>12, <1>13, <1>14, <1>15, <1>16 DEF Uploading

LEMMA ChangingKeepsRow ==
    ASSUME LibraryTypeOK, RowInv, NEW h \in Handlers, NEW downloading, Changing(h, downloading), UNCHANGED <<place, downloads>>, strays \subseteq strays'
    PROVE  RowInv'
<1>1. req \in [Handlers -> Request]
  BY DEF LibraryTypeOK
<1>2. UNCHANGED <<row, target>>
  BY DEF Changing, StartChange, StageChunk, AbortChange, Commit, CommitLocks, Apply, ApplyRemovals, Store,
         CommitRemote, FetchCopy, CommitIndex, CommitRecorded, uploadVars
<1>3. Labelled => Labelled'
  BY DEF Changing, StartChange, StageChunk, AbortChange, Commit, CommitLocks, Apply, Rollback, ApplyRemovals, Store,
         CommitRemote, FetchCopy, CommitIndex, CommitRecorded, diskVars, bucketVars, Labelled, Complete, ReplacementManifest
<1>4. ASSUME NEW s \in Sessions, AbortChange(h, s) PROVE RowInv'
  <2>1. \A k \in Handlers : req'[k].pc = req[k].pc /\ req'[k].who = req[k].who
    BY <1>1, <1>4, AbortTurns
  <2> QED BY <1>2, <1>3, <2>1 DEF RowInv, TargetRow, WorkersRow, RequestRow, Within
<1>5. ASSUME ~\E s \in Sessions : AbortChange(h, s) PROVE RowInv'
  <2> DEFINE S == {"commit", "commit_upload", "apply", "store", "fetch", "commit_index", "history", "idle"}
  <2>1. Kept(h) /\ req'[h].pc \in S
    <3>1. ASSUME NEW s \in Sessions, StartChange(h, s) \/ Commit(h, s, downloading) \/ \E f \in Files : StageChunk(h, s, f)
          PROVE  Kept(h) /\ req'[h].pc \in S
      BY <1>1, <3>1, ChangingTurns DEF Rests
    <3>2. CASE CommitLocks(h) \/ CommitRemote(h) \/ Store(h) \/ FetchCopy(h) \/ CommitIndex(h) \/ CommitRecorded(h)
      BY <1>1, <3>2, ChangingTurns DEF Moves, Rests
    <3>3. CASE (\E f \in Files : Apply(h, f)) \/ ApplyRemovals(h)
      BY <1>1, <3>3, ChangingTurns DEF Rests
    <3> QED BY <1>5, <3>1, <3>2, <3>3 DEF Changing
  <2>2. ~At(h, "forget")
    BY <1>5 DEF At, Free, Changing, StartChange, StageChunk, Commit, CommitLocks, Apply, ApplyRemovals, Store,
                CommitRemote, FetchCopy, CommitIndex, CommitRecorded
  <2>3. RequestRow(h)'
    BY <2>1 DEF RequestRow, UploadSteps, FinalizingSteps, RecordSteps
  <2> QED BY <1>2, <1>3, <2>1, <2>2, <2>3, RowKept
<1> QED BY <1>4, <1>5

LEMMA FromTheHubKeepsRow ==
    ASSUME LibraryTypeOK, DownloadsTypeOK, RowInv, NEW h \in Handlers, FromTheHub(h),
           UNCHANGED <<place, uploadVars, sessionVars>>, strays \subseteq strays'
    PROVE  RowInv'
<1>1. req \in [Handlers -> Request] /\ downloads \in [1 .. MaxDownloads -> Download] /\ row' = row /\ target' = target
  BY DEF LibraryTypeOK, DownloadsTypeOK, uploadVars, FromTheHub, StartDownload, Enqueue, Cancel, CancelFolder, CancelRow
<1>2. Starts(h, "enqueue") \/ Starts(h, "cancel") \/ Moves(h, "cancel_row") \/ Rests(h)
  BY <1>1, FromTheHubTurns DEF FromTheHub
<1>3. \A k \in Handlers : RequestRow(k)'
  BY <1>1, <1>2 DEF RowInv, RequestRow, Starts, Moves, Rests, Kept, UploadSteps, FinalizingSteps, RecordSteps
<1>4. req[h].pc # "forget"
  BY DEF FromTheHub, StartDownload, Enqueue, Cancel, CancelFolder, CancelRow, Free, At
<1>5. TargetRow'
  BY <1>1, <1>2, <1>4 DEF RowInv, TargetRow, Within, Starts, Moves, Rests, Kept
<1>6. Labelled => Labelled'
  BY DEF FromTheHub, StartDownload, Enqueue, Cancel, CancelFolder, CancelRow, Labelled, diskVars, bucketVars
<1> DEFINE Past(d) == downloads[d].pc \notin {"none", "submitted"}
           Past1(d) == downloads'[d].pc \notin {"none", "submitted"}
<1>7. DOMAIN downloads' = DOMAIN downloads /\ \A d \in DOMAIN downloads : Past1(d) => Past(d)
  <2> DEFINE started == [NoDownload EXCEPT !.status = "queued", !.pc = "submitted"]
  <2>1. started.pc = "submitted"
    BY DEF NoDownload
  <2>2. CASE Enqueue(h)
    <3>1. PICK d \in DOMAIN downloads : downloads' = [downloads EXCEPT ![d] = started]
      BY <2>2 DEF Enqueue
    <3> HIDE DEF started
    <3> QED BY <1>1, <2>1, <3>1
  <2>3. CASE CancelFolder(h)
    <3> DEFINE told == downloads[req[h].job].pc # "none"
    <3>1. downloads' = [downloads EXCEPT ![req[h].job].cancel = told]
      BY <2>3 DEF CancelFolder
    <3> HIDE DEF told
    <3> QED BY <1>1, <3>1 DEF Download
  <2>4. CASE CancelRow(h)
    BY <1>1, <2>4 DEF CancelRow, Download
  <2>5. CASE StartDownload(h) \/ \E d \in DOMAIN downloads : Cancel(h, d)
    BY <2>5 DEF StartDownload, Cancel
  <2> QED BY <2>2, <2>3, <2>4, <2>5 DEF FromTheHub
<1>8. WorkersRow'
  BY <1>1, <1>6, <1>7 DEF RowInv, WorkersRow
<1> QED BY <1>3, <1>5, <1>8 DEF RowInv

LEMMA StopsOne ==
    ASSUME downloads \in [1 .. MaxDownloads -> Download], NEW d \in DOMAIN downloads, NEW status, Stops(d, status)
    PROVE  /\ DOMAIN downloads' = DOMAIN downloads /\ downloads'[d].pc = "none"
           /\ \A e \in DOMAIN downloads \ {d} : downloads'[e] = downloads[e]
BY DEF Stops, Download

LEMMA WorkerKeepsRow ==
    ASSUME LibraryTypeOK, DownloadsTypeOK, RowInv, NEW d \in DOMAIN downloads, Worker(d), "late" \notin strays',
           UNCHANGED <<place, uploadVars, sessionVars>>, strays \subseteq strays'
    PROVE  RowInv'
<1>1. downloads \in [1 .. MaxDownloads -> Download] /\ UNCHANGED <<req, row, target, place>>
  BY WorkerRequests DEF DownloadsTypeOK, uploadVars
<1>2. TargetRow' /\ \A k \in Handlers : RequestRow(k)'
  BY <1>1 DEF RowInv, TargetRow, Within, RequestRow
<1>3. Labelled \/ Prepare(d) => Labelled' \/ UNCHANGED <<label, manifest>>
  BY DEF Worker, Prepare, FetchFile, MonitorLooks, MonitorWrites, Fetched, SyncDownload, IndexDownload, FinishDownload,
         Labelled, Complete, diskVars, bucketVars
<1>4. \A e \in DOMAIN downloads' : e \in DOMAIN downloads /\
        (downloads'[e].pc \notin {"none", "submitted"} => downloads[e].pc \notin {"none", "submitted"} \/ (Prepare(d) /\ e = d))
  <2>1. CASE Prepare(d) \/ Fetched(d) \/ SyncDownload(d)
    <3>1. CASE Stops(d, "cancelled") \/ Stops(d, "failed") \/ Stops(d, IF downloads[d].cancel THEN "cancelled" ELSE "failed")
      BY <1>1, <3>1, StopsOne
    <3>2. CASE Prepare(d) /\ downloads' = [downloads EXCEPT ![d].pc = "fetching", ![d].status = "preparing"]
      BY <1>1, <3>2 DEF Download
    <3>3. CASE Fetched(d) /\ downloads' = [downloads EXCEPT ![d].pc = "sync"]
      BY <1>1, <3>3 DEF Download, Fetched, Working
    <3>4. CASE SyncDownload(d) /\ downloads' = [downloads EXCEPT ![d].pc = "index"]
      BY <1>1, <3>4 DEF Download, SyncDownload, Working
    <3>5. Prepare(d) => Stops(d, "cancelled") \/ Stops(d, "failed") \/ downloads' = [downloads EXCEPT ![d].pc = "fetching", ![d].status = "preparing"]
      BY DEF Prepare
    <3>6. Fetched(d) => Stops(d, IF downloads[d].cancel THEN "cancelled" ELSE "failed") \/ downloads' = [downloads EXCEPT ![d].pc = "sync"]
      BY DEF Fetched
    <3>7. SyncDownload(d) => Stops(d, "failed") \/ downloads' = [downloads EXCEPT ![d].pc = "index"]
      BY DEF SyncDownload
    <3> QED BY <2>1, <3>1, <3>2, <3>3, <3>4, <3>5, <3>6, <3>7
  <2>2. CASE MonitorLooks(d) \/ MonitorWrites(d)
    <3>1. PICK new \in {[downloads[d] EXCEPT !.monitor = TRUE], [downloads[d] EXCEPT !.monitor = FALSE, !.status = "downloading"]} :
            downloads' = [downloads EXCEPT ![d] = new]
      BY <1>1, <2>2 DEF MonitorLooks, MonitorWrites, Download
    <3>2. new.pc = downloads[d].pc
      BY <1>1 DEF Download
    <3> QED BY <1>1, <3>1, <3>2
  <2>3. CASE IndexDownload(d) \/ FinishDownload(d)
    BY <1>1, <2>3 DEF IndexDownload, FinishDownload, Download, Working
  <2>4. CASE \E f \in Files : FetchFile(d, f)
    BY <1>1, <2>4 DEF FetchFile
  <2> QED BY <2>1, <2>2, <2>3, <2>4 DEF Worker
<1>5. ASSUME Prepare(d), downloads'[d].pc \notin {"none", "submitted"} PROVE row = "none" /\ Labelled'
  <2>1. ~Stops(d, "cancelled") /\ ~Stops(d, "failed")
    BY <1>1, <1>5, StopsOne
  <2>2. label' = "downloading" /\ strays' = strays \union (IF row # "none" THEN {"late"} ELSE {})
                                    \union (IF AtWork THEN {"update"} ELSE {})
    BY <1>5, <2>1 DEF Prepare
  <2> QED BY <1>1, <2>2 DEF Labelled, LibraryTypeOK
<1>6. Labelled => Labelled'
  BY <1>3 DEF Labelled
<1>7. WorkersRow'
  BY <1>1, <1>4, <1>5, <1>6 DEF RowInv, WorkersRow
<1> QED BY <1>2, <1>7 DEF RowInv

LEMMA RowStep ==
    ASSUME LifeInv, PlaceInv, LockInv, Timely => RowInv, [Next]_vars
    PROVE  Timely' => RowInv'
<1>1. LibraryTypeOK /\ UploadsTypeOK /\ DownloadsTypeOK
  BY DEF LifeInv, TypeOK
<1> SUFFICES ASSUME Timely' PROVE RowInv'
  OBVIOUS
<1>2. RowInv /\ "late" \notin strays' /\ strays \subseteq strays'
  BY StraysGrow, TimelyBefore
<1>3. ASSUME UNCHANGED <<place, row, target, label, manifest, downloads>>, \A k \in Handlers : req'[k].pc = req[k].pc /\ req'[k].who = req[k].who
      PROVE  RowInv'
  BY <1>2, <1>3 DEF RowInv, TargetRow, WorkersRow, RequestRow, Within, Labelled
<1>4. ASSUME NEW x \in open, PartsSent(x), UNCHANGED <<place, downloads>> PROVE RowInv'
  BY <1>3, <1>4 DEF PartsSent, requestVars, bucketVars, diskVars
<1>5. ASSUME UNCHANGED vars PROVE RowInv'
  BY <1>3, <1>5 DEF vars, requestVars, bucketVars, diskVars, uploadVars
<1>6. ASSUME Restart, UNCHANGED <<place, uploadVars, sessionVars>> PROVE RowInv'
  <2>1. (\A k \in Handlers : req[k].pc = "idle") \/ "restart" \in strays'
    BY <1>2, <1>6 DEF Restart, Strays, At
  <2>2. \A k \in Handlers : req'[k].pc = "idle"
    BY <1>6 DEF Restart, Idle
  <2>3. DOMAIN downloads' = DOMAIN downloads /\ \A d \in DOMAIN downloads : downloads'[d].pc \in {"none", "submitted"}
    BY <1>6 DEF Restart, Resume, NoDownload
  <2>4. UNCHANGED <<row, target>>
    BY <1>6 DEF Restart, uploadVars
  <2> QED BY <1>2, <1>6, <2>1, <2>2, <2>3, <2>4
          DEF RowInv, TargetRow, WorkersRow, RequestRow, Within, UploadSteps, FinalizingSteps, RecordSteps
<1>7. ASSUME NEW h \in Handlers, Cache(h, ActiveDownload, WorkerRuns), UNCHANGED <<place, uploadVars, sessionVars, downloads>>
      PROVE  RowInv'
  BY <1>1, <1>2, <1>7, CacheKeepsRow
<1>8. ASSUME NEW h \in Handlers, Uploading(h, ActiveDownload, WorkerRuns) \/ Changing(h, ActiveDownload), UNCHANGED <<place, downloads>>
      PROVE  RowInv'
  BY <1>1, <1>2, <1>8, UploadingKeepsRow, ChangingKeepsRow
<1>9. ASSUME NEW h \in Handlers, FromTheHub(h), UNCHANGED <<place, uploadVars, sessionVars>> PROVE RowInv'
  BY <1>1, <1>2, <1>9, FromTheHubKeepsRow
<1>10. ASSUME NEW d \in DOMAIN downloads, Worker(d), UNCHANGED <<place, uploadVars, sessionVars>> PROVE RowInv'
  BY <1>1, <1>2, <1>10, WorkerKeepsRow
<1> QED BY <1>4, <1>5, <1>6, <1>7, <1>8, <1>9, <1>10 DEF Next

LEMMA RowStart == Init => RowInv
<1> SUFFICES ASSUME Init PROVE RowInv
  OBVIOUS
<1>1. \A h \in Handlers : req[h].pc = "idle"
  BY DEF Init, Idle
<1>2. \A h \in Handlers : RequestRow(h)
  BY <1>1 DEF RequestRow, UploadSteps, FinalizingSteps, RecordSteps
<1>3. TargetRow
  <2>1. CASE NewName \/ Queued
    BY <2>1 DEF NewName, Queued, NoUploads, TargetRow
  <2>2. CASE Uploaded \/ Downloaded
    BY <2>2 DEF Uploaded, Downloaded, OpenSessions, TargetRow
  <2>3. ASSUME NEW arrived \in SUBSET Files, Unfinished(arrived) PROVE TargetRow
    BY <2>3 DEF Unfinished, NoUploads, TargetRow
  <2> QED BY <2>1, <2>2, <2>3 DEF Init
<1>4. \A d \in DOMAIN downloads :
        \/ downloads[d] = NoDownload
        \/ downloads[d] = [NoDownload EXCEPT !.status = "queued", !.pc = "submitted"]
  BY DEF Init, NewName, Unfinished, Uploaded, Downloaded, Queued, NoDownloads
<1>5. WorkersRow
  <2> DEFINE started == [NoDownload EXCEPT !.status = "queued", !.pc = "submitted"]
  <2>1. NoDownload.pc = "none" /\ started.pc = "submitted"
    BY DEF NoDownload
  <2>2. \A d \in DOMAIN downloads : downloads[d] = NoDownload \/ downloads[d] = started
    BY <1>4
  <2> HIDE DEF started
  <2> QED BY <2>1, <2>2 DEF WorkersRow
<1> QED BY <1>2, <1>3, <1>5 DEF RowInv

----------------------------------------------------------------------------
(* What is not finalized is not shown: it has no row in the index and no     *)
(* manifest in the bucket, the label in its folder says that it is on its    *)
(* way unless a request is storing it, and no request has seen more.         *)
ShowingSteps == {"finalize_index", "finalize_ready", "publish_index", "publish_ready"}
SeenSteps == {"restore", "restore_index", "evict", "evict_index", "commit", "commit_upload",
              "apply", "store", "fetch", "commit_index"}
Unready == {"uploading", "downloading", "cancelled"}
Hidden ==
    /\ row = "uploading" /\ ~Within(ShowingSteps)
    /\ \/ place = "direct" \/ "finalizing" \notin strays
       \/ "failed" \notin strays /\ ~Within({"finalize_sync"})
LabelInv ==
    /\ Within({"finalize_sync"}) \/ (IF place = "direct" THEN ~FolderExists ELSE label \in Unready)
    /\ place # "direct" => label # "none"
Unseeing(h) ==
    /\ req[h].pc \notin SeenSteps
    /\ req[h].pc = "scan_index" => req[h].kind = "none"
    /\ req[h].pc = "finalize_sync" => req[h].kind \in Unready
Unshown == model = NoModel /\ manifest = "none" /\ LabelInv /\ \A h \in Handlers : Unseeing(h)
HiddenInv == Hidden => Unshown

LEMMA HiddenBefore ==
    ASSUME NEW h \in Handlers, Kept(h), UNCHANGED <<place, row>>, strays \subseteq strays',
           req[h].pc \in ShowingSteps => req'[h].pc \in ShowingSteps,
           req[h].pc = "finalize_sync" => "failed" \in strays', Hidden'
    PROVE  Hidden
BY DEF Hidden, Within, Kept

LEMMA UnshownStays ==
    ASSUME Unshown, NEW h \in Handlers, Kept(h), UNCHANGED <<model, manifest>>, LabelInv', Unseeing(h)'
    PROVE  Unshown'
BY DEF Unshown, Unseeing, Kept

LEMMA LabelStays ==
    ASSUME LabelInv, NEW h \in Handlers, Kept(h), req[h].pc # "finalize_sync", UNCHANGED <<place, diskVars>>
    PROVE  LabelInv'
BY DEF LabelInv, Within, Kept, diskVars, FolderExists

LEMMA CacheKeepsHidden ==
    ASSUME LibraryTypeOK, RowInv, HiddenInv, NEW h \in Handlers, NEW downloading, Cache(h, downloading, WorkerRuns),
           UNCHANGED <<place, uploadVars, sessionVars, downloads>>, strays \subseteq strays', Hidden'
    PROVE  Unshown'
<1>1. req \in [Handlers -> Request] /\ model \in Model
  BY DEF LibraryTypeOK
<1>2. UNCHANGED row /\ req[h].pc \notin ShowingSteps /\ req[h].pc # "finalize_sync"
  BY DEF Cache, Scan, ScanFolder, ScanList, ScanIndex, ScanCommit, ScanLocal, Restore, RestoreFiles,
         RestoreIndex, Evict, EvictFolder, EvictIndex, Free, At, ShowingSteps
<1>3. Kept(h)
  <2>1. /\ Scan(h) \/ Restore(h, downloading) \/ Evict(h, downloading) => Kept(h)
        /\ ScanFolder(h, WorkerRuns) \/ ScanIndex(h) \/ ScanCommit(h) \/ ScanLocal(h) => Kept(h)
        /\ RestoreFiles(h) \/ RestoreIndex(h) \/ EvictIndex(h) => Kept(h)
        /\ ScanList(h) \/ EvictFolder(h, WorkerRuns) => Kept(h)
    BY <1>1, CacheTurns DEF Starts, Moves, Rests
  <2> QED BY <2>1 DEF Cache
<1>4. Hidden /\ Unshown
  BY <1>2, <1>3, HiddenBefore DEF HiddenInv
<1>5. model = NoModel /\ model.target = "none" /\ manifest = "none" /\ LabelInv /\ Unseeing(h)
  BY <1>4 DEF Unshown, NoModel
<1>6. CASE Restore(h, downloading) \/ Evict(h, downloading) \/ RestoreFiles(h) \/ RestoreIndex(h)
           \/ EvictFolder(h, WorkerRuns) \/ EvictIndex(h)
  BY <1>5, <1>6 DEF Restore, Evict, RestoreFiles, RestoreIndex, EvictFolder, EvictIndex, At, Unseeing, SeenSteps
<1>7. CASE Scan(h) \/ ScanList(h) \/ ScanCommit(h) \/ ScanLocal(h)
  <2>1. UNCHANGED <<model, manifest, diskVars>>
    BY <1>7 DEF Scan, ScanList, ScanCommit, ScanLocal, bucketVars
  <2>2. LabelInv'
    BY <1>2, <1>3, <1>5, <2>1, LabelStays
  <2>3. req'[h].pc \in {"scan", "scan_local", "sweep"} \/ (req'[h].pc = "scan_index" /\ req'[h].kind = manifest)
    BY <1>1, <1>5, <1>7, CacheTurns DEF Starts, Moves
  <2>4. Unseeing(h)'
    BY <1>5, <2>3 DEF Unseeing, SeenSteps
  <2> QED BY <1>3, <1>4, <2>1, <2>2, <2>4, UnshownStays
<1>8. CASE ScanIndex(h)
  <2>1. UNCHANGED <<model, manifest, diskVars>>
    BY <1>5, <1>8 DEF ScanIndex, bucketVars, Unseeing, At
  <2>2. LabelInv'
    BY <1>2, <1>3, <1>5, <2>1, LabelStays
  <2>3. req'[h].pc \in {"scan_commit", "scan_local"}
    BY <1>1, <1>8, CacheTurns DEF Moves
  <2> QED BY <1>3, <1>4, <2>1, <2>2, <2>3, UnshownStays DEF Unseeing, SeenSteps
<1>9. CASE ScanFolder(h, WorkerRuns)
  <2>1. ~Candidate
    <3>1. CASE Within({"finalize_sync"})
      <4>1. PICK k \in Handlers : req[k].pc = "finalize_sync"
        BY <3>1 DEF Within
      <4>2. place # "direct"
        BY <1>4, <4>1 DEF RowInv, RequestRow, FinalizingSteps, Hidden
      <4>3. "finalizing" \notin strays'
        BY <1>2, <1>3, <4>1, <4>2 DEF Hidden, Within, Kept
      <4>4. Others(h, StoringSteps)
        BY <1>2, <4>1 DEF Others, StoringSteps
      <4> QED BY <1>9, <4>3, <4>4 DEF ScanFolder, Strays
    <3>2. CASE ~Within({"finalize_sync"})
      BY <1>5, <3>2 DEF LabelInv, FolderExists, Candidate, Unready, Complete
    <3> QED BY <3>1, <3>2
  <2>2. UNCHANGED <<model, manifest, diskVars>>
    BY <1>5, <1>9, <2>1 DEF ScanFolder, bucketVars
  <2>3. LabelInv'
    BY <1>2, <1>3, <1>5, <2>2, LabelStays
  <2>4. req'[h].pc \in {"scan_local", "scan_list"}
    BY <1>1, <1>9, CacheTurns DEF Moves
  <2> QED BY <1>3, <1>4, <2>2, <2>3, <2>4, UnshownStays DEF Unseeing, SeenSteps
<1> QED BY <1>6, <1>7, <1>8, <1>9 DEF Cache

LEMMA FromTheHubKeepsHidden ==
    ASSUME LibraryTypeOK, HiddenInv, NEW h \in Handlers, FromTheHub(h),
           UNCHANGED <<place, uploadVars, sessionVars>>, strays \subseteq strays', Hidden'
    PROVE  Unshown'
<1>1. req \in [Handlers -> Request]
  BY DEF LibraryTypeOK
<1>2. UNCHANGED <<row, model, manifest, folder, parts>> /\ req[h].pc \in {"idle", "enqueue", "cancel", "cancel_row"}
  BY DEF FromTheHub, StartDownload, Enqueue, Cancel, CancelFolder, CancelRow, Free, At, diskVars, bucketVars
<1>3. Kept(h) /\ req'[h].pc \in {"enqueue", "cancel", "cancel_row", "idle"}
  <2>1. Starts(h, "enqueue") \/ Starts(h, "cancel") \/ Moves(h, "cancel_row") \/ Rests(h)
    BY <1>1, FromTheHubTurns DEF FromTheHub
  <2> QED BY <2>1 DEF Starts, Moves, Rests
<1>4. Hidden /\ Unshown
  BY <1>2, <1>3, HiddenBefore DEF HiddenInv, ShowingSteps
<1>5. label' = label \/ (label' = "cancelled" /\ FolderExists)
  BY DEF FromTheHub, StartDownload, Enqueue, Cancel, CancelFolder, CancelRow, diskVars
<1>6. LabelInv'
  BY <1>2, <1>3, <1>4, <1>5 DEF Unshown, LabelInv, Within, Kept, FolderExists, Unready
<1> QED BY <1>2, <1>3, <1>4, <1>6, UnshownStays DEF Unseeing, SeenSteps

LEMMA WorkerKeepsHidden ==
    ASSUME LibraryTypeOK, DownloadsTypeOK, RowInv, HiddenInv, NEW d \in DOMAIN downloads, Worker(d), "late" \notin strays',
           UNCHANGED <<place, uploadVars, sessionVars>>, strays \subseteq strays', Hidden'
    PROVE  Unshown'
<1>1. UNCHANGED <<req, row>>
  BY WorkerRequests
<1>2. Hidden /\ Unshown /\ row = "uploading"
  BY <1>1 DEF Hidden, Within, HiddenInv
<1>3. downloads[d].pc \in {"none", "submitted"}
  BY <1>2 DEF RowInv, WorkersRow
<1>4. UNCHANGED <<model, manifest, diskVars>>
  BY <1>2, <1>3 DEF Worker, Prepare, FetchFile, MonitorLooks, MonitorWrites, Fetched, SyncDownload, IndexDownload, FinishDownload,
       Working, diskVars, bucketVars
<1> QED BY <1>1, <1>2, <1>4 DEF Unshown, LabelInv, Unseeing, Within, diskVars, FolderExists

LEMMA ChangingKeepsHidden ==
    ASSUME LibraryTypeOK, HiddenInv, NEW h \in Handlers, NEW downloading, Changing(h, downloading),
           UNCHANGED <<place, downloads>>, strays \subseteq strays', Hidden'
    PROVE  Unshown'
<1>1. req \in [Handlers -> Request] /\ UNCHANGED row
  BY DEF LibraryTypeOK, Changing, StartChange, StageChunk, AbortChange, Commit, CommitLocks, Apply, ApplyRemovals, Store,
         CommitRemote, FetchCopy, CommitIndex, CommitRecorded
<1>2. ASSUME NEW s \in Sessions, AbortChange(h, s) PROVE Unshown'
  <2>1. \A k \in Handlers : req'[k].pc = req[k].pc /\ (req[k].pc \notin {"apply", "store"} => req'[k] = req[k])
    BY <1>1, <1>2, AbortTurns
  <2>2. Hidden /\ Unshown
    BY <1>1, <2>1 DEF Hidden, Within, HiddenInv
  <2>3. UNCHANGED <<model, manifest, label, folder, parts>>
    BY <1>2 DEF AbortChange, bucketVars, diskVars
  <2> QED BY <2>1, <2>2, <2>3 DEF Unshown, Unseeing, LabelInv, Within, FolderExists, SeenSteps
<1>3. ASSUME ~\E s \in Sessions : AbortChange(h, s) PROVE Unshown'
  <2>1. Kept(h) /\ req'[h].pc \in {"commit", "commit_upload", "apply", "store", "fetch", "commit_index", "history", "idle"}
    <3>1. ASSUME NEW s \in Sessions, StartChange(h, s) \/ Commit(h, s, downloading) \/ \E f \in Files : StageChunk(h, s, f)
          PROVE  Kept(h) /\ req'[h].pc \in {"commit", "commit_upload", "idle"}
      BY <1>1, <3>1, ChangingTurns DEF Rests
    <3>2. CASE CommitLocks(h) \/ CommitRemote(h) \/ Store(h) \/ FetchCopy(h) \/ CommitIndex(h) \/ CommitRecorded(h)
      BY <1>1, <3>2, ChangingTurns DEF Moves, Rests
    <3>3. CASE (\E f \in Files : Apply(h, f)) \/ ApplyRemovals(h)
      BY <1>1, <3>3, ChangingTurns DEF Rests
    <3> QED BY <1>3, <3>1, <3>2, <3>3 DEF Changing
  <2>2. req[h].pc \notin ShowingSteps /\ req[h].pc # "finalize_sync"
    BY <1>3 DEF At, Free, Changing, StartChange, StageChunk, Commit, CommitLocks, Apply, ApplyRemovals, Store,
                CommitRemote, FetchCopy, CommitIndex, CommitRecorded, ShowingSteps
  <2>3. Hidden /\ Unshown
    BY <1>1, <2>1, <2>2, HiddenBefore DEF HiddenInv
  <2>4. model = NoModel /\ Unseeing(h)
    BY <2>3 DEF Unshown
  <2>5. \/ \E s \in Sessions : StartChange(h, s) \/ \E f \in Files : StageChunk(h, s, f)
        \/ CommitRecorded(h)
    BY <1>3, <2>4 DEF Changing, Commit, CommitLocks, Apply, ApplyRemovals, Store, CommitRemote, FetchCopy, CommitIndex,
                      At, Unseeing, SeenSteps
  <2>6. UNCHANGED <<model, manifest, diskVars>> /\ req'[h].pc = "idle"
    <3>1. UNCHANGED <<model, manifest, diskVars>>
      BY <2>5 DEF StartChange, StageChunk, CommitRecorded, bucketVars
    <3>2. Rests(h)
      BY <1>1, <2>5, ChangingTurns
    <3> QED BY <3>1, <3>2 DEF Rests
  <2>7. LabelInv'
    BY <2>1, <2>2, <2>3, <2>6, LabelStays DEF Unshown
  <2> QED BY <2>1, <2>3, <2>6, <2>7, UnshownStays DEF Unseeing, SeenSteps
<1> QED BY <1>2, <1>3

LEMMA UploadingKeepsHidden ==
    ASSUME LibraryTypeOK, UploadsTypeOK, PlaceInv, RowInv, HiddenInv, NEW h \in Handlers, NEW downloading,
           Uploading(h, downloading, WorkerRuns), UNCHANGED <<place, downloads>>, "late" \notin strays',
           strays \subseteq strays', Hidden'
    PROVE  Unshown'
<1>1. /\ req \in [Handlers -> Request] /\ row \in {"none", "uploading", "ready"} /\ RequestRow(h) /\ StatePlaced
      /\ row' = "uploading"
  BY DEF LibraryTypeOK, RowInv, PlaceInv, Hidden
<1>2. CASE CreateUpload(h)
  <2>1. Rests(h) /\ ~Remembered(h)
    BY <1>1, <1>2, UploadingTurns DEF CreateUpload, Strays
  <2>2. \A k \in Handlers \ {h} : req[k].pc \notin RememberingSteps /\ (req[k].pc = "scan_index" => req[k].kind = "none")
    BY <2>1 DEF Remembered
  <2>3. SeenSteps \subseteq RememberingSteps /\ "finalize_sync" \in RememberingSteps
    BY DEF SeenSteps, RememberingSteps, StoringSteps, CacheSteps, WaitingSteps
  <2>4. \A k \in Handlers : Unseeing(k)'
    BY <2>1, <2>2, <2>3 DEF Unseeing, Kept, Rests, SeenSteps
  <2>5. model' = NoModel /\ manifest' = "none"
    BY <1>1, <1>2 DEF CreateUpload, NameFree, StatePlaced, bucketVars
  <2>6. UNCHANGED <<folder, parts>> /\ ~FolderExists /\ (IF place = "direct" THEN label' = label ELSE label' = "uploading")
    BY <1>2 DEF CreateUpload, NameFree
  <2>7. LabelInv'
    BY <2>6 DEF LabelInv, FolderExists, Unready
  <2> QED BY <2>4, <2>5, <2>7 DEF Unshown
<1>3. ASSUME Kept(h), UNCHANGED row, req[h].pc \in ShowingSteps => req'[h].pc \in ShowingSteps,
             req[h].pc = "finalize_sync" => "failed" \in strays'
      PROVE  Hidden /\ Unshown /\ Unseeing(h)
  BY <1>3, HiddenBefore DEF HiddenInv, Unshown
<1>4. ASSUME NEW step, Starts(h, step) \/ Rests(h), UNCHANGED <<row, model, manifest, diskVars>>,
             step \notin SeenSteps, step # "scan_index", step # "finalize_sync",
             req[h].pc \notin ShowingSteps, req[h].pc # "finalize_sync"
      PROVE  Unshown'
  <2>1. Kept(h) /\ (req'[h].pc = step \/ req'[h].pc = "idle")
    BY <1>4 DEF Starts, Rests
  <2>2. Unshown
    BY <1>3, <1>4, <2>1
  <2>3. LabelInv'
    BY <1>4, <2>1, <2>2, LabelStays DEF Unshown
  <2> QED BY <1>4, <2>1, <2>2, <2>3, UnshownStays DEF Unseeing, SeenSteps
<1>5. CASE (\E f \in Files : Chunk(h, f)) \/ Finalize(h) \/ BeginRecord(h) \/ CompleteRecord(h) \/ SweepDiscard(h)
  <2>1. UNCHANGED <<row, model, manifest, diskVars>>
    BY <1>5 DEF Chunk, Finalize, BeginRecord, CompleteRecord, SweepDiscard, bucketVars
  <2>2. Rests(h) \/ Starts(h, "chunk") \/ Starts(h, "publish") \/ Starts(h, "finalize")
    BY <1>1, <1>5, UploadingTurns
  <2>3. req[h].pc \notin ShowingSteps /\ req[h].pc # "finalize_sync"
    BY <1>5 DEF Chunk, Finalize, BeginRecord, CompleteRecord, SweepDiscard, Free, At, ShowingSteps
  <2> QED BY <1>4, <2>1, <2>2, <2>3 DEF SeenSteps
<1>6. ASSUME NEW w \in Sessions \union {Upload}, NEW f \in Files, BeginFile(h, w, f) \/ CompleteFile(h, w, f)
      PROVE  Unshown'
  <2>1. UNCHANGED <<row, model, manifest, diskVars>>
    BY <1>6 DEF BeginFile, CompleteFile, bucketVars
  <2>2. Rests(h) \/ Starts(h, "begin_record") \/ Starts(h, "complete_record")
    BY <1>1, <1>6, UploadingTurns
  <2>3. req[h].pc \notin ShowingSteps /\ req[h].pc # "finalize_sync"
    BY <1>6 DEF BeginFile, CompleteFile, Free, ShowingSteps
  <2> QED BY <1>4, <2>1, <2>2, <2>3 DEF SeenSteps
<1>7. ASSUME Kept(h), UNCHANGED <<row, model, diskVars>>, manifest' = manifest \/ manifest' = "none",
             req'[h].pc \in {"idle", "sweep_discard", "delete", "delete_upload", "unpublish", "unpublish_rows", "remove"},
             req[h].pc \notin ShowingSteps, req[h].pc # "finalize_sync"
      PROVE  Unshown'
  <2>1. Unshown
    BY <1>3, <1>7
  <2>2. LabelInv' /\ manifest' = manifest
    BY <1>7, <2>1, LabelStays DEF Unshown
  <2> QED BY <1>7, <2>1, <2>2, UnshownStays DEF Unseeing, SeenSteps
<1>8. CASE SweepList(h) \/ Delete(h, downloading) \/ AbortUpload(h) \/ Unpublish(h) \/ Remove(h, WorkerRuns)
  <2>1. Kept(h) /\ req'[h].pc \in {"idle", "sweep_discard", "delete", "delete_upload", "unpublish", "unpublish_rows", "remove"}
    <3>1. CASE Delete(h, downloading)
      BY <1>1, <3>1, DeleteTurns
    <3> QED BY <1>1, <1>8, <3>1, UploadingTurns DEF Moves, Rests
  <2>2. UNCHANGED <<row, model, diskVars>> /\ (manifest' = manifest \/ manifest' = "none")
    BY <1>8 DEF SweepList, Delete, AbortUpload, Unpublish, Remove, bucketVars
  <2>3. req[h].pc \notin ShowingSteps /\ req[h].pc # "finalize_sync"
    BY <1>8 DEF SweepList, Delete, AbortUpload, Unpublish, Remove, Free, At, ShowingSteps
  <2> QED BY <1>7, <2>1, <2>2, <2>3
<1>9. CASE ChunkWritten(h)
  <2>1. Rests(h) /\ UNCHANGED <<row, model, manifest, label>> /\ req[h].pc = "chunk"
    BY <1>1, <1>9, UploadingTurns DEF ChunkWritten, bucketVars, At
  <2>2. Unshown /\ place # "direct"
    BY <1>1, <1>3, <2>1 DEF Rests, ShowingSteps, RequestRow, FinalizingSteps
  <2>3. LabelInv'
    BY <2>1, <2>2 DEF Unshown, LabelInv, Within, Rests, Kept
  <2> QED BY <2>1, <2>2, <2>3, UnshownStays DEF Rests, Unseeing, SeenSteps
<1>10. CASE FinalizeChecked(h)
  <2>1. Kept(h) /\ UNCHANGED <<row, model, manifest, folder, parts>> /\ req[h].pc = "finalize" /\ RepoLock(h)
    BY <1>1, <1>10, UploadingTurns DEF FinalizeChecked, bucketVars, At, Rests
  <2>2. Unshown /\ place # "direct"
    BY <1>1, <1>3, <2>1 DEF ShowingSteps, RequestRow, FinalizingSteps
  <2>3. label \in Unready
    BY <2>1, <2>2 DEF Unshown, LabelInv, RepoLock, Others, Within, StoringSteps
  <2>4. \/ Rests(h) /\ label' = label
        \/ req'[h].pc = "finalize_sync" /\ req'[h].kind = label /\ label' = "owned"
    BY <1>1, <1>10, UploadingTurns DEF FinalizeChecked
  <2>5. LabelInv' /\ Unseeing(h)'
    BY <2>2, <2>3, <2>4 DEF LabelInv, Unseeing, Rests, Within, Unready, SeenSteps
  <2> QED BY <2>1, <2>2, <2>5, UnshownStays
<1>11. CASE FinalizeSync(h)
  <2>1. Rests(h) /\ UNCHANGED <<row, model, folder, parts, manifest>> /\ label' = LabelBack(h) /\ "failed" \in strays'
    <3>1. Moves(h, "finalize_index") \/ Rests(h)
      BY <1>1, <1>11, UploadingTurns
    <3>2. ~Moves(h, "finalize_index")
      BY DEF Hidden, Within, Moves, ShowingSteps
    <3>3. ~GoesTo(h, "finalize_index")
      BY <1>1, <3>2, GoesOn
    <3> QED BY <1>11, <3>1, <3>2, <3>3 DEF FinalizeSync, Strays
  <2>2. req[h].pc = "finalize_sync" /\ place # "direct"
    BY <1>1, <1>11, <2>1 DEF FinalizeSync, At, RequestRow, FinalizingSteps
  <2>3. Unshown /\ Unseeing(h)
    BY <1>3, <2>1, <2>2 DEF Rests, ShowingSteps
  <2>4. req[h].kind \in Unready /\ label # "none"
    BY <2>2, <2>3 DEF Unseeing, Unshown, LabelInv
  <2>5. label' \in Unready
    BY <2>1, <2>4 DEF LabelBack, FolderExists, Unready
  <2>6. LabelInv'
    BY <2>2, <2>5 DEF LabelInv, Unready
  <2> QED BY <2>1, <2>3, <2>6, UnshownStays DEF Rests, Unseeing, SeenSteps
<1>12. CASE Publish(h)
  <2>1. Moves(h, "publish_index") \/ Rests(h)
    BY <1>1, <1>12, UploadingTurns
  <2>2. ~Moves(h, "publish_index")
    BY DEF Hidden, Within, Moves, ShowingSteps
  <2>3. ~GoesTo(h, "publish_index")
    BY <1>1, <2>2, GoesOn
  <2>4. UNCHANGED <<row, model, manifest, diskVars>> /\ req[h].pc = "publish"
    BY <1>12, <2>3 DEF Publish, At
  <2> QED BY <1>7, <2>1, <2>2, <2>4 DEF Rests, ShowingSteps
<1>13. ~FinalizeIndex(h) /\ ~PublishIndex(h)
  <2>1. ~Moves(h, "finalize_ready") /\ ~Moves(h, "publish_ready")
    BY DEF Hidden, Within, Moves, ShowingSteps
  <2> QED BY <1>1, <2>1, UploadingTurns
<1>14. ~FinalizeReady(h) /\ ~PublishReady(h) /\ ~UnpublishRows(h) /\ ~RemoveFolder(h, WorkerRuns) /\ ~Forget(h)
  <2>1. Forget(h) => row = "none" /\ row' = row
    BY DEF Forget, Strays
  <2> QED BY <1>1, <2>1 DEF FinalizeReady, PublishReady, UnpublishRows, RemoveFolder, Ready
<1> QED BY <1>2, <1>5, <1>6, <1>8, <1>9, <1>10, <1>11, <1>12, <1>13, <1>14 DEF Uploading

LEMMA HiddenStep ==
    ASSUME LifeInv, PlaceInv, LockInv, Orderly => RowInv /\ HiddenInv, [Next]_vars
    PROVE  Orderly' => HiddenInv'
<1>1. LibraryTypeOK /\ UploadsTypeOK /\ DownloadsTypeOK /\ strays \subseteq strays'
  BY StraysGrow DEF LifeInv, TypeOK
<1> SUFFICES ASSUME Orderly', Hidden' PROVE Unshown'
  BY DEF HiddenInv
<1>2. RowInv /\ HiddenInv /\ "late" \notin strays' /\ "restart" \notin strays'
  BY <1>1, OrderlyBefore
<1>3. ASSUME UNCHANGED <<place, row, model, manifest, diskVars, req>>
      PROVE  Unshown'
  BY <1>1, <1>2, <1>3 DEF HiddenInv, Hidden, Within, Unshown, LabelInv, Unseeing, diskVars, FolderExists
<1>4. ASSUME NEW x \in open, PartsSent(x), UNCHANGED <<place, downloads>> PROVE Unshown'
  BY <1>3, <1>4 DEF PartsSent, requestVars, bucketVars
<1>5. ASSUME UNCHANGED vars PROVE Unshown'
  BY <1>3, <1>5 DEF vars, requestVars, bucketVars
<1>6. ASSUME Restart, UNCHANGED <<place, uploadVars, sessionVars>> PROVE Unshown'
  <2>1. \A k \in Handlers : req[k].pc = "idle"
    BY <1>2, <1>6 DEF Restart, Strays, At
  <2>2. \A k \in Handlers : req'[k].pc = "idle"
    BY <1>6 DEF Restart, Idle
  <2>3. UNCHANGED <<row, model, manifest, diskVars>>
    BY <1>6 DEF Restart, bucketVars
  <2> QED BY <1>1, <1>2, <1>6, <2>1, <2>2, <2>3
          DEF HiddenInv, Hidden, Within, Unshown, LabelInv, Unseeing, diskVars, FolderExists, ShowingSteps, SeenSteps
<1>7. ASSUME NEW h \in Handlers, Cache(h, ActiveDownload, WorkerRuns), UNCHANGED <<place, uploadVars, sessionVars, downloads>>
      PROVE  Unshown'
  BY <1>1, <1>2, <1>7, CacheKeepsHidden
<1>8. ASSUME NEW h \in Handlers, Uploading(h, ActiveDownload, WorkerRuns) \/ Changing(h, ActiveDownload), UNCHANGED <<place, downloads>>
      PROVE  Unshown'
  BY <1>1, <1>2, <1>8, UploadingKeepsHidden, ChangingKeepsHidden
<1>9. ASSUME NEW h \in Handlers, FromTheHub(h), UNCHANGED <<place, uploadVars, sessionVars>> PROVE Unshown'
  BY <1>1, <1>2, <1>9, FromTheHubKeepsHidden
<1>10. ASSUME NEW d \in DOMAIN downloads, Worker(d), UNCHANGED <<place, uploadVars, sessionVars>> PROVE Unshown'
  BY <1>1, <1>2, <1>10, WorkerKeepsHidden
<1> QED BY <1>4, <1>5, <1>6, <1>7, <1>8, <1>9, <1>10 DEF Next

LEMMA HiddenStart == Init => HiddenInv
<1> SUFFICES ASSUME Init, Hidden PROVE Unshown
  BY DEF HiddenInv
<1>1. \A h \in Handlers : req[h].pc = "idle"
  BY DEF Init, Idle
<1>2. PICK arrived \in SUBSET Files : Unfinished(arrived)
  BY DEF Init, NewName, Uploaded, Downloaded, Queued, Hidden
<1>3. model = NoModel /\ manifest = "none"
  BY <1>2 DEF Unfinished
<1>4. LabelInv
  BY <1>2 DEF Unfinished, LabelInv, FolderExists, Unready
<1> QED BY <1>1, <1>3, <1>4 DEF Unshown, Unseeing, SeenSteps

----------------------------------------------------------------------------
(* A file that is recorded as complete, or about to be, belongs to an upload *)
(* or a session that goes straight to the bucket, and is there unless all of *)
(* the repository is being removed.                                          *)
ClosingSteps == RemovingSteps \union {"unpublish_rows"}
Completing(x) == \E h \in Handlers : At(h, "complete_record") /\ File(h) = x
Completed == {x \in DOMAIN records : records[x] = "complete" \/ Completing(x)}
Accepted(x) == IF x[1] = Upload THEN target ELSE x[1] \in DirectSessions
ArrivedWhole(x) == IF x[1] = Upload THEN x[2] \in DOMAIN bucket ELSE x \in area
FilesInv ==
    /\ \A x \in Completed : Accepted(x)
    /\ ~Within(ClosingSteps) => \A x \in Completed : ArrivedWhole(x)

LEMMA CompletedStored == FilesInv => CompleteIsStored
BY DEF FilesInv, CompleteIsStored, Completed, ArrivedWhole, ClosingSteps

LEMMA FilesStay ==
    ASSUME FilesInv, \A x : Completing(x)' => Completing(x), DOMAIN records' \subseteq DOMAIN records,
           \A x \in DOMAIN records' : records'[x] = "complete" => records[x] = "complete" \/ Completing(x),
           \A x \in Completed' : Accepted(x) => Accepted(x)',
           \/ Within(ClosingSteps)' \/ Completed' = {}
           \/ ~Within(ClosingSteps) /\ \A x \in Completed' : Accepted(x) /\ ArrivedWhole(x) => ArrivedWhole(x)'
    PROVE  FilesInv'
<1>1. Completed' \subseteq Completed
  BY DEF Completed
<1>2. \A x \in Completed' : Accepted(x)'
  BY <1>1 DEF FilesInv
<1>3. ~Within(ClosingSteps)' => \A x \in Completed' : ArrivedWhole(x)'
  BY <1>1 DEF FilesInv
<1> QED BY <1>2, <1>3 DEF FilesInv

LEMMA NothingCompletes ==
    ASSUME NEW h \in Handlers, Kept(h), req'[h].pc # "complete_record"
    PROVE  \A x : Completing(x)' => Completing(x)
BY DEF Kept, Completing, At, File

LEMMA FilesUntouched ==
    ASSUME FilesInv, NEW h \in Handlers, Kept(h), req'[h].pc # "complete_record", UNCHANGED <<records, target, session, area>>,
           DOMAIN bucket \subseteq DOMAIN bucket' \/ Within(ClosingSteps)',
           req[h].pc \in ClosingSteps => req'[h].pc \in ClosingSteps
    PROVE  FilesInv'
<1>1. \A x : Accepted(x)' = Accepted(x)
  BY DEF Accepted, DirectSessions
<1>2. \A x : ArrivedWhole(x) => ArrivedWhole(x)' \/ Within(ClosingSteps)'
  BY DEF ArrivedWhole
<1>3. Within(ClosingSteps) => Within(ClosingSteps)'
  BY DEF Within, Kept
<1> QED BY <1>1, <1>2, <1>3, NothingCompletes, FilesStay

LEMMA DiscardDrops ==
    ASSUME NEW slots, NEW gone, Drop(slots), gone \in SUBSET Origins, Dropped(gone) \subseteq slots,
           area' = {x \in area : x[1] \notin gone},
           session' = [s \in Sessions |-> IF s \in gone THEN "none" ELSE session[s]]
    PROVE  /\ DOMAIN records' \subseteq DOMAIN records /\ \A x \in DOMAIN records' : records'[x] = records[x]
           /\ \A x \in DOMAIN records' : /\ x[1] \notin gone /\ (x \in area => x \in area')
                                         /\ x[1] \in DirectSessions => x[1] \in DirectSessions'
BY DEF Drop, Restrict, Dropped, DirectSessions

LEMMA DiscardKeepsFiles ==
    ASSUME FilesInv, NEW gone \in SUBSET Origins, NEW slots, Drop(slots), Dropped(gone) \subseteq slots,
           \A x : Completing(x)' => Completing(x),
           area' = {x \in area : x[1] \notin gone},
           session' = [s \in Sessions |-> IF s \in gone THEN "none" ELSE session[s]],
           target' = target \/ Upload \in gone,
           \/ UNCHANGED bucket /\ Within(ClosingSteps)' = Within(ClosingSteps)
           \/ {Upload} \union DirectSessions \subseteq gone
    PROVE  FilesInv'
<1>1. /\ DOMAIN records' \subseteq DOMAIN records /\ \A x \in DOMAIN records' : records'[x] = records[x]
      /\ \A x \in DOMAIN records' : /\ x[1] \notin gone /\ (x \in area => x \in area')
                                    /\ x[1] \in DirectSessions => x[1] \in DirectSessions'
  BY DiscardDrops
<1>2. Completed' \subseteq Completed
  BY <1>1 DEF Completed
<1>3. \A x \in Completed' : Accepted(x) => Accepted(x)'
  BY <1>1 DEF Accepted, Completed
<1>4. CASE UNCHANGED bucket /\ Within(ClosingSteps)' = Within(ClosingSteps)
  <2>1. \A x \in Completed' : ArrivedWhole(x) => ArrivedWhole(x)'
    BY <1>1, <1>4 DEF ArrivedWhole, Completed
  <2> QED BY <1>1, <1>3, <1>4, <2>1, FilesStay
<1>5. CASE {Upload} \union DirectSessions \subseteq gone
  <2>1. Completed' = {}
    <3> SUFFICES ASSUME NEW x \in Completed' PROVE FALSE
      OBVIOUS
    <3>1. Accepted(x) /\ x[1] \notin gone
      BY <1>1, <1>2 DEF FilesInv, Completed
    <3> QED BY <1>5, <3>1 DEF Accepted
  <2> QED BY <1>1, <1>3, <2>1, FilesStay
<1> QED BY <1>4, <1>5

LEMMA CacheKeepsFiles ==
    ASSUME LibraryTypeOK, FilesInv, NEW h \in Handlers, NEW downloading, NEW fetching, Cache(h, downloading, fetching),
           UNCHANGED <<uploadVars, sessionVars>>
    PROVE  FilesInv'
<1>1. req \in [Handlers -> Request]
  BY DEF LibraryTypeOK
<1> DEFINE S == {"scan", "scan_list", "scan_index", "scan_commit", "scan_local", "sweep", "idle"} \union CacheSteps
<1>2. Kept(h) /\ req'[h].pc \in S
  <2>1. /\ Scan(h) \/ Restore(h, downloading) \/ Evict(h, downloading) => Kept(h) /\ req'[h].pc \in S
        /\ ScanFolder(h, fetching) \/ ScanIndex(h) \/ ScanCommit(h) \/ ScanLocal(h) => Kept(h) /\ req'[h].pc \in S
        /\ RestoreFiles(h) \/ RestoreIndex(h) \/ EvictIndex(h) => Kept(h) /\ req'[h].pc \in S
        /\ ScanList(h) \/ EvictFolder(h, fetching) => Kept(h) /\ req'[h].pc \in S
    BY <1>1, CacheTurns DEF Starts, Moves, Rests, CacheSteps
  <2> QED BY <2>1 DEF Cache
<1>3. UNCHANGED <<records, target, session, area, bucket>> /\ req[h].pc \notin ClosingSteps
  BY DEF Cache, Scan, ScanFolder, ScanList, ScanIndex, ScanCommit, ScanLocal, Restore, RestoreFiles,
         RestoreIndex, Evict, EvictFolder, EvictIndex, Free, At, ClosingSteps, RemovingSteps, uploadVars, sessionVars, bucketVars
<1> QED BY <1>2, <1>3, FilesUntouched DEF CacheSteps

LEMMA FromTheHubKeepsFiles ==
    ASSUME LibraryTypeOK, FilesInv, NEW h \in Handlers, FromTheHub(h), UNCHANGED <<uploadVars, sessionVars>>
    PROVE  FilesInv'
<1>1. req \in [Handlers -> Request]
  BY DEF LibraryTypeOK
<1>2. Kept(h) /\ req'[h].pc \in {"enqueue", "cancel", "cancel_row", "idle"}
  <2>1. Starts(h, "enqueue") \/ Starts(h, "cancel") \/ Moves(h, "cancel_row") \/ Rests(h)
    BY <1>1, FromTheHubTurns DEF FromTheHub
  <2> QED BY <2>1 DEF Starts, Moves, Rests
<1>3. UNCHANGED <<records, target, session, area, bucket>> /\ req[h].pc \notin ClosingSteps
  BY DEF FromTheHub, StartDownload, Enqueue, Cancel, CancelFolder, CancelRow, Free, At, ClosingSteps, RemovingSteps,
         uploadVars, sessionVars, bucketVars
<1> QED BY <1>2, <1>3, FilesUntouched

LEMMA HalfStoredGrows ==
    ASSUME NEW new, bucket' \in HalfStored(new)
    PROVE  DOMAIN bucket \subseteq DOMAIN bucket'
BY DEF HalfStored, Over

LEMMA UploadsThere ==
    ASSUME FilesInv, TargetRow, "restart" \notin strays, HiddenInv, StatePlaced, ~Within(ClosingSteps),
           NEW x \in Completed, x[1] = Upload
    PROVE  row = "uploading" /\ place = "direct" /\ (~Within(ShowingSteps) => Unshown)
<1>1. target
  BY DEF FilesInv, Accepted
<1>2. row = "uploading" /\ place = "direct"
  BY <1>1 DEF TargetRow, StatePlaced, Within, ClosingSteps, RemovingSteps
<1> QED BY <1>2 DEF HiddenInv, Hidden

LEMMA WorkerKeepsFiles ==
    ASSUME FilesInv, RowInv, HiddenInv, StatePlaced, "restart" \notin strays, NEW d \in DOMAIN downloads, Worker(d),
           UNCHANGED <<uploadVars, sessionVars>>
    PROVE  FilesInv'
<1>1. UNCHANGED <<req, records, target, session, area>>
  BY WorkerRequests DEF uploadVars, sessionVars
<1>2. (\A x : (Completing(x)' => Completing(x)) /\ (Accepted(x) => Accepted(x)')) /\ Within(ClosingSteps)' = Within(ClosingSteps)
  BY <1>1 DEF Completing, At, File, Accepted, DirectSessions, Within
<1>3. DOMAIN bucket \subseteq DOMAIN bucket' \/ row = "none"
  <2>1. CASE SyncDownload(d)
    BY <2>1 DEF SyncDownload, Working, RowInv, WorkersRow
  <2>2. CASE ~SyncDownload(d)
    BY <2>2 DEF Worker, Prepare, FetchFile, MonitorLooks, MonitorWrites, Fetched, IndexDownload, FinishDownload, bucketVars
  <2> QED BY <2>1, <2>2
<1>4. ~Within(ClosingSteps)' => \A x \in Completed : Accepted(x) /\ ArrivedWhole(x) => ArrivedWhole(x)'
  <2> SUFFICES ASSUME ~Within(ClosingSteps)', NEW x \in Completed, ArrivedWhole(x) PROVE ArrivedWhole(x)'
    OBVIOUS
  <2>1. x[1] = Upload => DOMAIN bucket \subseteq DOMAIN bucket'
    BY <1>2, <1>3, UploadsThere DEF RowInv
  <2> QED BY <1>1, <2>1 DEF ArrivedWhole
<1>5. Completed' \subseteq Completed
  BY <1>1, <1>2 DEF Completed
<1> QED BY <1>1, <1>2, <1>4, <1>5, FilesStay

LEMMA FilesMove ==
    ASSUME FilesInv, NEW h \in Handlers, Kept(h), req'[h].pc # "complete_record", UNCHANGED <<records, target, area>>,
           \A s \in DirectSessions : s \in DirectSessions',
           DOMAIN bucket \subseteq DOMAIN bucket' \/ ~\E x \in Completed : x[1] = Upload,
           req[h].pc \notin ClosingSteps
    PROVE  FilesInv'
<1>1. \A x : Accepted(x) => Accepted(x)'
  BY DEF Accepted
<1>2. \A x : Completing(x)' => Completing(x)
  BY NothingCompletes
<1>3. Completed' \subseteq Completed
  BY <1>2 DEF Completed
<1>4. \A x \in Completed' : ArrivedWhole(x) => ArrivedWhole(x)'
  BY <1>3 DEF ArrivedWhole
<1>5. Within(ClosingSteps) => Within(ClosingSteps)'
  BY DEF Within, Kept
<1> QED BY <1>1, <1>2, <1>4, <1>5, FilesStay

LEMMA ChangingKeepsFiles ==
    ASSUME LibraryTypeOK, UploadsTypeOK, StatePlaced, LockInv, TargetRow, "restart" \notin strays, HiddenInv, FilesInv,
           NEW h \in Handlers, NEW downloading, Changing(h, downloading), UNCHANGED <<place, downloads>>
    PROVE  FilesInv'
<1>1. req \in [Handlers -> Request] /\ session \in [Sessions -> {"none", "staged", "direct"}] /\ Sessions \subseteq Origins
      /\ Upload \notin Sessions
  BY LibraryAssumption DEF LibraryTypeOK, UploadsTypeOK, Origins
<1>2. ASSUME NEW s \in Sessions, AbortChange(h, s) PROVE FilesInv'
  <2>1. (\A x : Completing(x)' => Completing(x)) /\ Within(ClosingSteps)' = Within(ClosingSteps)
    BY <1>1, <1>2, AbortTurns DEF Completing, At, File, Within
  <2>2. UNCHANGED <<target, bucket>>
    BY <1>2 DEF AbortChange, bucketVars
  <2>3. CASE session[s] = "staged"
    <3>1. UNCHANGED <<records, area>> /\ \A x \in DirectSessions : x \in DirectSessions'
      BY <1>1, <1>2, <2>3 DEF AbortChange, Unstage, DirectSessions
    <3>2. \A x : (Accepted(x) => Accepted(x)') /\ (ArrivedWhole(x) => ArrivedWhole(x)')
      BY <2>2, <3>1 DEF Accepted, ArrivedWhole
    <3> QED BY <2>1, <3>1, <3>2, FilesStay
  <2>4. CASE session[s] # "staged"
    <3>1. Discard({s}) /\ {s} \in SUBSET Origins
      BY <1>1, <1>2, <2>4 DEF AbortChange
    <3>2. FilesInv'
      BY <2>1, <2>2, <3>1, DiscardKeepsFiles DEF Discard
    <3> QED BY <3>2
  <2> QED BY <2>3, <2>4
<1>3. ASSUME NEW s \in Sessions, StartChange(h, s) \/ Commit(h, s, downloading) \/ \E f \in Files : StageChunk(h, s, f)
      PROVE  FilesInv'
  <2>1. Kept(h) /\ req'[h].pc \in {"commit", "commit_upload", "idle"} /\ req[h].pc = "idle"
    BY <1>1, <1>3, ChangingTurns DEF Rests
  <2>2. UNCHANGED <<records, target, area, bucket>>
    BY <1>3 DEF StartChange, Commit, StageChunk, uploadVars, bucketVars
  <2>3. \A x \in DirectSessions : x \in DirectSessions'
    BY <1>1, <1>3 DEF StartChange, Commit, StageChunk, sessionVars, DirectSessions
  <2> QED BY <2>1, <2>2, <2>3, FilesMove DEF ClosingSteps, RemovingSteps
<1>4. CASE CommitLocks(h) \/ (\E f \in Files : Apply(h, f)) \/ ApplyRemovals(h) \/ FetchCopy(h) \/ CommitRecorded(h)
  <2>1. Kept(h) /\ req'[h].pc \in {"apply", "store", "commit_index", "history", "idle"}
    BY <1>1, <1>4, ChangingTurns DEF Moves, Rests
  <2>2. UNCHANGED <<records, target, area, session, bucket>> /\ req[h].pc \notin ClosingSteps
    BY <1>4 DEF CommitLocks, Apply, ApplyRemovals, FetchCopy, CommitRecorded, uploadVars, sessionVars, bucketVars, At,
                ClosingSteps, RemovingSteps
  <2> QED BY <2>1, <2>2, FilesUntouched
<1>5. CASE Store(h) \/ CommitRemote(h)
  <2>1. Kept(h) /\ req'[h].pc \in {"fetch", "commit_index", "idle"}
    BY <1>1, <1>5, ChangingTurns DEF Moves, Rests
  <2>2. UNCHANGED <<records, target, area, session>> /\ req[h].pc \in {"store", "commit", "commit_upload"}
    BY <1>5 DEF Store, CommitRemote, uploadVars, sessionVars, At
  <2>3. ~\E x \in Completed : x[1] = Upload
    <3> SUFFICES ASSUME NEW x \in Completed, x[1] = Upload PROVE FALSE
      OBVIOUS
    <3>1. \A k \in Handlers \ {h} : req[k].pc \notin ShowingSteps \union ClosingSteps
      <4>1. CASE Store(h)
        <5>1. req[h].pc \in RepoSteps /\ req[h].pc \in WriteSteps
          BY <4>1, LocksOfSteps DEF Store, At
        <5> QED BY <5>1, LocksOfSteps DEF LockInv, Alone, ShowingSteps, ClosingSteps, RemovingSteps
      <4>2. CASE CommitRemote(h)
        BY <4>2 DEF CommitRemote, RepoLock, WriteLock, Others, ShowingSteps, ClosingSteps, RemovingSteps, StoringSteps,
                    PublishingSteps
      <4> QED BY <1>5, <4>1, <4>2
    <3>2. ~Within(ShowingSteps) /\ ~Within(ClosingSteps)
      BY <2>2, <3>1 DEF Within, ShowingSteps, ClosingSteps, RemovingSteps
    <3>3. Unseeing(h)
      BY <3>2, UploadsThere DEF Unshown
    <3> QED BY <2>2, <3>3 DEF Unseeing, SeenSteps
  <2> QED BY <2>1, <2>2, <2>3, FilesMove DEF ClosingSteps, RemovingSteps, DirectSessions
<1>6. CASE CommitIndex(h)
  <2>1. Kept(h) /\ req'[h].pc = "history" /\ req[h].pc = "commit_index"
    BY <1>1, <1>6, ChangingTurns DEF Moves, CommitIndex, At
  <2>2. UNCHANGED <<target, bucket>>
    BY <1>6 DEF CommitIndex, bucketVars
  <2> DEFINE s == req[h].who
  <2>3. s \in Origins
    BY <1>1, RequestFields
  <2>4. CASE session[s] = "direct"
    <3>1. Discard({s})
      BY <1>6, <2>4 DEF CommitIndex
    <3>2. Within(ClosingSteps)' = Within(ClosingSteps)
      BY <2>1 DEF Within, Kept, ClosingSteps, RemovingSteps
    <3>3. (\A x : Completing(x)' => Completing(x)) /\ {s} \in SUBSET Origins
      BY <2>1, <2>3, NothingCompletes
    <3> HIDE DEF s
    <3> QED BY <2>2, <3>1, <3>2, <3>3, DiscardKeepsFiles DEF Discard
  <2>5. CASE session[s] # "direct"
    <3>1. UNCHANGED <<records, area>> /\ session' = [session EXCEPT ![s] = "none"]
      BY <1>6, <2>5 DEF CommitIndex, Unstage
    <3>2. \A x \in DirectSessions : x \in DirectSessions'
      BY <1>1, <2>5, <3>1 DEF DirectSessions
    <3> QED BY <2>1, <2>2, <3>1, <3>2, FilesMove DEF ClosingSteps, RemovingSteps
  <2> QED BY <2>4, <2>5
<1> QED BY <1>2, <1>3, <1>4, <1>5, <1>6 DEF Changing

LEMMA UploadingKeepsFiles ==
    ASSUME LibraryTypeOK, UploadsTypeOK, StatePlaced, LockInv, RowInv, "restart" \notin strays, HiddenInv, FilesInv,
           NEW h \in Handlers, NEW downloading, NEW fetching, Uploading(h, downloading, fetching), UNCHANGED <<place, downloads>>
    PROVE  FilesInv'
<1>1. req \in [Handlers -> Request] /\ Sessions \subseteq Origins /\ Upload \notin Sessions /\ Upload \in Origins
  BY LibraryAssumption DEF LibraryTypeOK, UploadsTypeOK, Origins
<1>2. DirectSessions \subseteq Sessions /\ {Upload} \union DirectSessions \in SUBSET Origins
  BY <1>1 DEF DirectSessions
<1>3. CASE CreateUpload(h)
  <2>1. Rests(h) /\ UNCHANGED <<records, area, session, bucket>> /\ req[h].pc = "idle"
    BY <1>1, <1>3, UploadingTurns DEF CreateUpload, sessionVars, bucketVars
  <2>2. target => target'
    BY <1>3 DEF CreateUpload
  <2>3. \A x : (Accepted(x) => Accepted(x)') /\ (ArrivedWhole(x) => ArrivedWhole(x)')
    BY <2>1, <2>2 DEF Accepted, ArrivedWhole, DirectSessions
  <2>4. Within(ClosingSteps)' = Within(ClosingSteps)
    BY <2>1 DEF Within, Rests, Kept, ClosingSteps, RemovingSteps
  <2> QED BY <2>1, <2>3, <2>4, NothingCompletes, FilesStay DEF Rests
<1>4. CASE \/ (\E f \in Files : Chunk(h, f)) \/ ChunkWritten(h) \/ Finalize(h) \/ FinalizeChecked(h) \/ FinalizeIndex(h)
           \/ FinalizeReady(h) \/ Publish(h) \/ PublishIndex(h) \/ SweepList(h) \/ Delete(h, downloading) \/ AbortUpload(h)
  <2>1. Kept(h) /\ req'[h].pc # "complete_record"
    <3>1. CASE Delete(h, downloading)
      BY <1>1, <3>1, DeleteTurns
    <3>2. CASE FinalizeChecked(h) \/ SweepList(h) \/ Publish(h)
      BY <1>1, <3>2, UploadingTurns DEF Moves, Rests
    <3> QED BY <1>1, <1>4, <3>1, <3>2, UploadingTurns DEF Starts, Moves, Rests
  <2>2. UNCHANGED <<records, target, session, area, bucket>>
    BY <1>4 DEF Chunk, ChunkWritten, Finalize, FinalizeChecked, FinalizeIndex, FinalizeReady, Publish, PublishIndex,
                SweepList, Delete, AbortUpload, uploadVars, sessionVars, bucketVars
  <2>3. req[h].pc \notin ClosingSteps
    BY <1>4 DEF Chunk, ChunkWritten, Finalize, FinalizeChecked, FinalizeIndex, FinalizeReady, Publish, PublishIndex,
                SweepList, Delete, AbortUpload, Free, At, ClosingSteps, RemovingSteps
  <2> QED BY <2>1, <2>2, <2>3, FilesUntouched
<1>5. ASSUME NEW w \in Sessions \union {Upload}, NEW f \in Files, BeginFile(h, w, f) PROVE FilesInv'
  <2>1. Kept(h) /\ req'[h].pc # "complete_record" /\ req[h].pc \notin ClosingSteps
    BY <1>1, <1>5, UploadingTurns DEF Starts, Rests, BeginFile, Free, ClosingSteps, RemovingSteps
  <2> QED BY <1>5, <2>1, FilesUntouched DEF BeginFile, bucketVars
<1>6. CASE BeginRecord(h)
  <2>1. Rests(h) /\ UNCHANGED <<target, session, area, bucket>> /\ req[h].pc = "begin_record"
    BY <1>1, <1>6, UploadingTurns DEF BeginRecord, sessionVars, bucketVars, At
  <2>2. \A x : Completing(x)' => Completing(x) /\ x # File(h)
    BY <2>1 DEF Rests, Kept, Completing, At, File, LockInv, FilesAlone, RecordSteps
  <2>3. /\ DOMAIN records' = DOMAIN records \union {File(h)} /\ records'[File(h)] = "begun"
        /\ \A x \in DOMAIN records' : x # File(h) => records'[x] = records[x]
    BY <1>6 DEF BeginRecord, File
  <2>4. Completed' \subseteq Completed
    BY <2>2, <2>3 DEF Completed
  <2>5. \A x : Accepted(x)' = Accepted(x) /\ ArrivedWhole(x)' = ArrivedWhole(x)
    BY <2>1 DEF Accepted, ArrivedWhole, DirectSessions
  <2>6. Within(ClosingSteps)' = Within(ClosingSteps)
    BY <2>1 DEF Within, Rests, Kept, ClosingSteps, RemovingSteps
  <2> QED BY <2>4, <2>5, <2>6 DEF FilesInv
<1>7. ASSUME NEW w \in Sessions \union {Upload}, NEW f \in Files, CompleteFile(h, w, f) PROVE FilesInv'
  <2> DEFINE x == <<w, f>>
  <2>1. /\ Kept(h) /\ req'[h].pc = "complete_record" /\ File(h)' = x /\ req[h].pc = "idle"
        /\ UNCHANGED <<target, session, records>>
    BY <1>1, <1>7, UploadingTurns DEF Starts, CompleteFile, Free, File
  <2>2. x[1] = w /\ x[2] = f
    OBVIOUS
  <2>3. \A y \in Completed' : y \in Completed \/ y = x
    BY <2>1 DEF Completed, Completing, Kept, At, File
  <2>4. \A y : Accepted(y)' = Accepted(y)
    BY <2>1 DEF Accepted, DirectSessions
  <2>5. Accepted(x) /\ ArrivedWhole(x)'
    BY <1>1, <1>7 DEF CompleteFile, Accepts, Accepted, ArrivedWhole, Over
  <2>6. \A y : ArrivedWhole(y) => ArrivedWhole(y)'
    BY <1>7 DEF CompleteFile, ArrivedWhole, Over
  <2>7. Within(ClosingSteps)' = Within(ClosingSteps)
    BY <2>1 DEF Within, Kept, ClosingSteps, RemovingSteps
  <2> QED BY <2>3, <2>4, <2>5, <2>6, <2>7 DEF FilesInv
<1>8. CASE CompleteRecord(h)
  <2>1. Rests(h) /\ UNCHANGED <<target, session, area, bucket>> /\ req[h].pc = "complete_record"
    BY <1>1, <1>8, UploadingTurns DEF CompleteRecord, bucketVars, At
  <2>2. Completing(File(h))
    BY <2>1 DEF Completing, At
  <2>3. /\ DOMAIN records' = DOMAIN records
        /\ \A x \in DOMAIN records : records'[x] = "complete" => records[x] = "complete" \/ x = File(h)
    BY <1>8 DEF CompleteRecord, File
  <2>4. \A x : Accepted(x)' = Accepted(x) /\ ArrivedWhole(x)' = ArrivedWhole(x)
    BY <2>1 DEF Accepted, ArrivedWhole, DirectSessions
  <2>5. Within(ClosingSteps)' = Within(ClosingSteps)
    BY <2>1 DEF Within, Rests, Kept, ClosingSteps, RemovingSteps
  <2>6. \A x : Completing(x)' => Completing(x)
    BY <2>1, NothingCompletes DEF Rests
  <2> QED BY <2>2, <2>3, <2>4, <2>5, <2>6, FilesStay
<1>9. CASE SweepDiscard(h)
  <2> DEFINE idle == IF Upload \in fresh THEN {} ELSE Of(Begun, Upload)
             gone == req[h].stale
             slots == Dropped(gone) \union idle
  <2>1. Rests(h) /\ UNCHANGED <<target, bucket>> /\ req[h].pc = "sweep_discard"
    BY <1>1, <1>9, UploadingTurns DEF SweepDiscard, bucketVars, At
  <2>2. /\ Drop(slots) /\ area' = {x \in area : x[1] \notin gone}
        /\ session' = [s \in Sessions |-> IF s \in gone THEN "none" ELSE session[s]]
    BY <1>9 DEF SweepDiscard
  <2>3. gone \in SUBSET Origins /\ Dropped(gone) \subseteq slots
    BY <1>1, RequestFields
  <2>4. Within(ClosingSteps)' = Within(ClosingSteps) /\ \A x : Completing(x)' => Completing(x)
    BY <2>1, NothingCompletes DEF Within, Rests, Kept, ClosingSteps, RemovingSteps
  <2> HIDE DEF gone, slots
  <2> QED BY <2>1, <2>2, <2>3, <2>4, DiscardKeepsFiles
<1>10. CASE FinalizeSync(h)
  <2>1. Kept(h) /\ req'[h].pc \in {"finalize_index", "idle"} /\ req[h].pc = "finalize_sync"
    BY <1>1, <1>10, UploadingTurns DEF Moves, Rests, FinalizeSync, At
  <2>2. UNCHANGED <<records, target, area, session>>
    BY <1>10 DEF FinalizeSync, uploadVars, sessionVars
  <2>3. ~Within(ClosingSteps)
    <3>1. req[h].pc \in RepoSteps /\ req[h].pc \in WriteSteps
      BY <2>1, LocksOfSteps
    <3>2. \A k \in Handlers \ {h} : req[k].pc \notin ClosingSteps
      BY <3>1, LocksOfSteps DEF LockInv, Alone, ClosingSteps, RemovingSteps
    <3> QED BY <2>1, <3>2 DEF Within, ClosingSteps, RemovingSteps
  <2>4. ~\E x \in Completed : x[1] = Upload
    BY <2>1, <2>3, UploadsThere DEF RowInv, RequestRow, FinalizingSteps
  <2> QED BY <2>1, <2>2, <2>4, FilesMove DEF ClosingSteps, RemovingSteps, DirectSessions
<1>11. CASE PublishReady(h)
  <2>1. Rests(h) /\ UNCHANGED <<session, area, bucket>> /\ req[h].pc = "publish_ready"
    BY <1>1, <1>11, UploadingTurns DEF PublishReady, bucketVars, sessionVars, At
  <2>2. /\ DOMAIN records' \subseteq DOMAIN records /\ \A x \in DOMAIN records' : records'[x] = records[x] /\ x[1] # Upload
    BY <1>11 DEF PublishReady, Restrict, Dropped
  <2>3. \A x \in Completed' : (Accepted(x) => Accepted(x)') /\ (ArrivedWhole(x) => ArrivedWhole(x)')
    BY <2>1, <2>2 DEF Completed, Accepted, ArrivedWhole, DirectSessions
  <2>4. Within(ClosingSteps)' = Within(ClosingSteps)
    BY <2>1 DEF Within, Rests, Kept, ClosingSteps, RemovingSteps
  <2>5. \A x : Completing(x)' => Completing(x)
    BY <2>1, NothingCompletes DEF Rests
  <2> QED BY <2>2, <2>3, <2>4, <2>5, FilesStay
<1>12. CASE Unpublish(h)
  <2>1. DOMAIN records' = {}
    BY <1>12 DEF Unpublish
  <2>2. Completed' = {}
    BY <2>1 DEF Completed
  <2> QED BY <2>2 DEF FilesInv
<1>13. CASE UnpublishRows(h) \/ Forget(h)
  <2>1. Rests(h) /\ Discard({Upload} \union DirectSessions) /\ ~target'
    BY <1>1, <1>13, UploadingTurns DEF UnpublishRows, Forget
  <2>2. \A x : Completing(x)' => Completing(x)
    BY <2>1, NothingCompletes DEF Rests
  <2> DEFINE gone == {Upload} \union DirectSessions
  <2>3. gone \in SUBSET Origins /\ Upload \in gone /\ {Upload} \union DirectSessions \subseteq gone
    BY <1>2
  <2>4. Discard(gone)
    BY <2>1
  <2> HIDE DEF gone
  <2> QED BY <2>2, <2>3, <2>4, DiscardKeepsFiles DEF Discard
<1>14. CASE Remove(h, fetching)
  <2>1. Moves(h, "remove") \/ Rests(h)
    BY <1>1, <1>14, UploadingTurns
  <2>2. UNCHANGED <<target, records, session>> /\ req[h].pc = "delete"
    BY <1>14 DEF Remove, sessionVars, At
  <2>3. \A x : Accepted(x)' = Accepted(x)
    BY <2>2 DEF Accepted, DirectSessions
  <2>4. Moves(h, "remove") \/ UNCHANGED <<bucket, area>>
    <3>1. GoesTo(h, "remove") \/ UNCHANGED <<bucket, area>>
      BY <1>14 DEF Remove, bucketVars
    <3> QED BY <1>1, <3>1, GoesOn
  <2>5. CASE Moves(h, "remove")
    <3>1. Within(ClosingSteps)'
      BY <2>5 DEF Moves, Within, ClosingSteps, RemovingSteps
    <3>2. \A x : Completing(x)' => Completing(x)
      BY <2>5, NothingCompletes DEF Moves
    <3> QED BY <2>2, <2>3, <3>1, <3>2, FilesStay
  <2>6. CASE Rests(h) /\ UNCHANGED <<bucket, area>>
    BY <2>2, <2>6, FilesUntouched DEF Rests, ClosingSteps, RemovingSteps
  <2> QED BY <2>1, <2>4, <2>5, <2>6
<1>15. CASE RemoveFolder(h, fetching)
  <2>1. Moves(h, "forget") /\ UNCHANGED <<target, records>>
    BY <1>1, <1>15, UploadingTurns DEF RemoveFolder, uploadVars
  <2>2. \A s \in DirectSessions : s \in DirectSessions'
    BY <1>15 DEF RemoveFolder, DirectSessions
  <2>3. \A x : Accepted(x) => Accepted(x)'
    BY <2>1, <2>2 DEF Accepted
  <2>4. Within(ClosingSteps)' /\ \A x : Completing(x)' => Completing(x)
    BY <2>1, NothingCompletes DEF Moves, Within, ClosingSteps, RemovingSteps
  <2> QED BY <2>1, <2>3, <2>4, FilesStay
<1> QED BY <1>3, <1>4, <1>5, <1>6, <1>7, <1>8, <1>9, <1>10, <1>11, <1>12, <1>13, <1>14, <1>15 DEF Uploading

LEMMA FilesStep ==
    ASSUME LifeInv, PlaceInv, LockInv, Orderly => RowInv /\ HiddenInv /\ FilesInv, [Next]_vars
    PROVE  Orderly' => FilesInv'
<1>1. LibraryTypeOK /\ UploadsTypeOK /\ DownloadsTypeOK /\ strays \subseteq strays' /\ StatePlaced
  BY StraysGrow DEF LifeInv, TypeOK, PlaceInv
<1> SUFFICES ASSUME Orderly' PROVE FilesInv'
  OBVIOUS
<1>2. /\ RowInv /\ TargetRow /\ HiddenInv /\ FilesInv
      /\ "late" \notin strays' /\ "restart" \notin strays' /\ "restart" \notin strays
  BY <1>1, OrderlyBefore DEF RowInv
<1>3. ASSUME UNCHANGED <<target, records, area, session, bucket>>, \A k \in Handlers : req'[k].pc = req[k].pc /\ File(k)' = File(k)
      PROVE  FilesInv'
  BY <1>2, <1>3 DEF FilesInv, Completed, Completing, Accepted, ArrivedWhole, DirectSessions, Within, At
<1>4. ASSUME NEW x \in open, PartsSent(x), UNCHANGED <<place, downloads>> PROVE FilesInv'
  BY <1>3, <1>4 DEF PartsSent, requestVars, bucketVars, sessionVars, File
<1>5. ASSUME UNCHANGED vars PROVE FilesInv'
  BY <1>3, <1>5 DEF vars, requestVars, bucketVars, uploadVars, sessionVars, File
<1>6. ASSUME Restart, UNCHANGED <<place, uploadVars, sessionVars>> PROVE FilesInv'
  <2>1. \A k \in Handlers : req[k].pc = "idle"
    BY <1>2, <1>6 DEF Restart, Strays, At
  <2>2. \A k \in Handlers : req'[k].pc = "idle"
    BY <1>6 DEF Restart, Idle
  <2>3. UNCHANGED <<target, records, area, session, bucket>>
    BY <1>6 DEF Restart, bucketVars, uploadVars, sessionVars
  <2> QED BY <1>2, <2>1, <2>2, <2>3 DEF FilesInv, Completed, Completing, Accepted, ArrivedWhole, DirectSessions, Within, At,
                                        ClosingSteps, RemovingSteps
<1>7. ASSUME NEW h \in Handlers, Cache(h, ActiveDownload, WorkerRuns), UNCHANGED <<place, uploadVars, sessionVars, downloads>>
      PROVE  FilesInv'
  BY <1>1, <1>2, <1>7, CacheKeepsFiles
<1>8. ASSUME NEW h \in Handlers, Uploading(h, ActiveDownload, WorkerRuns) \/ Changing(h, ActiveDownload), UNCHANGED <<place, downloads>>
      PROVE  FilesInv'
  BY <1>1, <1>2, <1>8, UploadingKeepsFiles, ChangingKeepsFiles
<1>9. ASSUME NEW h \in Handlers, FromTheHub(h), UNCHANGED <<place, uploadVars, sessionVars>> PROVE FilesInv'
  BY <1>1, <1>2, <1>9, FromTheHubKeepsFiles
<1>10. ASSUME NEW d \in DOMAIN downloads, Worker(d), UNCHANGED <<place, uploadVars, sessionVars>> PROVE FilesInv'
  BY <1>1, <1>2, <1>10, WorkerKeepsFiles
<1> QED BY <1>4, <1>5, <1>6, <1>7, <1>8, <1>9, <1>10 DEF Next

LEMMA FilesStart == Init => FilesInv
<1> SUFFICES ASSUME Init PROVE FilesInv
  OBVIOUS
<1>1. \A h \in Handlers : req[h].pc = "idle"
  BY DEF Init, Idle
<1>2. \A x : ~Completing(x)
  BY <1>1 DEF Completing, At
<1>3. CASE NewName \/ Queued
  BY <1>2, <1>3 DEF NewName, Queued, NoUploads, FilesInv, Completed
<1>4. ASSUME NEW arrived \in SUBSET Files, Unfinished(arrived) PROVE FilesInv
  <2>1. CASE place = "direct"
    BY <1>2, <1>4, <2>1 DEF Unfinished, FilesInv, Completed, Accepted, ArrivedWhole
  <2>2. CASE place # "direct"
    BY <1>2, <1>4, <2>2 DEF Unfinished, NoUploads, FilesInv, Completed
  <2> QED BY <2>1, <2>2
<1>5. CASE Uploaded \/ Downloaded
  <2>1. OpenSessions
    BY <1>5 DEF Uploaded, Downloaded
  <2>2. CASE place = "direct"
    <3>1. area \subseteq Sessions \X Files /\ DOMAIN records = area /\ DirectSessions = Sessions
      BY <2>1, <2>2, ChangesAssumption DEF OpenSessions, DirectSessions
    <3> QED BY <1>2, <3>1, LibraryAssumption DEF FilesInv, Completed, Accepted, ArrivedWhole
  <2>3. CASE place # "direct"
    BY <1>2, <2>1, <2>3 DEF OpenSessions, FilesInv, Completed
  <2> QED BY <2>2, <2>3
<1> QED BY <1>3, <1>4, <1>5 DEF Init

----------------------------------------------------------------------------
(* A repository that is deleted.  While its objects are removed the bucket   *)
(* is empty; once it has no row and no place in the index, nothing has its   *)
(* name, but what the request that forgets it has still to remove; and one   *)
(* without an owner is as a download left it.                                *)
FreshDownloads == \A d \in DOMAIN downloads : downloads[d].status = "none" => downloads[d] = NoDownload
Undisturbed == ~Except({"failed", "restart", "late", "evict", "begin", "restore"})
Settled == Undisturbed /\ NoDownloads
CommitSteps == {"commit", "commit_upload", "apply", "store", "fetch", "commit_index"}
GoneSteps == {"idle", "sweep", "sweep_discard", "delete", "delete_upload", "forget", "scan", "scan_list", "scan_index",
              "scan_local", "enqueue"}

RemovalInv ==
    /\ Within({"remove", "unpublish_rows"}) => bucket = << >> /\ manifest = "none"
    /\ Within({"unpublish", "unpublish_rows"}) => row = "uploading"
    /\ \A h \in Handlers : At(h, "delete") /\ req[h].kind = "open" => req[h].at = Target

Gone == row = "none" /\ model = NoModel /\ ~Within({"remove"})
GoneRequest(h) ==
    /\ req[h].pc \in GoneSteps \/ (Within({"forget"}) /\ req[h].pc \in RecordSteps)
    /\ At(h, "scan_index") => req[h].kind = "none"
Emptied == ~FolderExists /\ bucket = << >> /\ manifest = "none"
Forgotten == history = << >> /\ records = << >> /\ DirectSessions = {}
GoneInv == Emptied /\ (Within({"forget"}) \/ Forgotten) /\ \A h \in Handlers : GoneRequest(h)

Unowned == row = "none" /\ (model # NoModel \/ Within({"remove"}))
UnownedRequest(h) ==
    /\ At(h, "restore_index") => label = "open"
    /\ req[h].pc \in CommitSteps => req[h].at = Target /\ (req[h].local => label = "open")
    /\ At(h, "scan_index") /\ ~Within({"remove"}) => req[h].kind = "open"
UnownedState ==
    /\ label \in {"open", "none"} /\ (label = "none" => ~FolderExists)
    /\ model # NoModel => model.target = Target /\ (place = "disk" => label = "open")
    /\ place # "disk" /\ ~Within({"remove"}) => manifest = "open"
UnownedInv == UnownedState /\ \A h \in Handlers : UnownedRequest(h)

Deleted == (Gone => GoneInv) /\ (Unowned => UnownedInv)
DeletionInv == Settled => RemovalInv /\ Deleted

LEMMA DownloadsFresh ==
    ASSUME LibraryTypeOK, DownloadsTypeOK, DownloadsInv, FreshDownloads, [Next]_vars
    PROVE  /\ DOMAIN downloads' = DOMAIN downloads
           /\ \A d \in DOMAIN downloads : downloads'[d].status = "none" => downloads'[d] = downloads[d]
<1> DEFINE Fits == /\ DOMAIN downloads' = DOMAIN downloads
                   /\ \A d \in DOMAIN downloads : downloads'[d].status = "none" => downloads'[d] = downloads[d]
<1>1. downloads \in [1 .. MaxDownloads -> Download]
  BY DEF DownloadsTypeOK
<1>2. ASSUME NEW d \in DOMAIN downloads, NEW new, downloads' = [downloads EXCEPT ![d] = new], new.status # "none" PROVE Fits
  BY <1>1, <1>2
<1>3. ASSUME UNCHANGED downloads PROVE Fits
  BY <1>3
<1> HIDE DEF Fits
<1>4. ASSUME NEW h \in Handlers, FromTheHub(h) PROVE Fits
  <2>1. CASE StartDownload(h) \/ \E d \in DOMAIN downloads : Cancel(h, d)
    BY <1>3, <2>1 DEF StartDownload, Cancel
  <2>2. CASE Enqueue(h)
    <3> DEFINE new == [NoDownload EXCEPT !.status = "queued", !.pc = "submitted"]
    <3>1. PICK d \in DOMAIN downloads : downloads' = [downloads EXCEPT ![d] = new]
      BY <2>2 DEF Enqueue
    <3>2. new.status = "queued"
      BY DEF NoDownload
    <3> HIDE DEF new
    <3> QED BY <1>2, <3>1, <3>2
  <2>3. CASE CancelFolder(h)
    <3> DEFINE d == req[h].job  told == downloads[d].pc # "none"  new == [downloads[d] EXCEPT !.cancel = told]
    <3>1. d \in DOMAIN downloads /\ downloads[d].status # "none"
      BY <2>3 DEF CancelFolder, At, DownloadsInv, CancelsKnown, CancelSteps
    <3>2. downloads' = [downloads EXCEPT ![d] = new]
      BY <1>1, <2>3, <3>1 DEF CancelFolder
    <3> HIDE DEF told, d
    <3>3. new.status # "none"
      BY <1>1, <3>1 DEF Download
    <3> HIDE DEF new
    <3> QED BY <1>2, <3>1, <3>2, <3>3
  <2>4. CASE CancelRow(h)
    <3> DEFINE d == req[h].job  new == [downloads[d] EXCEPT !.status = "cancelled"]
    <3>1. d \in DOMAIN downloads /\ downloads[d].status # "none"
      BY <2>4 DEF CancelRow, At, DownloadsInv, CancelsKnown, CancelSteps
    <3>2. downloads' = [downloads EXCEPT ![d] = new]
      BY <1>1, <2>4, <3>1 DEF CancelRow
    <3> HIDE DEF d
    <3>3. new.status # "none"
      BY <1>1, <3>1 DEF Download
    <3> HIDE DEF new
    <3> QED BY <1>2, <3>1, <3>2, <3>3
  <2> QED BY <1>4, <2>1, <2>2, <2>3, <2>4 DEF FromTheHub
<1>5. ASSUME NEW d \in DOMAIN downloads, Worker(d) PROVE Fits
  <2>1. downloads[d].pc # "none" \/ downloads[d].monitor
    BY <1>5 DEF Worker, Prepare, FetchFile, MonitorLooks, MonitorWrites, Fetched, SyncDownload, IndexDownload,
                FinishDownload, Working
  <2>2. downloads[d].status # "none" /\ downloads[d] \in Download
    BY <1>1, <2>1 DEF FreshDownloads, NoDownload
  <2>3. ASSUME NEW status, status # "none", Stops(d, status) PROVE Fits
    <3> DEFINE new == [downloads[d] EXCEPT !.pc = "none", !.cancel = FALSE, !.status = IF @ = "cancelled" THEN @ ELSE status]
    <3>1. downloads' = [downloads EXCEPT ![d] = new]
      BY <1>1, <2>3 DEF Stops
    <3>2. new.status # "none"
      BY <2>2, <2>3 DEF Download
    <3> HIDE DEF new
    <3> QED BY <1>2, <3>1, <3>2
  <2>4. CASE Stops(d, "cancelled") \/ Stops(d, "failed") \/ Stops(d, IF downloads[d].cancel THEN "cancelled" ELSE "failed")
    BY <2>3, <2>4
  <2>5. CASE Prepare(d) \/ Fetched(d) \/ SyncDownload(d)
    <3> DEFINE a == [downloads[d] EXCEPT !.pc = "fetching", !.status = "preparing"]
               b == [downloads[d] EXCEPT !.pc = "sync"]  c == [downloads[d] EXCEPT !.pc = "index"]
    <3>1. a.status # "none" /\ b.status # "none" /\ c.status # "none"
      BY <2>2 DEF Download
    <3>2. Prepare(d) => Stops(d, "cancelled") \/ Stops(d, "failed") \/ downloads' = [downloads EXCEPT ![d] = a]
      BY <1>1 DEF Prepare
    <3>3. Fetched(d) => Stops(d, IF downloads[d].cancel THEN "cancelled" ELSE "failed") \/ downloads' = [downloads EXCEPT ![d] = b]
      BY <1>1 DEF Fetched
    <3>4. SyncDownload(d) => Stops(d, "failed") \/ downloads' = [downloads EXCEPT ![d] = c]
      BY <1>1 DEF SyncDownload
    <3> HIDE DEF a, b, c
    <3> QED BY <1>2, <2>4, <2>5, <3>1, <3>2, <3>3, <3>4
  <2>6. CASE \E f \in Files : FetchFile(d, f)
    BY <1>3, <2>6 DEF FetchFile
  <2>7. CASE MonitorLooks(d) \/ MonitorWrites(d)
    <3> DEFINE a == [downloads[d] EXCEPT !.monitor = TRUE]  b == [downloads[d] EXCEPT !.monitor = FALSE, !.status = "downloading"]
    <3>1. a.status # "none" /\ b.status # "none"
      BY <2>2 DEF Download
    <3>2. downloads' = [downloads EXCEPT ![d] = a] \/ downloads' = [downloads EXCEPT ![d] = b]
      BY <1>1, <2>7 DEF MonitorLooks, MonitorWrites
    <3> HIDE DEF a, b
    <3> QED BY <1>2, <3>1, <3>2
  <2>8. CASE IndexDownload(d) \/ FinishDownload(d)
    <3> DEFINE a == [downloads[d] EXCEPT !.pc = "finish"]
               b == [downloads[d] EXCEPT !.pc = "none", !.cancel = FALSE, !.status = "complete"]
    <3>1. a.status # "none" /\ b.status # "none"
      BY <2>2 DEF Download
    <3>2. downloads' = [downloads EXCEPT ![d] = a] \/ downloads' = [downloads EXCEPT ![d] = b]
      BY <1>1, <2>8 DEF IndexDownload, FinishDownload
    <3> HIDE DEF a, b
    <3> QED BY <1>2, <3>1, <3>2
  <2> QED BY <1>5, <2>5, <2>6, <2>7, <2>8 DEF Worker
<1>6. ASSUME Restart PROVE Fits
  <2> DEFINE first == [NoDownload EXCEPT !.status = "queued", !.pc = "submitted"]
             left(d) == [NoDownload EXCEPT !.status = downloads[d].status]
  <2>1. downloads' = [d \in DOMAIN downloads |-> IF downloads[d].status \in Downloading THEN first ELSE left(d)]
    BY <1>6 DEF Restart, Resume
  <2>2. first.status = "queued" /\ \A d : left(d).status = downloads[d].status
    BY DEF NoDownload
  <2>3. ASSUME NEW d \in DOMAIN downloads, downloads[d].status = "none" PROVE left(d) = downloads[d]
    BY <2>3 DEF FreshDownloads, NoDownload
  <2> HIDE DEF first, left
  <2> QED BY <2>1, <2>2, <2>3 DEF Fits
<1>7. UNCHANGED vars \/ (\E x \in open : PartsSent(x) /\ UNCHANGED downloads) => UNCHANGED downloads
  BY DEF vars
<1> QED BY <1>3, <1>4, <1>5, <1>6, <1>7 DEF Next, Fits

LEMMA FreshStep ==
    ASSUME LifeInv, FreshDownloads, [Next]_vars
    PROVE  FreshDownloads' /\ (NoDownloads' => NoDownloads)
<1>1. LibraryTypeOK /\ DownloadsTypeOK /\ DownloadsInv
  BY DEF LifeInv, TypeOK
<1>2. /\ DOMAIN downloads' = DOMAIN downloads
      /\ \A d \in DOMAIN downloads : downloads'[d].status = "none" => downloads'[d] = downloads[d]
  BY <1>1, DownloadsFresh
<1>3. FreshDownloads'
  BY <1>2 DEF FreshDownloads
<1>4. ASSUME NoDownloads' PROVE NoDownloads
  <2>1. NoDownload.status = "none"
    BY DEF NoDownload
  <2>2. \A d \in DOMAIN downloads : downloads[d] = NoDownload
    BY <1>2, <1>4, <2>1 DEF NoDownloads
  <2> QED BY <1>1, <2>2 DEF NoDownloads, DownloadsTypeOK
<1> QED BY <1>3, <1>4

LEMMA FreshStart == Init => FreshDownloads
<1> SUFFICES ASSUME Init PROVE FreshDownloads
  OBVIOUS
<1> DEFINE started == [NoDownload EXCEPT !.status = "queued", !.pc = "submitted"]
<1>1. started.status = "queued"
  BY DEF NoDownload
<1>2. \A d \in DOMAIN downloads : downloads[d] = NoDownload \/ downloads[d] = started
  BY DEF Init, NewName, Unfinished, Uploaded, Downloaded, Queued, NoDownloads
<1> HIDE DEF started
<1> QED BY <1>1, <1>2 DEF FreshDownloads

(* Nothing is settled again that was not, and no download works meanwhile.   *)
LEMMA SettledBefore ==
    ASSUME LifeInv, FreshDownloads, [Next]_vars, Settled'
    PROVE  Settled /\ strays \subseteq strays'
BY StraysGrow, FreshStep DEF Settled, Undisturbed, Except

LEMMA NobodyDownloads ==
    ASSUME NoDownloads
    PROVE  /\ ~WorkerRuns /\ \A d \in DOMAIN downloads : ~Worker(d)
           /\ \A h \in Handlers : ~\E d \in DOMAIN downloads : Cancel(h, d)
<1>1. \A d \in DOMAIN downloads : /\ downloads[d].pc = "none" /\ downloads[d].status = "none" /\ ~downloads[d].monitor
  BY DEF NoDownloads, NoDownload
<1> QED BY <1>1 DEF WorkerRuns, Worker, Prepare, FetchFile, MonitorLooks, MonitorWrites, Fetched, SyncDownload,
                    IndexDownload, FinishDownload, Working, Cancel, Downloading

LEMMA HubRests ==
    ASSUME LibraryTypeOK, DownloadsInv, NoDownloads, NoDownloads', NEW h \in Handlers, FromTheHub(h)
    PROVE  StartDownload(h)
<1>1. \A d \in DOMAIN downloads : downloads[d].status = "none"
  BY DEF NoDownloads, NoDownload
<1>2. ~CancelFolder(h) /\ ~CancelRow(h)
  BY <1>1 DEF CancelFolder, CancelRow, At, DownloadsInv, CancelsKnown, CancelSteps
<1>3. ~Enqueue(h)
  <2> DEFINE started == [NoDownload EXCEPT !.status = "queued", !.pc = "submitted"]
  <2>1. started.status = "queued" /\ NoDownload.status = "none"
    BY DEF NoDownload
  <2>2. Enqueue(h) => \E d \in DOMAIN downloads : downloads' = [downloads EXCEPT ![d] = started]
    BY DEF Enqueue
  <2> HIDE DEF started
  <2> QED BY <2>1, <2>2 DEF NoDownloads
<1> QED BY <1>2, <1>3, NobodyDownloads DEF FromTheHub

(* While the objects are removed, nothing comes back to the bucket; an       *)
(* upload whose objects are removed stays unfinished; and the deletion of a  *)
(* model without an owner is of a model kept where it was asked for.         *)
BareSteps == {"remove", "unpublish_rows"}
UnpublishSteps == {"unpublish", "unpublish_rows"}

LEMMA DisturbedBy ==
    ASSUME Undisturbed
    PROVE  /\ "failed" \notin strays /\ "restart" \notin strays /\ "late" \notin strays
           /\ "evict" \notin strays /\ "begin" \notin strays /\ "restore" \notin strays
BY DEF Undisturbed, Except

LEMMA NotOvertaken ==
    ASSUME req \in [Handlers -> Request], NEW h \in Handlers, ~Overtakes(h)
    PROVE  \A k \in Handlers \ {h} : req[k].pc \in {"idle", "sweep", "sweep_discard", "delete", "delete_upload"}
BY RequestFields DEF Overtakes, Others

LEMMA RemovalSafe ==
    ASSUME RemovalInv, UNCHANGED place, NEW h \in Handlers, Kept(h), req'[h].pc \notin BareSteps \union UnpublishSteps \union {"delete"},
           UNCHANGED <<bucket, manifest>> \/ ~\E k \in Handlers \ {h} : req[k].pc \in BareSteps,
           row' \in {row, "uploading"} \/ ~\E k \in Handlers \ {h} : req[k].pc \in UnpublishSteps
    PROVE  RemovalInv'
<1>1. Within(BareSteps)' => Within(BareSteps) /\ UNCHANGED <<bucket, manifest>>
  BY DEF Within, Kept
<1>2. Within(UnpublishSteps)' => Within(UnpublishSteps) /\ row' \in {row, "uploading"}
  BY DEF Within, Kept
<1>3. \A k \in Handlers : At(k, "delete")' => req'[k] = req[k] /\ At(k, "delete")
  BY DEF Kept, At
<1> QED BY <1>1, <1>2, <1>3 DEF RemovalInv, BareSteps, UnpublishSteps, Target

LEMMA CacheKeepsRemoval ==
    ASSUME LibraryTypeOK, RemovalInv, UNCHANGED place, NEW h \in Handlers, NEW downloading, NEW fetching,
           Cache(h, downloading, fetching)
    PROVE  RemovalInv'
<1>1. req \in [Handlers -> Request]
  BY DEF LibraryTypeOK
<1> DEFINE S == {"scan", "scan_list", "scan_index", "scan_commit", "scan_local", "sweep", "idle"} \union CacheSteps
<1>2. Kept(h) /\ req'[h].pc \in S
  <2>1. /\ Scan(h) \/ Restore(h, downloading) \/ Evict(h, downloading) => Kept(h) /\ req'[h].pc \in S
        /\ ScanFolder(h, fetching) \/ ScanIndex(h) \/ ScanCommit(h) \/ ScanLocal(h) => Kept(h) /\ req'[h].pc \in S
        /\ RestoreFiles(h) \/ RestoreIndex(h) \/ EvictIndex(h) => Kept(h) /\ req'[h].pc \in S
        /\ ScanList(h) \/ EvictFolder(h, fetching) => Kept(h) /\ req'[h].pc \in S
    BY <1>1, CacheTurns DEF Starts, Moves, Rests, CacheSteps
  <2> QED BY <2>1 DEF Cache
<1>3. UNCHANGED <<bucket, manifest, row>>
  BY DEF Cache, Scan, ScanFolder, ScanList, ScanIndex, ScanCommit, ScanLocal, Restore, RestoreFiles,
         RestoreIndex, Evict, EvictFolder, EvictIndex, bucketVars
<1> QED BY <1>2, <1>3, RemovalSafe DEF CacheSteps, BareSteps, UnpublishSteps

LEMMA ChangingKeepsRemoval ==
    ASSUME LibraryTypeOK, LockInv, RemovalInv, UNCHANGED place, NEW h \in Handlers, NEW downloading, Changing(h, downloading)
    PROVE  RemovalInv'
<1>1. req \in [Handlers -> Request] /\ UNCHANGED row
  BY DEF LibraryTypeOK, Changing, StartChange, StageChunk, AbortChange, Commit, CommitLocks, Apply, ApplyRemovals, Store,
         CommitRemote, FetchCopy, CommitIndex, CommitRecorded
<1>2. ASSUME NEW s \in Sessions, AbortChange(h, s) PROVE RemovalInv'
  <2>1. \A k \in Handlers : req'[k].pc = req[k].pc /\ (req[k].pc \notin {"apply", "store"} => req'[k] = req[k])
    BY <1>1, <1>2, AbortTurns
  <2>2. UNCHANGED <<bucket, manifest>>
    BY <1>2 DEF AbortChange, bucketVars
  <2> QED BY <1>1, <2>1, <2>2 DEF RemovalInv, Within, At, Target
<1>3. ASSUME ~\E s \in Sessions : AbortChange(h, s) PROVE RemovalInv'
  <2> DEFINE S == {"commit", "commit_upload", "apply", "store", "fetch", "commit_index", "history", "idle"}
  <2>1. Kept(h) /\ req'[h].pc \in S
    <3>1. ASSUME NEW s \in Sessions, StartChange(h, s) \/ Commit(h, s, downloading) \/ \E f \in Files : StageChunk(h, s, f)
          PROVE  Kept(h) /\ req'[h].pc \in S
      BY <1>1, <3>1, ChangingTurns DEF Rests
    <3>2. CASE CommitLocks(h) \/ CommitRemote(h) \/ Store(h) \/ FetchCopy(h) \/ CommitIndex(h) \/ CommitRecorded(h)
      BY <1>1, <3>2, ChangingTurns DEF Moves, Rests
    <3>3. CASE (\E f \in Files : Apply(h, f)) \/ ApplyRemovals(h)
      BY <1>1, <3>3, ChangingTurns DEF Rests
    <3> QED BY <1>3, <3>1, <3>2, <3>3 DEF Changing
  <2>2. UNCHANGED <<bucket, manifest>> \/ ~\E k \in Handlers \ {h} : req[k].pc \in BareSteps
    <3>1. CASE Store(h)
      <4>1. req[h].pc \in RepoSteps /\ req[h].pc \in WriteSteps
        BY <3>1, LocksOfSteps DEF Store, At
      <4> QED BY <4>1, LocksOfSteps DEF LockInv, Alone, BareSteps
    <3>2. CASE CommitRemote(h)
      BY <3>2 DEF CommitRemote, RepoLock, WriteLock, Others, BareSteps, RemovingSteps, PublishingSteps
    <3>3. CASE ~Store(h) /\ ~CommitRemote(h)
      BY <1>3, <3>3 DEF Changing, StartChange, StageChunk, Commit, CommitLocks, Apply, ApplyRemovals,
                        FetchCopy, CommitIndex, CommitRecorded, bucketVars
    <3> QED BY <3>1, <3>2, <3>3
  <2> QED BY <1>1, <2>1, <2>2, RemovalSafe DEF BareSteps, UnpublishSteps
<1> QED BY <1>2, <1>3

LEMMA UploadingKeepsRemoval ==
    ASSUME LibraryTypeOK, PlaceInv, LockInv, RemovalInv, Unowned => UnownedInv, Undisturbed',
           UNCHANGED place, NEW h \in Handlers, NEW downloading, NEW fetching, Uploading(h, downloading, fetching)
    PROVE  RemovalInv'
<1>1. req \in [Handlers -> Request] /\ StatePlaced /\ "late" \notin strays' /\ "failed" \notin strays'
  BY DisturbedBy DEF LibraryTypeOK, PlaceInv, Undisturbed, Except
<1>2. ASSUME Kept(h), req'[h].pc \notin BareSteps \union UnpublishSteps \union {"delete"},
             UNCHANGED <<bucket, manifest>>, row' \in {row, "uploading"}
      PROVE  RemovalInv'
  BY <1>2, RemovalSafe
<1>3. CASE \/ CreateUpload(h) \/ ChunkWritten(h) \/ BeginRecord(h) \/ CompleteRecord(h) \/ SweepDiscard(h)
           \/ Forget(h)
  <2>1. Rests(h)
    BY <1>1, <1>3, UploadingTurns
  <2>2. UNCHANGED <<bucket, manifest>> /\ row' \in {row, "uploading"}
    BY <1>3 DEF CreateUpload, ChunkWritten, BeginRecord, CompleteRecord, SweepDiscard, Forget, bucketVars
  <2> QED BY <1>2, <2>1, <2>2 DEF Rests, BareSteps, UnpublishSteps
<1>4. CASE \/ SweepList(h) \/ Finalize(h) \/ FinalizeChecked(h) \/ FinalizeIndex(h) \/ PublishIndex(h)
           \/ \E f \in Files : Chunk(h, f)
  <2>1. Kept(h) /\ req'[h].pc \notin BareSteps \union UnpublishSteps \union {"delete"}
    BY <1>1, <1>4, UploadingTurns DEF Rests, Starts, Moves, BareSteps, UnpublishSteps
  <2>2. UNCHANGED <<bucket, manifest, row>>
    BY <1>4 DEF SweepList, Finalize, FinalizeChecked, FinalizeIndex, PublishIndex, Chunk, bucketVars
  <2> QED BY <1>2, <2>1, <2>2
<1>5. ASSUME NEW w \in Sessions \union {Upload}, NEW f \in Files, BeginFile(h, w, f) \/ CompleteFile(h, w, f)
      PROVE  RemovalInv'
  <2>1. Kept(h) /\ req'[h].pc \in {"idle", "begin_record", "complete_record"}
    BY <1>1, <1>5, UploadingTurns DEF Rests, Starts
  <2>2. UNCHANGED <<manifest, row>> /\ (UNCHANGED bucket \/ ~Others(h, RemovingSteps \union {"unpublish_rows"}))
    BY <1>1, <1>5 DEF BeginFile, CompleteFile, bucketVars, Strays
  <2>3. UNCHANGED <<bucket, manifest>> \/ ~\E k \in Handlers \ {h} : req[k].pc \in BareSteps
    BY <2>2 DEF Others, RemovingSteps, BareSteps
  <2> QED BY <2>1, <2>2, <2>3, RemovalSafe DEF BareSteps, UnpublishSteps
<1>6. CASE FinalizeSync(h) \/ FinalizeReady(h) \/ PublishReady(h)
  <2>1. Kept(h) /\ req'[h].pc \in {"finalize_index", "idle"}
    BY <1>1, <1>6, UploadingTurns DEF Rests, Moves
  <2>2. req[h].pc \in RepoSteps /\ (UNCHANGED <<bucket, manifest>> \/ req[h].pc \in WriteSteps)
    BY <1>6, LocksOfSteps DEF FinalizeSync, FinalizeReady, PublishReady, At, bucketVars
  <2>3. \A k \in Handlers \ {h} : /\ req[k].pc \notin UnpublishSteps
                                  /\ UNCHANGED <<bucket, manifest>> \/ req[k].pc \notin BareSteps
    BY <2>2, LocksOfSteps DEF LockInv, Alone, BareSteps, UnpublishSteps
  <2> QED BY <2>1, <2>3, RemovalSafe DEF BareSteps, UnpublishSteps
<1>7. CASE Publish(h)
  <2>1. Kept(h) /\ req'[h].pc \in {"publish_index", "idle"} /\ UNCHANGED row
    BY <1>1, <1>7, UploadingTurns DEF Rests, Moves, Publish
  <2>2. UNCHANGED <<bucket, manifest>> \/ bucket # << >>
    BY <1>7 DEF Publish
  <2>3. bucket # << >> => ~\E k \in Handlers \ {h} : req[k].pc \in BareSteps
    BY DEF RemovalInv, Within, BareSteps
  <2> QED BY <2>1, <2>2, <2>3, RemovalSafe DEF BareSteps, UnpublishSteps
<1>8. ASSUME Kept(h), \A k \in Handlers \ {h} : req[k].pc = "delete" /\ req[k].kind = "open" => req[k].at = Target,
             req'[h].pc = "delete" /\ req'[h].kind = "open" => req'[h].at = Target,
             Within(BareSteps)' => bucket' = << >> /\ manifest' = "none",
             Within(UnpublishSteps)' => row' = "uploading"
      PROVE  RemovalInv'
  BY <1>8 DEF RemovalInv, Kept, At, Target, BareSteps, UnpublishSteps
<1>9. \A k \in Handlers : req[k].pc = "delete" /\ req[k].kind = "open" => req[k].at = Target
  BY DEF RemovalInv, At
<1>10. CASE Delete(h, downloading)
  <2>1. /\ Kept(h) /\ req'[h].pc \in {"delete", "delete_upload"}
        /\ req'[h].kind = "open" => req'[h].at = model.target /\ row = "none"
    BY <1>1, <1>10, DeleteTurns
  <2>2. UNCHANGED <<bucket, manifest, row>>
    BY <1>10 DEF Delete, bucketVars
  <2>3. row = "none" => model.target = Target
    BY <1>10 DEF Delete, Unowned, UnownedInv, UnownedState
  <2>4. (Within(BareSteps)' => Within(BareSteps)) /\ (Within(UnpublishSteps)' => Within(UnpublishSteps))
    BY <2>1 DEF Within, Kept, BareSteps, UnpublishSteps
  <2> QED BY <1>8, <1>9, <2>1, <2>2, <2>3, <2>4 DEF RemovalInv, BareSteps, UnpublishSteps
<1>11. CASE AbortUpload(h)
  <2>1. Moves(h, "unpublish") /\ UNCHANGED <<bucket, manifest, row>> /\ row = "uploading"
    BY <1>1, <1>11, UploadingTurns DEF AbortUpload, Strays, bucketVars
  <2>2. Within(BareSteps)' => Within(BareSteps)
    BY <2>1 DEF Within, Moves, Kept, BareSteps
  <2> QED BY <1>8, <1>9, <2>1, <2>2 DEF RemovalInv, BareSteps, Moves
<1>12. CASE Unpublish(h)
  <2>1. Moves(h, "unpublish_rows")
    BY <1>1, <1>12, UploadingTurns, GoesOn DEF Unpublish, Strays
  <2>2. bucket' = << >> /\ manifest' = "none" /\ UNCHANGED row /\ req[h].pc = "unpublish"
    BY <1>1, <1>12 DEF Unpublish, Strays, At
  <2>3. row = "uploading"
    BY <2>2 DEF RemovalInv, Within
  <2> QED BY <1>8, <1>9, <2>1, <2>2, <2>3 DEF Moves
<1>13. CASE UnpublishRows(h) \/ RemoveFolder(h, fetching)
  <2>1. Kept(h) /\ req'[h].pc \in {"idle", "forget"}
    BY <1>1, <1>13, UploadingTurns DEF Rests, Moves
  <2>2. \A k \in Handlers \ {h} : req[k].pc \in {"idle", "sweep", "sweep_discard", "delete", "delete_upload"}
    <3>1. ~Overtakes(h)
      BY <1>1, <1>13 DEF UnpublishRows, RemoveFolder, Strays
    <3> QED BY <1>1, <3>1, NotOvertaken
  <2> QED BY <2>1, <2>2, RemovalSafe DEF BareSteps, UnpublishSteps
<1>14. CASE Remove(h, fetching)
  <2>1. Moves(h, "remove") \/ Rests(h)
    BY <1>1, <1>14, UploadingTurns
  <2>2. UNCHANGED row /\ req[h].pc = "delete"
    BY <1>14 DEF Remove, At
  <2>3. UNCHANGED <<bucket, manifest>> \/ (bucket' = << >> /\ manifest' = "none")
    BY <1>14 DEF Remove, bucketVars
  <2>4. Moves(h, "remove") => bucket' = << >> /\ manifest' = "none"
    <3> SUFFICES ASSUME Moves(h, "remove") PROVE bucket' = << >> /\ manifest' = "none"
      OBVIOUS
    <3>1. ~Rests(h)
      BY DEF Rests, Moves
    <3>2. ~Ends(h)
      BY <1>1, <3>1, TurnsIdle
    <3>3. \/ place = "disk" /\ UNCHANGED <<bucket, manifest>>
          \/ req[h].kind = "open" /\ req[h].at # "bucket" /\ UNCHANGED <<bucket, manifest>>
          \/ bucket' = << >> /\ manifest' = "none"
      BY <1>14, <3>2 DEF Remove, bucketVars
    <3> QED BY <1>1, <1>9, <2>2, <3>3 DEF StatePlaced, Target
  <2>5. CASE Moves(h, "remove")
    <3>1. Within(UnpublishSteps)' => Within(UnpublishSteps)
      BY <2>5 DEF Within, Moves, Kept, UnpublishSteps
    <3> QED BY <1>8, <1>9, <2>2, <2>4, <2>5, <3>1 DEF Moves, RemovalInv, UnpublishSteps
  <2>6. CASE Rests(h)
    <3>1. (Within(BareSteps)' => Within(BareSteps)) /\ (Within(UnpublishSteps)' => Within(UnpublishSteps))
      BY <2>6 DEF Within, Rests, Kept, BareSteps, UnpublishSteps
    <3> QED BY <1>8, <1>9, <2>2, <2>3, <2>6, <3>1 DEF Rests, RemovalInv, UnpublishSteps, BareSteps
  <2> QED BY <2>1, <2>5, <2>6
<1> QED BY <1>3, <1>4, <1>5, <1>6, <1>7, <1>10, <1>11, <1>12, <1>13, <1>14 DEF Uploading

(* What is forgotten is empty: no row is left of a file, nor a session that  *)
(* goes straight to the bucket.                                              *)
LEMMA NothingLeft ==
    ASSUME NEW slots, DOMAIN records \ slots = {}, records' = Restrict(records, DOMAIN records \ slots)
    PROVE  records' = << >>
<1>1. DOMAIN records' = {} /\ DOMAIN << >> = {}
  BY DEF Restrict
<1>2. records' = [x \in {} |-> records[x]] /\ << >> = [x \in {} |-> records[x]]
  BY DEF Restrict
<1> QED BY <1>2

LEMMA RecordsStayEmpty ==
    ASSUME records = << >>, NEW slots, records' = Restrict(records, DOMAIN records \ slots)
    PROVE  records' = << >>
<1>1. DOMAIN records \ slots = {}
  OBVIOUS
<1> QED BY <1>1, NothingLeft

LEMMA DiscardForgets ==
    ASSUME RecordsInv, ~Except({"begin"}), Discard({Upload} \union DirectSessions)
    PROVE  records' = << >> /\ DirectSessions' = {}
<1> DEFINE gone == {Upload} \union DirectSessions
<1>1. DOMAIN records \ Dropped(gone) = {}
  BY DEF RecordsInv, RecordsOwned, Dropped
<1>2. records' = Restrict(records, DOMAIN records \ Dropped(gone))
  BY DEF Discard, Drop
<1>3. session' = [s \in Sessions |-> IF s \in gone THEN "none" ELSE session[s]] /\ DirectSessions \subseteq gone
  BY DEF Discard
<1>4. DirectSessions' = {}
  BY <1>3 DEF DirectSessions
<1> HIDE DEF gone
<1> QED BY <1>1, <1>2, <1>4, NothingLeft

LEMMA UnpublishedGone ==
    ASSUME LibraryTypeOK, RecordsInv, PlaceInv, LockInv, HiddenInv, RemovalInv, Undisturbed, Undisturbed',
           NEW h \in Handlers, UnpublishRows(h)
    PROVE  Deleted'
<1>1. req \in [Handlers -> Request] /\ "late" \notin strays' /\ ~Except({"begin"}) /\ req[h].pc = "unpublish_rows"
  BY DisturbedBy DEF LibraryTypeOK, Undisturbed, Except, UnpublishRows, At
<1>2. Rests(h) /\ ~Overtakes(h)
  BY <1>1, UploadingTurns DEF UnpublishRows, Strays
<1>3. \A k \in Handlers \ {h} : req[k].pc \in {"idle", "sweep", "sweep_discard", "delete", "delete_upload"}
  BY <1>1, <1>2, NotOvertaken
<1>4. \A k \in Handlers : req'[k].pc \in {"idle", "sweep", "sweep_discard", "delete", "delete_upload"}
  BY <1>2, <1>3 DEF Rests, Kept
<1>5. bucket = << >> /\ manifest = "none" /\ row = "uploading" /\ place = "direct"
  BY <1>1 DEF RemovalInv, Within, PlaceInv, RequestPlaced
<1>6. \A k \in Handlers : req[k].pc \notin ShowingSteps \union {"finalize_sync"}
  BY <1>1, <1>3 DEF ShowingSteps
<1>7. ~FolderExists
  BY <1>5, <1>6 DEF HiddenInv, Hidden, Within, Unshown, LabelInv
<1>8. Emptied'
  BY <1>5, <1>7 DEF Emptied, FolderExists, UnpublishRows, bucketVars, diskVars
<1>9. Forgotten'
  BY <1>1, DiscardForgets DEF UnpublishRows, Forgotten
<1>10. \A k \in Handlers : GoneRequest(k)'
  BY <1>4 DEF GoneRequest, GoneSteps, At
<1>11. row' = "none" /\ model' = NoModel /\ ~Within({"remove"})'
  BY <1>4 DEF UnpublishRows, Within
<1> QED BY <1>8, <1>9, <1>10, <1>11 DEF Deleted, GoneInv, Unowned

LEMMA RemovedGone ==
    ASSUME LibraryTypeOK, RemovalInv, Undisturbed', NEW h \in Handlers, NEW fetching, RemoveFolder(h, fetching)
    PROVE  Deleted'
<1>1. req \in [Handlers -> Request] /\ "late" \notin strays' /\ req[h].pc = "remove"
  BY DisturbedBy DEF LibraryTypeOK, Undisturbed, Except, RemoveFolder, At
<1>2. Moves(h, "forget") /\ ~Overtakes(h)
  BY <1>1, UploadingTurns DEF RemoveFolder, Strays
<1>3. \A k \in Handlers \ {h} : req[k].pc \in {"idle", "sweep", "sweep_discard", "delete", "delete_upload"}
  BY <1>1, <1>2, NotOvertaken
<1>4. \A k \in Handlers : req'[k].pc \in {"idle", "sweep", "sweep_discard", "delete", "delete_upload", "forget"}
  BY <1>2, <1>3 DEF Moves, Kept
<1>5. bucket = << >> /\ manifest = "none"
  BY <1>1 DEF RemovalInv, Within
<1>6. Emptied'
  BY <1>5 DEF Emptied, FolderExists, RemoveFolder, bucketVars
<1>7. Within({"forget"})'
  BY <1>2 DEF Within, Moves
<1>8. \A k \in Handlers : GoneRequest(k)'
  BY <1>4 DEF GoneRequest, GoneSteps, At
<1>9. row' = "none" /\ model' = NoModel /\ ~Within({"remove"})'
  BY <1>4 DEF RemoveFolder, Within
<1> QED BY <1>6, <1>7, <1>8, <1>9 DEF Deleted, GoneInv, Unowned

(* Nothing comes back of a repository that is gone, but by being created.    *)
StaysEmpty == UNCHANGED <<model, folder, parts, label, bucket, manifest>>
StaysForgotten ==
    /\ history = << >> => history' = << >>
    /\ records = << >> => records' = << >>
    /\ DirectSessions' \subseteq DirectSessions

LEMMA GoneStays ==
    ASSUME Gone, GoneInv, NEW h \in Handlers, Kept(h), UNCHANGED row, StaysEmpty, StaysForgotten \/ Within({"forget"}),
           GoneRequest(h)', req[h].pc # "forget", req'[h].pc # "remove"
    PROVE  Deleted'
<1>1. row' = "none" /\ model' = NoModel /\ ~Within({"remove"})'
  BY DEF Gone, StaysEmpty, Within, Kept
<1>2. Emptied'
  BY DEF GoneInv, Emptied, StaysEmpty, FolderExists
<1>3. Within({"forget"}) => Within({"forget"})'
  BY DEF Within, Kept
<1>4. Within({"forget"})' \/ Forgotten'
  BY <1>3 DEF GoneInv, Forgotten, StaysForgotten
<1>5. \A k \in Handlers : GoneRequest(k)'
  BY <1>3 DEF GoneInv, GoneRequest, Kept, At
<1> QED BY <1>1, <1>2, <1>4, <1>5 DEF Deleted, GoneInv, Unowned

LEMMA CacheOfGone ==
    ASSUME LibraryTypeOK, Gone, GoneInv, NEW h \in Handlers, NEW downloading, NEW fetching, Cache(h, downloading, fetching),
           UNCHANGED <<place, uploadVars, sessionVars>>
    PROVE  Deleted'
<1>1. req \in [Handlers -> Request] /\ model = NoModel /\ model.target = "none" /\ GoneRequest(h) /\ Emptied
  BY DEF LibraryTypeOK, Gone, GoneInv, NoModel
<1>2. req[h].pc \in GoneSteps \union RecordSteps
  BY <1>1 DEF GoneRequest
<1>3. \/ Scan(h) \/ ScanFolder(h, fetching) \/ ScanList(h) \/ ScanIndex(h) \/ ScanLocal(h)
  BY <1>1, <1>2 DEF Cache, ScanCommit, Restore, RestoreFiles, RestoreIndex, Evict, EvictFolder, EvictIndex, At,
                    GoneSteps, RecordSteps
<1>4. ~Candidate
  BY <1>1 DEF Emptied, FolderExists, Candidate, Complete
<1>5. StaysEmpty /\ UNCHANGED <<row, history>> /\ req[h].pc # "forget"
  BY <1>1, <1>3, <1>4 DEF Scan, ScanFolder, ScanList, ScanIndex, ScanLocal, StaysEmpty, diskVars, bucketVars, GoneRequest,
                          At, Free
<1>6. StaysForgotten
  BY <1>5 DEF StaysForgotten, uploadVars, sessionVars, DirectSessions
<1>7. /\ Kept(h) /\ req'[h].pc \in {"scan", "scan_list", "scan_local", "scan_index", "sweep"}
      /\ req'[h].pc = "scan_index" => req'[h].kind = "none"
  <2>1. CASE ScanList(h)
    BY <1>1, <2>1, CacheTurns DEF Moves, Emptied
  <2>2. CASE ScanIndex(h)
    <3>1. req[h].kind = "none"
      BY <1>1, <2>2 DEF ScanIndex, GoneRequest
    <3> QED BY <1>1, <2>2, <3>1, CacheTurns DEF Moves
  <2> QED BY <1>1, <1>3, <2>1, <2>2, CacheTurns DEF Moves, Starts
<1>8. GoneRequest(h)'
  BY <1>7 DEF GoneRequest, GoneSteps, At
<1> QED BY <1>5, <1>6, <1>7, <1>8, GoneStays

LEMMA ChangingOfGone ==
    ASSUME LibraryTypeOK, UploadsTypeOK, Gone, GoneInv, NEW h \in Handlers, NEW downloading, Changing(h, downloading)
    PROVE  Deleted'
<1>1. req \in [Handlers -> Request] /\ model = NoModel /\ GoneRequest(h)
  BY DEF LibraryTypeOK, Gone, GoneInv
<1>2. req[h].pc \in GoneSteps \union RecordSteps
  BY <1>1 DEF GoneRequest
<1>3. ASSUME NEW s \in Sessions, NEW f \in Files, StageChunk(h, s, f) PROVE Deleted'
  <2>1. Rests(h) /\ req[h].pc = "idle"
    BY <1>1, <1>3, ChangingTurns
  <2>2. StaysEmpty /\ StaysForgotten /\ UNCHANGED row
    BY <1>3 DEF StageChunk, StaysEmpty, StaysForgotten, diskVars, bucketVars, uploadVars, DirectSessions
  <2>3. GoneRequest(h)'
    BY <2>1 DEF Rests, GoneRequest, GoneSteps, At
  <2> QED BY <2>1, <2>2, <2>3, GoneStays DEF Rests
<1>4. ASSUME NEW s \in Sessions, AbortChange(h, s) PROVE Deleted'
  <2>1. \A k \in Handlers : req'[k].pc = req[k].pc /\ (req[k].pc \notin {"apply", "store"} => req'[k] = req[k])
    BY <1>1, <1>4, AbortTurns
  <2>2. UNCHANGED <<row, model, folder, parts, label, bucket, manifest, history>>
    BY <1>4 DEF AbortChange, diskVars, bucketVars
  <2>3. records = << >> => records' = << >>
    <3>1. CASE session[s] = "staged"
      BY <1>4, <3>1 DEF AbortChange
    <3>2. CASE session[s] # "staged"
      <4>1. records' = Restrict(records, DOMAIN records \ Dropped({s}))
        BY <1>4, <3>2 DEF AbortChange, Discard, Drop
      <4> QED BY <4>1, RecordsStayEmpty
    <3> QED BY <3>1, <3>2
  <2>4. DirectSessions' \subseteq DirectSessions
    BY <1>4 DEF AbortChange, Unstage, Discard, DirectSessions, UploadsTypeOK
  <2>5. Within({"forget"})' = Within({"forget"}) /\ Within({"remove"})' = Within({"remove"})
    BY <2>1 DEF Within
  <2>6. GoneInv'
    BY <2>1, <2>2, <2>3, <2>4, <2>5 DEF GoneInv, Emptied, FolderExists, Forgotten, GoneRequest, At
  <2> QED BY <2>2, <2>5, <2>6 DEF Deleted, Gone, Unowned
<1>5. ~\E s \in Sessions : StartChange(h, s) \/ Commit(h, s, downloading)
  BY <1>1 DEF StartChange, Commit
<1>6. /\ ~CommitLocks(h) /\ ~(\E f \in Files : Apply(h, f)) /\ ~ApplyRemovals(h) /\ ~Store(h)
      /\ ~CommitRemote(h) /\ ~FetchCopy(h) /\ ~CommitIndex(h) /\ ~CommitRecorded(h)
  BY <1>2 DEF CommitLocks, Apply, ApplyRemovals, Store, CommitRemote, FetchCopy, CommitIndex, CommitRecorded, At,
              GoneSteps, RecordSteps
<1> QED BY <1>3, <1>4, <1>5, <1>6 DEF Changing

LEMMA UploadingOfGone ==
    ASSUME LibraryTypeOK, UploadsTypeOK, RecordsInv, PlaceInv, LockInv, HiddenInv, RemovalInv, Gone, GoneInv,
           Undisturbed, Undisturbed', NEW h \in Handlers, NEW downloading, NEW fetching, Uploading(h, downloading, fetching)
    PROVE  Deleted'
<1>1. req \in [Handlers -> Request] /\ model = NoModel /\ row = "none" /\ GoneRequest(h) /\ Emptied /\ "late" \notin strays'
  BY DisturbedBy DEF LibraryTypeOK, Gone, GoneInv, Undisturbed, Except
<1>2. req[h].pc \in GoneSteps \union RecordSteps
  BY <1>1 DEF GoneRequest
<1>3. CASE CreateUpload(h)
  BY <1>3 DEF CreateUpload, Deleted, Gone, Unowned
<1>4. /\ ~(\E f \in Files : Chunk(h, f)) /\ ~Finalize(h) /\ ~Delete(h, downloading) /\ ~AbortUpload(h)
      /\ ~ChunkWritten(h) /\ ~FinalizeChecked(h) /\ ~FinalizeSync(h) /\ ~FinalizeIndex(h) /\ ~FinalizeReady(h)
      /\ ~Publish(h) /\ ~PublishIndex(h) /\ ~PublishReady(h) /\ ~Unpublish(h)
  BY <1>1, <1>2 DEF Chunk, Finalize, Delete, AbortUpload, Strays, ChunkWritten, FinalizeChecked, FinalizeSync, FinalizeIndex,
              FinalizeReady, Publish, PublishIndex, PublishReady, Unpublish, At, GoneSteps, RecordSteps
<1>5. CASE UnpublishRows(h) \/ RemoveFolder(h, fetching)
  BY <1>5, UnpublishedGone, RemovedGone
<1>6. CASE BeginRecord(h) \/ CompleteRecord(h)
  <2>1. Rests(h) /\ UNCHANGED row /\ StaysEmpty /\ req[h].pc \in RecordSteps
    BY <1>1, <1>6, UploadingTurns DEF BeginRecord, CompleteRecord, StaysEmpty, diskVars, bucketVars, At, RecordSteps
  <2>2. Within({"forget"})
    BY <1>1, <2>1 DEF GoneRequest, GoneSteps, RecordSteps
  <2>3. GoneRequest(h)'
    BY <2>1 DEF Rests, GoneRequest, GoneSteps, At
  <2> QED BY <2>1, <2>2, <2>3, GoneStays DEF Rests, RecordSteps
<1>7. ASSUME NEW w \in Sessions \union {Upload}, NEW f \in Files, BeginFile(h, w, f) \/ CompleteFile(h, w, f)
      PROVE  Deleted'
  <2>1. w \in DirectSessions /\ w # Upload
    BY <1>1, <1>7, LibraryAssumption DEF BeginFile, CompleteFile, Accepts, DirectSessions
  <2>2. Within({"forget"})
    BY <2>1 DEF GoneInv, Forgotten
  <2>3. UNCHANGED row /\ StaysEmpty /\ req[h].pc = "idle"
    BY <1>7, <2>1 DEF BeginFile, CompleteFile, StaysEmpty, diskVars, bucketVars, Free
  <2>4. Kept(h) /\ req'[h].pc \in {"idle"} \union RecordSteps
    BY <1>1, <1>7, UploadingTurns DEF Rests, Starts, RecordSteps
  <2>5. Within({"forget"})'
    BY <2>2, <2>3, <2>4 DEF Within, Kept
  <2>6. GoneRequest(h)'
    BY <2>4, <2>5 DEF GoneRequest, GoneSteps, RecordSteps, At
  <2> QED BY <2>2, <2>3, <2>4, <2>6, GoneStays DEF RecordSteps
<1>8. CASE SweepList(h) \/ SweepDiscard(h)
  <2>1. Kept(h) /\ req'[h].pc \in {"idle", "sweep_discard"} /\ UNCHANGED <<row, history>> /\ StaysEmpty
    BY <1>1, <1>8, UploadingTurns DEF Rests, SweepList, SweepDiscard, StaysEmpty, diskVars, bucketVars
  <2>2. req[h].pc # "forget"
    BY <1>8 DEF SweepList, SweepDiscard, At
  <2>3. records = << >> => records' = << >>
    <3>1. CASE SweepList(h)
      BY <3>1 DEF SweepList, uploadVars
    <3>2. CASE SweepDiscard(h)
      <4> DEFINE slots == Dropped(req[h].stale) \union (IF Upload \in fresh THEN {} ELSE Of(Begun, Upload))
      <4>1. records' = Restrict(records, DOMAIN records \ slots)
        BY <3>2 DEF SweepDiscard, Drop
      <4> HIDE DEF slots
      <4> QED BY <4>1, RecordsStayEmpty
    <3> QED BY <1>8, <3>1, <3>2
  <2>4. DirectSessions' \subseteq DirectSessions
    BY <1>8 DEF SweepList, SweepDiscard, DirectSessions, sessionVars
  <2>5. StaysForgotten
    BY <2>1, <2>3, <2>4 DEF StaysForgotten
  <2>6. GoneRequest(h)'
    BY <2>1 DEF GoneRequest, GoneSteps, At
  <2> QED BY <2>1, <2>2, <2>5, <2>6, GoneStays
<1>9. CASE Forget(h)
  <2>1. Rests(h) /\ ~Overtakes(h)
    BY <1>1, <1>9, UploadingTurns DEF Forget, Strays
  <2>2. \A k \in Handlers : req'[k].pc \in {"idle", "sweep", "sweep_discard", "delete", "delete_upload"}
    BY <1>1, <2>1, NotOvertaken DEF Rests, Kept
  <2>3. Forgotten'
    BY <1>9, DiscardForgets DEF Forget, Forgotten, Undisturbed, Except
  <2>4. Emptied' /\ row' = "none" /\ model' = NoModel
    BY <1>1, <1>9 DEF Forget, Emptied, FolderExists, diskVars, bucketVars
  <2>5. ~Within({"remove"})' /\ \A k \in Handlers : GoneRequest(k)'
    BY <2>2 DEF Within, GoneRequest, GoneSteps, At
  <2> QED BY <2>3, <2>4, <2>5 DEF Deleted, GoneInv, Unowned
<1>10. CASE Remove(h, fetching)
  <2>1. Moves(h, "remove") \/ Rests(h)
    BY <1>1, <1>10, UploadingTurns
  <2>2. UNCHANGED <<row, model, folder, parts, label, history, session, records>> /\ req[h].pc = "delete"
    BY <1>10 DEF Remove, At, diskVars, sessionVars
  <2>3. bucket' = << >> /\ manifest' = "none"
    BY <1>1, <1>10 DEF Remove, bucketVars, Emptied
  <2>4. CASE Rests(h)
    <3>1. StaysEmpty /\ StaysForgotten
      BY <1>1, <2>2, <2>3 DEF StaysEmpty, StaysForgotten, Emptied, DirectSessions
    <3>2. GoneRequest(h)'
      BY <2>4 DEF Rests, GoneRequest, GoneSteps, At
    <3> QED BY <2>2, <2>4, <3>1, <3>2, GoneStays DEF Rests
  <2>5. CASE Moves(h, "remove")
    <3>1. Within({"remove"})'
      BY <2>5 DEF Moves, Within
    <3>2. UnownedState'
      BY <1>1, <2>2, <2>3, <3>1 DEF UnownedState, Emptied, FolderExists
    <3>3. \A k \in Handlers : UnownedRequest(k)'
      BY <2>5, <3>1 DEF GoneInv, GoneRequest, Moves, Kept, UnownedRequest, At, GoneSteps, RecordSteps, CommitSteps
    <3> QED BY <3>1, <3>2, <3>3 DEF Deleted, Gone, UnownedInv
  <2> QED BY <2>1, <2>4, <2>5
<1> QED BY <1>3, <1>4, <1>5, <1>6, <1>7, <1>8, <1>9, <1>10 DEF Uploading

(* One without an owner stays as a download or a commit left it.             *)
LEMMA UnownedStays ==
    ASSUME Unowned, UnownedInv, UNCHANGED <<place, row>>, NEW h \in Handlers, Kept(h), req[h].pc # "remove",
           label = "open" => label' = "open", model' # NoModel \/ Within({"remove"}),
           UnownedState', UnownedRequest(h)'
    PROVE  Deleted'
<1>1. Within({"remove"}) => Within({"remove"})'
  BY DEF Within, Kept
<1>2. ~Gone'
  BY <1>1 DEF Gone
<1>3. \A k \in Handlers : UnownedRequest(k)'
  BY <1>1 DEF UnownedInv, UnownedRequest, Kept, At, Target
<1> QED BY <1>2, <1>3 DEF Deleted, UnownedInv

LEMMA UnownedRests ==
    ASSUME Unowned, UnownedInv, UNCHANGED <<place, row, diskVars, model, manifest>>, NEW h \in Handlers, Kept(h),
           req[h].pc # "remove", UnownedRequest(h)'
    PROVE  Deleted'
<1>1. UNCHANGED <<label, folder, parts>>
  BY DEF diskVars
<1>2. Within({"remove"}) => Within({"remove"})'
  BY DEF Within, Kept
<1>3. UnownedState'
  BY <1>1, <1>2 DEF UnownedInv, UnownedState, FolderExists, Target
<1> QED BY <1>1, <1>3, UnownedStays DEF Unowned

LEMMA OpenIndexed ==
    ASSUME label = "open", IndexPath
    PROVE  model'.target = Target /\ model' # NoModel
BY DEF IndexPath, Registered, FolderModel, Complete, Target, NoModel

LEMMA CacheOfUnowned ==
    ASSUME LibraryTypeOK, PlaceInv, RemovalInv, Unowned, UnownedInv, Undisturbed', NEW h \in Handlers, NEW downloading,
           NEW fetching, Cache(h, downloading, fetching), UNCHANGED <<place, uploadVars, sessionVars>>
    PROVE  Deleted'
<1>1. /\ req \in [Handlers -> Request] /\ StatePlaced /\ RequestPlaced(h) /\ UnownedState /\ UnownedRequest(h) /\ row = "none"
      /\ model \in Model
  BY DEF LibraryTypeOK, PlaceInv, UnownedInv, Unowned
<1>2. /\ Within({"remove"}) => manifest = "none"
      /\ place # "disk" /\ ~Within({"remove"}) => manifest = "open"
      /\ ~Within({"remove"}) => model # NoModel
      /\ "restore" \notin strays' /\ "evict" \notin strays'
  BY DisturbedBy DEF RemovalInv, Within, UnownedInv, UnownedState, Unowned, Undisturbed, Except
<1>3. req[h].pc # "remove" /\ UNCHANGED <<row, manifest>>
  BY DEF Cache, Scan, ScanFolder, ScanList, ScanIndex, ScanCommit, ScanLocal, Restore, RestoreFiles,
         RestoreIndex, Evict, EvictFolder, EvictIndex, At, Free, bucketVars
<1>4. CASE Scan(h) \/ Restore(h, downloading) \/ Evict(h, downloading) \/ ScanCommit(h) \/ ScanLocal(h)
  <2>1. Kept(h) /\ req'[h].pc \in {"scan", "restore", "evict", "sweep"}
    BY <1>1, <1>4, CacheTurns DEF Starts, Moves
  <2>2. UNCHANGED <<diskVars, model>>
    BY <1>4 DEF Scan, Restore, Evict, ScanCommit, ScanLocal
  <2> QED BY <1>3, <2>1, <2>2, UnownedRests DEF UnownedRequest, CommitSteps, At
<1>5. CASE ScanFolder(h, fetching)
  <2>1. Kept(h) /\ req'[h].pc \in {"scan_local", "scan_list"} /\ UNCHANGED diskVars
    BY <1>1, <1>5, CacheTurns DEF Moves, ScanFolder
  <2>2. UnownedRequest(h)'
    BY <2>1 DEF UnownedRequest, CommitSteps, At
  <2>3. CASE label = "open"
    <3>1. model'.target = Target /\ model' # NoModel
      BY <1>5, <2>3, OpenIndexed DEF ScanFolder, Candidate, Complete, Registered
    <3>2. Within({"remove"}) => Within({"remove"})'
      BY <1>3, <2>1 DEF Within, Kept
    <3>3. UnownedState'
      BY <1>1, <1>3, <2>1, <2>3, <3>1, <3>2 DEF UnownedState, Target, diskVars, FolderExists
    <3> QED BY <1>3, <2>1, <2>2, <2>3, <3>1, <3>3, UnownedStays DEF diskVars
  <2>4. CASE label # "open"
    <3>1. ~Candidate
      BY <1>1, <2>4 DEF UnownedState, FolderExists, Candidate, Complete
    <3>2. model.target # "local"
      BY <1>1, <2>4 DEF UnownedState, NoModel, Target
    <3>3. model' = model
      BY <1>5, <3>1, <3>2 DEF ScanFolder
    <3> QED BY <1>3, <2>1, <2>2, <3>3, UnownedRests
  <2> QED BY <2>3, <2>4
<1>6. CASE ScanList(h)
  <2>1. place # "disk" /\ UNCHANGED <<diskVars, model>>
    BY <1>1, <1>6 DEF ScanList, RequestPlaced, At
  <2>2. /\ Kept(h) /\ req'[h].pc \in {"scan_index", "scan_local"}
        /\ req'[h].pc = "scan_index" => req'[h].kind = IF model.target = "local" THEN "none" ELSE manifest
    BY <1>1, <1>6, CacheTurns DEF Moves
  <2>3. ~Within({"remove"})' => ~Within({"remove"})
    BY <1>3, <2>2 DEF Within, Kept
  <2>4. ~Within({"remove"}) => model.target = "bucket" /\ manifest = "open"
    BY <1>1, <1>2, <2>1 DEF UnownedState, Target
  <2>5. UnownedRequest(h)'
    BY <2>2, <2>3, <2>4 DEF UnownedRequest, CommitSteps, At
  <2> QED BY <1>3, <2>1, <2>2, <2>5, UnownedRests
<1>7. CASE ScanIndex(h)
  <2>1. place # "disk" /\ UNCHANGED diskVars
    BY <1>1, <1>7 DEF ScanIndex, RequestPlaced, At
  <2>2. Kept(h) /\ req'[h].pc \in {"scan_commit", "scan_local"}
    BY <1>1, <1>7, CacheTurns DEF Moves
  <2>3. UnownedRequest(h)'
    BY <2>2 DEF UnownedRequest, CommitSteps, At
  <2>4. Within({"remove"}) => Within({"remove"})'
    BY <1>3, <2>2 DEF Within, Kept
  <2>5. CASE req[h].kind # "none" /\ Registered(req[h].kind)
    <3>1. model' = [target |-> "bucket", cached |-> req[h].local]
      BY <1>7, <2>5 DEF ScanIndex, IndexRemote
    <3>2. model'.target = Target /\ model' # NoModel
      BY <2>1, <3>1 DEF Target, NoModel
    <3>3. UnownedState'
      BY <1>1, <1>3, <2>1, <2>4, <3>2 DEF UnownedState, Target, diskVars, FolderExists
    <3> QED BY <1>3, <2>1, <2>2, <2>3, <3>2, <3>3, UnownedStays DEF diskVars
  <2>6. CASE ~(req[h].kind # "none" /\ Registered(req[h].kind))
    <3>1. Within({"remove"})
      BY <1>1, <1>7, <2>6 DEF UnownedRequest, ScanIndex, Registered
    <3>2. model' \in {model, NoModel}
      BY <1>7, <2>6 DEF ScanIndex
    <3>3. UnownedState'
      BY <1>1, <1>3, <2>1, <2>4, <3>1, <3>2 DEF UnownedState, Target, diskVars, FolderExists
    <3> QED BY <1>3, <2>1, <2>2, <2>3, <3>1, <3>3, UnownedStays DEF diskVars
  <2> QED BY <2>5, <2>6
<1>8. CASE RestoreFiles(h)
  <2>1. manifest # "none" /\ label' = manifest /\ UNCHANGED model
    BY <1>2, <1>8 DEF RestoreFiles, Strays
  <2>2. ~Within({"remove"}) /\ place # "disk" /\ label' = "open" /\ model # NoModel
    BY <1>1, <1>2, <2>1 DEF StatePlaced
  <2>3. Kept(h) /\ req'[h].pc \in {"restore_index", "idle"}
    BY <1>1, <1>8, CacheTurns DEF Moves, Rests
  <2>4. UnownedRequest(h)'
    BY <2>2, <2>3 DEF UnownedRequest, CommitSteps, At
  <2>5. UnownedState'
    BY <1>1, <1>2, <1>3, <2>1, <2>2 DEF UnownedState, Target
  <2> QED BY <1>3, <2>1, <2>2, <2>3, <2>4, <2>5, UnownedStays
<1>9. CASE RestoreIndex(h)
  <2>1. label = "open" /\ IndexPath /\ UNCHANGED diskVars
    BY <1>1, <1>9 DEF RestoreIndex, UnownedRequest
  <2>2. model'.target = Target /\ model' # NoModel
    BY <2>1, OpenIndexed
  <2>3. Rests(h)
    BY <1>1, <1>9, CacheTurns
  <2>4. Within({"remove"}) => Within({"remove"})'
    BY <1>3, <2>3 DEF Within, Rests, Kept
  <2>5. UnownedState'
    BY <1>1, <1>3, <2>1, <2>2, <2>4 DEF UnownedState, Target, diskVars, FolderExists
  <2>6. UnownedRequest(h)'
    BY <2>3 DEF UnownedRequest, Rests, CommitSteps, At
  <2> QED BY <1>3, <2>1, <2>2, <2>3, <2>5, <2>6, UnownedStays DEF Rests, diskVars
<1>10. CASE EvictFolder(h, fetching)
  <2>1. CASE manifest = "none"
    <3>1. Rests(h) /\ UNCHANGED <<diskVars, model>>
      BY <1>1, <1>10, <2>1, CacheTurns DEF EvictFolder
    <3>2. UnownedRequest(h)'
      BY <3>1 DEF UnownedRequest, Rests, CommitSteps, At
    <3> QED BY <1>3, <3>1, <3>2, UnownedRests DEF Rests
  <2>2. CASE manifest # "none"
    <3>1. Moves(h, "evict_index") /\ folder' = << >> /\ parts' = {} /\ label' = "none" /\ UNCHANGED model
      BY <1>1, <1>10, <2>2, CacheTurns DEF EvictFolder
    <3>2. ~Within({"remove"}) /\ place # "disk"
      BY <1>1, <1>2, <2>2 DEF StatePlaced
    <3>3. ~Others(h, Steps \ {"idle", "sweep", "sweep_discard", "history"})
      BY <1>2, <1>10, <2>2 DEF EvictFolder, Strays
    <3>4. \A k \in Handlers \ {h} : req[k].pc \in {"idle", "sweep", "sweep_discard", "history"}
      BY <1>1, <3>3, RequestFields DEF Others
    <3>5. \A k \in Handlers : UnownedRequest(k)'
      BY <3>1, <3>4 DEF Moves, Kept, UnownedRequest, CommitSteps, At
    <3>6. UnownedState'
      BY <1>1, <1>2, <1>3, <3>1, <3>2 DEF UnownedState, FolderExists, Target
    <3>7. ~Gone'
      BY <1>2, <3>1, <3>2 DEF Gone
    <3> QED BY <3>5, <3>6, <3>7 DEF Deleted, UnownedInv
  <2> QED BY <2>1, <2>2
<1>11. CASE EvictIndex(h)
  <2>1. model' = [model EXCEPT !.cached = FALSE] /\ UNCHANGED diskVars
    BY <1>11 DEF EvictIndex
  <2>2. model'.target = model.target
    BY <1>1, <2>1 DEF Model
  <2>3. Rests(h)
    BY <1>1, <1>11, CacheTurns
  <2>4. Within({"remove"}) => Within({"remove"})'
    BY <1>3, <2>3 DEF Within, Rests, Kept
  <2>5. UnownedRequest(h)'
    BY <2>3 DEF UnownedRequest, Rests, CommitSteps, At
  <2>6. CASE model = NoModel
    <3>1. model' = [NoModel EXCEPT !.cached = FALSE]
      BY <2>1, <2>6
    <3>2. model' = NoModel
      BY <3>1 DEF NoModel
    <3> QED BY <1>3, <2>1, <2>3, <2>5, <2>6, <3>2, UnownedRests DEF Rests
  <2>7. CASE model # NoModel
    <3>1. model' # NoModel
      BY <1>1, <2>2, <2>7 DEF StatePlaced, NoModel
    <3>2. UnownedState'
      BY <1>1, <1>3, <2>1, <2>2, <2>4, <2>7 DEF UnownedState, Target, diskVars, FolderExists
    <3> QED BY <1>3, <2>1, <2>3, <2>5, <3>1, <3>2, UnownedStays DEF Rests, diskVars
  <2> QED BY <2>6, <2>7
<1> QED BY <1>4, <1>5, <1>6, <1>7, <1>8, <1>9, <1>10, <1>11 DEF Cache

LEMMA UploadingOfUnowned ==
    ASSUME LibraryTypeOK, UploadsTypeOK, RecordsInv, PlaceInv, LockInv, RowInv, HiddenInv, RemovalInv, Unowned, UnownedInv,
           Undisturbed, Undisturbed', NEW h \in Handlers, NEW downloading, NEW fetching,
           Uploading(h, downloading, fetching), UNCHANGED place
    PROVE  Deleted'
<1>1. /\ req \in [Handlers -> Request] /\ UnownedState /\ UnownedRequest(h) /\ row = "none" /\ "late" \notin strays'
      /\ req[h].pc \notin UploadSteps
  BY DisturbedBy DEF LibraryTypeOK, UnownedInv, Unowned, Undisturbed, Except, RowInv, RequestRow
<1>2. CASE CreateUpload(h)
  BY <1>2 DEF CreateUpload, Deleted, Gone, Unowned
<1>3. /\ ~(\E f \in Files : Chunk(h, f)) /\ ~Finalize(h) /\ ~AbortUpload(h)
      /\ ~ChunkWritten(h) /\ ~FinalizeChecked(h) /\ ~FinalizeSync(h) /\ ~FinalizeIndex(h) /\ ~FinalizeReady(h)
      /\ ~Publish(h) /\ ~PublishIndex(h) /\ ~PublishReady(h) /\ ~Unpublish(h)
  BY <1>1 DEF Chunk, Finalize, AbortUpload, Strays, ChunkWritten, FinalizeChecked, FinalizeSync, FinalizeIndex,
              FinalizeReady, Publish, PublishIndex, PublishReady, Unpublish, At, UploadSteps, FinalizingSteps
<1>4. CASE UnpublishRows(h) \/ RemoveFolder(h, fetching)
  BY <1>4, UnpublishedGone, RemovedGone
<1>5. CASE \/ BeginRecord(h) \/ CompleteRecord(h) \/ SweepList(h) \/ SweepDiscard(h) \/ Delete(h, downloading) \/ Forget(h)
  <2>1. Kept(h) /\ req'[h].pc \in {"idle", "sweep_discard", "delete"}
    <3>1. CASE Delete(h, downloading)
      BY <1>1, <3>1, DeleteTurns
    <3> QED BY <1>1, <1>5, <3>1, UploadingTurns DEF Rests
  <2>2. UNCHANGED <<row, diskVars, model, manifest>> /\ req[h].pc # "remove"
    BY <1>5 DEF BeginRecord, CompleteRecord, SweepList, SweepDiscard, Delete, Forget, bucketVars, At, Free
  <2> QED BY <2>1, <2>2, UnownedRests DEF UnownedRequest, CommitSteps, At
<1>6. ASSUME NEW w \in Sessions \union {Upload}, NEW f \in Files, BeginFile(h, w, f) \/ CompleteFile(h, w, f)
      PROVE  Deleted'
  <2>1. Kept(h) /\ req'[h].pc \in {"idle", "begin_record", "complete_record"}
    BY <1>1, <1>6, UploadingTurns DEF Rests, Starts
  <2>2. UNCHANGED <<row, diskVars, model, manifest>> /\ req[h].pc # "remove"
    BY <1>6 DEF BeginFile, CompleteFile, bucketVars, Free
  <2> QED BY <2>1, <2>2, UnownedRests DEF UnownedRequest, CommitSteps, At
<1>7. CASE Remove(h, fetching)
  <2>1. Moves(h, "remove") \/ Rests(h)
    BY <1>1, <1>7, UploadingTurns
  <2>2. UNCHANGED <<row, diskVars, model>> /\ req[h].pc = "delete"
    BY <1>7 DEF Remove, At
  <2>3. CASE Moves(h, "remove")
    <3>1. Within({"remove"})'
      BY <2>3 DEF Moves, Within
    <3>2. UnownedState'
      BY <1>1, <2>2, <3>1 DEF UnownedState, Target, diskVars, FolderExists
    <3>3. \A k \in Handlers : UnownedRequest(k)'
      BY <2>2, <2>3, <3>1 DEF UnownedInv, UnownedRequest, Moves, Kept, At, CommitSteps, Target, diskVars
    <3> QED BY <3>1, <3>2, <3>3 DEF Deleted, Gone, UnownedInv
  <2>4. CASE Rests(h)
    <3>1. ~Moves(h, "remove")
      BY <2>4 DEF Rests, Moves
    <3>2. ~GoesTo(h, "remove")
      BY <1>1, <3>1, GoesOn
    <3>3. UNCHANGED manifest
      BY <1>7, <3>2 DEF Remove, bucketVars
    <3> QED BY <2>2, <2>4, <3>3, UnownedRests DEF Rests, UnownedRequest, CommitSteps, At
  <2> QED BY <2>1, <2>3, <2>4
<1> QED BY <1>2, <1>3, <1>4, <1>5, <1>6, <1>7 DEF Uploading

LEMMA ChangingOfUnowned ==
    ASSUME LibraryTypeOK, PlaceInv, LockInv, Unowned, UnownedInv, Undisturbed',
           NEW h \in Handlers, NEW downloading, Changing(h, downloading), UNCHANGED place
    PROVE  Deleted'
<1>1. /\ req \in [Handlers -> Request] /\ StatePlaced /\ RequestPlaced(h) /\ UnownedState /\ UnownedRequest(h) /\ row = "none"
      /\ "failed" \notin strays'
  BY DisturbedBy DEF LibraryTypeOK, PlaceInv, UnownedInv, Unowned, Undisturbed, Except
<1>2. ASSUME NEW s \in Sessions, AbortChange(h, s) PROVE Deleted'
  <2>1. \A k \in Handlers : /\ req'[k].pc = req[k].pc /\ req'[k].local = req[k].local /\ req'[k].at = req[k].at
                            /\ req[k].pc \notin {"apply", "store"} => req'[k] = req[k]
    BY <1>1, <1>2, AbortTurns
  <2>2. UNCHANGED <<row, model, folder, parts, label, manifest>>
    BY <1>2 DEF AbortChange, diskVars, bucketVars
  <2>3. Within({"remove"})' = Within({"remove"})
    BY <2>1 DEF Within
  <2>4. \A k \in Handlers : UnownedRequest(k)'
    BY <2>1, <2>2, <2>3 DEF UnownedInv, UnownedRequest, At, Target
  <2>5. UnownedState' /\ ~Gone'
    BY <1>1, <2>2, <2>3 DEF UnownedState, Target, FolderExists, Unowned, Gone
  <2> QED BY <2>4, <2>5 DEF Deleted, UnownedInv
<1>3. UNCHANGED row
  BY DEF Changing, StartChange, StageChunk, AbortChange, Commit, CommitLocks, Apply, ApplyRemovals, Store,
         CommitRemote, FetchCopy, CommitIndex, CommitRecorded
<1>4. ASSUME NEW s \in Sessions, StartChange(h, s) \/ \E f \in Files : StageChunk(h, s, f) PROVE Deleted'
  <2>1. Rests(h) /\ req[h].pc = "idle"
    BY <1>1, <1>4, ChangingTurns
  <2>2. UNCHANGED <<diskVars, model, manifest>>
    BY <1>4 DEF StartChange, StageChunk, bucketVars
  <2> QED BY <1>3, <2>1, <2>2, UnownedRests DEF Rests, UnownedRequest, CommitSteps, At
<1>5. ASSUME NEW s \in Sessions, Commit(h, s, downloading) PROVE Deleted'
  <2>1. /\ Kept(h) /\ req[h].pc = "idle" /\ req'[h].pc \in {"commit", "commit_upload"}
        /\ req'[h].at = model.target /\ req'[h].local = (model.cached /\ FolderExists)
    BY <1>1, <1>5, ChangingTurns
  <2>2. UNCHANGED <<diskVars, model, manifest>> /\ model # NoModel
    BY <1>5 DEF Commit, bucketVars
  <2>3. req'[h].at = Target /\ (req'[h].local => label = "open")
    BY <1>1, <2>1, <2>2 DEF UnownedState
  <2>4. UnownedRequest(h)'
    BY <2>1, <2>2, <2>3 DEF UnownedRequest, At, Target, diskVars
  <2> QED BY <1>3, <2>1, <2>2, <2>4, UnownedRests
<1>6. ASSUME Kept(h), req'[h].local = req[h].local, req'[h].at = req[h].at, req[h].pc \in CommitSteps, req'[h].pc \in CommitSteps,
             label = "open" => label' = "open", model' # NoModel \/ Within({"remove"}), UnownedState'
      PROVE  Deleted'
  <2>1. UnownedRequest(h)'
    BY <1>1, <1>6 DEF UnownedRequest, CommitSteps, At, Target
  <2> QED BY <1>3, <1>6, <2>1, UnownedStays DEF CommitSteps
<1>7. ASSUME Rests(h), req[h].pc # "remove", label = "open" => label' = "open", model' # NoModel \/ Within({"remove"}), UnownedState'
      PROVE  Deleted'
  <2>1. UnownedRequest(h)'
    BY <1>7 DEF Rests, UnownedRequest, CommitSteps, At
  <2> QED BY <1>3, <1>7, <2>1, UnownedStays DEF Rests
<1>8. ASSUME Kept(h), req[h].pc # "remove", label' = "open" \/ UNCHANGED <<folder, parts, label>>,
             UNCHANGED model, manifest' = manifest \/ manifest' = "open"
      PROVE  /\ UnownedState' /\ (model' # NoModel \/ Within({"remove"})) /\ (label = "open" => label' = "open")
             /\ Within({"remove"}) => Within({"remove"})'
  <2>1. Within({"remove"}) => Within({"remove"})'
    BY <1>8 DEF Within, Kept
  <2> QED BY <1>1, <1>8, <2>1 DEF UnownedState, Target, FolderExists, Unowned
<1>9. CASE CommitLocks(h)
  <2>1. Moves(h, "apply") /\ UNCHANGED <<folder, parts, label, model, manifest>> /\ req[h].pc = "commit"
    BY <1>1, <1>9, ChangingTurns DEF CommitLocks, diskVars, bucketVars, At
  <2> QED BY <1>6, <1>8, <2>1 DEF Moves, Carries, CommitSteps
<1>10. CASE (\E f \in Files : Apply(h, f)) \/ ApplyRemovals(h)
  <2>1. UNCHANGED <<label, model, manifest>> /\ req[h].pc = "apply"
    BY <1>10 DEF Apply, ApplyRemovals, Rollback, bucketVars, At
  <2>2. label' = "open"
    BY <1>1, <2>1 DEF RequestPlaced, UnownedRequest, CommitSteps
  <2>3. \/ Rests(h)
        \/ /\ Kept(h) /\ req'[h].pc \in {"apply", "store"}
           /\ req'[h].local = req[h].local /\ req'[h].at = req[h].at
    BY <1>1, <1>10, ChangingTurns
  <2>4. UnownedState' /\ (model' # NoModel \/ Within({"remove"}))
    BY <1>8, <2>1, <2>2, <2>3 DEF Rests
  <2> QED BY <1>6, <1>7, <2>1, <2>2, <2>3, <2>4 DEF CommitSteps
<1>11. CASE Store(h)
  <2>1. Kept(h) /\ Moves(h, "commit_index")
    BY <1>1, <1>11, GoesOn DEF Store, Strays, Moves
  <2>2. req[h].pc = "store" /\ label = "open" /\ UNCHANGED <<label, model>>
    BY <1>1, <1>11 DEF Store, Strays, At, RequestPlaced, UnownedRequest, CommitSteps
  <2>3. manifest' = manifest \/ manifest' = "open"
    BY <1>1, <1>11, <2>2 DEF Store, Strays, bucketVars
  <2>4. UnownedState' /\ (model' # NoModel \/ Within({"remove"}))
    BY <1>8, <2>1, <2>2, <2>3
  <2> QED BY <1>6, <2>1, <2>2, <2>4 DEF CommitSteps, Moves, Carries
<1>12. CASE CommitRemote(h)
  <2>1. Moves(h, IF Local(h) THEN "fetch" ELSE "commit_index") \/ Rests(h)
    BY <1>1, <1>12, ChangingTurns
  <2>2. UNCHANGED <<folder, parts, label, model>> /\ req[h].pc \in {"commit", "commit_upload"}
    BY <1>12 DEF CommitRemote, diskVars, At
  <2>3. manifest' = manifest \/ manifest' = "open"
    BY <1>1, <1>12 DEF CommitRemote, bucketVars, ReplacementManifest
  <2>4. Kept(h)
    BY <2>1 DEF Moves, Rests
  <2>5. UnownedState' /\ (model' # NoModel \/ Within({"remove"}))
    BY <1>8, <2>2, <2>3, <2>4
  <2> QED BY <1>6, <1>7, <2>1, <2>2, <2>5 DEF CommitSteps, Moves, Carries
<1>13. CASE FetchCopy(h)
  <2>1. Moves(h, "commit_index") \/ Rests(h)
    BY <1>1, <1>13, ChangingTurns
  <2>2. req[h].pc = "fetch" /\ UNCHANGED <<model, manifest, parts>>
    BY <1>13 DEF FetchCopy, At, bucketVars
  <2>3. ~Within({"remove"}) /\ place # "disk"
    <3>1. req[h].pc \in WriteSteps
      BY <2>2, LocksOfSteps
    <3> QED BY <1>1, <2>2, <3>1, LocksOfSteps DEF LockInv, Alone, Within, RequestPlaced
  <2>4. manifest = "open"
    BY <1>1, <2>3 DEF UnownedState
  <2>5. label' = "open"
    BY <1>1, <1>13, <2>4 DEF FetchCopy, Strays, UnownedState
  <2>6. Kept(h)
    BY <2>1 DEF Moves, Rests
  <2>7. UnownedState' /\ (model' # NoModel \/ Within({"remove"}))
    BY <1>8, <2>2, <2>5, <2>6
  <2> QED BY <1>6, <1>7, <2>1, <2>2, <2>5, <2>7 DEF CommitSteps, Moves, Carries
<1>14. CASE CommitIndex(h)
  <2>1. Moves(h, "history") /\ UNCHANGED <<diskVars, manifest>> /\ req[h].pc = "commit_index"
    BY <1>1, <1>14, ChangingTurns DEF CommitIndex, bucketVars, At
  <2>2. model'.target = Target /\ model' # NoModel
    <3>1. CASE Local(h)
      <4>1. label = "open"
        BY <1>1, <2>1, <3>1 DEF UnownedRequest, CommitSteps, Local
      <4> QED BY <1>14, <3>1, <4>1, OpenIndexed DEF CommitIndex
    <3>2. CASE ~Local(h)
      <4>1. model' = [target |-> "bucket", cached |-> FALSE]
        BY <1>14, <3>2 DEF CommitIndex, IndexRemote
      <4>2. place # "disk"
        BY <1>1, <2>1, <3>2 DEF RequestPlaced, At, Local
      <4> QED BY <4>1, <4>2 DEF Target, NoModel
    <3> QED BY <3>1, <3>2
  <2>3. place = "disk" => label = "open"
    BY <1>1, <2>1 DEF RequestPlaced, UnownedRequest, CommitSteps, At
  <2>4. Within({"remove"}) => Within({"remove"})'
    BY <2>1 DEF Within, Moves, Kept
  <2>5. UnownedState'
    BY <1>1, <2>1, <2>2, <2>3, <2>4 DEF UnownedState, Target, diskVars, FolderExists
  <2>6. UnownedRequest(h)'
    BY <2>1 DEF Moves, UnownedRequest, CommitSteps, At
  <2> QED BY <1>3, <2>1, <2>2, <2>5, <2>6, UnownedStays DEF Moves, diskVars
<1>15. CASE CommitRecorded(h)
  <2>1. Rests(h) /\ UNCHANGED <<diskVars, model, manifest>> /\ req[h].pc = "history"
    BY <1>1, <1>15, ChangingTurns DEF CommitRecorded, bucketVars, At
  <2>2. UnownedRequest(h)'
    BY <2>1 DEF Rests, UnownedRequest, CommitSteps, At
  <2> QED BY <1>3, <2>1, <2>2, UnownedRests DEF Rests
<1>16. ASSUME NEW s \in Sessions, StartChange(h, s) \/ AbortChange(h, s) \/ Commit(h, s, downloading) PROVE Deleted'
  BY <1>2, <1>4, <1>5, <1>16
<1> QED BY <1>4, <1>9, <1>10, <1>11, <1>12, <1>13, <1>14, <1>15, <1>16 DEF Changing

(* A repository with an owner keeps its row until its deletion removes it.   *)
LEMMA OwnerKept ==
    ASSUME row # "none", NEW h \in Handlers, NEW downloading, NEW fetching,
           Uploading(h, downloading, fetching), ~UnpublishRows(h), ~RemoveFolder(h, fetching)
    PROVE  row' # "none"
<1>1. CASE FinalizeReady(h) \/ PublishReady(h)
  BY <1>1 DEF FinalizeReady, PublishReady, Ready
<1>2. CASE CreateUpload(h)
  BY <1>2 DEF CreateUpload
<1>3. CASE \/ \E f \in Files : Chunk(h, f)
           \/ \E w \in Sessions \union {Upload}, f \in Files : BeginFile(h, w, f) \/ CompleteFile(h, w, f)
           \/ ChunkWritten(h) \/ BeginRecord(h) \/ CompleteRecord(h) \/ SweepList(h) \/ SweepDiscard(h)
  BY <1>3 DEF Chunk, BeginFile, CompleteFile, ChunkWritten, BeginRecord, CompleteRecord, SweepList, SweepDiscard
<1>4. CASE \/ Finalize(h) \/ FinalizeChecked(h) \/ FinalizeSync(h) \/ FinalizeIndex(h) \/ Publish(h) \/ PublishIndex(h)
           \/ Delete(h, downloading) \/ AbortUpload(h) \/ Unpublish(h) \/ Remove(h, fetching) \/ Forget(h)
  BY <1>4 DEF Finalize, FinalizeChecked, FinalizeSync, FinalizeIndex, Publish, PublishIndex, Delete, AbortUpload,
              Unpublish, Remove, Forget
<1> QED BY <1>1, <1>2, <1>3, <1>4 DEF Uploading

LEMMA OthersKeepRow ==
    ASSUME NEW h \in Handlers, NEW downloading, NEW fetching, Cache(h, downloading, fetching) \/ Changing(h, downloading)
    PROVE  UNCHANGED row
<1>1. CASE Cache(h, downloading, fetching)
  BY <1>1 DEF Cache, Scan, ScanFolder, ScanList, ScanIndex, ScanCommit, ScanLocal, Restore, RestoreFiles, RestoreIndex,
              Evict, EvictFolder, EvictIndex
<1>2. CASE Changing(h, downloading)
  BY <1>2 DEF Changing, StartChange, StageChunk, AbortChange, Commit, CommitLocks, Apply, ApplyRemovals, Store,
              CommitRemote, FetchCopy, CommitIndex, CommitRecorded
<1> QED BY <1>1, <1>2

LEMMA DeletedRests ==
    ASSUME RemovalInv, Deleted, UNCHANGED <<place, row, model, folder, parts, label, bucket, manifest, history, records, session>>,
           \A k \in Handlers : req'[k] = req[k] \/ (req[k].pc = "idle" /\ req'[k].pc = "idle")
    PROVE  RemovalInv' /\ Deleted'
<1>1. \A k \in Handlers : req'[k].pc = req[k].pc /\ (req[k].pc # "idle" => req'[k] = req[k])
  OBVIOUS
<1>2. \A steps : Within(steps)' = Within(steps)
  BY <1>1 DEF Within
<1>3. RemovalInv'
  BY <1>1, <1>2 DEF RemovalInv, At, Target
<1>4. Gone' = Gone /\ Unowned' = Unowned
  BY <1>2 DEF Gone, Unowned
<1>5. (\A k \in Handlers : GoneRequest(k)) => \A k \in Handlers : GoneRequest(k)'
  BY <1>1, <1>2 DEF GoneRequest, At
<1>6. GoneInv => GoneInv'
  BY <1>2, <1>5 DEF GoneInv, Emptied, FolderExists, Forgotten, DirectSessions
<1>7. (\A k \in Handlers : UnownedRequest(k)) => \A k \in Handlers : UnownedRequest(k)'
  BY <1>1, <1>2 DEF UnownedRequest, At, Target, CommitSteps
<1>8. UnownedInv => UnownedInv'
  BY <1>2, <1>7 DEF UnownedInv, UnownedState, FolderExists, Target
<1> QED BY <1>3, <1>4, <1>6, <1>8 DEF Deleted

LEMMA StartDownloadKeepsDeleted ==
    ASSUME LibraryTypeOK, RemovalInv, Deleted, NEW h \in Handlers, StartDownload(h), UNCHANGED <<place, uploadVars, sessionVars>>
    PROVE  RemovalInv' /\ Deleted'
<1>1. Starts(h, "enqueue")
  BY FromTheHubTurns DEF LibraryTypeOK
<1>2. UNCHANGED <<row, diskVars, bucketVars, model, history>> /\ row = "none"
  BY DEF StartDownload
<1>3. Kept(h) /\ req[h].pc = "idle" /\ req'[h].pc = "enqueue"
  BY <1>1 DEF Starts
<1>4. RemovalInv'
  BY <1>2, <1>3, RemovalSafe DEF bucketVars, BareSteps, UnpublishSteps
<1>5. CASE Gone
  <2>1. StaysEmpty /\ StaysForgotten
    BY <1>2 DEF StaysEmpty, StaysForgotten, diskVars, bucketVars, uploadVars, sessionVars, DirectSessions
  <2>2. GoneRequest(h)'
    BY <1>3 DEF GoneRequest, GoneSteps, At
  <2> QED BY <1>2, <1>3, <1>4, <1>5, <2>1, <2>2, GoneStays DEF Deleted
<1>6. CASE Unowned
  <2>1. UnownedRequest(h)'
    BY <1>3 DEF UnownedRequest, CommitSteps, At
  <2> QED BY <1>2, <1>3, <1>4, <1>6, <2>1, UnownedRests DEF Deleted, bucketVars
<1> QED BY <1>2, <1>5, <1>6 DEF Gone, Unowned

LEMMA DeletionStep ==
    ASSUME LifeInv, FreshDownloads, PlaceInv, LockInv, Orderly => RowInv /\ HiddenInv, DeletionInv, [Next]_vars
    PROVE  DeletionInv'
<1> SUFFICES ASSUME Settled' PROVE RemovalInv' /\ Deleted'
  BY DEF DeletionInv
<1>1. /\ LibraryTypeOK /\ UploadsTypeOK /\ RecordsInv /\ DownloadsInv
      /\ Settled /\ Undisturbed /\ Undisturbed' /\ NoDownloads /\ NoDownloads' /\ RemovalInv /\ Deleted
  BY SettledBefore DEF LifeInv, TypeOK, Settled, DeletionInv
<1>2. RowInv /\ HiddenInv /\ "restart" \notin strays'
  BY <1>1, DisturbedBy DEF Orderly, Undisturbed, Except
<1>3. Gone => GoneInv
  BY <1>1 DEF Deleted
<1>4. Unowned => UnownedInv
  BY <1>1 DEF Deleted
<1>5. row = "none" => Gone \/ Unowned
  BY DEF Gone, Unowned
<1>6. row' # "none" => Deleted'
  BY DEF Deleted, Gone, Unowned
<1>7. ASSUME NEW h \in Handlers, Cache(h, ActiveDownload, WorkerRuns), UNCHANGED <<place, uploadVars, sessionVars, downloads>>
      PROVE  RemovalInv' /\ Deleted'
  <2>1. RemovalInv'
    BY <1>1, <1>7, CacheKeepsRemoval
  <2>2. CASE row = "none"
    BY <2>1, <1>1, <1>3, <1>4, <1>5, <1>7, <2>2, CacheOfGone, CacheOfUnowned
  <2>3. CASE row # "none"
    BY <2>1, <1>6, <1>7, <2>3, OthersKeepRow
  <2> QED BY <2>1, <2>2, <2>3
<1>8. ASSUME NEW h \in Handlers, Changing(h, ActiveDownload), UNCHANGED <<place, downloads>>
      PROVE  RemovalInv' /\ Deleted'
  <2>1. RemovalInv'
    BY <1>1, <1>8, ChangingKeepsRemoval
  <2>2. CASE row = "none"
    BY <2>1, <1>1, <1>3, <1>4, <1>5, <1>8, <2>2, ChangingOfGone, ChangingOfUnowned
  <2>3. CASE row # "none"
    BY <2>1, <1>6, <1>8, <2>3, OthersKeepRow
  <2> QED BY <2>1, <2>2, <2>3
<1>9. ASSUME NEW h \in Handlers, Uploading(h, ActiveDownload, WorkerRuns), UNCHANGED <<place, downloads>>
      PROVE  RemovalInv' /\ Deleted'
  <2>1. RemovalInv'
    BY <1>1, <1>4, <1>9, UploadingKeepsRemoval
  <2>2. CASE Gone
    BY <2>1, <1>1, <1>2, <1>3, <1>9, <2>2, UploadingOfGone
  <2>3. CASE Unowned
    BY <2>1, <1>1, <1>2, <1>4, <1>9, <2>3, UploadingOfUnowned
  <2>4. CASE UnpublishRows(h) \/ RemoveFolder(h, WorkerRuns)
    BY <2>1, <1>1, <1>2, <2>4, UnpublishedGone, RemovedGone
  <2>5. CASE row # "none" /\ ~UnpublishRows(h) /\ ~RemoveFolder(h, WorkerRuns)
    BY <2>1, <1>6, <1>9, <2>5, OwnerKept
  <2> QED BY <1>5, <2>1, <2>2, <2>3, <2>4, <2>5
<1>10. ASSUME NEW h \in Handlers, FromTheHub(h), UNCHANGED <<place, uploadVars, sessionVars>> PROVE RemovalInv' /\ Deleted'
  BY <1>1, <1>10, HubRests, StartDownloadKeepsDeleted
<1>11. ASSUME NEW d \in DOMAIN downloads, Worker(d) PROVE FALSE
  BY <1>1, <1>11, NobodyDownloads
<1>12. CASE UNCHANGED vars \/ \E x \in open : PartsSent(x) /\ UNCHANGED <<place, downloads>>
  BY <1>1, <1>12, DeletedRests DEF vars, PartsSent, diskVars, bucketVars, requestVars, uploadVars, sessionVars
<1>13. ASSUME Restart, UNCHANGED <<place, uploadVars, sessionVars>> PROVE RemovalInv' /\ Deleted'
  <2>1. \A k \in Handlers : req[k].pc = "idle"
    BY <1>2, <1>13 DEF Restart, Strays, At
  <2>2. \A k \in Handlers : req'[k].pc = "idle"
    BY <1>13 DEF Restart, Idle
  <2> QED BY <1>1, <1>13, <2>1, <2>2, DeletedRests DEF Restart, diskVars, bucketVars, uploadVars, sessionVars
<1> QED BY <1>7, <1>8, <1>9, <1>10, <1>11, <1>12, <1>13 DEF Next

LEMMA DeletionStart == Init => DeletionInv
<1> SUFFICES ASSUME Init, Settled PROVE RemovalInv /\ Deleted
  BY DEF DeletionInv
<1>1. \A h \in Handlers : req[h].pc = "idle"
  BY DEF Init, Idle
<1>2. \A steps : Within(steps) => "idle" \in steps
  BY <1>1 DEF Within
<1>3. RemovalInv
  BY <1>1, <1>2 DEF RemovalInv, At
<1>4. \A h \in Handlers : GoneRequest(h) /\ UnownedRequest(h)
  BY <1>1 DEF GoneRequest, GoneSteps, UnownedRequest, CommitSteps, At
<1>5. CASE NewName \/ Queued
  <2>1. Absent /\ NoSessions /\ NoUploads
    BY <1>5 DEF NewName, Queued
  <2>2. Forgotten
    BY <2>1 DEF Absent, NoSessions, NoUploads, Forgotten, DirectSessions
  <2>3. Emptied /\ model = NoModel
    BY <2>1 DEF Absent, Emptied, FolderExists
  <2> QED BY <1>2, <1>3, <1>4, <2>2, <2>3 DEF Deleted, GoneInv, Unowned
<1>6. ASSUME NEW arrived, Unfinished(arrived) PROVE RemovalInv /\ Deleted
  BY <1>3, <1>6 DEF Unfinished, Deleted, Gone, Unowned
<1>7. CASE Uploaded
  BY <1>3, <1>7 DEF Uploaded, Deleted, Gone, Unowned
<1>8. CASE Downloaded
  <2>1. label = "open" /\ model.target = Target /\ (place # "disk" => manifest = "open") /\ model # NoModel
    BY <1>8 DEF Downloaded, Holds, Target, NoModel
  <2> QED BY <1>3, <1>4, <2>1 DEF Deleted, Gone, UnownedInv, UnownedState
<1> QED BY <1>5, <1>6, <1>7, <1>8 DEF Init

(* When nobody works on it, a repository that is gone has left nothing.      *)
LEMMA NothingIsLeft == DeletionInv => DeletedLeavesNothing
<1> SUFFICES ASSUME DeletionInv, row = "none", model = NoModel, Quiet, NoDownloads, Undisturbed
             PROVE  ~FolderExists /\ bucket = << >> /\ history = << >> /\ records = << >> /\ DirectSessions = {}
  BY DEF DeletedLeavesNothing, Undisturbed
<1>1. \A steps : Within(steps) => "idle" \in steps
  BY DEF Quiet, Within, At
<1>2. Gone
  BY <1>1 DEF Gone
<1>3. GoneInv /\ ~Within({"forget"})
  BY <1>1, <1>2 DEF DeletionInv, Settled, Deleted
<1> QED BY <1>3 DEF GoneInv, Emptied, Forgotten

(* An upload is hidden whoever stores or publishes files meanwhile.          *)
LEMMA HiddenUnfinished == (Orderly => HiddenInv) => UnfinishedHidden
<1>1. Within(ShowingSteps) => Within(StoringSteps \union PublishingSteps)
  BY DEF Within, ShowingSteps, StoringSteps, PublishingSteps
<1> QED BY <1>1 DEF Orderly, Except, UnfinishedHidden, HiddenInv, Hidden, Unshown

----------------------------------------------------------------------------
(* While a worker that was not cancelled fetches files, nobody is at a step  *)
(* that would alter the folder or the bucket; what it has fetched is all     *)
(* there under the label of a complete model, until it is stored; and what   *)
(* it stored is published as a whole.                                        *)
Tended == ~Except({"late", "update", "cancel", "queue", "monitor", "evict"})
SyncedSteps == {"index", "finish"}
AlteringSteps ==
    StoringSteps \union PublishingSteps \union RemovingSteps \union (WaitingSteps \ {"begin_record", "complete_record"})
Going(d) == downloads[d].pc \in {"fetching"} \union FetchedSteps /\ ~downloads[d].cancel
SomeGoes == \E d \in DOMAIN downloads : Going(d)
WholeFolder == DOMAIN folder = Files /\ label \in Complete
WholeStored == Published /\ DOMAIN Stored = Files
FetchInv ==
    /\ SomeGoes => ~Within(AlteringSteps)
    /\ \A d \in DOMAIN downloads : downloads[d].pc \in FetchedSteps => ~downloads[d].cancel /\ WholeFolder
    /\ \A d \in DOMAIN downloads : downloads[d].pc \in SyncedSteps => WholeStored

LEMMA TendedBefore ==
    ASSUME strays \subseteq strays', Tended'
    PROVE  Tended /\ Timely /\ strays' \intersect {"late", "update", "cancel", "queue", "monitor", "evict"} = {}
BY DEF Tended, Timely, Except

(* A worker that goes on counts, and is the only one.                        *)
LEMMA GoesAlone ==
    ASSUME DownloadsTypeOK, DownloadsInv, Tended, Timely => RowInv, NEW d \in DOMAIN downloads, Going(d)
    PROVE  /\ ActiveDownload /\ WorkerRuns /\ row = "none" /\ Labelled
           /\ \A e \in DOMAIN downloads : downloads[e].pc # "none" /\ ~downloads[e].cancel => e = d
<1>1. OneActive /\ WorkersCounted /\ RowInv
  BY DEF DownloadsInv, Tended, Timely, Except
<1>2. downloads[d].status \in Downloading
  BY <1>1 DEF WorkersCounted, Going, FetchedSteps
<1>3. ActiveDownload /\ WorkerRuns
  BY <1>2 DEF ActiveDownload, WorkerRuns, Going, FetchedSteps
<1>4. row = "none" /\ Labelled
  BY <1>1 DEF RowInv, WorkersRow, Going, FetchedSteps
<1>5. \A e \in DOMAIN downloads : downloads[e].pc # "none" /\ ~downloads[e].cancel => e = d
  BY <1>1, <1>2 DEF WorkersCounted, OneActive
<1> QED BY <1>3, <1>4, <1>5

(* It is enough to look at requests while some worker goes on.               *)
LEMMA FetchKept ==
    ASSUME FetchInv, UNCHANGED <<place, downloads>>,
           SomeGoes => /\ ~Within(AlteringSteps)' /\ UNCHANGED bucketVars
                       /\ WholeFolder => WholeFolder'
    PROVE  FetchInv'
<1>1. SomeGoes' = SomeGoes
  BY DEF SomeGoes, Going
<1>2. \A d \in DOMAIN downloads' : downloads'[d].pc \in FetchedSteps => ~downloads'[d].cancel /\ WholeFolder' /\ SomeGoes
  BY DEF FetchInv, SomeGoes, Going
<1>3. ASSUME NEW d \in DOMAIN downloads', downloads'[d].pc \in SyncedSteps PROVE WholeStored'
  <2>1. WholeStored /\ WholeFolder' /\ UNCHANGED bucketVars
    BY <1>2, <1>3 DEF FetchInv, SyncedSteps, FetchedSteps
  <2> QED BY <2>1 DEF WholeStored, WholeFolder, Published, Stored, bucketVars
<1> QED BY <1>1, <1>2, <1>3 DEF FetchInv

LEMMA CacheKeepsFetch ==
    ASSUME LibraryTypeOK, FetchInv, NEW h \in Handlers, Cache(h, ActiveDownload, WorkerRuns),
           UNCHANGED <<place, downloads>>, "evict" \notin strays', SomeGoes => WorkerRuns
    PROVE  FetchInv'
<1>1. req \in [Handlers -> Request] /\ manifest \in Complete \union {"none"} /\ DOMAIN folder \subseteq Files
  BY DEF LibraryTypeOK, Contents
<1> DEFINE S == {"idle", "scan", "scan_list", "scan_index", "scan_commit", "scan_local", "sweep",
                 "restore", "restore_index", "evict", "evict_index"}
<1>2. Kept(h) /\ req'[h].pc \in S
  <2>1. /\ Scan(h) \/ Restore(h, ActiveDownload) \/ Evict(h, ActiveDownload) => Kept(h) /\ req'[h].pc \in S
        /\ ScanFolder(h, WorkerRuns) \/ ScanIndex(h) \/ ScanCommit(h) \/ ScanLocal(h) => Kept(h) /\ req'[h].pc \in S
        /\ RestoreFiles(h) \/ RestoreIndex(h) \/ EvictIndex(h) => Kept(h) /\ req'[h].pc \in S
        /\ ScanList(h) \/ EvictFolder(h, WorkerRuns) => Kept(h) /\ req'[h].pc \in S
    BY <1>1, CacheTurns DEF Starts, Moves, Rests
  <2> QED BY <2>1 DEF Cache
<1>3. ~Within(AlteringSteps) => ~Within(AlteringSteps)'
  BY <1>2 DEF Within, Kept, AlteringSteps, StoringSteps, PublishingSteps, RemovingSteps, WaitingSteps
<1>4. UNCHANGED bucketVars
  BY DEF Cache, Scan, ScanFolder, ScanList, ScanIndex, ScanCommit, ScanLocal, Restore, RestoreFiles,
         RestoreIndex, Evict, EvictFolder, EvictIndex
<1>5. WorkerRuns /\ WholeFolder => WholeFolder'
  <2>1. CASE RestoreFiles(h)
    <3>1. req[h].files \subseteq Files
      BY <1>1 DEF Request
    <3>2. PICK T \in SUBSET req[h].files : folder' = Over(Restrict(bucket, T), folder)
      BY <2>1 DEF RestoreFiles
    <3>3. DOMAIN folder = Files => DOMAIN folder' = Files
      BY <3>1, <3>2 DEF Over, Restrict
    <3>4. label' = label \/ label' \in Complete
      BY <1>1, <2>1 DEF RestoreFiles
    <3> QED BY <3>3, <3>4 DEF WholeFolder
  <2>2. CASE EvictFolder(h, WorkerRuns)
    BY <2>2 DEF EvictFolder, Strays, WholeFolder, diskVars
  <2>3. CASE ~RestoreFiles(h) /\ ~EvictFolder(h, WorkerRuns)
    BY <2>3 DEF Cache, Scan, ScanFolder, ScanList, ScanIndex, ScanCommit, ScanLocal, Restore, RestoreIndex, Evict,
                EvictIndex, WholeFolder, diskVars
  <2> QED BY <2>1, <2>2, <2>3
<1> QED BY <1>3, <1>4, <1>5, FetchKept DEF FetchInv

(* While a worker goes on, a request changes nothing, and none begins that   *)
(* would.                                                                    *)
LEMMA RequestsWait ==
    ASSUME LibraryTypeOK, StatePlaced, NEW h \in Handlers, ~Within(AlteringSteps), "update" \notin strays',
           ActiveDownload, row = "none", Labelled,
           Uploading(h, ActiveDownload, WorkerRuns) \/ Changing(h, ActiveDownload)
    PROVE  ~Within(AlteringSteps)' /\ UNCHANGED <<diskVars, bucketVars>>
<1>1. req \in [Handlers -> Request] /\ Upload \notin Sessions /\ req[h].pc \notin AlteringSteps
  BY LibraryAssumption DEF LibraryTypeOK, Within
<1>2. ASSUME UNCHANGED <<diskVars, bucketVars>>, Kept(h), req'[h].pc \in {"idle", "sweep_discard", "begin_record", "complete_record"}
      PROVE  ~Within(AlteringSteps)' /\ UNCHANGED <<diskVars, bucketVars>>
  BY <1>2 DEF Within, Kept, AlteringSteps, StoringSteps, PublishingSteps, RemovingSteps, WaitingSteps
<1>3. CASE BeginRecord(h) \/ CompleteRecord(h) \/ SweepList(h) \/ SweepDiscard(h)
  <2>1. Kept(h) /\ req'[h].pc \in {"idle", "sweep_discard"}
    BY <1>1, <1>3, UploadingTurns DEF Rests
  <2>2. UNCHANGED <<diskVars, bucketVars>>
    BY <1>3 DEF BeginRecord, CompleteRecord, SweepList, SweepDiscard
  <2> QED BY <1>2, <2>1, <2>2
<1>4. ASSUME NEW w \in Sessions \union {Upload}, NEW f \in Files, BeginFile(h, w, f) \/ CompleteFile(h, w, f)
      PROVE  ~Within(AlteringSteps)' /\ UNCHANGED <<diskVars, bucketVars>>
  <2>1. w # Upload
    BY <1>1, <1>4 DEF BeginFile, CompleteFile, Accepts
  <2>2. UNCHANGED <<diskVars, bucketVars>>
    BY <1>4, <2>1 DEF BeginFile, CompleteFile, bucketVars
  <2>3. Kept(h) /\ req'[h].pc \in {"idle", "begin_record", "complete_record"}
    BY <1>1, <1>4, UploadingTurns DEF Starts, Rests
  <2> QED BY <1>2, <2>2, <2>3
<1>5. ~CreateUpload(h)
  BY <1>1 DEF CreateUpload, NameFree, FolderExists, Labelled, StatePlaced
<1>6. ~Finalize(h) /\ ~Delete(h, ActiveDownload) /\ \A f \in Files : ~Chunk(h, f)
  BY <1>1 DEF Finalize, Delete, Chunk
<1>7. /\ ~ChunkWritten(h) /\ ~FinalizeChecked(h) /\ ~FinalizeSync(h) /\ ~FinalizeIndex(h) /\ ~FinalizeReady(h)
      /\ ~Publish(h) /\ ~PublishIndex(h) /\ ~PublishReady(h) /\ ~AbortUpload(h) /\ ~Unpublish(h) /\ ~UnpublishRows(h)
      /\ ~Remove(h, WorkerRuns) /\ ~RemoveFolder(h, WorkerRuns) /\ ~Forget(h)
  BY <1>1 DEF ChunkWritten, FinalizeChecked, FinalizeSync, FinalizeIndex, FinalizeReady, Publish, PublishIndex, PublishReady,
              AbortUpload, Unpublish, UnpublishRows, Remove, RemoveFolder, Forget, At,
              AlteringSteps, StoringSteps, PublishingSteps, RemovingSteps, WaitingSteps
<1>8. /\ ~CommitLocks(h) /\ ~ApplyRemovals(h) /\ ~Store(h) /\ ~CommitRemote(h) /\ ~FetchCopy(h) /\ ~CommitIndex(h)
      /\ ~CommitRecorded(h) /\ \A f \in Files : ~Apply(h, f)
  BY <1>1 DEF CommitLocks, Apply, ApplyRemovals, Store, CommitRemote, FetchCopy, CommitIndex, CommitRecorded, At,
              AlteringSteps, StoringSteps, PublishingSteps, RemovingSteps, WaitingSteps
<1>9. \A s \in Sessions : ~Commit(h, s, ActiveDownload)
  BY <1>1 DEF Commit
<1>10. ASSUME NEW s \in Sessions, StartChange(h, s) \/ \E f \in Files : StageChunk(h, s, f)
       PROVE  ~Within(AlteringSteps)' /\ UNCHANGED <<diskVars, bucketVars>>
  <2>1. Kept(h) /\ req'[h].pc = "idle"
    BY <1>1, <1>10, ChangingTurns DEF Rests
  <2>2. UNCHANGED <<diskVars, bucketVars>>
    BY <1>10 DEF StartChange, StageChunk
  <2> QED BY <1>2, <2>1, <2>2
<1>11. ASSUME NEW s \in Sessions, AbortChange(h, s)
       PROVE  ~Within(AlteringSteps)' /\ UNCHANGED <<diskVars, bucketVars>>
  <2>1. UNCHANGED <<diskVars, bucketVars>>
    BY <1>11 DEF AbortChange
  <2>2. \A k \in Handlers : req'[k].pc = req[k].pc
    BY <1>1, <1>11, AbortTurns
  <2> QED BY <2>1, <2>2 DEF Within
<1> QED BY <1>3, <1>4, <1>5, <1>6, <1>7, <1>8, <1>9, <1>10, <1>11 DEF Uploading, Changing

LEMMA RequestsKeepFetch ==
    ASSUME LibraryTypeOK, FetchInv, NEW h \in Handlers, StatePlaced,
           Uploading(h, ActiveDownload, WorkerRuns) \/ Changing(h, ActiveDownload),
           UNCHANGED <<place, downloads>>, "update" \notin strays', SomeGoes => ActiveDownload /\ row = "none" /\ Labelled
    PROVE  FetchInv'
<1> SUFFICES ASSUME SomeGoes PROVE ~Within(AlteringSteps)' /\ UNCHANGED bucketVars /\ (WholeFolder => WholeFolder')
  BY FetchKept
<1>1. ~Within(AlteringSteps)' /\ UNCHANGED <<diskVars, bucketVars>>
  BY RequestsWait DEF FetchInv
<1> QED BY <1>1 DEF WholeFolder, diskVars

(* A step on the row of one download.                                        *)
LEMMA StoppedOrMoved ==
    ASSUME downloads \in [1 .. MaxDownloads -> Download], NEW d \in DOMAIN downloads,
           NEW new, downloads' = [downloads EXCEPT ![d] = new]
    PROVE  DOMAIN downloads' = DOMAIN downloads /\ downloads'[d] = new
           /\ \A e \in DOMAIN downloads \ {d} : downloads'[e] = downloads[e]
OBVIOUS

LEMMA FromTheHubKeepsFetch ==
    ASSUME LibraryTypeOK, DownloadsTypeOK, FetchInv, NEW h \in Handlers, FromTheHub(h), CancelsKnown,
           UNCHANGED place, "cancel" \notin strays'
    PROVE  FetchInv'
<1>1. req \in [Handlers -> Request] /\ downloads \in [1 .. MaxDownloads -> Download]
  BY DEF LibraryTypeOK, DownloadsTypeOK
<1>2. UNCHANGED <<folder, bucketVars>>
  BY DEF FromTheHub, StartDownload, Enqueue, Cancel, CancelFolder, CancelRow, diskVars
<1>3. ~Within(AlteringSteps) => ~Within(AlteringSteps)'
  <2>1. Starts(h, "enqueue") \/ Starts(h, "cancel") \/ Moves(h, "cancel_row") \/ Rests(h)
    BY <1>1, FromTheHubTurns DEF FromTheHub
  <2> QED BY <2>1 DEF Within, Starts, Moves, Rests, Kept, AlteringSteps, StoringSteps, PublishingSteps, RemovingSteps, WaitingSteps
<1>4. /\ DOMAIN downloads' = DOMAIN downloads
      /\ \A d \in DOMAIN downloads :
            \/ downloads'[d].pc = downloads[d].pc /\ (downloads[d].cancel => downloads'[d].cancel \/ downloads[d].pc = "none")
                 /\ (downloads'[d].cancel => downloads[d].cancel \/ CancelFolder(h))
            \/ downloads'[d].pc = "submitted"
  <2>1. CASE Enqueue(h)
    <3> DEFINE started == [NoDownload EXCEPT !.status = "queued", !.pc = "submitted"]
    <3>1. PICK d \in DOMAIN downloads : downloads' = [downloads EXCEPT ![d] = started]
      BY <2>1 DEF Enqueue
    <3>2. started.pc = "submitted"
      BY DEF NoDownload
    <3> HIDE DEF started
    <3> QED BY <1>1, <3>1, <3>2, StoppedOrMoved
  <2>2. CASE CancelFolder(h)
    <3> DEFINE d == req[h].job
               told == downloads[d].pc # "none"
               new == [downloads[d] EXCEPT !.cancel = told]
    <3>1. d \in DOMAIN downloads
      BY <2>2 DEF CancelsKnown, CancelFolder, At, CancelSteps
    <3>2. new.pc = downloads[d].pc /\ new.cancel = told
      BY <1>1, <3>1 DEF Download
    <3>3. downloads' = [downloads EXCEPT ![d] = new]
      BY <1>1, <2>2, <3>1 DEF CancelFolder
    <3>4. downloads'[d].pc = downloads[d].pc /\ (downloads[d].pc # "none" => downloads'[d].cancel)
      BY <1>1, <3>1, <3>2, <3>3
    <3> HIDE DEF new
    <3>5. DOMAIN downloads' = DOMAIN downloads /\ \A e \in DOMAIN downloads \ {d} : downloads'[e] = downloads[e]
      BY <1>1, <3>3
    <3> QED BY <2>2, <3>4, <3>5
  <2>3. CASE CancelRow(h)
    <3> DEFINE d == req[h].job
               new == [downloads[d] EXCEPT !.status = "cancelled"]
    <3>1. d \in DOMAIN downloads
      BY <2>3 DEF CancelsKnown, CancelRow, At, CancelSteps
    <3>2. new.pc = downloads[d].pc /\ new.cancel = downloads[d].cancel
      BY <1>1, <3>1 DEF Download
    <3>3. downloads' = [downloads EXCEPT ![d] = new]
      BY <1>1, <2>3, <3>1 DEF CancelRow
    <3> HIDE DEF new
    <3> QED BY <1>1, <3>1, <3>2, <3>3, StoppedOrMoved
  <2>4. CASE StartDownload(h) \/ \E d \in DOMAIN downloads : Cancel(h, d)
    BY <2>4 DEF StartDownload, Cancel
  <2> QED BY <2>1, <2>2, <2>3, <2>4 DEF FromTheHub
<1>5. SomeGoes' => SomeGoes
  BY <1>4 DEF SomeGoes, Going, FetchedSteps
<1>6. (\E d \in DOMAIN downloads : downloads[d].pc \in FetchedSteps) => ~CancelFolder(h)
  <2> SUFFICES ASSUME NEW d \in DOMAIN downloads, downloads[d].pc \in FetchedSteps PROVE ~CancelFolder(h)
    OBVIOUS
  <2>1. label # "none"
    BY DEF FetchInv, WholeFolder, Complete
  <2> QED BY <2>1 DEF CancelFolder, Strays, FolderExists
<1>7. label' = label \/ CancelFolder(h)
  BY DEF FromTheHub, StartDownload, Enqueue, Cancel, CancelFolder, CancelRow, diskVars
<1>8. \A d \in DOMAIN downloads' : downloads'[d].pc \in FetchedSteps =>
        downloads[d].pc = downloads'[d].pc /\ d \in DOMAIN downloads /\ ~downloads'[d].cancel /\ WholeFolder'
  BY <1>2, <1>4, <1>6, <1>7 DEF FetchInv, FetchedSteps, WholeFolder
<1>9. \A d \in DOMAIN downloads' : downloads'[d].pc \in SyncedSteps => WholeStored'
  <2> SUFFICES ASSUME NEW d \in DOMAIN downloads', downloads'[d].pc \in SyncedSteps PROVE WholeStored'
    OBVIOUS
  <2>1. WholeStored /\ WholeFolder'
    BY <1>8 DEF FetchInv, SyncedSteps, FetchedSteps
  <2> QED BY <1>2, <2>1 DEF WholeStored, WholeFolder, Published, Stored, bucketVars
<1> QED BY <1>3, <1>5, <1>8, <1>9 DEF FetchInv

LEMMA WorkerKeepsFetch ==
    ASSUME LibraryTypeOK, DownloadsTypeOK, DownloadsInv, Tended, Timely => RowInv, FetchInv,
           NEW d \in DOMAIN downloads, Worker(d), UNCHANGED place, "update" \notin strays'
    PROVE  FetchInv'
<1>1. /\ downloads \in [1 .. MaxDownloads -> Download] /\ UNCHANGED req
      /\ DOMAIN folder \subseteq Files /\ OneActive /\ WorkersCounted
  BY WorkerRequests DEF DownloadsTypeOK, LibraryTypeOK, Contents, DownloadsInv, Tended, Except
<1>2. Within(AlteringSteps)' = Within(AlteringSteps)
  BY <1>1 DEF Within
<1>3. \A e \in DOMAIN downloads : e # d /\ Going(e) => downloads[d].pc = "none" \/ downloads[d].cancel
  BY GoesAlone
<1> DEFINE OthersStay == DOMAIN downloads' = DOMAIN downloads /\ \A e \in DOMAIN downloads \ {d} : downloads'[e] = downloads[e]
<1>4. ASSUME OthersStay, downloads'[d].pc = "none", UNCHANGED <<diskVars, bucketVars>> PROVE FetchInv'
  <2>1. SomeGoes' => SomeGoes
    BY <1>4 DEF SomeGoes, Going, FetchedSteps
  <2>2. \A e \in DOMAIN downloads' : downloads'[e].pc \in FetchedSteps \union SyncedSteps
            => e \in DOMAIN downloads /\ downloads'[e] = downloads[e]
    BY <1>4 DEF FetchedSteps, SyncedSteps
  <2> QED BY <1>2, <1>4, <2>1, <2>2 DEF FetchInv, WholeFolder, WholeStored, Published, Stored, diskVars, bucketVars
<1>5. ASSUME OthersStay, downloads'[d].pc = downloads[d].pc, downloads'[d].cancel = downloads[d].cancel,
             UNCHANGED bucketVars, WholeFolder => WholeFolder'
      PROVE  FetchInv'
  <2>1. SomeGoes' => SomeGoes
    BY <1>5 DEF SomeGoes, Going
  <2>2. \A e \in DOMAIN downloads' : e \in DOMAIN downloads
            /\ downloads'[e].pc = downloads[e].pc /\ downloads'[e].cancel = downloads[e].cancel
    BY <1>5
  <2>3. WholeStored /\ WholeFolder => WholeStored'
    BY <1>5 DEF WholeStored, WholeFolder, Published, Stored, bucketVars
  <2>4. SyncedSteps \subseteq FetchedSteps
    BY DEF SyncedSteps, FetchedSteps
  <2> QED BY <1>2, <1>5, <2>1, <2>2, <2>3, <2>4 DEF FetchInv
<1>6. CASE Prepare(d)
  <2>1. CASE Stops(d, "cancelled") \/ Stops(d, "failed")
    <3>1. UNCHANGED label
      <4>1. downloads'[d].pc = "none"
        BY <1>1, <2>1, StopsOne
      <4>2. ~(downloads' = [downloads EXCEPT ![d].pc = "fetching", ![d].status = "preparing"])
        BY <1>1, <4>1 DEF Download
      <4> QED BY <1>6, <4>2 DEF Prepare
    <3> QED BY <1>1, <1>4, <1>6, <2>1, <3>1, StopsOne DEF Prepare, diskVars
  <2>2. CASE ~Stops(d, "cancelled") /\ ~Stops(d, "failed")
    <3> DEFINE new == [downloads[d] EXCEPT !.pc = "fetching", !.status = "preparing"]
    <3>1. /\ downloads' = [downloads EXCEPT ![d] = new] /\ ~downloads[d].cancel /\ downloads[d].pc = "submitted"
          /\ ~AtWork /\ new.pc = "fetching"
      BY <1>1, <1>6, <2>2 DEF Prepare, Download, Working
    <3> HIDE DEF new
    <3>2. OthersStay /\ downloads'[d].pc = "fetching"
      BY <1>1, <3>1
    <3>3. \A e \in DOMAIN downloads : downloads[e].pc \notin FetchedSteps
      BY <1>3, <3>1 DEF FetchInv, Going, FetchedSteps
    <3>4. \A e \in DOMAIN downloads' : downloads'[e].pc \notin FetchedSteps \union SyncedSteps
      BY <3>2, <3>3 DEF FetchedSteps, SyncedSteps
    <3>5. ~Within(AlteringSteps)
      BY <3>1 DEF Within, AtWork, AlteringSteps
    <3> QED BY <1>2, <3>4, <3>5 DEF FetchInv
  <2> QED BY <2>1, <2>2
<1>7. ASSUME NEW f \in Files, FetchFile(d, f) PROVE FetchInv'
  <2>1. DOMAIN folder' = DOMAIN folder \union {f} /\ UNCHANGED <<label, bucketVars, downloads>>
    BY <1>7 DEF FetchFile, Over
  <2>2. WholeFolder => WholeFolder'
    BY <2>1 DEF WholeFolder
  <2> QED BY <1>5, <2>1, <2>2
<1>8. CASE MonitorLooks(d) \/ MonitorWrites(d)
  <2>1. PICK new \in {[downloads[d] EXCEPT !.monitor = TRUE], [downloads[d] EXCEPT !.monitor = FALSE, !.status = "downloading"]} :
          downloads' = [downloads EXCEPT ![d] = new]
    BY <1>1, <1>8 DEF MonitorLooks, MonitorWrites, Download
  <2>2. new.pc = downloads[d].pc /\ new.cancel = downloads[d].cancel
    BY <1>1 DEF Download
  <2>3. UNCHANGED <<diskVars, bucketVars>>
    BY <1>8 DEF MonitorLooks, MonitorWrites
  <2> QED BY <1>1, <1>5, <2>1, <2>2, <2>3 DEF WholeFolder, diskVars
<1>9. CASE Fetched(d)
  <2> DEFINE end == IF downloads[d].cancel THEN "cancelled" ELSE "failed"
  <2>1. CASE Stops(d, end) /\ UNCHANGED label
    BY <1>1, <1>4, <1>9, <2>1, StopsOne DEF Fetched, diskVars
  <2>2. CASE ~(Stops(d, end) /\ UNCHANGED label)
    <3> DEFINE new == [downloads[d] EXCEPT !.pc = "sync"]
    <3>1. /\ downloads' = [downloads EXCEPT ![d] = new] /\ ~downloads[d].cancel /\ downloads[d].pc = "fetching"
          /\ label' = "open" /\ UNCHANGED <<folder, bucketVars>> /\ \A f \in Files : Arrived(f)
      BY <1>1, <1>9, <2>2 DEF Fetched, Download, Working
    <3>2. new.pc = "sync" /\ new.cancel = downloads[d].cancel
      BY <1>1 DEF Download
    <3> HIDE DEF new
    <3>3. OthersStay /\ downloads'[d].pc = "sync" /\ ~downloads'[d].cancel
      BY <1>1, <3>1, <3>2
    <3>4. WholeFolder'
      BY <1>1, <3>1 DEF WholeFolder, Arrived, Complete
    <3>5. \A e \in DOMAIN downloads : e # d => downloads[e].pc \notin FetchedSteps \union SyncedSteps
      BY <1>3, <3>1 DEF FetchInv, Going, FetchedSteps, SyncedSteps
    <3>6. SomeGoes
      BY <3>1 DEF SomeGoes, Going
    <3> QED BY <1>2, <3>3, <3>4, <3>5, <3>6 DEF FetchInv, SyncedSteps
  <2> QED BY <2>1, <2>2
<1>10. CASE SyncDownload(d)
  <2>1. ~downloads[d].cancel /\ WholeFolder /\ SomeGoes /\ \A e \in DOMAIN downloads : e # d => downloads[e].pc \notin FetchedSteps \union SyncedSteps
    <3>1. downloads[d].pc = "sync" /\ ~downloads[d].cancel /\ WholeFolder
      BY <1>10 DEF SyncDownload, Working, FetchInv, FetchedSteps
    <3> QED BY <1>3, <3>1 DEF FetchInv, Going, SomeGoes, FetchedSteps, SyncedSteps
  <2>2. CASE Stops(d, "failed")
    <3>1. OthersStay /\ downloads'[d].pc = "none"
      BY <1>1, <2>2, StopsOne
    <3>2. \A e \in DOMAIN downloads' : downloads'[e].pc \notin FetchedSteps \union SyncedSteps
      BY <2>1, <3>1 DEF FetchedSteps, SyncedSteps
    <3> QED BY <1>2, <2>1, <3>2 DEF FetchInv
  <2>3. CASE ~Stops(d, "failed")
    <3> DEFINE new == [downloads[d] EXCEPT !.pc = "index"]
    <3>1. /\ downloads' = [downloads EXCEPT ![d] = new] /\ UNCHANGED diskVars
          /\ place # "disk" => bucket' = folder /\ manifest' = label
      BY <1>1, <1>10, <2>3 DEF SyncDownload
    <3>2. new.pc = "index" /\ new.cancel = downloads[d].cancel
      BY <1>1 DEF Download
    <3> HIDE DEF new
    <3>3. OthersStay /\ downloads'[d].pc = "index" /\ ~downloads'[d].cancel
      BY <1>1, <2>1, <3>1, <3>2
    <3>4. WholeFolder' /\ WholeStored'
      BY <2>1, <3>1 DEF WholeFolder, WholeStored, Published, Stored, Complete, diskVars
    <3> QED BY <1>2, <2>1, <3>3, <3>4 DEF FetchInv
  <2> QED BY <2>2, <2>3
<1>11. CASE IndexDownload(d)
  <2> DEFINE new == [downloads[d] EXCEPT !.pc = "finish"]
  <2>1. downloads' = [downloads EXCEPT ![d] = new] /\ downloads[d].pc = "index" /\ UNCHANGED <<diskVars, bucketVars>>
    BY <1>1, <1>11 DEF IndexDownload, Working
  <2>2. new.pc = "finish" /\ new.cancel = downloads[d].cancel
    BY <1>1 DEF Download
  <2> HIDE DEF new
  <2>3. OthersStay /\ downloads'[d].pc = "finish" /\ downloads'[d].cancel = downloads[d].cancel
    BY <1>1, <2>1, <2>2
  <2>4. ~downloads[d].cancel /\ WholeFolder /\ WholeStored /\ SomeGoes
    BY <2>1 DEF FetchInv, SomeGoes, Going, FetchedSteps, SyncedSteps
  <2>5. WholeFolder' /\ WholeStored'
    BY <2>1, <2>4 DEF WholeFolder, WholeStored, Published, Stored, diskVars, bucketVars
  <2> QED BY <1>2, <2>3, <2>4, <2>5 DEF FetchInv
<1>12. CASE FinishDownload(d)
  <2> DEFINE new == [downloads[d] EXCEPT !.pc = "none", !.cancel = FALSE, !.status = "complete"]
  <2>1. downloads' = [downloads EXCEPT ![d] = new] /\ UNCHANGED <<diskVars, bucketVars>>
    BY <1>1, <1>12 DEF FinishDownload
  <2>2. new.pc = "none"
    BY <1>1 DEF Download
  <2> HIDE DEF new
  <2> QED BY <1>1, <1>4, <2>1, <2>2
<1> QED BY <1>6, <1>7, <1>8, <1>9, <1>10, <1>11, <1>12 DEF Worker

LEMMA FetchStep ==
    ASSUME LifeInv, PlaceInv, Timely => RowInv, Tended => FetchInv, [Next]_vars
    PROVE  Tended' => FetchInv'
<1>1. /\ LibraryTypeOK /\ DownloadsTypeOK /\ DownloadsInv /\ StatePlaced /\ CancelsKnown
      /\ req \in [Handlers -> Request] /\ downloads \in [1 .. MaxDownloads -> Download]
  BY DEF LifeInv, TypeOK, LibraryTypeOK, DownloadsTypeOK, PlaceInv, DownloadsInv
<1> SUFFICES ASSUME Tended' PROVE FetchInv'
  OBVIOUS
<1>2. /\ Tended /\ FetchInv /\ RowInv
      /\ "late" \notin strays' /\ "update" \notin strays' /\ "cancel" \notin strays' /\ "evict" \notin strays'
  BY StraysGrow, TendedBefore
<1>3. SomeGoes => ActiveDownload /\ WorkerRuns /\ row = "none" /\ Labelled
  BY <1>1, <1>2, GoesAlone DEF SomeGoes
<1>4. ASSUME UNCHANGED <<place, folder, label, bucketVars, downloads>>, \A k \in Handlers : req'[k].pc = req[k].pc
      PROVE  FetchInv'
  BY <1>2, <1>4, FetchKept DEF FetchInv, WholeFolder, Within
<1>5. ASSUME NEW x \in open, PartsSent(x), UNCHANGED <<place, downloads>> PROVE FetchInv'
  BY <1>4, <1>5 DEF PartsSent, requestVars, bucketVars, diskVars
<1>6. ASSUME UNCHANGED vars PROVE FetchInv'
  BY <1>4, <1>6 DEF vars, requestVars, bucketVars, diskVars
<1>7. ASSUME Restart, UNCHANGED <<place, uploadVars, sessionVars>> PROVE FetchInv'
  <2>1. DOMAIN downloads' = DOMAIN downloads /\ \A d \in DOMAIN downloads : downloads'[d].pc \in {"none", "submitted"}
    BY <1>7 DEF Restart, Resume, NoDownload
  <2> QED BY <2>1 DEF FetchInv, SomeGoes, Going, FetchedSteps, SyncedSteps
<1>8. ASSUME NEW h \in Handlers, Cache(h, ActiveDownload, WorkerRuns), UNCHANGED <<place, uploadVars, sessionVars, downloads>>
      PROVE  FetchInv'
  BY <1>1, <1>2, <1>3, <1>8, CacheKeepsFetch
<1>9. ASSUME NEW h \in Handlers, Uploading(h, ActiveDownload, WorkerRuns) \/ Changing(h, ActiveDownload), UNCHANGED <<place, downloads>>
      PROVE  FetchInv'
  BY <1>1, <1>2, <1>3, <1>9, RequestsKeepFetch
<1>10. ASSUME NEW h \in Handlers, FromTheHub(h), UNCHANGED <<place, uploadVars, sessionVars>> PROVE FetchInv'
  BY <1>1, <1>2, <1>10, FromTheHubKeepsFetch
<1>11. ASSUME NEW d \in DOMAIN downloads, Worker(d), UNCHANGED <<place, uploadVars, sessionVars>> PROVE FetchInv'
  BY <1>1, <1>2, <1>11, WorkerKeepsFetch
<1> QED BY <1>5, <1>6, <1>7, <1>8, <1>9, <1>10, <1>11 DEF Next

LEMMA FetchStart == Init => FetchInv
<1> SUFFICES ASSUME Init PROVE FetchInv
  OBVIOUS
<1> DEFINE started == [NoDownload EXCEPT !.status = "queued", !.pc = "submitted"]
<1>1. NoDownload.pc = "none" /\ started.pc = "submitted"
  BY DEF NoDownload
<1>2. \A d \in DOMAIN downloads : downloads[d] = NoDownload \/ downloads[d] = started
  BY DEF Init, NewName, Unfinished, Uploaded, Downloaded, Queued, NoDownloads
<1> HIDE DEF started
<1>3. \A d \in DOMAIN downloads : downloads[d].pc \in {"none", "submitted"}
  BY <1>1, <1>2
<1> QED BY <1>3 DEF FetchInv, SomeGoes, Going, FetchedSteps, SyncedSteps

(* Only a worker's last step says that a download is complete.               *)
LEMMA FinishedByWorker ==
    ASSUME LifeInv, Next, NEW d \in DOMAIN downloads,
           downloads[d].status # "complete", downloads'[d].status = "complete"
    PROVE  downloads[d].pc = "finish"
<1>1. LibraryTypeOK /\ downloads \in [1 .. MaxDownloads -> Download] /\ CancelsKnown
  BY DEF LifeInv, TypeOK, DownloadsTypeOK, DownloadsInv
<1>2. ASSUME NEW h \in Handlers, FromTheHub(h) PROVE FALSE
  <2>1. CASE Enqueue(h)
    <3> DEFINE started == [NoDownload EXCEPT !.status = "queued", !.pc = "submitted"]
    <3>1. PICK e \in DOMAIN downloads : downloads' = [downloads EXCEPT ![e] = started]
      BY <2>1 DEF Enqueue
    <3>2. started.status = "queued"
      BY DEF NoDownload
    <3> HIDE DEF started
    <3> QED BY <1>1, <3>1, <3>2
  <2>2. CASE CancelFolder(h)
    <3> DEFINE e == req[h].job
               told == downloads[e].pc # "none"
               new == [downloads[e] EXCEPT !.cancel = told]
    <3>1. e \in DOMAIN downloads
      BY <1>1, <2>2 DEF CancelsKnown, CancelFolder, At, CancelSteps
    <3>2. new.status = downloads[e].status
      BY <1>1, <3>1 DEF Download
    <3>3. downloads' = [downloads EXCEPT ![e] = new]
      BY <1>1, <2>2, <3>1 DEF CancelFolder
    <3> HIDE DEF new
    <3> QED BY <1>1, <3>1, <3>2, <3>3
  <2>3. CASE CancelRow(h)
    BY <1>1, <2>3 DEF CancelRow
  <2>4. CASE StartDownload(h) \/ \E e \in DOMAIN downloads : Cancel(h, e)
    BY <2>4 DEF StartDownload, Cancel
  <2> QED BY <1>2, <2>1, <2>2, <2>3, <2>4 DEF FromTheHub
<1>3. ASSUME NEW e \in DOMAIN downloads, NEW status, Stops(e, status), status # "complete" PROVE FALSE
  BY <1>1, <1>3 DEF Stops, Download
<1>4. ASSUME NEW e \in DOMAIN downloads, Worker(e) PROVE downloads[d].pc = "finish"
  <2>1. CASE FinishDownload(e)
    <3>1. downloads[e].pc = "finish" /\ (e # d => downloads'[d] = downloads[d])
      BY <1>1, <2>1 DEF FinishDownload, Working
    <3> QED BY <3>1
  <2>2. CASE Prepare(e) \/ Fetched(e) \/ SyncDownload(e) \/ IndexDownload(e)
    <3>1. PICK new \in {[downloads[e] EXCEPT !.pc = "fetching", !.status = "preparing"], [downloads[e] EXCEPT !.pc = "sync"],
                        [downloads[e] EXCEPT !.pc = "index"], [downloads[e] EXCEPT !.pc = "finish"]} :
            downloads' = [downloads EXCEPT ![e] = new]
      BY <1>1, <1>3, <2>2 DEF Prepare, Fetched, SyncDownload, IndexDownload, Download
    <3>2. new.status \in {downloads[e].status, "preparing"}
      BY <1>1 DEF Download
    <3> QED BY <1>1, <3>1, <3>2
  <2>3. CASE MonitorLooks(e) \/ MonitorWrites(e)
    <3>1. PICK new \in {[downloads[e] EXCEPT !.monitor = TRUE], [downloads[e] EXCEPT !.monitor = FALSE, !.status = "downloading"]} :
            downloads' = [downloads EXCEPT ![e] = new]
      BY <1>1, <2>3 DEF MonitorLooks, MonitorWrites, Download
    <3>2. new.status \in {downloads[e].status, "downloading"}
      BY <1>1 DEF Download
    <3> QED BY <1>1, <3>1, <3>2
  <2>4. CASE \E f \in Files : FetchFile(e, f)
    BY <2>4 DEF FetchFile
  <2> QED BY <1>4, <2>1, <2>2, <2>3, <2>4 DEF Worker
<1>5. ASSUME Restart PROVE FALSE
  <2> DEFINE queued == [NoDownload EXCEPT !.status = "queued", !.pc = "submitted"]
             resting == [NoDownload EXCEPT !.status = downloads[d].status]
  <2>1. downloads'[d] = IF downloads[d].status \in Downloading THEN queued ELSE resting
    BY <1>5 DEF Restart, Resume
  <2>2. queued.status = "queued" /\ resting.status = downloads[d].status
    BY DEF NoDownload
  <2> HIDE DEF queued, resting
  <2> QED BY <2>1, <2>2
<1> QED BY <1>2, <1>4, <1>5 DEF Next

----------------------------------------------------------------------------
(* All of it together: the locks, where things are kept, the row, what is    *)
(* hidden, the files that arrived, what a deletion leaves, and what workers  *)
(* fetch.  Each part needs some of those before it.                          *)
RepositoryInv ==
    /\ LifeInv /\ FreshDownloads /\ PlaceInv /\ LockInv
    /\ Timely => RowInv
    /\ Orderly => HiddenInv /\ FilesInv
    /\ DeletionInv
    /\ Tended => FetchInv

LEMMA RepositoryStart == Init => RepositoryInv
BY LifeStart, FreshStart, PlaceStart, LockStart, RowStart, HiddenStart, FilesStart, DeletionStart, FetchStart DEF RepositoryInv

LEMMA RepositoryStep ==
    ASSUME RepositoryInv, [Next]_vars
    PROVE  RepositoryInv'
<1>1. /\ LifeInv /\ FreshDownloads /\ PlaceInv /\ LockInv /\ DeletionInv /\ (Tended => FetchInv)
      /\ Timely => RowInv
      /\ Orderly => RowInv /\ HiddenInv
      /\ Orderly => RowInv /\ HiddenInv /\ FilesInv
  BY DEF RepositoryInv, Timely, Orderly, Except
<1>2. LifeInv'
  BY <1>1, LifeStep
<1>3. FreshDownloads'
  BY <1>1, FreshStep
<1>4. PlaceInv'
  BY <1>1, PlaceStep DEF LifeInv
<1>5. LockInv'
  BY <1>1, LockStep DEF LifeInv
<1>6. Timely' => RowInv'
  BY <1>1, RowStep
<1>7. Orderly' => HiddenInv'
  BY <1>1, HiddenStep
<1>8. Orderly' => FilesInv'
  BY <1>1, FilesStep
<1>9. DeletionInv'
  BY <1>1, DeletionStep
<1>10. Tended' => FetchInv'
  BY <1>1, FetchStep
<1> QED BY <1>2, <1>3, <1>4, <1>5, <1>6, <1>7, <1>8, <1>9, <1>10 DEF RepositoryInv

(* What the theorems below rest on holds throughout the life of a repository. *)
THEOREM RepositoryInvariant == Spec => []RepositoryInv
<1>1. Init => RepositoryInv
  BY RepositoryStart
<1>2. RepositoryInv /\ [Next]_vars => RepositoryInv'
  BY RepositoryStep
<1> QED BY <1>1, <1>2, PTL DEF Spec

(* Whatever requests overlap, an upload that is not finalized is in nobody's *)
(* library (RepositoryLife.UnfinishedHidden): no scan, restore, download or  *)
(* commit of the same name puts it in the index.  That fails only after a    *)
(* restart, after a request that came late for another repository of that    *)
(* name, and for a folder that a scan met while it was stored.               *)
THEOREM UnfinishedAlwaysHidden == Spec => []UnfinishedHidden
<1>1. RepositoryInv => UnfinishedHidden
  BY HiddenUnfinished DEF RepositoryInv
<1> QED BY <1>1, RepositoryInvariant, PTL

(* A file that is recorded as complete is in the bucket, as a whole          *)
(* (RepositoryLife.CompleteIsStored): what finalize and commit rely on when  *)
(* they look at the rows of the files alone.  A failed bucket request leaves *)
(* it so; a restart, or a request that came late, may not.                   *)
THEOREM CompleteAlwaysStored == Spec => []CompleteIsStored
<1>1. ~Orderly => CompleteIsStored
  BY DEF Orderly, Except, CompleteIsStored
<1>2. RepositoryInv => CompleteIsStored
  BY <1>1, CompletedStored DEF RepositoryInv
<1> QED BY <1>2, RepositoryInvariant, PTL

(* A repository that was deleted leaves nothing under its name: no folder,   *)
(* no object, no commit, no row of a file and no change session              *)
(* (RepositoryLife.DeletedLeavesNothing), whoever scans, restores, changes   *)
(* or sends files meanwhile, unless requests overlapped in a way it names.   *)
THEOREM DeletedAlwaysLeavesNothing == Spec => []DeletedLeavesNothing
<1>1. RepositoryInv => DeletedLeavesNothing
  BY NothingIsLeft DEF RepositoryInv
<1> QED BY <1>1, RepositoryInvariant, PTL

(* A download that is answered as complete is there as a whole, and          *)
(* published (RepositoryLife.CompleteIsWhole): nobody takes files from a     *)
(* folder while a worker fills it, nor does a cancel, an eviction or a       *)
(* second worker that the property does not name.  A restart changes         *)
(* nothing: the worker that starts again looks at every file.                *)
THEOREM CompleteAlwaysWhole == Spec => CompleteIsWhole
<1> DEFINE Completes ==
             \A d \in DOMAIN downloads :
                 downloads[d].status # "complete" /\ downloads'[d].status = "complete"
                    => (Published /\ DOMAIN Stored = Files)
                         \/ Except({"late", "update", "cancel", "queue", "monitor", "evict"})
<1>1. RepositoryInv /\ [Next]_vars => [Completes]_vars
  <2> SUFFICES ASSUME RepositoryInv, Next, NEW d \in DOMAIN downloads, Tended,
                      downloads[d].status # "complete", downloads'[d].status = "complete"
               PROVE  Published /\ DOMAIN Stored = Files
    BY DEF Tended
  <2>1. downloads[d].pc = "finish" /\ FetchInv
    BY FinishedByWorker DEF RepositoryInv
  <2> QED BY <2>1 DEF FetchInv, SyncedSteps, WholeStored
<1>2. []RepositoryInv /\ [][Next]_vars => [][Completes]_vars
  BY <1>1, PTL
<1> QED BY <1>2, RepositoryInvariant, PTL DEF Spec, CompleteIsWhole
=============================================================================
