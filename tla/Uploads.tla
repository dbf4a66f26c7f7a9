------------------------------ MODULE Uploads ------------------------------
(***************************************************************************)
(* Uploads of a repository (backend/app/uploads.py).  Files come in chunks *)
(* to this server, or in parts straight to the bucket: begun, sent and     *)
(* completed one by one, recorded in the database for the upload and for   *)
(* each change session.  Finalizing publishes them; deleting removes all.  *)
(***************************************************************************)
EXTENDS Library

VARIABLES
    target,     \* the upload_targets row of an upload straight to the bucket
    records,    \* direct_uploads rows: a file of the upload or of a session
    open, sent, \* multipart uploads open in the bucket, and those all sent
    area,       \* objects in the change areas of sessions
    session,    \* change sessions: not there, staged here, or direct
    staging,    \* files a staged session holds, "part" or "whole"
    fresh       \* what was touched within a day

uploadVars == <<target, records, open, sent, area>>
sessionVars == <<session, staging, fresh>>

Slots == Origins \X Files
Of(slots, who) == {x \in slots : x[1] = who}
Begun == {x \in DOMAIN records : records[x] = "begun"}
DirectSessions == {s \in Sessions : session[s] = "direct"}
NoFiles == [f \in Files |-> "none"]

UploadsTypeOK ==
    /\ target \in BOOLEAN
    /\ DOMAIN records \subseteq Slots /\ \A x \in DOMAIN records : records[x] \in {"begun", "complete"}
    /\ open \subseteq Slots /\ sent \subseteq open /\ area \subseteq Sessions \X Files
    /\ session \in [Sessions -> {"none", "staged", "direct"}]
    /\ staging \in [Sessions -> [Files -> {"none", "part", "whole"}]]
    /\ fresh \subseteq Origins

(* Creating a repository: its name must be free on the disk, in the index    *)
(* and in the bucket.                                                        *)
NameFree ==
    /\ ~FolderExists /\ row = "none" /\ model = NoModel
    /\ place # "disk" => bucket = << >> /\ manifest = "none" /\ area = {}

Remembered(h) == \E k \in Handlers \ {h} :
    \/ req[k].pc \in RememberingSteps
    \/ req[k].pc = "scan_index" /\ req[k].kind # "none"

CreateUpload(h) ==
    /\ Free(h) /\ NameFree
    /\ row' = "uploading"
    /\ IF place = "direct" THEN target' = TRUE /\ UNCHANGED label
       ELSE label' = "uploading" /\ UNCHANGED target
    /\ Strays("late", Remembered(h)) /\ Answers(h)
    /\ UNCHANGED <<folder, parts, bucketVars, model, history, intended, records, open, sent, area, sessionVars>>

(* A chunk: the repository's status is read first, the file is written once  *)
(* the write lock is free.                                                   *)
Chunk(h, f) ==
    /\ Free(h) /\ row = "uploading" /\ ~target
    /\ Begins(h, [Idle EXCEPT !.pc = "chunk", !.file = f])
    /\ UNCHANGED <<diskVars, bucketVars, row, model, history, ghosts, uploadVars, sessionVars>>

ChunkWritten(h) ==
    /\ At(h, "chunk") /\ WriteLock(h)
    /\ LET f == req[h].file
       IN  \/ f \in DOMAIN folder /\ UNCHANGED <<folder, parts, strays>>
           \/ /\ f \notin DOMAIN folder \union parts        \* a first chunk
              /\ parts' = parts \union {f} /\ UNCHANGED folder
              /\ Strays("late", row # "uploading")
           \/ /\ f \notin DOMAIN folder                    \* the last one
              /\ folder' = Over([x \in {f} |-> Upload], folder) /\ parts' = parts \ {f}
              /\ Strays("late", row # "uploading")
    /\ Ends(h)
    /\ UNCHANGED <<label, bucketVars, row, model, history, intended, uploadVars, sessionVars>>

----------------------------------------------------------------------------
(* A file sent straight to the bucket, for the upload or for a session.  The *)
(* lock of the file is held while it is begun and while it is completed.     *)
Accepts(w) == IF w = Upload THEN row = "uploading" /\ target ELSE w \in DirectSessions
FileLock(h, w, f) ==
    \A k \in Handlers \ {h} : req[k].pc \in {"begin_record", "complete_record"} => <<req[k].who, req[k].file>> # <<w, f>>

BeginFile(h, w, f) ==
    /\ Free(h) /\ Accepts(w) /\ FileLock(h, w, f)
    /\ IF <<w, f>> \in DOMAIN records THEN Answers(h) /\ UNCHANGED open
       ELSE /\ open' = open \union {<<w, f>>}
            /\ Begins(h, [Idle EXCEPT !.pc = "begin_record", !.who = w, !.file = f])
    /\ fresh' = fresh \union {w}
    /\ UNCHANGED <<diskVars, bucketVars, row, model, history, ghosts, target, records, sent, area, session, staging>>

BeginRecord(h) ==
    /\ At(h, "begin_record")
    /\ LET x == <<req[h].who, req[h].file>>
       IN  /\ records' = [y \in DOMAIN records \union {x} |-> IF y = x THEN "begun" ELSE records[y]]
           /\ Strays("begin", ~Accepts(req[h].who))
    /\ Ends(h)
    /\ UNCHANGED <<diskVars, bucketVars, row, model, history, intended, target, open, sent, area, sessionVars>>

(* The browser sends the parts, with links that outlive the request.         *)
PartsSent(x) ==
    /\ x \in open \intersect Begun /\ x \notin sent
    /\ sent' = sent \union {x}
    /\ UNCHANGED <<diskVars, bucketVars, row, model, history, requestVars, ghosts, target, records, open, area, sessionVars>>

CompleteFile(h, w, f) ==
    /\ Free(h) /\ Accepts(w) /\ FileLock(h, w, f)
    /\ <<w, f>> \in Begun /\ <<w, f>> \in sent
    /\ open' = open \ {<<w, f>>} /\ sent' = sent \ {<<w, f>>}
    /\ IF w = Upload THEN bucket' = Over([x \in {f} |-> Upload], bucket) /\ UNCHANGED area
       ELSE area' = area \union {<<w, f>>} /\ UNCHANGED bucket
    /\ Strays("late", w = Upload /\ (manifest # "none" \/ Others(h, RemovingSteps \union {"unpublish_rows"})))
    /\ Begins(h, [Idle EXCEPT !.pc = "complete_record", !.who = w, !.file = f])
    /\ fresh' = IF w = Upload THEN fresh ELSE fresh \union {w}
    /\ UNCHANGED <<diskVars, manifest, row, model, history, intended, target, records, session, staging>>

CompleteRecord(h) ==
    /\ At(h, "complete_record")
    /\ \/ /\ records' = [x \in DOMAIN records |->
                           IF x = <<req[h].who, req[h].file>> THEN "complete" ELSE records[x]]
          /\ UNCHANGED strays
       \/ UNCHANGED records /\ Strays("failed", TRUE)  \* its size cannot be read
    /\ fresh' = fresh \union {req[h].who}
    /\ Ends(h)
    /\ UNCHANGED <<diskVars, bucketVars, row, model, history, intended, target, open, sent, area, session, staging>>

(* What goes with the unfinished files of some scopes: their multipart       *)
(* uploads are aborted and their rows deleted.                               *)
DroppedOfUpload(scopes) == Of(DOMAIN records, Upload)
Dropped(scopes) == {x \in DOMAIN records : x[1] \in scopes}
DropRows(slots) == records' = Restrict(records, DOMAIN records \ slots) /\ UNCHANGED <<open, sent>>
Drop(slots) ==
    /\ open' = open \ (slots \intersect Begun) /\ sent' = sent \ (slots \intersect Begun)
    /\ records' = Restrict(records, DOMAIN records \ slots)
DiscardFiles(gone) ==
    Drop(Dropped(gone)) /\ area' = {x \in area : x[1] \notin gone} /\ UNCHANGED session
DiscardArea(gone) ==
    /\ area' = {x \in area : x[1] \notin gone} /\ UNCHANGED <<records, open, sent>>
    /\ session' = [s \in Sessions |-> IF s \in gone THEN "none" ELSE session[s]]
Discard(gone) ==
    /\ Drop(Dropped(gone))
    /\ area' = {x \in area : x[1] \notin gone}
    /\ session' = [s \in Sessions |-> IF s \in gone THEN "none" ELSE session[s]]

(* A sweep gives up direct sessions, and unfinished files of an upload, that *)
(* nobody touched for a day when it listed them.                             *)
SweepList(h) ==
    /\ At(h, "sweep")
    /\ LET stale == DirectSessions \ fresh
       IN  IF stale = {} /\ Of(Begun, Upload) = {} THEN Ends(h)
           ELSE Continues(h, [req[h] EXCEPT !.pc = "sweep_discard", !.stale = stale])
    /\ UNCHANGED <<diskVars, bucketVars, row, model, history, ghosts, uploadVars, sessionVars>>

SweepDiscard(h) ==
    /\ At(h, "sweep_discard")
    /\ LET idle == IF Upload \in fresh THEN {} ELSE Of(Begun, Upload)
       IN  /\ Drop(Dropped(req[h].stale) \union idle)
           /\ area' = {x \in area : x[1] \notin req[h].stale}
           /\ session' = [s \in Sessions |-> IF s \in req[h].stale THEN "none" ELSE session[s]]
           /\ Strays("abort", req[h].stale \intersect fresh # {} \/ Others(h, {"commit_upload", "complete_record"}))
    /\ Ends(h)
    /\ UNCHANGED <<diskVars, bucketVars, row, model, history, intended, target, staging, fresh>>

----------------------------------------------------------------------------
(* Finalizing files that came to this server: complete on the disk, stored   *)
(* in the bucket, indexed, and committed.                                    *)
Finalize(h) ==
    /\ Free(h) /\ row # "none"
    /\ Begins(h, [Idle EXCEPT !.pc = IF target THEN "publish" ELSE "finalize"])
    /\ UNCHANGED <<diskVars, bucketVars, row, model, history, ghosts, uploadVars, sessionVars>>

FinalizeChecked(h) ==
    /\ At(h, "finalize") /\ RepoLock(h) /\ WriteLock(h)
    /\ IF parts = {} /\ folder # << >>
       THEN /\ label' = "owned"
            /\ Continues(h, [req[h] EXCEPT !.pc = "finalize_sync", !.kind = label])
       ELSE UNCHANGED label /\ Ends(h)
    /\ UNCHANGED <<folder, parts, bucketVars, row, model, history, ghosts, uploadVars, sessionVars>>

(* A failure puts the manifest back.                                         *)
LabelLeft(h) == label
LabelBack(h) == IF req[h].kind # "none" /\ FolderExists THEN req[h].kind ELSE label

(* Storing the whole folder: what it does not hold leaves the bucket.        *)
FinalizeSync(h) ==
    /\ At(h, "finalize_sync")
    /\ \/ /\ place = "disk" \/ label \in Complete
          /\ IF place = "disk" THEN UNCHANGED bucketVars ELSE bucket' = folder /\ manifest' = label
          /\ intended' = folder
          /\ GoesTo(h, "finalize_index") /\ UNCHANGED <<label, strays>>
       \/ /\ place # "disk"
          /\ bucket' \in HalfStored(folder)
          /\ label' = LabelBack(h)
          /\ Strays("failed", TRUE)
          /\ Ends(h) /\ UNCHANGED <<manifest, intended>>
    /\ UNCHANGED <<folder, parts, row, model, history, uploadVars, sessionVars>>

FinalizeIndex(h) ==
    /\ At(h, "finalize_index")
    /\ IndexPath
    /\ GoesTo(h, "finalize_ready")
    /\ UNCHANGED <<diskVars, bucketVars, row, history, ghosts, uploadVars, sessionVars>>

Ready == row' = IF row = "none" THEN "none" ELSE "ready"

FinalizeReady(h) ==
    /\ At(h, "finalize_ready")
    /\ Ready /\ RecordStored /\ Ends(h)
    /\ UNCHANGED <<diskVars, bucketVars, model, ghosts, uploadVars, sessionVars>>

(* Finalizing files that are in the bucket: its manifest makes them a        *)
(* repository.                                                               *)
AllComplete == Of(Begun, Upload) = {}
Publish(h) ==
    /\ At(h, "publish") /\ RepoLock(h)
    /\ \/ /\ AllComplete /\ bucket # << >>
          /\ manifest' = "owned" /\ intended' = bucket /\ GoesTo(h, "publish_index")
          /\ Strays("late", row # "uploading")
       \/ Ends(h) /\ UNCHANGED <<manifest, ghosts>>      \* refused, or not stored
    /\ UNCHANGED <<diskVars, bucket, row, model, history, uploadVars, sessionVars>>

PublishIndex(h) ==
    /\ At(h, "publish_index")
    /\ IndexRemote(FALSE) /\ GoesTo(h, "publish_ready")
    /\ UNCHANGED <<diskVars, bucketVars, row, history, ghosts, uploadVars, sessionVars>>

PublishReady(h) ==
    /\ At(h, "publish_ready")
    /\ Ready /\ RecordStored /\ target' = FALSE
    /\ records' = Restrict(records, DOMAIN records \ Dropped({Upload}))
    /\ Strays("begin", Of(Begun, Upload) # {})
    /\ Ends(h)
    /\ UNCHANGED <<diskVars, bucketVars, model, intended, open, sent, area, sessionVars>>

----------------------------------------------------------------------------
(* Deleting a repository of an account (row), or a model of none, which must *)
(* not be busy.                                                              *)
Delete(h, downloading) ==
    /\ Free(h)
    /\ \/ /\ row # "none"
          /\ Begins(h, [Idle EXCEPT !.pc = IF target /\ row # "ready" THEN "delete_upload" ELSE "delete",
                                    !.kind = "owned"])
       \/ /\ row = "none" /\ model # NoModel
          /\ ~downloading /\ ~\E s \in Sessions : session[s] # "none" /\ s \in fresh
          /\ Begins(h, [Idle EXCEPT !.pc = "delete", !.kind = "open", !.at = model.target])
    /\ UNCHANGED <<diskVars, bucketVars, row, model, history, ghosts, uploadVars, sessionVars>>

(* An upload that was never published, straight from the bucket.             *)
AbortUpload(h) ==
    /\ At(h, "delete_upload") /\ RepoLock(h)
    /\ open' = open \ Begun /\ sent' = sent \ Begun
    /\ Strays("late", row # "uploading")
    /\ GoesTo(h, "unpublish")
    /\ UNCHANGED <<diskVars, bucketVars, row, model, history, intended, target, records, area, sessionVars>>

Unpublish(h) ==
    /\ At(h, "unpublish")
    /\ records' = << >>
    /\ \/ /\ bucket' = << >> /\ manifest' = "none" /\ area' = {}
          /\ Strays("begin", open \intersect Begun # {}) /\ GoesTo(h, "unpublish_rows")
       \/ Strays("failed", TRUE) /\ Ends(h) /\ UNCHANGED <<bucketVars, area>>
    /\ UNCHANGED <<diskVars, row, model, history, intended, target, open, sent, sessionVars>>

Overtakes(h) == Others(h, Steps \ {"idle", "sweep", "sweep_discard", "delete", "delete_upload"})

UnpublishRows(h) ==
    /\ At(h, "unpublish_rows")
    /\ target' = FALSE /\ row' = "none" /\ model' = NoModel /\ history' = << >>
    /\ Discard({Upload} \union DirectSessions)
    /\ intended' = << >> /\ Strays("late", Overtakes(h)) /\ Ends(h)
    /\ UNCHANGED <<diskVars, bucketVars, staging, fresh>>

(* Its objects, then its folder and rows, then what else remembers it.       *)
Verified(kind) ==
    kind = "open" \/ (IF label # "none" THEN label \in {"owned", "uploading"} ELSE manifest = "owned")

Remove(h, fetching) ==
    /\ At(h, "delete") /\ WriteLock(h)
    /\ IF Verified(req[h].kind)
       THEN \/ /\ IF place = "disk" \/ (req[h].kind = "open" /\ req[h].at # "bucket")
                  THEN UNCHANGED <<bucketVars, area>>
                  ELSE bucket' = << >> /\ manifest' = "none" /\ area' = {}
               /\ GoesTo(h, "remove") /\ Strays("late", fetching \/ (req[h].kind = "open" /\ row # "none"))
            \/ place # "disk" /\ Ends(h) /\ Strays("failed", TRUE) /\ UNCHANGED <<bucketVars, area>>
       ELSE Ends(h) /\ UNCHANGED <<bucketVars, area, strays>>
    /\ UNCHANGED <<diskVars, row, model, history, intended, target, records, open, sent, sessionVars>>

RemoveFolder(h, fetching) ==
    /\ At(h, "remove")
    /\ folder' = << >> /\ parts' = {} /\ label' = "none"
    /\ row' = "none" /\ model' = NoModel /\ intended' = << >>
    /\ LET gone == IF req[h].kind = "open" THEN {s \in Sessions : session[s] = "staged"} ELSE {}
       IN  /\ session' = [s \in Sessions |-> IF s \in gone THEN "none" ELSE session[s]]
           /\ staging' = [s \in Sessions |-> IF s \in gone THEN NoFiles ELSE staging[s]]
    /\ Strays("late", Overtakes(h) \/ fetching)
    /\ GoesTo(h, "forget")
    /\ UNCHANGED <<bucketVars, history, uploadVars, fresh>>

Forget(h) ==
    /\ At(h, "forget")
    /\ Discard({Upload} \union DirectSessions)
    /\ target' = FALSE /\ history' = << >>
    /\ Strays("late", Overtakes(h) \/ row # "none") /\ Ends(h)
    /\ UNCHANGED <<diskVars, bucketVars, row, model, intended, staging, fresh>>

Uploading(h, downloading, fetching) ==
    \/ CreateUpload(h) \/ \E f \in Files : Chunk(h, f)
    \/ ChunkWritten(h) \/ BeginRecord(h) \/ CompleteRecord(h)
    \/ \E w \in Sessions \union {Upload}, f \in Files : BeginFile(h, w, f) \/ CompleteFile(h, w, f)
    \/ SweepList(h) \/ SweepDiscard(h)
    \/ Finalize(h) \/ FinalizeChecked(h) \/ FinalizeSync(h) \/ FinalizeIndex(h) \/ FinalizeReady(h)
    \/ Publish(h) \/ PublishIndex(h) \/ PublishReady(h)
    \/ Delete(h, downloading) \/ AbortUpload(h) \/ Unpublish(h) \/ UnpublishRows(h)
    \/ Remove(h, fetching) \/ RemoveFolder(h, fetching) \/ Forget(h)
=============================================================================
