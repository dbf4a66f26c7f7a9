------------------------------ MODULE Changes ------------------------------
(***************************************************************************)
(* Changes of a repository that is ready (backend/app/uploads.py).  A      *)
(* session gathers files, here or in the bucket's change area, and commits *)
(* them with deletions: into the local folder and from there to the        *)
(* bucket, or in the bucket alone.  The model's row, the session's files   *)
(* and whether there is a local copy are read before the locks are taken;  *)
(* the commit is recorded after they are released.                         *)
(**************************************************************************)
EXTENDS Uploads

CONSTANTS Writes, Deletes       \* what each session sends, and deletes

ASSUME ChangesAssumption ==
    /\ Writes \in [Sessions -> SUBSET Files]
    /\ Deletes \in [Sessions -> SUBSET Files]

Whole(s) == {f \in Files : staging[s][f] = "whole"}
Of1(s) == {x[2] : x \in Of(DOMAIN records, s)}

(* An id is given out once: one that a request still has is not a new one's. *)
Unused(s) == \A k \in Handlers : req[k].pc # "idle" => req[k].who # s /\ s \notin req[k].stale

StartChange(h, s) ==
    /\ Free(h) /\ session[s] = "none" /\ staging[s] = NoFiles /\ Of1(s) = {} /\ Unused(s)
    /\ model # NoModel /\ row # "uploading"
    /\ session' = [session EXCEPT ![s] = IF place = "direct" /\ model.target = "bucket" THEN "direct" ELSE "staged"]
    /\ fresh' = fresh \union {s}
    /\ Answers(h)
    /\ UNCHANGED <<diskVars, bucketVars, row, model, history, ghosts, uploadVars, staging>>

StageChunk(h, s, f) ==
    /\ Free(h) /\ session[s] = "staged" /\ f \in Writes[s] /\ WriteLock(h)
    /\ \E stage \in {"part", "whole"} :
         /\ staging[s][f] # "whole" /\ staging[s][f] # stage
         /\ staging' = [staging EXCEPT ![s][f] = stage]
    /\ Answers(h)
    /\ UNCHANGED <<diskVars, bucketVars, row, model, history, ghosts, uploadVars, session, fresh>>

Unstage(s) == session' = [session EXCEPT ![s] = "none"] /\ staging' = [staging EXCEPT ![s] = NoFiles]

AbortChange(h, s) ==
    /\ Free(h) /\ session[s] # "none"
    /\ IF session[s] = "staged" THEN Unstage(s) /\ UNCHANGED <<records, open, sent, area>>
       ELSE Discard({s}) /\ UNCHANGED staging
    /\ Strays("abort", \E k \in Handlers : req[k].pc # "idle" /\ (req[k].who = s \/ s \in req[k].stale))
    /\ asked' = asked + 1       \* and the backups of a commit of it are removed
    /\ req' = [k \in Handlers |-> IF req[k].pc \in {"apply", "store"} /\ req[k].who = s /\ session[s] = "staged"
                                  THEN [req[k] EXCEPT !.kind = "cancelled"] ELSE req[k]]
    /\ UNCHANGED <<diskVars, bucketVars, row, model, history, intended, target, fresh>>

----------------------------------------------------------------------------
(* Committing: what is read before the locks.                               *)
Commit(h, s, downloading) ==
    /\ Free(h) /\ session[s] # "none" /\ model # NoModel
    /\ LET direct == session[s] = "direct"
           files == IF direct THEN Of1(s) ELSE Whole(s)
           gone == Deletes[s] \ files
       IN  /\ IF direct THEN Of(Begun, s) = {} /\ model.target = "bucket"
              ELSE \A f \in Files : staging[s][f] # "part"
           /\ files \union gone # {}
           /\ Begins(h, [Idle EXCEPT !.pc = IF direct THEN "commit_upload" ELSE "commit",
                           !.who = s, !.files = files, !.gone = gone,
                           !.local = model.cached /\ FolderExists, !.at = model.target])
    /\ strays' = strays \union (IF downloading THEN {"update"} ELSE {})
                         \union (IF Others(h, {"restore", "restore_index"}) THEN {"restore"} ELSE {})
    /\ UNCHANGED <<diskVars, bucketVars, row, model, history, intended, uploadVars, sessionVars>>

Changed(h) == [f \in req[h].files |-> req[h].who]
ReplacementManifest == IF row = "none" THEN "open" ELSE "owned"
Local(h) == req[h].local

(* Applied in the local folder, one file after another; what a file replaces *)
(* is kept until the bucket has the change.                                  *)
CommitLocks(h) ==
    /\ At(h, "commit") /\ RepoLock(h) /\ WriteLock(h) /\ Local(h)
    /\ GoesTo(h, "apply")
    /\ UNCHANGED <<diskVars, bucketVars, row, model, history, ghosts, uploadVars, sessionVars>>

(* If anything fails every file goes back where it was; a file whose backup  *)
(* an abort of the session has removed does not.                             *)
Rollback(h) ==
    IF req[h].kind = "cancelled"
    THEN folder' \in {Without(folder, S) : S \in SUBSET req[h].moved} /\ UNCHANGED label
    ELSE /\ folder' = Over(req[h].backup, Without(folder, req[h].moved))
         /\ UNCHANGED label

Keeps(h, kept) == Over(Restrict(folder, kept \intersect DOMAIN folder), req[h].backup)

Apply(h, f) ==
    /\ At(h, "apply") /\ f \in req[h].files \ req[h].moved
    /\ IF staging[req[h].who][f] = "whole"
       THEN /\ folder' = Over([x \in {f} |-> req[h].who], folder) /\ UNCHANGED label
            /\ Continues(h, [req[h] EXCEPT !.backup = Keeps(h, {f}), !.moved = @ \union {f}])
       ELSE Rollback(h) /\ Ends(h)              \* the session was aborted meanwhile
    /\ UNCHANGED <<parts, bucketVars, row, model, history, ghosts, uploadVars, sessionVars>>

ApplyRemovals(h) ==
    /\ At(h, "apply") /\ req[h].files = req[h].moved
    /\ folder' = Without(folder, req[h].gone)
    /\ Continues(h, [req[h] EXCEPT !.pc = "store", !.backup = Keeps(h, req[h].gone)])
    /\ UNCHANGED <<parts, label, bucketVars, row, model, history, ghosts, uploadVars, sessionVars>>

(* The bucket gets the changed files; what the folder does not hold leaves.  *)
SyncedWithoutRemovals(changed) == Over(Restrict(folder, changed \intersect DOMAIN folder), bucket)
SyncedWhenMissing(changed) ==
    [f \in DOMAIN folder \intersect (changed \union DOMAIN bucket) |->
        IF f \in DOMAIN bucket THEN bucket[f] ELSE folder[f]]
SyncedBucket(changed) ==
    [f \in DOMAIN folder \intersect (changed \union DOMAIN bucket) |->
        IF f \in changed THEN folder[f] ELSE bucket[f]]

Store(h) ==
    /\ At(h, "store")
    /\ LET changed == req[h].files \union req[h].gone
       IN  \/ /\ req[h].at = "local" \/ label \in Complete
              /\ IF req[h].at = "local" THEN UNCHANGED bucketVars
                 ELSE bucket' = SyncedBucket(changed) /\ manifest' = label
              /\ intended' = Over(Changed(h), Without(intended, req[h].gone))
              /\ GoesTo(h, "commit_index") /\ UNCHANGED <<folder, label, strays>>
           \/ /\ req[h].at = "bucket"
              /\ bucket' \in HalfStored(Restrict(folder, req[h].files \intersect DOMAIN folder))
              /\ Rollback(h) /\ Strays("failed", TRUE) /\ Ends(h)
              /\ UNCHANGED <<manifest, intended>>
    /\ UNCHANGED <<parts, row, model, history, uploadVars, sessionVars>>

(* Applied in the bucket alone, from the files staged here or in the area.   *)
Available(h) ==
    LET s == req[h].who
    IN  IF At(h, "commit") THEN req[h].files \intersect Whole(s)
        ELSE {f \in req[h].files : <<s, f>> \in area}

CommitRemote(h) ==
    /\ \/ At(h, "commit") /\ ~Local(h)
       \/ At(h, "commit_upload")
    /\ RepoLock(h) /\ WriteLock(h)
    /\ \/ /\ req[h].at = "bucket" /\ Available(h) = req[h].files
          /\ bucket' = Over(Changed(h), Without(bucket, req[h].gone))
          /\ manifest' = IF manifest = "none" THEN ReplacementManifest ELSE manifest
          /\ intended' = Over(Changed(h), Without(intended, req[h].gone))
          /\ GoesTo(h, IF Local(h) THEN "fetch" ELSE "commit_index")
          /\ UNCHANGED strays
       \/ /\ req[h].at = "bucket"
          /\ bucket' \in HalfStored(Restrict(Changed(h), Available(h)))
          /\ Strays("failed", TRUE) /\ Ends(h)
          /\ UNCHANGED <<manifest, intended>>
       \/ req[h].at = "local" /\ Ends(h) /\ UNCHANGED <<bucketVars, ghosts>>  \* changed in place, or not at all
    /\ UNCHANGED <<diskVars, row, model, history, uploadVars, sessionVars>>

(* The local copy follows the bucket.                                        *)
FetchCopy(h) ==
    /\ At(h, "fetch")
    /\ \/ /\ req[h].files \subseteq DOMAIN bucket
          /\ folder' = Over(Restrict(bucket, req[h].files), Without(folder, req[h].gone))
          /\ label' = IF label = "none" THEN manifest ELSE label
          /\ GoesTo(h, "commit_index") /\ UNCHANGED strays
       \/ Strays("failed", TRUE) /\ Ends(h) /\ UNCHANGED <<folder, label>>
    /\ UNCHANGED <<parts, bucketVars, row, model, history, intended, uploadVars, sessionVars>>

CommitIndex(h) ==
    /\ At(h, "commit_index")
    /\ IF Local(h) THEN IndexPath ELSE IndexRemote(FALSE)
    /\ LET s == req[h].who
       IN  IF session[s] = "direct" THEN Discard({s}) /\ UNCHANGED staging
           ELSE Unstage(s) /\ UNCHANGED <<records, open, sent, area>>
    /\ Strays("late", model = NoModel)
    /\ GoesTo(h, "history")
    /\ UNCHANGED <<diskVars, bucketVars, row, history, intended, target, fresh>>

(* Recorded last, of what the storage holds by then.                        *)
CommitRecorded(h) ==
    /\ At(h, "history")
    /\ RecordStored /\ Ends(h)
    /\ UNCHANGED <<diskVars, bucketVars, row, model, ghosts, uploadVars, sessionVars>>

Changing(h, downloading) ==
    \/ \E s \in Sessions : StartChange(h, s) \/ AbortChange(h, s) \/ Commit(h, s, downloading)
    \/ \E s \in Sessions, f \in Files : StageChunk(h, s, f)
    \/ CommitLocks(h) \/ \E f \in Files : Apply(h, f)
    \/ ApplyRemovals(h) \/ Store(h) \/ CommitRemote(h) \/ FetchCopy(h)
    \/ CommitIndex(h) \/ CommitRecorded(h)
=============================================================================
