------------------------------ MODULE Library ------------------------------
(***************************************************************************)
(* One repository of a server's model library: its folder on the server's  *)
(* disk, its objects in a bucket, its row in the index (local_models), the *)
(* latest commit of its history, and the requests that work on it at the   *)
(* same time (backend/app/main.py, indexer.py, history.py, storage.py).    *)
(* A file is told apart by whose bytes it holds: those of the upload, of a *)
(* change session, or of the Hub.  A request is a sequence of steps, as    *)
(* many as it has moments at which others see or change what it works on.  *)
(***************************************************************************)
EXTENDS Naturals, FiniteSets, Functions

CONSTANTS
    Files, Sessions, Upload, Hub,   \* files, and where their bytes come from
    Handlers,       \* requests answered at the same time
    MaxRequests,    \* bound on requests in a run
    MaxDownloads    \* and on downloads

ASSUME LibraryAssumption ==
    /\ MaxRequests \in Nat \ {0} /\ MaxDownloads \in Nat
    /\ Files # {} /\ Upload \notin Sessions /\ Hub \notin Sessions

VARIABLES
    place,      \* where the repository is kept, and how uploads get there
    folder,     \* its files in the local folder, and whose bytes they hold
    parts,      \* files the folder has only the beginning of
    label,      \* the manifest in the folder
    bucket,     \* its objects in the bucket that listings show
    manifest,   \* the manifest in the bucket
    row,        \* its owned_repositories row
    model,      \* its local_models row
    history,    \* the snapshot of its latest commit
    req,        \* what each handler is doing
    asked,      \* requests so far
    intended,   \* what the last commit, upload or download was to leave
    strays      \* ways in which requests have met, or bucket requests failed

diskVars == <<folder, parts, label>>
bucketVars == <<bucket, manifest>>
requestVars == <<req, asked>>
ghosts == <<intended, strays>>

Origins == Sessions \union {Upload, Hub}
Contents == UNION {[S -> Origins] : S \in SUBSET Files}
Complete == {"owned", "open"}
Places == {"disk", "bucket", "direct"}
Targets == {"none", "local", "bucket"}

NoModel == [target |-> "none", cached |-> FALSE]
Model == [target : Targets, cached : BOOLEAN]

Over(new, old) == [f \in DOMAIN new \union DOMAIN old |-> IF f \in DOMAIN new THEN new[f] ELSE old[f]]
Without(content, gone) == Restrict(content, DOMAIN content \ gone)

FolderExists == label # "none" \/ folder # << >> \/ parts # {}
Target == IF place = "disk" THEN "local" ELSE "bucket"
Stored == IF place = "disk" THEN folder ELSE bucket
Published == IF place = "disk" THEN label \in Complete ELSE manifest # "none"

----------------------------------------------------------------------------
(* Requests, and the locks they hold at each step.                          *)
StoringSteps == {"finalize_sync", "finalize_index", "finalize_ready",
                 "apply", "apply_removals", "store", "fetch", "commit_index"}
PublishingSteps == {"publish_index", "publish_ready", "unpublish", "unpublish_rows"}
RemovingSteps == {"remove", "forget"}
WaitingSteps == {"chunk", "begin_record", "complete_record", "finalize", "publish", "delete",
                 "delete_upload", "commit", "commit_upload", "history", "discard"}
ScanSteps == {"scan", "scan_list", "scan_index", "scan_commit", "scan_local", "sweep", "sweep_discard"}
CacheSteps == {"restore", "restore_index", "evict", "evict_index"}
DownloadSteps == {"enqueue", "cancel", "cancel_row"}

RememberingSteps ==     \* of a repository that was there when the request began
    (StoringSteps \union PublishingSteps \union RemovingSteps \union WaitingSteps \union CacheSteps
       \union {"scan_commit"}) \ {"delete", "delete_upload"}

Steps == {"idle"} \union StoringSteps \union PublishingSteps \union RemovingSteps
           \union WaitingSteps \union ScanSteps \union CacheSteps \union DownloadSteps

Request == [pc : Steps, who : Origins, file : Files, files : SUBSET Files, gone : SUBSET Files,
            backup : Contents, saw : Contents, kind : Complete \union {"none", "uploading", "downloading", "cancelled"},
            local : BOOLEAN, at : Targets, moved : SUBSET Files, stale : SUBSET Origins,
            job : 0 .. MaxDownloads]

Idle == [pc |-> "idle", who |-> Upload, file |-> CHOOSE f \in Files : TRUE, files |-> {}, gone |-> {},
         backup |-> << >>, saw |-> << >>, kind |-> "none", local |-> FALSE, at |-> "none",
         moved |-> {}, stale |-> {}, job |-> 0]

LibraryTypeOK ==
    /\ place \in Places
    /\ folder \in Contents /\ parts \subseteq Files
    /\ label \in Complete \union {"none", "uploading", "downloading", "cancelled"}
    /\ bucket \in Contents /\ manifest \in Complete \union {"none"}
    /\ row \in {"none", "uploading", "ready"}
    /\ model \in Model /\ history \in Contents
    /\ req \in [Handlers -> Request] /\ asked \in 0 .. MaxRequests
    /\ intended \in Contents
    /\ strays \subseteq {"failed", "late", "restore", "evict", "scan", "finalizing", "cancel", "monitor",
                         "queue", "restart", "begin", "abort", "update"}

Free(h) == req[h].pc = "idle" /\ asked < MaxRequests
At(h, step) == req[h].pc = step
Begins(h, r) == asked' = asked + 1 /\ req' = [req EXCEPT ![h] = r]
Answers(h) == Begins(h, Idle)
GoesTo(h, step) == req' = [req EXCEPT ![h].pc = step] /\ UNCHANGED asked
Continues(h, r) == req' = [req EXCEPT ![h] = r] /\ UNCHANGED asked
Ends(h) == Continues(h, Idle)

Others(h, steps) == \E k \in Handlers \ {h} : req[k].pc \in steps
RepoLock(h) == ~Others(h, StoringSteps \union PublishingSteps)
WriteLock(h) == ~Others(h, StoringSteps \union RemovingSteps)

Strays(kind, happened) == strays' = IF happened THEN strays \union {kind} ELSE strays

(* What the bucket shows when storing new objects stopped half-way: those    *)
(* that replace others are seen, those that are new only if nothing was      *)
(* published yet.                                                            *)
HalfStored(new) ==
    {Over(Restrict(new, S), bucket) :
        S \in SUBSET (IF manifest = "none" THEN DOMAIN new ELSE DOMAIN new \intersect DOMAIN bucket)}

(* indexer.index_path: the row of the local folder, as its manifest says.    *)
Registered(kind) == kind = "owned" => row # "none"
FolderModelAsLabelled == [target |-> label, cached |-> TRUE]
FolderModel ==
    [target |-> IF label \in Complete \union {"uploading"} THEN Target ELSE "local", cached |-> TRUE]
IndexPath == model' = IF Registered(label) THEN FolderModel ELSE model

(* indexer.index_remote: the row of a repository in the bucket.              *)
IndexRemote(cached) == model' = [target |-> "bucket", cached |-> cached]

(* history.record: a commit, when the files differ from the latest one's.    *)
Record(content) == history' = content
RecordFolder == Record(folder)
RecordStored == IF model.target = "bucket" THEN Record(bucket) ELSE Record(folder)

----------------------------------------------------------------------------
(* A scan: the local folder, the bucket as it was listed, and what each is   *)
(* entered as.  One scan runs at a time.                                     *)
Scan(h) ==
    /\ Free(h) /\ ~Others(h, ScanSteps)
    /\ Begins(h, [Idle EXCEPT !.pc = "scan"])
    /\ UNCHANGED <<diskVars, bucketVars, row, model, history, ghosts>>

Candidate == label \in Complete \/ (label = "none" /\ folder # << >>)

ScanFolder(h, fetching) ==
    /\ At(h, "scan")
    /\ IF Candidate /\ Registered(label) THEN IndexPath
       ELSE model' = IF model.target = "local" THEN NoModel ELSE model
    /\ Strays("finalizing", Candidate /\ (fetching \/ Others(h, StoringSteps)))
    /\ GoesTo(h, IF place = "disk" THEN "scan_local" ELSE "scan_list")
    /\ UNCHANGED <<diskVars, bucketVars, row, history, intended>>

ScanList(h) ==
    /\ At(h, "scan_list")
    /\ \/ Continues(h, [req[h] EXCEPT !.pc = "scan_index", !.saw = bucket,
                          !.kind = IF model.target = "local" THEN "none" ELSE manifest,
                          !.local = label \in Complete])
       \/ GoesTo(h, "scan_local")              \* the bucket cannot be listed
    /\ UNCHANGED <<diskVars, bucketVars, row, model, history, ghosts>>

ScanIndex(h) ==
    /\ At(h, "scan_index")
    /\ LET found == req[h].kind # "none" /\ Registered(req[h].kind)
       IN  /\ IF found THEN IndexRemote(req[h].local)
              ELSE model' = IF model.target = "bucket" /\ ~model.cached THEN NoModel ELSE model
           /\ GoesTo(h, IF found THEN "scan_commit" ELSE "scan_local")
           /\ Strays("scan", req[h].kind # manifest \/ req[h].local # (label \in Complete)
                               \/ row = "uploading" \/ Others(h, StoringSteps \union PublishingSteps \union CacheSteps))
    /\ UNCHANGED <<diskVars, bucketVars, row, history, intended>>

(* The commit of a scan is of the files as they were listed.                 *)
ScanCommit(h) ==
    /\ At(h, "scan_commit")
    /\ Record(req[h].saw)
    /\ Strays("scan", req[h].saw # bucket)
    /\ GoesTo(h, "sweep")
    /\ UNCHANGED <<diskVars, bucketVars, row, model, intended>>

ScanLocal(h) ==
    /\ At(h, "scan_local")
    /\ IF model.target = "local" THEN Record(folder) ELSE UNCHANGED history
    /\ Strays("scan", Others(h, StoringSteps))
    /\ GoesTo(h, "sweep")
    /\ UNCHANGED <<diskVars, bucketVars, row, model, intended>>

----------------------------------------------------------------------------
(* Restoring the local copy: the files listed before the storage's lock is   *)
(* taken, with what the bucket holds of them then.                           *)
Restore(h, downloading) ==
    /\ Free(h)
    /\ model.target = "bucket" /\ ~downloading /\ manifest # "none" /\ bucket # << >>
    /\ Begins(h, [Idle EXCEPT !.pc = "restore", !.files = DOMAIN bucket])
    /\ UNCHANGED <<diskVars, bucketVars, row, model, history, ghosts>>

RestoreFiles(h) ==
    /\ At(h, "restore")
    /\ LET missing == req[h].files \ DOMAIN bucket
           whole == missing = {} /\ manifest # "none"
       IN  /\ folder' \in {Over(Restrict(bucket, S), folder) :
                             S \in IF whole THEN {req[h].files} ELSE SUBSET (req[h].files \ missing)}
           /\ label' = IF whole THEN manifest ELSE label
           /\ IF whole THEN GoesTo(h, "restore_index") ELSE Ends(h)
           /\ Strays("restore", ~whole \/ req[h].files # DOMAIN bucket \/ FolderExists
                                  \/ Others(h, StoringSteps \union RemovingSteps \union ScanSteps
                                               \union {"delete", "commit", "commit_upload", "evict_index"}))
    /\ UNCHANGED <<parts, bucketVars, row, model, history, intended>>

RestoreIndex(h) ==
    /\ At(h, "restore_index")
    /\ IndexPath /\ Ends(h)
    /\ Strays("restore", ~FolderExists \/ folder # bucket \/ label # manifest)
    /\ UNCHANGED <<diskVars, bucketVars, row, history, intended>>

(* Removing it, once the bucket has a complete copy.                         *)
Evict(h, downloading) ==
    /\ Free(h)
    /\ model.target = "bucket" /\ ~downloading
    /\ Begins(h, [Idle EXCEPT !.pc = "evict"])
    /\ UNCHANGED <<diskVars, bucketVars, row, model, history, ghosts>>

EvictFolder(h, fetching) ==
    /\ At(h, "evict")
    /\ IF manifest # "none"
       THEN /\ folder' = << >> /\ parts' = {} /\ label' = "none"
            /\ Strays("evict", fetching \/ Others(h, Steps \ {"idle", "sweep", "sweep_discard", "history"}))
            /\ GoesTo(h, "evict_index")
       ELSE UNCHANGED <<diskVars, strays>> /\ Ends(h)
    /\ UNCHANGED <<bucketVars, row, model, history, intended>>

EvictIndex(h) ==
    /\ At(h, "evict_index")
    /\ model' = [model EXCEPT !.cached = FALSE]
    /\ Strays("evict", FolderExists)
    /\ Ends(h)
    /\ UNCHANGED <<diskVars, bucketVars, row, history, intended>>

Cache(h, downloading, fetching) ==
    \/ Scan(h) \/ ScanFolder(h, fetching) \/ ScanList(h) \/ ScanIndex(h) \/ ScanCommit(h) \/ ScanLocal(h)
    \/ Restore(h, downloading) \/ RestoreFiles(h) \/ RestoreIndex(h)
    \/ Evict(h, downloading) \/ EvictFolder(h, fetching) \/ EvictIndex(h)
=============================================================================
