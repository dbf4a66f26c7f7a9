----------------------- MODULE RepositoryLife_proofs -----------------------
(***************************************************************************)
(* Theorems on the life of a repository, for all files, sessions, requests *)
(* and downloads.                                                          *)
(***************************************************************************)
EXTENDS RepositoryLife, FiniteSetTheorems, TLAPS

Labels == Complete \union {"none", "uploading", "downloading", "cancelled"}
Kinds == {"failed", "late", "restore", "evict", "scan", "finalizing", "cancel", "monitor",
          "queue", "restart", "begin", "abort", "update"}

----------------------------------------------------------------------------
(* What the operators on contents yield.                                     *)
LEMMA ContentsOf ==
    ASSUME NEW c
    PROVE  c \in Contents <=> /\ c = [x \in DOMAIN c |-> c[x]]
                              /\ DOMAIN c \subseteq Files
                              /\ \A x \in DOMAIN c : c[x] \in Origins
BY DEF Contents

LEMMA NothingStored == << >> \in Contents
<1>1. DOMAIN << >> = {} /\ << >> = [x \in DOMAIN << >> |-> << >>[x]]
  OBVIOUS
<1> QED BY <1>1, ContentsOf

LEMMA OverContents ==
    ASSUME NEW a \in Contents, NEW b \in Contents
    PROVE  Over(a, b) \in Contents
<1>1. DOMAIN a \subseteq Files /\ \A x \in DOMAIN a : a[x] \in Origins
  BY ContentsOf
<1>2. DOMAIN b \subseteq Files /\ \A x \in DOMAIN b : b[x] \in Origins
  BY ContentsOf
<1> QED BY <1>1, <1>2, ContentsOf DEF Over

LEMMA RestrictContents ==
    ASSUME NEW a \in Contents, NEW S, S \subseteq DOMAIN a
    PROVE  Restrict(a, S) \in Contents
BY ContentsOf DEF Restrict

LEMMA WithoutContents ==
    ASSUME NEW a \in Contents, NEW S
    PROVE  Without(a, S) \in Contents
BY RestrictContents DEF Without

LEMMA ConstantContents ==
    ASSUME NEW S, S \subseteq Files, NEW w \in Origins
    PROVE  [x \in S |-> w] \in Contents
BY ContentsOf

LEMMA HalfStoredContents ==
    ASSUME bucket \in Contents, NEW new \in Contents, NEW half \in HalfStored(new)
    PROVE  half \in Contents
<1>1. PICK S \in SUBSET (IF manifest = "none" THEN DOMAIN new ELSE DOMAIN new \intersect DOMAIN bucket) :
        half = Over(Restrict(new, S), bucket)
  BY DEF HalfStored
<1>2. S \subseteq DOMAIN new
  OBVIOUS
<1> QED BY <1>1, <1>2, RestrictContents, OverContents

(* The requests as they begin and go on.                                     *)
LEMMA IdleRequest == Idle \in Request
<1>1. (CHOOSE f \in Files : TRUE) \in Files
  BY LibraryAssumption
<1>2. 0 \in 0 .. MaxDownloads
  BY LibraryAssumption
<1>3. Upload \in Origins
  BY DEF Origins
<1>4. "idle" \in Steps
  BY DEF Steps
<1> QED BY <1>1, <1>2, <1>3, <1>4, NothingStored DEF Idle, Request, Targets

LEMMA NextStep ==
    ASSUME NEW r \in Request, NEW step \in Steps
    PROVE  [r EXCEPT !.pc = step] \in Request
BY DEF Request

LEMMA Requested ==
    ASSUME req \in [Handlers -> Request], asked \in 0 .. MaxRequests, NEW h \in Handlers,
           NEW r \in Request,
           (Free(h) /\ Begins(h, r)) \/ Continues(h, r)
    PROVE  req' \in [Handlers -> Request] /\ asked' \in 0 .. MaxRequests
BY LibraryAssumption DEF Begins, Continues, Free

LEMMA WentOn ==
    ASSUME req \in [Handlers -> Request], asked \in 0 .. MaxRequests, NEW h \in Handlers,
           NEW step \in Steps, GoesTo(h, step)
    PROVE  req' \in [Handlers -> Request] /\ asked' \in 0 .. MaxRequests
<1>1. req' = [req EXCEPT ![h] = [req[h] EXCEPT !.pc = step]]
  BY DEF GoesTo
<1>2. [req[h] EXCEPT !.pc = step] \in Request
  BY NextStep
<1> QED BY <1>1, <1>2 DEF GoesTo

LEMMA Ended ==
    ASSUME req \in [Handlers -> Request], asked \in 0 .. MaxRequests, NEW h \in Handlers, Ends(h)
    PROVE  req' \in [Handlers -> Request] /\ asked' \in 0 .. MaxRequests
BY IdleRequest, Requested DEF Ends

LEMMA StepNames ==
    /\ {"idle", "scan", "scan_list", "scan_index", "scan_commit", "scan_local", "sweep", "sweep_discard",
        "restore", "restore_index", "evict", "evict_index", "enqueue", "cancel", "cancel_row"} \subseteq Steps
    /\ {"chunk", "begin_record", "complete_record", "finalize", "publish", "delete",
        "delete_upload", "commit", "commit_upload", "history", "remove", "forget"} \subseteq Steps
    /\ {"finalize_sync", "finalize_index", "finalize_ready", "apply", "store", "fetch", "commit_index",
        "publish_index", "publish_ready", "unpublish", "unpublish_rows"} \subseteq Steps
BY DEF Steps, StoringSteps, PublishingSteps, RemovingSteps, WaitingSteps, ScanSteps, CacheSteps, DownloadSteps

(* The parts of the type of the library.                                     *)
RequestsTyped == req \in [Handlers -> Request] /\ asked \in 0 .. MaxRequests
DiskTyped == folder \in Contents /\ parts \subseteq Files /\ label \in Labels
BucketTyped == bucket \in Contents /\ manifest \in Complete \union {"none"}
IndexTyped == row \in {"none", "uploading", "ready"} /\ model \in Model /\ history \in Contents
GhostsTyped == intended \in Contents /\ strays \subseteq Kinds

LEMMA LibraryParts ==
    LibraryTypeOK <=> /\ place \in Places
                      /\ RequestsTyped /\ DiskTyped /\ BucketTyped /\ IndexTyped /\ GhostsTyped
BY DEF LibraryTypeOK, RequestsTyped, DiskTyped, BucketTyped, IndexTyped, GhostsTyped, Labels, Kinds

LEMMA NoModelTyped == NoModel \in Model
BY DEF NoModel, Model, Targets

LEMMA IndexedPath ==
    ASSUME model \in Model, IndexPath
    PROVE  model' \in Model
BY DEF IndexPath, FolderModel, Model, Targets, Target

LEMMA IndexedRemote ==
    ASSUME NEW cached \in BOOLEAN, IndexRemote(cached)
    PROVE  model' \in Model
BY DEF IndexRemote, Model, Targets

LEMMA Recorded ==
    ASSUME folder \in Contents, bucket \in Contents, RecordStored
    PROVE  history' \in Contents
BY DEF RecordStored, Record

LEMMA CacheTyped ==
    ASSUME LibraryTypeOK, UNCHANGED place, NEW h \in Handlers, NEW downloading, NEW fetching,
           Cache(h, downloading, fetching)
    PROVE  LibraryTypeOK'
<1>1. /\ place \in Places
      /\ RequestsTyped /\ DiskTyped /\ BucketTyped /\ IndexTyped /\ GhostsTyped
  BY LibraryParts
<1>2. SUFFICES RequestsTyped' /\ DiskTyped' /\ BucketTyped' /\ IndexTyped' /\ GhostsTyped'
  BY <1>1 DEF LibraryTypeOK, RequestsTyped, DiskTyped, BucketTyped, IndexTyped, GhostsTyped, Labels, Kinds
<1>3. CASE Scan(h)
  <2>1. [Idle EXCEPT !.pc = "scan"] \in Request
    BY IdleRequest, NextStep, StepNames
  <2>2. RequestsTyped'
    BY <1>1, <1>3, <2>1, Requested DEF Scan, RequestsTyped
  <2> QED BY <1>1, <1>3, <2>2 DEF Scan, DiskTyped, BucketTyped, IndexTyped, GhostsTyped, diskVars, bucketVars, ghosts
<1>4. CASE ScanFolder(h, fetching)
  <2>1. PICK step \in Steps : GoesTo(h, step)
    BY <1>4, StepNames DEF ScanFolder
  <2>2. RequestsTyped'
    BY <1>1, <2>1, WentOn DEF RequestsTyped
  <2>3. IndexPath \/ model' \in {NoModel, model}
    BY <1>4 DEF ScanFolder
  <2>4. model' \in Model
    BY <1>1, <2>3, IndexedPath, NoModelTyped DEF IndexTyped
  <2> QED BY <1>1, <1>4, <2>2, <2>4 DEF ScanFolder, Strays, Kinds, DiskTyped, BucketTyped, IndexTyped, GhostsTyped, diskVars, bucketVars
<1>5. CASE ScanList(h)
  <2> DEFINE r == [req[h] EXCEPT !.pc = "scan_index", !.saw = bucket,
                          !.kind = IF model.target = "local" THEN "none" ELSE manifest,
                          !.local = label \in Complete]
  <2> DEFINE kind == IF model.target = "local" THEN "none" ELSE manifest
             local == label \in Complete
  <2>1. r \in Request
    <3>1. kind \in Complete \union {"none", "uploading", "downloading", "cancelled"} /\ local \in BOOLEAN
      BY <1>1 DEF BucketTyped
    <3>2. r = [req[h] EXCEPT !.pc = "scan_index", !.saw = bucket, !.kind = kind, !.local = local]
      OBVIOUS
    <3>3. req[h] \in Request /\ bucket \in Contents /\ "scan_index" \in Steps
      BY <1>1, StepNames DEF RequestsTyped, BucketTyped
    <3> HIDE DEF kind, local
    <3>4. [req[h] EXCEPT !.pc = "scan_index", !.saw = bucket, !.kind = kind, !.local = local] \in Request
      BY <3>1, <3>3 DEF Request
    <3> QED BY <3>2, <3>4
  <2>2. Continues(h, r) \/ GoesTo(h, "scan_local")
    BY <1>5 DEF ScanList
  <2>3. RequestsTyped'
    <3> HIDE DEF r
    <3> QED BY <1>1, <2>1, <2>2, StepNames, Requested, WentOn DEF RequestsTyped
  <2> QED BY <1>1, <1>5, <2>3 DEF ScanList, DiskTyped, BucketTyped, IndexTyped, GhostsTyped, diskVars, bucketVars, ghosts
<1>6. CASE ScanIndex(h)
  <2>1. PICK step \in Steps : GoesTo(h, step)
    BY <1>6, StepNames DEF ScanIndex
  <2>2. RequestsTyped'
    BY <1>1, <2>1, WentOn DEF RequestsTyped
  <2>3. IndexRemote(req[h].local) \/ model' \in {NoModel, model}
    BY <1>6 DEF ScanIndex
  <2>4. req[h].local \in BOOLEAN
    BY <1>1 DEF RequestsTyped, Request
  <2>5. model' \in Model
    BY <1>1, <2>3, <2>4, IndexedRemote, NoModelTyped DEF IndexTyped
  <2> QED BY <1>1, <1>6, <2>2, <2>5 DEF ScanIndex, Strays, Kinds, DiskTyped, BucketTyped, IndexTyped, GhostsTyped, diskVars, bucketVars
<1>7. CASE ScanCommit(h)
  <2>1. RequestsTyped'
    BY <1>1, <1>7, StepNames, WentOn DEF ScanCommit, RequestsTyped
  <2>2. history' \in Contents
    BY <1>1, <1>7 DEF ScanCommit, Record, RequestsTyped, Request
  <2> QED BY <1>1, <1>7, <2>1, <2>2 DEF ScanCommit, Strays, Kinds, DiskTyped, BucketTyped, IndexTyped, GhostsTyped, diskVars, bucketVars
<1>8. CASE ScanLocal(h)
  <2>1. RequestsTyped'
    BY <1>1, <1>8, StepNames, WentOn DEF ScanLocal, RequestsTyped
  <2>2. history' \in Contents
    BY <1>1, <1>8 DEF ScanLocal, Record, DiskTyped, IndexTyped
  <2> QED BY <1>1, <1>8, <2>1, <2>2 DEF ScanLocal, Strays, Kinds, DiskTyped, BucketTyped, IndexTyped, GhostsTyped, diskVars, bucketVars
<1>9. CASE Restore(h, downloading)
  <2>1. DOMAIN bucket \subseteq Files
    BY <1>1, ContentsOf DEF BucketTyped
  <2>2. [Idle EXCEPT !.pc = "restore", !.files = DOMAIN bucket] \in Request
    BY <2>1, IdleRequest, StepNames DEF Request
  <2>3. RequestsTyped'
    BY <1>1, <1>9, <2>2, Requested DEF Restore, RequestsTyped
  <2> QED BY <1>1, <1>9, <2>3 DEF Restore, DiskTyped, BucketTyped, IndexTyped, GhostsTyped, diskVars, bucketVars, ghosts
<1>10. CASE RestoreFiles(h)
  <2>1. RequestsTyped'
    BY <1>1, <1>10, StepNames, WentOn, Ended DEF RestoreFiles, RequestsTyped
  <2>2. PICK S : folder' = Over(Restrict(bucket, S), folder) /\ S \subseteq DOMAIN bucket
    BY <1>10 DEF RestoreFiles
  <2>3. folder' \in Contents
    BY <1>1, <2>2, RestrictContents, OverContents DEF DiskTyped, BucketTyped
  <2>4. label' \in Labels
    BY <1>1, <1>10 DEF RestoreFiles, DiskTyped, BucketTyped, Labels
  <2> QED BY <1>1, <1>10, <2>1, <2>3, <2>4 DEF RestoreFiles, Strays, Kinds, DiskTyped, BucketTyped, IndexTyped, GhostsTyped, bucketVars
<1>11. CASE RestoreIndex(h)
  <2>1. RequestsTyped'
    BY <1>1, <1>11, Ended DEF RestoreIndex, RequestsTyped
  <2>2. model' \in Model
    BY <1>1, <1>11, IndexedPath DEF RestoreIndex, IndexTyped
  <2> QED BY <1>1, <1>11, <2>1, <2>2 DEF RestoreIndex, Strays, Kinds, DiskTyped, BucketTyped, IndexTyped, GhostsTyped, diskVars, bucketVars
<1>12. CASE Evict(h, downloading)
  <2>1. [Idle EXCEPT !.pc = "evict"] \in Request
    BY IdleRequest, NextStep, StepNames
  <2>2. RequestsTyped'
    BY <1>1, <1>12, <2>1, Requested DEF Evict, RequestsTyped
  <2> QED BY <1>1, <1>12, <2>2 DEF Evict, DiskTyped, BucketTyped, IndexTyped, GhostsTyped, diskVars, bucketVars, ghosts
<1>13. CASE EvictFolder(h, fetching)
  <2>1. RequestsTyped'
    BY <1>1, <1>13, StepNames, WentOn, Ended DEF EvictFolder, RequestsTyped
  <2>2. DiskTyped'
    BY <1>1, <1>13, NothingStored DEF EvictFolder, DiskTyped, Labels, diskVars
  <2> QED BY <1>1, <1>13, <2>1, <2>2 DEF EvictFolder, Strays, Kinds, BucketTyped, IndexTyped, GhostsTyped, bucketVars
<1>14. CASE EvictIndex(h)
  <2>1. RequestsTyped'
    BY <1>1, <1>14, Ended DEF EvictIndex, RequestsTyped
  <2>2. model' \in Model
    BY <1>1, <1>14 DEF EvictIndex, IndexTyped, Model
  <2> QED BY <1>1, <1>14, <2>1, <2>2 DEF EvictIndex, Strays, Kinds, DiskTyped, BucketTyped, IndexTyped, GhostsTyped, diskVars, bucketVars
<1> QED BY <1>3, <1>4, <1>5, <1>6, <1>7, <1>8, <1>9, <1>10, <1>11, <1>12, <1>13, <1>14 DEF Cache

----------------------------------------------------------------------------
(* The parts of the type of uploads and sessions.                            *)
RecordsTyped ==
    /\ DOMAIN records \subseteq Slots /\ \A x \in DOMAIN records : records[x] \in {"begun", "complete"}
    /\ open \subseteq Slots /\ sent \subseteq open
AreaTyped == area \subseteq Sessions \X Files
SessionsTyped ==
    /\ session \in [Sessions -> {"none", "staged", "direct"}]
    /\ staging \in [Sessions -> [Files -> {"none", "part", "whole"}]]

LEMMA UploadsParts ==
    UploadsTypeOK <=> /\ target \in BOOLEAN /\ fresh \subseteq Origins
                      /\ RecordsTyped /\ AreaTyped /\ SessionsTyped
BY DEF UploadsTypeOK, RecordsTyped, AreaTyped, SessionsTyped

LEMMA DropTyped ==
    ASSUME RecordsTyped, NEW slots, Drop(slots)
    PROVE  RecordsTyped'
BY DEF RecordsTyped, Drop, Restrict

LEMMA SessionsGiven ==
    ASSUME SessionsTyped, NEW gone, session' = [s \in Sessions |-> IF s \in gone THEN "none" ELSE session[s]],
           staging' = staging
    PROVE  SessionsTyped'
BY DEF SessionsTyped

LEMMA DiscardTyped ==
    ASSUME RecordsTyped, AreaTyped, SessionsTyped, NEW gone, Discard(gone), staging' = staging
    PROVE  RecordsTyped' /\ AreaTyped' /\ SessionsTyped'
<1>1. RecordsTyped'
  BY DropTyped DEF Discard
<1>2. AreaTyped'
  BY DEF Discard, AreaTyped
<1> QED BY <1>1, <1>2, SessionsGiven DEF Discard

LEMMA UploadsStay ==
    ASSUME UploadsTypeOK, UNCHANGED <<uploadVars, sessionVars>>
    PROVE  UploadsTypeOK'
BY DEF UploadsTypeOK, uploadVars, sessionVars, Slots, Origins

LEMMA OriginsKnown == Upload \in Origins /\ Hub \in Origins /\ Sessions \subseteq Origins
BY DEF Origins

LEMMA OneFileContents ==
    ASSUME NEW f \in Files, NEW w \in Origins, NEW c \in Contents
    PROVE  Over([x \in {f} |-> w], c) \in Contents
<1>1. [x \in {f} |-> w] \in Contents
  BY ConstantContents
<1> QED BY <1>1, OverContents

LEMMA RequestFields ==
    ASSUME NEW r \in Request
    PROVE  /\ r.pc \in Steps /\ r.who \in Origins /\ r.file \in Files /\ r.files \subseteq Files /\ r.gone \subseteq Files
           /\ r.backup \in Contents /\ r.saw \in Contents /\ r.kind \in Labels /\ r.local \in BOOLEAN
           /\ r.at \in Targets /\ r.moved \subseteq Files /\ r.stale \subseteq Origins /\ r.job \in 0 .. MaxDownloads
BY DEF Request, Labels

LEMMA UploadingTyped ==
    ASSUME LibraryTypeOK, UploadsTypeOK, UNCHANGED place, NEW h \in Handlers, NEW downloading, NEW fetching,
           Uploading(h, downloading, fetching)
    PROVE  LibraryTypeOK' /\ UploadsTypeOK'
<1>1. /\ place \in Places
      /\ RequestsTyped /\ DiskTyped /\ BucketTyped /\ IndexTyped /\ GhostsTyped
      /\ target \in BOOLEAN /\ fresh \subseteq Origins /\ RecordsTyped /\ AreaTyped /\ SessionsTyped
  BY LibraryParts, UploadsParts
<1>2. SUFFICES /\ RequestsTyped' /\ DiskTyped' /\ BucketTyped' /\ IndexTyped' /\ GhostsTyped'
               /\ target' \in BOOLEAN /\ fresh' \subseteq Origins
               /\ RecordsTyped' /\ AreaTyped' /\ SessionsTyped'
  <2>1. SUFFICES ASSUME RequestsTyped', DiskTyped', BucketTyped', IndexTyped', GhostsTyped',
                        target' \in BOOLEAN, fresh' \subseteq Origins,
                        RecordsTyped', AreaTyped', SessionsTyped'
                 PROVE  LibraryTypeOK' /\ UploadsTypeOK'
    OBVIOUS
  <2>2. LibraryTypeOK'
    BY <1>1, <2>1 DEF LibraryTypeOK, RequestsTyped, DiskTyped, BucketTyped, IndexTyped, GhostsTyped, Labels, Kinds
  <2>3. UploadsTypeOK'
    BY <2>1 DEF UploadsTypeOK, RecordsTyped, AreaTyped, SessionsTyped
  <2> QED BY <2>2, <2>3
<1>3. req[h] \in Request
  BY <1>1 DEF RequestsTyped
<1>4. CASE CreateUpload(h)
  <2>1. RequestsTyped'
    BY <1>1, <1>4, IdleRequest, Requested DEF CreateUpload, Answers, RequestsTyped
  <2> QED BY <1>1, <1>4, <2>1 DEF CreateUpload, DiskTyped, Labels, BucketTyped, IndexTyped, GhostsTyped, Strays, Kinds,
               bucketVars, sessionVars, RecordsTyped, AreaTyped, SessionsTyped
<1>5. ASSUME NEW f \in Files, Chunk(h, f)
      PROVE  /\ RequestsTyped' /\ DiskTyped' /\ BucketTyped' /\ IndexTyped' /\ GhostsTyped'
             /\ target' \in BOOLEAN /\ fresh' \subseteq Origins /\ RecordsTyped' /\ AreaTyped' /\ SessionsTyped'
  <2>1. [Idle EXCEPT !.pc = "chunk", !.file = f] \in Request
    BY IdleRequest, StepNames DEF Request
  <2>2. RequestsTyped'
    BY <1>1, <1>5, <2>1, Requested DEF Chunk, RequestsTyped
  <2> QED BY <1>1, <1>5, <2>2 DEF Chunk, DiskTyped, BucketTyped, IndexTyped, GhostsTyped,
               diskVars, bucketVars, ghosts, uploadVars, sessionVars, RecordsTyped, AreaTyped, SessionsTyped
<1>6. CASE ChunkWritten(h)
  <2>1. RequestsTyped'
    BY <1>1, <1>6, Ended DEF ChunkWritten, RequestsTyped
  <2>2. req[h].file \in Files
    BY <1>3, RequestFields
  <2>3. Over([x \in {req[h].file} |-> Upload], folder) \in Contents
    BY <1>1, <2>2, OneFileContents, OriginsKnown DEF DiskTyped
  <2>4. folder' \in Contents /\ parts' \subseteq Files
    BY <1>1, <1>6, <2>2, <2>3 DEF ChunkWritten, DiskTyped
  <2>5. GhostsTyped'
    BY <1>1, <1>6 DEF ChunkWritten, Strays, GhostsTyped, Kinds
  <2> QED BY <1>1, <1>6, <2>1, <2>4, <2>5 DEF ChunkWritten, DiskTyped, BucketTyped, IndexTyped,
               bucketVars, uploadVars, sessionVars, RecordsTyped, AreaTyped, SessionsTyped
<1>7. CASE BeginRecord(h)
  <2>1. RequestsTyped'
    BY <1>1, <1>7, Ended DEF BeginRecord, RequestsTyped
  <2>2. <<req[h].who, req[h].file>> \in Slots
    BY <1>3, RequestFields DEF Slots
  <2>3. RecordsTyped'
    BY <1>1, <1>7, <2>2 DEF BeginRecord, RecordsTyped
  <2> QED BY <1>1, <1>7, <2>1, <2>3 DEF BeginRecord, Strays, Kinds, DiskTyped, BucketTyped, IndexTyped, GhostsTyped,
               diskVars, bucketVars, sessionVars, AreaTyped, SessionsTyped
<1>8. CASE CompleteRecord(h)
  <2>1. RequestsTyped'
    BY <1>1, <1>8, Ended DEF CompleteRecord, RequestsTyped
  <2>2. RecordsTyped'
    BY <1>1, <1>8 DEF CompleteRecord, RecordsTyped
  <2>3. fresh' \subseteq Origins
    BY <1>1, <1>3, <1>8, RequestFields DEF CompleteRecord
  <2>4. GhostsTyped'
    BY <1>1, <1>8 DEF CompleteRecord, Strays, GhostsTyped, Kinds
  <2> QED BY <1>1, <1>8, <2>1, <2>2, <2>3, <2>4 DEF CompleteRecord, DiskTyped, BucketTyped, IndexTyped,
               diskVars, bucketVars, AreaTyped, SessionsTyped
<1>9. ASSUME NEW w \in Sessions \union {Upload}, NEW f \in Files, BeginFile(h, w, f)
      PROVE  /\ RequestsTyped' /\ DiskTyped' /\ BucketTyped' /\ IndexTyped' /\ GhostsTyped'
             /\ target' \in BOOLEAN /\ fresh' \subseteq Origins /\ RecordsTyped' /\ AreaTyped' /\ SessionsTyped'
  <2>1. w \in Origins
    BY OriginsKnown
  <2>2. [Idle EXCEPT !.pc = "begin_record", !.who = w, !.file = f] \in Request
    BY <2>1, IdleRequest, StepNames DEF Request
  <2>3. RequestsTyped'
    BY <1>1, <1>9, <2>2, IdleRequest, Requested DEF BeginFile, Answers, RequestsTyped
  <2>4. RecordsTyped'
    BY <1>1, <1>9, <2>1 DEF BeginFile, RecordsTyped, Slots
  <2> QED BY <1>1, <1>9, <2>1, <2>3, <2>4 DEF BeginFile, DiskTyped, BucketTyped, IndexTyped, GhostsTyped,
               diskVars, bucketVars, ghosts, AreaTyped, SessionsTyped
<1>10. ASSUME NEW w \in Sessions \union {Upload}, NEW f \in Files, CompleteFile(h, w, f)
       PROVE  /\ RequestsTyped' /\ DiskTyped' /\ BucketTyped' /\ IndexTyped' /\ GhostsTyped'
              /\ target' \in BOOLEAN /\ fresh' \subseteq Origins /\ RecordsTyped' /\ AreaTyped' /\ SessionsTyped'
  <2>1. w \in Origins
    BY OriginsKnown
  <2>2. [Idle EXCEPT !.pc = "complete_record", !.who = w, !.file = f] \in Request
    BY <2>1, IdleRequest, StepNames DEF Request
  <2>3. RequestsTyped'
    BY <1>1, <1>10, <2>2, Requested DEF CompleteFile, RequestsTyped
  <2>4. RecordsTyped'
    BY <1>1, <1>10 DEF CompleteFile, RecordsTyped
  <2>5. Over([x \in {f} |-> Upload], bucket) \in Contents
    BY <1>1, OneFileContents, OriginsKnown DEF BucketTyped
  <2>6. BucketTyped'
    BY <1>1, <1>10, <2>5 DEF CompleteFile, BucketTyped
  <2>7. AreaTyped'
    BY <1>1, <1>10 DEF CompleteFile, AreaTyped
  <2> QED BY <1>1, <1>10, <2>1, <2>3, <2>4, <2>6, <2>7 DEF CompleteFile, Strays, Kinds, DiskTyped, IndexTyped, GhostsTyped,
               diskVars, SessionsTyped
<1>11. CASE SweepList(h)
  <2> DEFINE stale == DirectSessions \ fresh
  <2>1. stale \subseteq Origins
    BY OriginsKnown DEF DirectSessions
  <2>2. [req[h] EXCEPT !.pc = "sweep_discard", !.stale = stale] \in Request
    <3> HIDE DEF stale
    <3> QED BY <1>3, <2>1, StepNames DEF Request
  <2>3. RequestsTyped'
    BY <1>1, <1>11, <2>2, Requested, Ended DEF SweepList, RequestsTyped
  <2> QED BY <1>1, <1>11, <2>3 DEF SweepList, DiskTyped, BucketTyped, IndexTyped, GhostsTyped,
               diskVars, bucketVars, ghosts, uploadVars, sessionVars, RecordsTyped, AreaTyped, SessionsTyped
<1>12. CASE SweepDiscard(h)
  <2>1. RequestsTyped'
    BY <1>1, <1>12, Ended DEF SweepDiscard, RequestsTyped
  <2>2. RecordsTyped'
    BY <1>1, <1>12, DropTyped DEF SweepDiscard
  <2>3. AreaTyped' /\ SessionsTyped'
    BY <1>1, <1>12, SessionsGiven DEF SweepDiscard, AreaTyped
  <2> QED BY <1>1, <1>12, <2>1, <2>2, <2>3 DEF SweepDiscard, Strays, Kinds, DiskTyped, BucketTyped, IndexTyped, GhostsTyped,
               diskVars, bucketVars
<1>13. CASE Finalize(h)
  <2>1. PICK step \in Steps : Begins(h, [Idle EXCEPT !.pc = step])
    BY <1>13, StepNames DEF Finalize
  <2>2. [Idle EXCEPT !.pc = step] \in Request
    BY IdleRequest, NextStep
  <2>3. RequestsTyped'
    BY <1>1, <1>13, <2>1, <2>2, Requested DEF Finalize, RequestsTyped
  <2> QED BY <1>1, <1>13, <2>3 DEF Finalize, DiskTyped, BucketTyped, IndexTyped, GhostsTyped,
               diskVars, bucketVars, ghosts, uploadVars, sessionVars, RecordsTyped, AreaTyped, SessionsTyped
<1>14. CASE FinalizeChecked(h)
  <2>1. [req[h] EXCEPT !.pc = "finalize_sync", !.kind = label] \in Request
    BY <1>1, <1>3, StepNames DEF Request, DiskTyped, Labels
  <2>2. RequestsTyped'
    BY <1>1, <1>14, <2>1, Requested, Ended DEF FinalizeChecked, RequestsTyped
  <2>3. label' \in Labels
    BY <1>1, <1>14 DEF FinalizeChecked, DiskTyped, Labels, Complete
  <2> QED BY <1>1, <1>14, <2>2, <2>3 DEF FinalizeChecked, DiskTyped, BucketTyped, IndexTyped, GhostsTyped,
               bucketVars, ghosts, uploadVars, sessionVars, RecordsTyped, AreaTyped, SessionsTyped
<1>15. CASE FinalizeSync(h)
  <2>1. RequestsTyped'
    BY <1>1, <1>15, StepNames, WentOn, Ended DEF FinalizeSync, RequestsTyped
  <2>2. bucket' \in Contents
    BY <1>1, <1>15, HalfStoredContents DEF FinalizeSync, bucketVars, DiskTyped, BucketTyped
  <2>3. manifest' \in Complete \union {"none"}
    BY <1>1, <1>15 DEF FinalizeSync, bucketVars, BucketTyped
  <2>4. label' \in Labels
    BY <1>1, <1>3, <1>15, RequestFields DEF FinalizeSync, LabelBack, DiskTyped
  <2>5. GhostsTyped'
    BY <1>1, <1>15 DEF FinalizeSync, Strays, Kinds, GhostsTyped, DiskTyped
  <2> QED BY <1>1, <1>15, <2>1, <2>2, <2>3, <2>4, <2>5 DEF FinalizeSync, DiskTyped, BucketTyped, IndexTyped,
               uploadVars, sessionVars, RecordsTyped, AreaTyped, SessionsTyped
<1>16. CASE FinalizeIndex(h)
  <2>1. RequestsTyped'
    BY <1>1, <1>16, StepNames, WentOn DEF FinalizeIndex, RequestsTyped
  <2>2. model' \in Model
    BY <1>1, <1>16, IndexedPath DEF FinalizeIndex, IndexTyped
  <2> QED BY <1>1, <1>16, <2>1, <2>2 DEF FinalizeIndex, DiskTyped, BucketTyped, IndexTyped, GhostsTyped,
               diskVars, bucketVars, ghosts, uploadVars, sessionVars, RecordsTyped, AreaTyped, SessionsTyped
<1>17. CASE FinalizeReady(h)
  <2>1. RequestsTyped'
    BY <1>1, <1>17, Ended DEF FinalizeReady, RequestsTyped
  <2>2. history' \in Contents /\ row' \in {"none", "uploading", "ready"}
    BY <1>1, <1>17, Recorded DEF FinalizeReady, Ready, DiskTyped, BucketTyped
  <2> QED BY <1>1, <1>17, <2>1, <2>2 DEF FinalizeReady, DiskTyped, BucketTyped, IndexTyped, GhostsTyped,
               diskVars, bucketVars, ghosts, uploadVars, sessionVars, RecordsTyped, AreaTyped, SessionsTyped
<1>18. CASE Publish(h)
  <2>1. RequestsTyped'
    BY <1>1, <1>18, StepNames, WentOn, Ended DEF Publish, RequestsTyped
  <2>2. BucketTyped' /\ GhostsTyped'
    BY <1>1, <1>18 DEF Publish, BucketTyped, GhostsTyped, Complete, Strays, Kinds, ghosts
  <2> QED BY <1>1, <1>18, <2>1, <2>2 DEF Publish, DiskTyped, IndexTyped,
               diskVars, uploadVars, sessionVars, RecordsTyped, AreaTyped, SessionsTyped
<1>19. CASE PublishIndex(h)
  <2>1. RequestsTyped'
    BY <1>1, <1>19, StepNames, WentOn DEF PublishIndex, RequestsTyped
  <2>2. model' \in Model
    BY <1>19, IndexedRemote DEF PublishIndex
  <2> QED BY <1>1, <1>19, <2>1, <2>2 DEF PublishIndex, DiskTyped, BucketTyped, IndexTyped, GhostsTyped,
               diskVars, bucketVars, ghosts, uploadVars, sessionVars, RecordsTyped, AreaTyped, SessionsTyped
<1>20. CASE PublishReady(h)
  <2>1. RequestsTyped'
    BY <1>1, <1>20, Ended DEF PublishReady, RequestsTyped
  <2>2. history' \in Contents /\ row' \in {"none", "uploading", "ready"}
    BY <1>1, <1>20, Recorded DEF PublishReady, Ready, DiskTyped, BucketTyped
  <2>3. RecordsTyped'
    BY <1>1, <1>20 DEF PublishReady, RecordsTyped, Restrict
  <2> QED BY <1>1, <1>20, <2>1, <2>2, <2>3 DEF PublishReady, Strays, Kinds, DiskTyped, BucketTyped, IndexTyped, GhostsTyped,
               diskVars, bucketVars, sessionVars, AreaTyped, SessionsTyped
<1>21. CASE Delete(h, downloading)
  <2>1. PICK r \in {[Idle EXCEPT !.pc = "delete_upload", !.kind = "owned"], [Idle EXCEPT !.pc = "delete", !.kind = "owned"],
                    [Idle EXCEPT !.pc = "delete", !.kind = "open", !.at = model.target]} : Begins(h, r)
    BY <1>21 DEF Delete
  <2>2. r \in Request
    <3>1. model.target \in Targets /\ "delete" \in Steps /\ "delete_upload" \in Steps
      BY <1>1, StepNames DEF IndexTyped, Model
    <3>2. /\ [Idle EXCEPT !.pc = "delete_upload", !.kind = "owned"] \in Request
          /\ [Idle EXCEPT !.pc = "delete", !.kind = "owned"] \in Request
      BY <3>1, IdleRequest DEF Request, Complete
    <3> DEFINE where == model.target
    <3>3. where \in Targets
      BY <3>1
    <3> HIDE DEF where
    <3>4. [Idle EXCEPT !.pc = "delete", !.kind = "open", !.at = where] \in Request
      BY <3>1, <3>3, IdleRequest DEF Request, Complete
    <3> QED BY <2>1, <3>2, <3>4 DEF where
  <2>3. RequestsTyped'
    BY <1>1, <1>21, <2>1, <2>2, Requested DEF Delete, RequestsTyped
  <2> QED BY <1>1, <1>21, <2>3 DEF Delete, DiskTyped, BucketTyped, IndexTyped, GhostsTyped,
               diskVars, bucketVars, ghosts, uploadVars, sessionVars, RecordsTyped, AreaTyped, SessionsTyped
<1>22. CASE AbortUpload(h)
  <2>1. RequestsTyped'
    BY <1>1, <1>22, StepNames, WentOn DEF AbortUpload, RequestsTyped
  <2>2. RecordsTyped'
    BY <1>1, <1>22 DEF AbortUpload, RecordsTyped
  <2> QED BY <1>1, <1>22, <2>1, <2>2 DEF AbortUpload, Strays, Kinds, DiskTyped, BucketTyped, IndexTyped, GhostsTyped,
               diskVars, bucketVars, sessionVars, AreaTyped, SessionsTyped
<1>23. CASE Unpublish(h)
  <2>1. RequestsTyped'
    BY <1>1, <1>23, StepNames, WentOn, Ended DEF Unpublish, RequestsTyped
  <2>2. RecordsTyped'
    BY <1>1, <1>23 DEF Unpublish, RecordsTyped
  <2>3. BucketTyped' /\ AreaTyped'
    BY <1>1, <1>23, NothingStored DEF Unpublish, bucketVars, BucketTyped, AreaTyped
  <2>4. GhostsTyped'
    BY <1>1, <1>23 DEF Unpublish, Strays, Kinds, GhostsTyped
  <2> QED BY <1>1, <1>23, <2>1, <2>2, <2>3, <2>4 DEF Unpublish, DiskTyped, IndexTyped,
               diskVars, sessionVars, SessionsTyped
<1>24. CASE UnpublishRows(h)
  <2>1. RequestsTyped'
    BY <1>1, <1>24, Ended DEF UnpublishRows, RequestsTyped
  <2>2. RecordsTyped' /\ AreaTyped' /\ SessionsTyped'
    BY <1>1, <1>24, DiscardTyped DEF UnpublishRows
  <2> QED BY <1>1, <1>24, <2>1, <2>2, NothingStored, NoModelTyped
          DEF UnpublishRows, Strays, Kinds, DiskTyped, BucketTyped, IndexTyped, GhostsTyped, diskVars, bucketVars
<1>25. CASE Remove(h, fetching)
  <2>1. RequestsTyped'
    BY <1>1, <1>25, StepNames, WentOn, Ended DEF Remove, RequestsTyped
  <2>2. BucketTyped' /\ AreaTyped'
    BY <1>1, <1>25, NothingStored DEF Remove, bucketVars, BucketTyped, AreaTyped
  <2>3. GhostsTyped'
    BY <1>1, <1>25 DEF Remove, Strays, Kinds, GhostsTyped
  <2> QED BY <1>1, <1>25, <2>1, <2>2, <2>3 DEF Remove, DiskTyped, IndexTyped,
               diskVars, sessionVars, RecordsTyped, SessionsTyped
<1>26. CASE RemoveFolder(h, fetching)
  <2>1. RequestsTyped'
    BY <1>1, <1>26, StepNames, WentOn DEF RemoveFolder, RequestsTyped
  <2>2. SessionsTyped'
    BY <1>1, <1>26 DEF RemoveFolder, SessionsTyped, NoFiles
  <2> QED BY <1>1, <1>26, <2>1, <2>2, NothingStored, NoModelTyped
          DEF RemoveFolder, Strays, Kinds, DiskTyped, Labels, BucketTyped, IndexTyped, GhostsTyped, bucketVars,
              uploadVars, RecordsTyped, AreaTyped
<1>27. CASE Forget(h)
  <2>1. RequestsTyped'
    BY <1>1, <1>27, Ended DEF Forget, RequestsTyped
  <2>2. RecordsTyped' /\ AreaTyped' /\ SessionsTyped'
    BY <1>1, <1>27, DiscardTyped DEF Forget
  <2> QED BY <1>1, <1>27, <2>1, <2>2, NothingStored
          DEF Forget, Strays, Kinds, DiskTyped, BucketTyped, IndexTyped, GhostsTyped, diskVars, bucketVars
<1> QED BY <1>4, <1>5, <1>6, <1>7, <1>8, <1>9, <1>10, <1>11, <1>12, <1>13, <1>14, <1>15, <1>16, <1>17,
           <1>18, <1>19, <1>20, <1>21, <1>22, <1>23, <1>24, <1>25, <1>26, <1>27 DEF Uploading

----------------------------------------------------------------------------
LEMMA RolledBack ==
    ASSUME folder \in Contents, label \in Labels, RequestsTyped, NEW h \in Handlers, Rollback(h)
    PROVE  folder' \in Contents /\ label' \in Labels
<1>1. req[h].backup \in Contents
  BY RequestFields DEF RequestsTyped
<1>2. \A S : Without(folder, S) \in Contents
  BY WithoutContents
<1>3. Over(req[h].backup, Without(folder, req[h].moved)) \in Contents
  BY <1>1, <1>2, OverContents
<1> QED BY <1>2, <1>3 DEF Rollback

LEMMA KeptContents ==
    ASSUME folder \in Contents, RequestsTyped, NEW h \in Handlers, NEW kept
    PROVE  Keeps(h, kept) \in Contents
<1>1. req[h].backup \in Contents
  BY RequestFields DEF RequestsTyped
<1>2. Restrict(folder, kept \intersect DOMAIN folder) \in Contents
  BY RestrictContents
<1> QED BY <1>1, <1>2, OverContents DEF Keeps

LEMMA ChangedContents ==
    ASSUME RequestsTyped, NEW h \in Handlers
    PROVE  Changed(h) \in Contents
<1>1. req[h].files \subseteq Files /\ req[h].who \in Origins
  BY RequestFields DEF RequestsTyped
<1> QED BY <1>1, ConstantContents DEF Changed

LEMMA SyncedContents ==
    ASSUME folder \in Contents, bucket \in Contents, NEW changed
    PROVE  SyncedBucket(changed) \in Contents
<1>1. DOMAIN folder \subseteq Files /\ \A x \in DOMAIN folder : folder[x] \in Origins
  BY ContentsOf
<1>2. \A x \in DOMAIN bucket : bucket[x] \in Origins
  BY ContentsOf
<1> DEFINE S == DOMAIN folder \intersect (changed \union DOMAIN bucket)
<1>3. S \subseteq Files /\ \A f \in S : (IF f \in changed THEN folder[f] ELSE bucket[f]) \in Origins
  BY <1>1, <1>2
<1> HIDE DEF S
<1>4. [f \in S |-> IF f \in changed THEN folder[f] ELSE bucket[f]] \in Contents
  BY <1>3, ContentsOf
<1> QED BY <1>4 DEF SyncedBucket, S

LEMMA CommittedContents ==
    ASSUME RequestsTyped, NEW h \in Handlers, NEW c \in Contents
    PROVE  Over(Changed(h), Without(c, req[h].gone)) \in Contents
BY ChangedContents, WithoutContents, OverContents

LEMMA ChangingTyped ==
    ASSUME LibraryTypeOK, UploadsTypeOK, UNCHANGED place, NEW h \in Handlers, NEW downloading,
           Changing(h, downloading)
    PROVE  LibraryTypeOK' /\ UploadsTypeOK'
<1>1. /\ place \in Places
      /\ RequestsTyped /\ DiskTyped /\ BucketTyped /\ IndexTyped /\ GhostsTyped
      /\ target \in BOOLEAN /\ fresh \subseteq Origins /\ RecordsTyped /\ AreaTyped /\ SessionsTyped
  BY LibraryParts, UploadsParts
<1>2. SUFFICES /\ RequestsTyped' /\ DiskTyped' /\ BucketTyped' /\ IndexTyped' /\ GhostsTyped'
               /\ target' \in BOOLEAN /\ fresh' \subseteq Origins
               /\ RecordsTyped' /\ AreaTyped' /\ SessionsTyped'
  <2>1. SUFFICES ASSUME RequestsTyped', DiskTyped', BucketTyped', IndexTyped', GhostsTyped',
                        target' \in BOOLEAN, fresh' \subseteq Origins,
                        RecordsTyped', AreaTyped', SessionsTyped'
                 PROVE  LibraryTypeOK' /\ UploadsTypeOK'
    OBVIOUS
  <2>2. LibraryTypeOK'
    BY <1>1, <2>1 DEF LibraryTypeOK, RequestsTyped, DiskTyped, BucketTyped, IndexTyped, GhostsTyped, Labels, Kinds
  <2>3. UploadsTypeOK'
    BY <2>1 DEF UploadsTypeOK, RecordsTyped, AreaTyped, SessionsTyped
  <2> QED BY <2>2, <2>3
<1>3. req[h] \in Request
  BY <1>1 DEF RequestsTyped
<1>4. ASSUME NEW s \in Sessions, StartChange(h, s)
      PROVE  /\ RequestsTyped' /\ DiskTyped' /\ BucketTyped' /\ IndexTyped' /\ GhostsTyped'
             /\ target' \in BOOLEAN /\ fresh' \subseteq Origins /\ RecordsTyped' /\ AreaTyped' /\ SessionsTyped'
  <2>1. RequestsTyped'
    BY <1>1, <1>4, IdleRequest, Requested DEF StartChange, Answers, RequestsTyped
  <2> QED BY <1>1, <1>4, <2>1, OriginsKnown DEF StartChange, DiskTyped, BucketTyped, IndexTyped, GhostsTyped,
               diskVars, bucketVars, ghosts, uploadVars, RecordsTyped, AreaTyped, SessionsTyped
<1>5. ASSUME NEW s \in Sessions, AbortChange(h, s)
      PROVE  /\ RequestsTyped' /\ DiskTyped' /\ BucketTyped' /\ IndexTyped' /\ GhostsTyped'
             /\ target' \in BOOLEAN /\ fresh' \subseteq Origins /\ RecordsTyped' /\ AreaTyped' /\ SessionsTyped'
  <2>1. \A k \in Handlers : [req[k] EXCEPT !.kind = "cancelled"] \in Request
    BY <1>1 DEF Request, RequestsTyped
  <2>2. RequestsTyped'
    BY <1>1, <1>5, <2>1, LibraryAssumption DEF AbortChange, Free, RequestsTyped
  <2>3. RecordsTyped' /\ AreaTyped' /\ SessionsTyped'
    <3>1. CASE session[s] = "staged"
      BY <1>1, <1>5, <3>1 DEF AbortChange, Unstage, NoFiles, RecordsTyped, AreaTyped, SessionsTyped
    <3>2. CASE session[s] # "staged"
      BY <1>1, <1>5, <3>2, DiscardTyped DEF AbortChange
    <3> QED BY <3>1, <3>2
  <2> QED BY <1>1, <1>5, <2>2, <2>3 DEF AbortChange, Strays, Kinds, DiskTyped, BucketTyped, IndexTyped, GhostsTyped,
               diskVars, bucketVars
<1>6. ASSUME NEW s \in Sessions, Commit(h, s, downloading)
      PROVE  /\ RequestsTyped' /\ DiskTyped' /\ BucketTyped' /\ IndexTyped' /\ GhostsTyped'
             /\ target' \in BOOLEAN /\ fresh' \subseteq Origins /\ RecordsTyped' /\ AreaTyped' /\ SessionsTyped'
  <2> DEFINE files == IF session[s] = "direct" THEN Of1(s) ELSE Whole(s)
             gone == Deletes[s] \ files
             local == model.cached /\ FolderExists
  <2>1. files \subseteq Files
    BY <1>1 DEF Of1, Of, Whole, RecordsTyped, Slots
  <2>2. gone \subseteq Files
    BY ChangesAssumption
  <2>3. local \in BOOLEAN /\ model.target \in Targets
    BY <1>1 DEF IndexTyped, Model, FolderExists
  <2>4. PICK step \in Steps :
          Begins(h, [Idle EXCEPT !.pc = step, !.who = s, !.files = files, !.gone = gone,
                       !.local = local, !.at = model.target])
    BY <1>6, StepNames DEF Commit
  <2>5. [Idle EXCEPT !.pc = step, !.who = s, !.files = files, !.gone = gone,
                       !.local = local, !.at = model.target] \in Request
    <3> HIDE DEF files, gone, local
    <3> QED BY <2>1, <2>2, <2>3, IdleRequest, OriginsKnown DEF Request
  <2>6. RequestsTyped'
    <3> HIDE DEF files, gone, local
    <3> QED BY <1>1, <1>6, <2>4, <2>5, Requested DEF Commit, RequestsTyped
  <2>7. GhostsTyped'
    BY <1>1, <1>6 DEF Commit, GhostsTyped, Kinds
  <2> QED BY <1>1, <1>6, <2>6, <2>7 DEF Commit, DiskTyped, BucketTyped, IndexTyped,
               diskVars, bucketVars, uploadVars, sessionVars, RecordsTyped, AreaTyped, SessionsTyped
<1>7. ASSUME NEW s \in Sessions, NEW f \in Files, StageChunk(h, s, f)
      PROVE  /\ RequestsTyped' /\ DiskTyped' /\ BucketTyped' /\ IndexTyped' /\ GhostsTyped'
             /\ target' \in BOOLEAN /\ fresh' \subseteq Origins /\ RecordsTyped' /\ AreaTyped' /\ SessionsTyped'
  <2>1. RequestsTyped'
    BY <1>1, <1>7, IdleRequest, Requested DEF StageChunk, Answers, RequestsTyped
  <2>2. SessionsTyped'
    BY <1>1, <1>7 DEF StageChunk, SessionsTyped
  <2> QED BY <1>1, <1>7, <2>1, <2>2 DEF StageChunk, DiskTyped, BucketTyped, IndexTyped, GhostsTyped,
               diskVars, bucketVars, ghosts, uploadVars, RecordsTyped, AreaTyped
<1>8. CASE CommitLocks(h)
  <2>1. RequestsTyped'
    BY <1>1, <1>8, StepNames, WentOn DEF CommitLocks, RequestsTyped
  <2> QED BY <1>1, <1>8, <2>1 DEF CommitLocks, DiskTyped, BucketTyped, IndexTyped, GhostsTyped,
               diskVars, bucketVars, ghosts, uploadVars, sessionVars, RecordsTyped, AreaTyped, SessionsTyped
<1>9. ASSUME NEW f \in Files, Apply(h, f)
      PROVE  /\ RequestsTyped' /\ DiskTyped' /\ BucketTyped' /\ IndexTyped' /\ GhostsTyped'
             /\ target' \in BOOLEAN /\ fresh' \subseteq Origins /\ RecordsTyped' /\ AreaTyped' /\ SessionsTyped'
  <2> DEFINE kept == Keeps(h, {f})
             r == [req[h] EXCEPT !.backup = kept, !.moved = @ \union {f}]
  <2>1. kept \in Contents
    BY <1>1, KeptContents DEF DiskTyped
  <2>2. r \in Request
    <3> HIDE DEF kept
    <3> QED BY <1>3, <2>1 DEF Request
  <2>3. Continues(h, r) \/ Ends(h)
    BY <1>9 DEF Apply
  <2>4. RequestsTyped'
    <3> HIDE DEF r
    <3> QED BY <1>1, <2>2, <2>3, Requested, Ended DEF RequestsTyped
  <2>5. Over([x \in {f} |-> req[h].who], folder) \in Contents
    BY <1>1, <1>3, OneFileContents, RequestFields DEF DiskTyped
  <2>6. folder' \in Contents /\ label' \in Labels
    BY <1>1, <1>9, <2>5, RolledBack DEF Apply, DiskTyped
  <2> QED BY <1>1, <1>9, <2>4, <2>6 DEF Apply, DiskTyped, BucketTyped, IndexTyped, GhostsTyped,
               bucketVars, ghosts, uploadVars, sessionVars, RecordsTyped, AreaTyped, SessionsTyped
<1>10. CASE ApplyRemovals(h)
  <2> DEFINE kept == Keeps(h, req[h].gone)
             r == [req[h] EXCEPT !.pc = "store", !.backup = kept]
  <2>1. kept \in Contents
    BY <1>1, KeptContents DEF DiskTyped
  <2>2. r \in Request
    <3> HIDE DEF kept
    <3> QED BY <1>3, <2>1, StepNames DEF Request
  <2>3. Continues(h, r)
    BY <1>10 DEF ApplyRemovals
  <2>4. RequestsTyped'
    <3> HIDE DEF r
    <3> QED BY <1>1, <2>2, <2>3, Requested DEF RequestsTyped
  <2>5. folder' \in Contents
    BY <1>1, <1>10, WithoutContents DEF ApplyRemovals, DiskTyped
  <2> QED BY <1>1, <1>10, <2>4, <2>5 DEF ApplyRemovals, DiskTyped, BucketTyped, IndexTyped, GhostsTyped,
               bucketVars, ghosts, uploadVars, sessionVars, RecordsTyped, AreaTyped, SessionsTyped
<1>11. CASE Store(h)
  <2>1. RequestsTyped'
    BY <1>1, <1>11, StepNames, WentOn, Ended DEF Store, RequestsTyped
  <2>2. Restrict(folder, req[h].files \intersect DOMAIN folder) \in Contents
    BY <1>1, RestrictContents DEF DiskTyped
  <2>3. SyncedBucket(req[h].files \union req[h].gone) \in Contents
    BY <1>1, SyncedContents DEF DiskTyped, BucketTyped
  <2>4. bucket' \in Contents
    BY <1>1, <1>11, <2>2, <2>3, HalfStoredContents DEF Store, bucketVars, BucketTyped
  <2>5. manifest' \in Complete \union {"none"}
    BY <1>1, <1>11 DEF Store, bucketVars, BucketTyped
  <2>6. folder' \in Contents /\ label' \in Labels
    BY <1>1, <1>11, RolledBack DEF Store, DiskTyped
  <2>7. Over(Changed(h), Without(intended, req[h].gone)) \in Contents
    BY <1>1, CommittedContents DEF GhostsTyped
  <2>8. GhostsTyped'
    BY <1>1, <1>11, <2>7 DEF Store, Strays, Kinds, GhostsTyped
  <2> QED BY <1>1, <1>11, <2>1, <2>4, <2>5, <2>6, <2>8 DEF Store, DiskTyped, BucketTyped, IndexTyped,
               uploadVars, sessionVars, RecordsTyped, AreaTyped, SessionsTyped
<1>12. CASE CommitRemote(h)
  <2>1. PICK step \in Steps : GoesTo(h, step) \/ Ends(h)
    BY <1>12, StepNames DEF CommitRemote
  <2>2. RequestsTyped'
    BY <1>1, <2>1, WentOn, Ended DEF RequestsTyped
  <2>3. Available(h) \subseteq req[h].files
    BY DEF Available
  <2>4. Restrict(Changed(h), Available(h)) \in Contents
    BY <1>1, <2>3, ChangedContents, RestrictContents DEF Changed
  <2>5. /\ Over(Changed(h), Without(intended, req[h].gone)) \in Contents
        /\ Over(Changed(h), Without(bucket, req[h].gone)) \in Contents
    BY <1>1, CommittedContents DEF GhostsTyped, BucketTyped
  <2>6. bucket' \in Contents
    BY <1>1, <1>12, <2>4, <2>5, HalfStoredContents DEF CommitRemote, BucketTyped, bucketVars
  <2>7. manifest' \in Complete \union {"none"}
    BY <1>1, <1>12 DEF CommitRemote, ReplacementManifest, BucketTyped, Complete, bucketVars
  <2>8. GhostsTyped'
    BY <1>1, <1>12, <2>5 DEF CommitRemote, Strays, Kinds, GhostsTyped, ghosts
  <2> QED BY <1>1, <1>12, <2>2, <2>6, <2>7, <2>8 DEF CommitRemote, DiskTyped, BucketTyped, IndexTyped,
               diskVars, uploadVars, sessionVars, RecordsTyped, AreaTyped, SessionsTyped
<1>13. CASE FetchCopy(h)
  <2>1. RequestsTyped'
    BY <1>1, <1>13, StepNames, WentOn, Ended DEF FetchCopy, RequestsTyped
  <2>2. Without(folder, req[h].gone) \in Contents
    BY <1>1, WithoutContents DEF DiskTyped
  <2>3. req[h].files \subseteq DOMAIN bucket
          => Over(Restrict(bucket, req[h].files), Without(folder, req[h].gone)) \in Contents
    BY <1>1, <2>2, RestrictContents, OverContents DEF BucketTyped
  <2>4. folder' \in Contents /\ label' \in Labels
    BY <1>1, <1>13, <2>3 DEF FetchCopy, DiskTyped, BucketTyped, Labels
  <2>5. GhostsTyped'
    BY <1>1, <1>13 DEF FetchCopy, Strays, Kinds, GhostsTyped
  <2> QED BY <1>1, <1>13, <2>1, <2>4, <2>5 DEF FetchCopy, DiskTyped, BucketTyped, IndexTyped,
               bucketVars, uploadVars, sessionVars, RecordsTyped, AreaTyped, SessionsTyped
<1>14. CASE CommitIndex(h)
  <2>1. RequestsTyped'
    BY <1>1, <1>14, StepNames, WentOn DEF CommitIndex, RequestsTyped
  <2>2. model' \in Model
    BY <1>1, <1>14, IndexedPath, IndexedRemote DEF CommitIndex, IndexTyped
  <2>3. RecordsTyped' /\ AreaTyped' /\ SessionsTyped'
    <3>1. CASE session[req[h].who] = "direct"
      BY <1>1, <1>14, <3>1, DiscardTyped DEF CommitIndex
    <3>2. CASE session[req[h].who] # "direct"
      BY <1>1, <1>14, <3>2 DEF CommitIndex, Unstage, NoFiles, RecordsTyped, AreaTyped, SessionsTyped
    <3> QED BY <3>1, <3>2
  <2> QED BY <1>1, <1>14, <2>1, <2>2, <2>3 DEF CommitIndex, Strays, Kinds, DiskTyped, BucketTyped, IndexTyped, GhostsTyped,
               diskVars, bucketVars
<1>15. CASE CommitRecorded(h)
  <2>1. RequestsTyped'
    BY <1>1, <1>15, Ended DEF CommitRecorded, RequestsTyped
  <2>2. history' \in Contents
    BY <1>1, <1>15, Recorded DEF CommitRecorded, DiskTyped, BucketTyped
  <2> QED BY <1>1, <1>15, <2>1, <2>2 DEF CommitRecorded, DiskTyped, BucketTyped, IndexTyped, GhostsTyped,
               diskVars, bucketVars, ghosts, uploadVars, sessionVars, RecordsTyped, AreaTyped, SessionsTyped
<1> QED BY <1>4, <1>5, <1>6, <1>7, <1>8, <1>9, <1>10, <1>11, <1>12, <1>13, <1>14, <1>15 DEF Changing

----------------------------------------------------------------------------
LEMMA StoppedTyped ==
    ASSUME DownloadsTypeOK, NEW d \in DOMAIN downloads, NEW status \in {"cancelled", "failed"}, Stops(d, status)
    PROVE  DownloadsTypeOK'
BY DEF Stops, DownloadsTypeOK, Download, Downloading

LEMMA DownloadsStay ==
    ASSUME DownloadsTypeOK, UNCHANGED downloads
    PROVE  DownloadsTypeOK'
BY DEF DownloadsTypeOK

LEMMA FromTheHubTyped ==
    ASSUME LibraryTypeOK, DownloadsTypeOK, UNCHANGED place, NEW h \in Handlers, FromTheHub(h)
    PROVE  LibraryTypeOK' /\ DownloadsTypeOK'
<1>1. /\ place \in Places
      /\ RequestsTyped /\ DiskTyped /\ BucketTyped /\ IndexTyped /\ GhostsTyped
  BY LibraryParts
<1>2. SUFFICES RequestsTyped' /\ DiskTyped' /\ BucketTyped' /\ IndexTyped' /\ GhostsTyped' /\ DownloadsTypeOK'
  BY <1>1 DEF LibraryTypeOK, RequestsTyped, DiskTyped, BucketTyped, IndexTyped, GhostsTyped, Labels, Kinds
<1>3. DOMAIN downloads = 1 .. MaxDownloads
  BY DEF DownloadsTypeOK
<1>4. CASE StartDownload(h)
  <2>1. [Idle EXCEPT !.pc = "enqueue"] \in Request
    BY IdleRequest, NextStep, StepNames
  <2>2. RequestsTyped'
    BY <1>1, <1>4, <2>1, Requested DEF StartDownload, RequestsTyped
  <2> QED BY <1>1, <1>4, <2>2, DownloadsStay DEF StartDownload, DiskTyped, BucketTyped, IndexTyped, GhostsTyped,
               diskVars, bucketVars, ghosts
<1>5. CASE Enqueue(h)
  <2>1. RequestsTyped'
    BY <1>1, <1>5, Ended DEF Enqueue, RequestsTyped
  <2>2. DownloadsTypeOK'
    <3>1. PICK d \in DOMAIN downloads :
            downloads' = [downloads EXCEPT ![d] = [NoDownload EXCEPT !.status = "queued", !.pc = "submitted"]]
      BY <1>5 DEF Enqueue
    <3>2. [NoDownload EXCEPT !.status = "queued", !.pc = "submitted"] \in Download
      BY DEF NoDownload, Download, Downloading
    <3> QED BY <3>1, <3>2 DEF DownloadsTypeOK
  <2> QED BY <1>1, <1>5, <2>1, <2>2 DEF Enqueue, Strays, Kinds, DiskTyped, BucketTyped, IndexTyped, GhostsTyped,
               diskVars, bucketVars
<1>6. ASSUME NEW d \in DOMAIN downloads, Cancel(h, d)
      PROVE  RequestsTyped' /\ DiskTyped' /\ BucketTyped' /\ IndexTyped' /\ GhostsTyped' /\ DownloadsTypeOK'
  <2>1. d \in 0 .. MaxDownloads
    BY <1>3, LibraryAssumption
  <2>2. [Idle EXCEPT !.pc = "cancel", !.job = d] \in Request
    BY <2>1, IdleRequest, StepNames DEF Request
  <2>3. RequestsTyped'
    BY <1>1, <1>6, <2>2, Requested DEF Cancel, RequestsTyped
  <2> QED BY <1>1, <1>6, <2>3, DownloadsStay DEF Cancel, DiskTyped, BucketTyped, IndexTyped, GhostsTyped,
               diskVars, bucketVars, ghosts
<1>7. CASE CancelFolder(h)
  <2>1. RequestsTyped'
    BY <1>1, <1>7, StepNames, WentOn DEF CancelFolder, RequestsTyped
  <2>2. DownloadsTypeOK'
    <3> DEFINE job == req[h].job
               told == downloads[job].pc # "none"
    <3>1. downloads' = [downloads EXCEPT ![job].cancel = told] /\ told \in BOOLEAN
      BY <1>7 DEF CancelFolder
    <3> HIDE DEF job, told
    <3> QED BY <3>1 DEF DownloadsTypeOK, Download
  <2>3. label' \in Labels
    BY <1>1, <1>7 DEF CancelFolder, DiskTyped, Labels
  <2> QED BY <1>1, <1>7, <2>1, <2>2, <2>3 DEF CancelFolder, Strays, Kinds, DiskTyped, BucketTyped, IndexTyped, GhostsTyped,
               bucketVars
<1>8. CASE CancelRow(h)
  <2>1. RequestsTyped'
    BY <1>1, <1>8, Ended DEF CancelRow, RequestsTyped
  <2>2. DownloadsTypeOK'
    BY <1>8 DEF CancelRow, DownloadsTypeOK, Download
  <2> QED BY <1>1, <1>8, <2>1, <2>2 DEF CancelRow, DiskTyped, BucketTyped, IndexTyped, GhostsTyped,
               diskVars, bucketVars, ghosts
<1> QED BY <1>4, <1>5, <1>6, <1>7, <1>8 DEF FromTheHub

LEMMA WorkerTyped ==
    ASSUME LibraryTypeOK, DownloadsTypeOK, UNCHANGED place, NEW d \in DOMAIN downloads, Worker(d)
    PROVE  LibraryTypeOK' /\ DownloadsTypeOK'
<1>1. /\ place \in Places
      /\ RequestsTyped /\ DiskTyped /\ BucketTyped /\ IndexTyped /\ GhostsTyped
  BY LibraryParts
<1>2. UNCHANGED <<req, asked, row>>
  BY DEF Worker, Steady, requestVars, Prepare, FetchFile, MonitorLooks, MonitorWrites, Fetched,
         SyncDownload, IndexDownload, FinishDownload
<1>3. SUFFICES DiskTyped' /\ BucketTyped' /\ model' \in Model /\ history' \in Contents /\ GhostsTyped' /\ DownloadsTypeOK'
  BY <1>1, <1>2 DEF LibraryTypeOK, RequestsTyped, DiskTyped, BucketTyped, IndexTyped, GhostsTyped, Labels, Kinds
<1>4. CASE Prepare(d)
  <2>1. DownloadsTypeOK'
    <3>1. \/ \E status \in {"cancelled", "failed"} : Stops(d, status)
          \/ downloads' = [downloads EXCEPT ![d].pc = "fetching", ![d].status = "preparing"]
      BY <1>4 DEF Prepare
    <3>2. downloads' = [downloads EXCEPT ![d].pc = "fetching", ![d].status = "preparing"] => DownloadsTypeOK'
      BY DEF DownloadsTypeOK, Download, Downloading
    <3> QED BY <3>1, <3>2, StoppedTyped
  <2>2. label' \in Labels /\ strays' \subseteq Kinds
    BY <1>1, <1>4 DEF Prepare, DiskTyped, GhostsTyped, Labels, Kinds
  <2> QED BY <1>1, <1>4, <2>1, <2>2 DEF Prepare, DiskTyped, BucketTyped, IndexTyped, GhostsTyped, bucketVars
<1>5. ASSUME NEW f \in Files, FetchFile(d, f)
      PROVE  DiskTyped' /\ BucketTyped' /\ model' \in Model /\ history' \in Contents /\ GhostsTyped' /\ DownloadsTypeOK'
  <2>1. folder' \in Contents
    BY <1>1, <1>5, OneFileContents, OriginsKnown DEF FetchFile, DiskTyped
  <2> QED BY <1>1, <1>5, <2>1, DownloadsStay DEF FetchFile, DiskTyped, BucketTyped, IndexTyped, GhostsTyped, bucketVars, ghosts
<1>6. CASE MonitorLooks(d)
  <2>1. DownloadsTypeOK'
    BY <1>6 DEF MonitorLooks, DownloadsTypeOK, Download
  <2> QED BY <1>1, <1>6, <2>1 DEF MonitorLooks, DiskTyped, BucketTyped, IndexTyped, GhostsTyped, diskVars, bucketVars, ghosts
<1>7. CASE MonitorWrites(d)
  <2>1. DownloadsTypeOK'
    BY <1>7 DEF MonitorWrites, DownloadsTypeOK, Download, Downloading
  <2> QED BY <1>1, <1>7, <2>1 DEF MonitorWrites, Strays, Kinds, DiskTyped, BucketTyped, IndexTyped, GhostsTyped, diskVars, bucketVars
<1>8. CASE Fetched(d)
  <2>1. DownloadsTypeOK'
    <3>1. \/ \E status \in {"cancelled", "failed"} : Stops(d, status)
          \/ downloads' = [downloads EXCEPT ![d].pc = "sync"]
      BY <1>8 DEF Fetched
    <3>2. downloads' = [downloads EXCEPT ![d].pc = "sync"] => DownloadsTypeOK'
      BY DEF DownloadsTypeOK, Download
    <3> QED BY <3>1, <3>2, StoppedTyped
  <2>2. label' \in Labels /\ strays' \subseteq Kinds
    BY <1>1, <1>8 DEF Fetched, Left, DiskTyped, GhostsTyped, Labels, Complete, Kinds
  <2> QED BY <1>1, <1>8, <2>1, <2>2 DEF Fetched, DiskTyped, BucketTyped, IndexTyped, GhostsTyped, bucketVars
<1>9. CASE SyncDownload(d)
  <2>1. DownloadsTypeOK'
    <3>1. Stops(d, "failed") \/ downloads' = [downloads EXCEPT ![d].pc = "index"]
      BY <1>9 DEF SyncDownload
    <3>2. downloads' = [downloads EXCEPT ![d].pc = "index"] => DownloadsTypeOK'
      BY DEF DownloadsTypeOK, Download
    <3> QED BY <3>1, <3>2, StoppedTyped
  <2>2. BucketTyped'
    BY <1>1, <1>9, HalfStoredContents DEF SyncDownload, bucketVars, DiskTyped, BucketTyped
  <2>3. GhostsTyped'
    BY <1>1, <1>9 DEF SyncDownload, Strays, Kinds, GhostsTyped, DiskTyped
  <2> QED BY <1>1, <1>9, <2>1, <2>2, <2>3 DEF SyncDownload, DiskTyped, IndexTyped, diskVars
<1>10. CASE IndexDownload(d)
  <2>1. DownloadsTypeOK'
    BY <1>10 DEF IndexDownload, DownloadsTypeOK, Download
  <2>2. model' \in Model
    BY <1>1, <1>10, IndexedPath DEF IndexDownload, IndexTyped
  <2> QED BY <1>1, <1>10, <2>1, <2>2 DEF IndexDownload, DiskTyped, BucketTyped, IndexTyped, GhostsTyped, diskVars, bucketVars, ghosts
<1>11. CASE FinishDownload(d)
  <2>1. DownloadsTypeOK'
    BY <1>11 DEF FinishDownload, DownloadsTypeOK, Download
  <2>2. history' \in Contents
    BY <1>1, <1>11, Recorded DEF FinishDownload, DiskTyped, BucketTyped
  <2> QED BY <1>1, <1>11, <2>1, <2>2 DEF FinishDownload, DiskTyped, BucketTyped, IndexTyped, GhostsTyped, diskVars, bucketVars, ghosts
<1> QED BY <1>4, <1>5, <1>6, <1>7, <1>8, <1>9, <1>10, <1>11 DEF Worker

LEMMA RestartTyped ==
    ASSUME LibraryTypeOK, DownloadsTypeOK, UNCHANGED place, Restart
    PROVE  LibraryTypeOK' /\ DownloadsTypeOK'
<1>1. /\ place \in Places
      /\ RequestsTyped /\ DiskTyped /\ BucketTyped /\ IndexTyped /\ GhostsTyped
  BY LibraryParts
<1>2. RequestsTyped'
  BY <1>1, IdleRequest DEF Restart, RequestsTyped
<1>3. DownloadsTypeOK'
  BY DEF Restart, Resume, DownloadsTypeOK, NoDownload, Download, Downloading
<1>4. GhostsTyped'
  BY <1>1 DEF Restart, Strays, Kinds, GhostsTyped
<1>5. DiskTyped' /\ BucketTyped' /\ IndexTyped'
  BY <1>1 DEF Restart, diskVars, bucketVars, DiskTyped, BucketTyped, IndexTyped
<1> QED BY <1>1, <1>2, <1>3, <1>4, <1>5
        DEF LibraryTypeOK, RequestsTyped, DiskTyped, BucketTyped, IndexTyped, GhostsTyped, Labels, Kinds

LEMMA PartsSentTyped ==
    ASSUME LibraryTypeOK, UploadsTypeOK, UNCHANGED place, NEW x \in open, PartsSent(x)
    PROVE  LibraryTypeOK' /\ UploadsTypeOK'
<1>1. UNCHANGED <<folder, parts, label, bucket, manifest, row, model, history, req, asked, intended, strays>>
  BY DEF PartsSent, diskVars, bucketVars, requestVars, ghosts
<1>2. LibraryTypeOK'
  BY <1>1 DEF LibraryTypeOK
<1>3. UploadsTypeOK'
  BY DEF PartsSent, sessionVars, UploadsTypeOK, Slots, Origins
<1> QED BY <1>2, <1>3

LEMMA NextTyped ==
    ASSUME TypeOK, [Next]_vars
    PROVE  TypeOK'
<1>1. LibraryTypeOK /\ UploadsTypeOK /\ DownloadsTypeOK
  BY DEF TypeOK
<1>2. CASE Next
  <2>1. UNCHANGED place
    BY <1>2 DEF Next
  <2>2. ASSUME NEW h \in Handlers, Cache(h, ActiveDownload, WorkerRuns), UNCHANGED <<uploadVars, sessionVars, downloads>>
        PROVE  TypeOK'
    BY <1>1, <2>1, <2>2, CacheTyped, UploadsStay, DownloadsStay DEF TypeOK
  <2>3. ASSUME NEW h \in Handlers, Uploading(h, ActiveDownload, WorkerRuns) \/ Changing(h, ActiveDownload),
               UNCHANGED downloads
        PROVE  TypeOK'
    BY <1>1, <2>1, <2>3, UploadingTyped, ChangingTyped, DownloadsStay DEF TypeOK
  <2>4. ASSUME NEW h \in Handlers, FromTheHub(h), UNCHANGED <<uploadVars, sessionVars>>
        PROVE  TypeOK'
    BY <1>1, <2>1, <2>4, FromTheHubTyped, UploadsStay DEF TypeOK
  <2>5. ASSUME NEW x \in open, PartsSent(x), UNCHANGED downloads
        PROVE  TypeOK'
    BY <1>1, <2>1, <2>5, PartsSentTyped, DownloadsStay DEF TypeOK
  <2>6. ASSUME NEW d \in DOMAIN downloads, Worker(d), UNCHANGED <<uploadVars, sessionVars>>
        PROVE  TypeOK'
    BY <1>1, <2>1, <2>6, WorkerTyped, UploadsStay DEF TypeOK
  <2>7. ASSUME Restart, UNCHANGED <<uploadVars, sessionVars>>
        PROVE  TypeOK'
    BY <1>1, <2>1, <2>7, RestartTyped, UploadsStay DEF TypeOK
  <2> QED BY <1>2, <2>2, <2>3, <2>4, <2>5, <2>6, <2>7 DEF Next
<1>3. CASE UNCHANGED vars
  <2>1. UNCHANGED <<place, folder, parts, label, bucket, manifest, row, model, history, req, asked, intended, strays>>
    BY <1>3 DEF vars, diskVars, bucketVars, requestVars, ghosts
  <2>2. LibraryTypeOK'
    BY <1>1, <2>1 DEF LibraryTypeOK
  <2> QED BY <1>1, <1>3, <2>2, UploadsStay, DownloadsStay DEF TypeOK, vars
<1> QED BY <1>2, <1>3

----------------------------------------------------------------------------
LEMMA ModelsTyped == \A t \in Targets, cached \in BOOLEAN : [target |-> t, cached |-> cached] \in Model
BY DEF Model

LEMMA TargetTyped == Target \in Targets /\ Target \in {"local", "bucket"}
BY DEF Target, Targets

LEMMA HoldsTyped ==
    ASSUME NEW content \in Contents, NEW kind \in Complete, NEW cached \in BOOLEAN, Holds(content, kind, cached)
    PROVE  /\ DiskTyped /\ BucketTyped /\ model \in Model /\ history \in Contents /\ intended \in Contents
<1>1. folder \in Contents /\ label \in Labels /\ parts = {}
  BY NothingStored DEF Holds, Labels
<1>2. bucket \in Contents /\ manifest \in Complete \union {"none"}
  BY NothingStored DEF Holds
<1>3. model \in Model
  <2>1. (cached \/ place = "disk") \in BOOLEAN
    OBVIOUS
  <2> QED BY <2>1, ModelsTyped, TargetTyped DEF Holds
<1> QED BY <1>1, <1>2, <1>3 DEF Holds, DiskTyped, BucketTyped

LEMMA NoSessionsTyped == NoSessions => SessionsTyped /\ AreaTyped
BY DEF NoSessions, NoFiles, SessionsTyped, AreaTyped

LEMMA NoUploadsTyped == NoUploads => RecordsTyped /\ target \in BOOLEAN
<1>1. DOMAIN << >> = {}
  OBVIOUS
<1> QED BY <1>1 DEF NoUploads, RecordsTyped

LEMMA NoDownloadsTyped == NoDownloads => DownloadsTypeOK
BY DEF NoDownloads, DownloadsTypeOK, NoDownload, Download

LEMMA AbsentTyped ==
    Absent => DiskTyped /\ BucketTyped /\ model \in Model /\ history \in Contents /\ intended \in Contents
BY NothingStored, NoModelTyped DEF Absent, DiskTyped, BucketTyped, Labels

LEMMA OpenSessionsTyped ==
    ASSUME OpenSessions
    PROVE  SessionsTyped /\ AreaTyped /\ RecordsTyped /\ target \in BOOLEAN
<1>1. CASE place = "direct"
  <2>1. area \subseteq Sessions \X Files
    BY <1>1, ChangesAssumption DEF OpenSessions
  <2>2. records = [x \in area |-> "complete"]
    BY <1>1 DEF OpenSessions
  <2>3. SessionsTyped
    BY <1>1 DEF OpenSessions, SessionsTyped, NoFiles
  <2> QED BY <2>1, <2>2, <2>3, OriginsKnown DEF OpenSessions, AreaTyped, RecordsTyped, Slots
<1>2. CASE place # "direct"
  <2>1. area = {} /\ records = << >>
    BY <1>2 DEF OpenSessions
  <2>2. DOMAIN << >> = {}
    OBVIOUS
  <2>3. \A s \in Sessions : SentBy(s) \in [Files -> {"none", "part", "whole"}]
    BY DEF SentBy
  <2>4. SessionsTyped
    BY <1>2, <2>3 DEF OpenSessions, SessionsTyped
  <2> QED BY <2>1, <2>2, <2>4 DEF OpenSessions, AreaTyped, RecordsTyped
<1> QED BY <1>1, <1>2

LEMMA InitTyped == Init => TypeOK
<1> SUFFICES ASSUME Init PROVE TypeOK
  OBVIOUS
<1>1. place \in Places /\ fresh \subseteq Origins /\ strays \subseteq Kinds /\ req \in [Handlers -> Request]
  BY IdleRequest DEF Init
<1>2. asked \in 0 .. MaxRequests
  BY LibraryAssumption DEF Init
<1>3. SUFFICES /\ row \in {"none", "uploading", "ready"}
               /\ DiskTyped /\ BucketTyped /\ model \in Model /\ history \in Contents /\ intended \in Contents
               /\ target \in BOOLEAN /\ RecordsTyped /\ AreaTyped /\ SessionsTyped /\ DownloadsTypeOK
  BY <1>1, <1>2, LibraryParts, UploadsParts DEF TypeOK, RequestsTyped, IndexTyped, GhostsTyped
<1>4. CASE NewName
  BY <1>4, AbsentTyped, NoSessionsTyped, NoUploadsTyped, NoDownloadsTyped DEF NewName
<1>5. ASSUME NEW arrived \in SUBSET Files, Unfinished(arrived)
      PROVE  /\ row \in {"none", "uploading", "ready"}
             /\ DiskTyped /\ BucketTyped /\ model \in Model /\ history \in Contents /\ intended \in Contents
             /\ target \in BOOLEAN /\ RecordsTyped /\ AreaTyped /\ SessionsTyped /\ DownloadsTypeOK
  <2>1. [x \in arrived |-> Upload] \in Contents
    BY ConstantContents, OriginsKnown
  <2>2. DiskTyped /\ BucketTyped
    BY <1>5, <2>1, NothingStored DEF Unfinished, DiskTyped, BucketTyped, Labels
  <2>3. RecordsTyped /\ target \in BOOLEAN
    <3>1. CASE place = "direct"
      <4>1. /\ target = TRUE /\ open = {Upload} \X (Files \ arrived) /\ sent = open
            /\ records = [x \in {Upload} \X Files |-> IF x[2] \in arrived THEN "complete" ELSE "begun"]
        BY <1>5, <3>1 DEF Unfinished
      <4>2. {Upload} \X Files \subseteq Slots
        BY OriginsKnown DEF Slots
      <4> QED BY <4>1, <4>2 DEF RecordsTyped
    <3>2. CASE place # "direct"
      BY <1>5, <3>2, NoUploadsTyped DEF Unfinished
    <3> QED BY <3>1, <3>2
  <2> QED BY <1>5, <2>2, <2>3, NothingStored, NoModelTyped, NoSessionsTyped, NoDownloadsTyped DEF Unfinished
<1>6. CASE Uploaded
  <2>1. [f \in Files |-> Upload] \in Contents /\ "owned" \in Complete
    BY ConstantContents, OriginsKnown DEF Complete
  <2> QED BY <1>6, <2>1, HoldsTyped, OpenSessionsTyped, NoDownloadsTyped DEF Uploaded
<1>7. CASE Downloaded
  <2>1. [f \in Files |-> Hub] \in Contents /\ "open" \in Complete
    BY ConstantContents, OriginsKnown DEF Complete
  <2> QED BY <1>7, <2>1, HoldsTyped, OpenSessionsTyped, NoDownloadsTyped DEF Downloaded
<1>8. CASE Queued
  <2>1. DownloadsTypeOK
    BY <1>8 DEF Queued, DownloadsTypeOK, NoDownload, Download, Downloading
  <2> QED BY <1>8, <2>1, AbsentTyped, NoSessionsTyped, NoUploadsTyped DEF Queued
<1> QED BY <1>4, <1>5, <1>6, <1>7, <1>8 DEF Init

----------------------------------------------------------------------------
(* What a request leaves as it was: the requests at the steps named, and     *)
(* the kinds of overlap that have happened.                                  *)
AsItWas(steps) ==
    \A k \in Handlers : req[k].pc \in steps \/ req'[k].pc \in steps =>
        req'[k].pc = req[k].pc /\ req'[k].who = req[k].who /\ req'[k].file = req[k].file /\ req'[k].job = req[k].job
RecordSteps == {"begin_record", "complete_record"}
CancelSteps == {"cancel", "cancel_row"}

LEMMA GoesAsItWas ==
    ASSUME req \in [Handlers -> Request], NEW h \in Handlers, NEW step, NEW steps, req[h].pc \notin steps, step \notin steps,
           GoesTo(h, step)
    PROVE  AsItWas(steps)
BY DEF GoesTo, AsItWas, Request

LEMMA ContinuesAsItWas ==
    ASSUME req \in [Handlers -> Request], NEW h \in Handlers, NEW r, NEW steps, req[h].pc \notin steps, r.pc \notin steps,
           Continues(h, r) \/ Begins(h, r)
    PROVE  AsItWas(steps)
BY DEF Continues, Begins, AsItWas

LEMMA EndsAsItWas ==
    ASSUME req \in [Handlers -> Request], NEW h \in Handlers, NEW steps, req[h].pc \notin steps, "idle" \notin steps,
           Ends(h) \/ Answers(h)
    PROVE  AsItWas(steps)
<1>1. Idle.pc = "idle"
  BY DEF Idle
<1> QED BY <1>1, ContinuesAsItWas DEF Ends, Answers

LEMMA CacheLeaves ==
    ASSUME LibraryTypeOK, NEW h \in Handlers, NEW downloading, NEW fetching, Cache(h, downloading, fetching)
    PROVE  AsItWas(RecordSteps \union CancelSteps) /\ strays \subseteq strays'
<1> DEFINE S == RecordSteps \union CancelSteps
<1>1. req \in [Handlers -> Request]
  BY DEF LibraryTypeOK
<1>2. /\ "idle" \notin S
      /\ \A step \in {"scan", "scan_list", "scan_index", "scan_commit", "scan_local", "sweep",
                      "restore", "restore_index", "evict", "evict_index"} : step \notin S
  BY DEF RecordSteps, CancelSteps
<1>3. req[h].pc \notin S
  BY DEF Cache, Scan, ScanFolder, ScanList, ScanIndex, ScanCommit, ScanLocal, Restore, RestoreFiles, RestoreIndex,
         Evict, EvictFolder, EvictIndex, Free, At, RecordSteps, CancelSteps
<1> HIDE DEF S
<1> SUFFICES AsItWas(S) /\ strays \subseteq strays'
  BY DEF S
<1>4. CASE Scan(h)
  <2>1. [Idle EXCEPT !.pc = "scan"].pc = "scan"
    BY DEF Idle
  <2> QED BY <1>1, <1>2, <1>3, <1>4, <2>1, ContinuesAsItWas DEF Scan, ghosts
<1>5. CASE ScanFolder(h, fetching)
  <2>1. PICK step \in {"scan_local", "scan_list"} : GoesTo(h, step)
    BY <1>5 DEF ScanFolder
  <2> QED BY <1>1, <1>2, <1>3, <1>5, <2>1, GoesAsItWas DEF ScanFolder, Strays
<1>6. CASE ScanList(h)
  <2> DEFINE r == [req[h] EXCEPT !.pc = "scan_index", !.saw = bucket,
                          !.kind = IF model.target = "local" THEN "none" ELSE manifest,
                          !.local = label \in Complete]
  <2>1. r.pc = "scan_index"
    BY <1>1 DEF Request
  <2>2. Continues(h, r) \/ GoesTo(h, "scan_local")
    BY <1>6 DEF ScanList
  <2>3. AsItWas(S)
    <3> HIDE DEF r
    <3> QED BY <1>1, <1>2, <1>3, <2>1, <2>2, GoesAsItWas, ContinuesAsItWas
  <2> QED BY <1>6, <2>3 DEF ScanList, ghosts
<1>7. CASE ScanIndex(h)
  <2>1. PICK step \in {"scan_commit", "scan_local"} : GoesTo(h, step)
    BY <1>7 DEF ScanIndex
  <2> QED BY <1>1, <1>2, <1>3, <1>7, <2>1, GoesAsItWas DEF ScanIndex, Strays
<1>8. CASE ScanCommit(h)
  BY <1>1, <1>2, <1>3, <1>8, GoesAsItWas DEF ScanCommit, Strays
<1>9. CASE ScanLocal(h)
  BY <1>1, <1>2, <1>3, <1>9, GoesAsItWas DEF ScanLocal, Strays
<1>10. CASE Restore(h, downloading)
  <2>1. [Idle EXCEPT !.pc = "restore", !.files = DOMAIN bucket].pc = "restore"
    BY DEF Idle
  <2> QED BY <1>1, <1>2, <1>3, <1>10, <2>1, ContinuesAsItWas DEF Restore, ghosts
<1>11. CASE RestoreFiles(h)
  BY <1>1, <1>2, <1>3, <1>11, GoesAsItWas, EndsAsItWas DEF RestoreFiles, Strays
<1>12. CASE RestoreIndex(h)
  BY <1>1, <1>2, <1>3, <1>12, EndsAsItWas DEF RestoreIndex, Strays
<1>13. CASE Evict(h, downloading)
  <2>1. [Idle EXCEPT !.pc = "evict"].pc = "evict"
    BY DEF Idle
  <2> QED BY <1>1, <1>2, <1>3, <1>13, <2>1, ContinuesAsItWas DEF Evict, ghosts
<1>14. CASE EvictFolder(h, fetching)
  BY <1>1, <1>2, <1>3, <1>14, GoesAsItWas, EndsAsItWas DEF EvictFolder, Strays
<1>15. CASE EvictIndex(h)
  BY <1>1, <1>2, <1>3, <1>15, EndsAsItWas DEF EvictIndex, Strays
<1> QED BY <1>4, <1>5, <1>6, <1>7, <1>8, <1>9, <1>10, <1>11, <1>12, <1>13, <1>14, <1>15 DEF Cache

----------------------------------------------------------------------------
(* What is remembered of files on their way to the bucket: a row of a        *)
(* multipart upload that is open says so, and the file being recorded as     *)
(* complete has none that is open.                                           *)
OpenBegun == \A x \in open \intersect DOMAIN records : records[x] = "begun"
CompletedClosed == \A h \in Handlers : At(h, "complete_record") => <<req[h].who, req[h].file>> \notin open
Beginning(x) == \E h \in Handlers : At(h, "begin_record") /\ <<req[h].who, req[h].file>> = x
OpenRemembered == \A x \in open : x \in DOMAIN records \/ Beginning(x)
RecordsOwned == \A x \in DOMAIN records : x[1] = Upload \/ x[1] \in DirectSessions
RecordsInv ==
    /\ OpenBegun /\ CompletedClosed
    /\ OpenRemembered \/ Except({"failed", "restart", "begin"})
    /\ RecordsOwned \/ Except({"begin"})

LEMMA SweptByRecords == RecordsInv => UploadsSwept
BY DEF RecordsInv, UploadsSwept, OpenRemembered, Beginning, RecordsOwned

LEMMA ExceptStays ==
    ASSUME strays \subseteq strays', NEW kinds, Except(kinds)
    PROVE  Except(kinds)'
BY DEF Except

LEMMA RecordsShrink ==
    ASSUME RecordsInv, AsItWas(RecordSteps), strays \subseteq strays',
           open' \subseteq open, DOMAIN records' \subseteq DOMAIN records,
           \A x \in DOMAIN records' : records'[x] = records[x],
           Except({"failed", "restart", "begin"})' \/ \A x \in open' \intersect DOMAIN records : x \in DOMAIN records',
           \A x \in DOMAIN records' : x[1] \in DirectSessions => x[1] \in DirectSessions'
    PROVE  RecordsInv'
<1>1. OpenBegun'
  BY DEF RecordsInv, OpenBegun
<1>2. CompletedClosed'
  BY DEF RecordsInv, CompletedClosed, At, AsItWas, RecordSteps
<1>3. \A x : Beginning(x) => Beginning(x)'
  BY DEF Beginning, At, AsItWas, RecordSteps
<1>4. OpenRemembered' \/ Except({"failed", "restart", "begin"})'
  BY <1>3, ExceptStays DEF RecordsInv, OpenRemembered
<1>5. RecordsOwned' \/ Except({"begin"})'
  BY ExceptStays DEF RecordsInv, RecordsOwned
<1> QED BY <1>1, <1>2, <1>4, <1>5 DEF RecordsInv

LEMMA RecordsUntouched ==
    ASSUME RecordsInv, AsItWas(RecordSteps), strays \subseteq strays', UNCHANGED <<open, records, session>>
    PROVE  RecordsInv'
<1>1. DirectSessions' = DirectSessions
  BY DEF DirectSessions
<1> QED BY <1>1, RecordsShrink

LEMMA DropShrinks ==
    ASSUME RecordsInv, NEW slots, Drop(slots)
    PROVE  /\ open' \subseteq open /\ DOMAIN records' = DOMAIN records \ slots
           /\ \A x \in DOMAIN records' : records'[x] = records[x]
           /\ \A x \in open' \intersect DOMAIN records : x \in DOMAIN records'
BY DEF Drop, Restrict, RecordsInv, OpenBegun, Begun

LEMMA DiscardShrinks ==
    ASSUME RecordsInv, AsItWas(RecordSteps), strays \subseteq strays', NEW gone, Discard(gone)
    PROVE  RecordsInv'
<1>1. /\ open' \subseteq open /\ DOMAIN records' = DOMAIN records \ Dropped(gone)
      /\ \A x \in DOMAIN records' : records'[x] = records[x]
      /\ \A x \in open' \intersect DOMAIN records : x \in DOMAIN records'
  BY DropShrinks DEF Discard
<1>2. \A x \in DOMAIN records' : x[1] \in DirectSessions => x[1] \in DirectSessions'
  BY <1>1 DEF Discard, Dropped, DirectSessions
<1> QED BY <1>1, <1>2, RecordsShrink

LEMMA UploadingKeepsRecords ==
    ASSUME LibraryTypeOK, UploadsTypeOK, RecordsInv, NEW h \in Handlers, NEW downloading, NEW fetching,
           Uploading(h, downloading, fetching)
    PROVE  AsItWas(CancelSteps) /\ strays \subseteq strays' /\ RecordsInv'
<1> DEFINE S == RecordSteps \union CancelSteps
<1>1. req \in [Handlers -> Request]
  BY DEF LibraryTypeOK
<1>2. /\ \A step \in {"idle", "chunk", "sweep_discard", "publish", "finalize", "finalize_sync", "finalize_index",
                      "finalize_ready", "publish_index", "publish_ready", "delete", "delete_upload", "unpublish",
                      "unpublish_rows", "remove", "forget", "sweep"} : step \notin S
      /\ AsItWas(S) => AsItWas(CancelSteps) /\ AsItWas(RecordSteps)
  BY DEF RecordSteps, CancelSteps, AsItWas
<1>3. CASE CreateUpload(h)
  <2>1. req[h].pc \notin S
    BY <1>2, <1>3 DEF CreateUpload, Free
  <2>2. AsItWas(S)
    BY <1>1, <1>2, <1>3, <2>1, EndsAsItWas DEF CreateUpload
  <2>3. strays \subseteq strays'
    BY <1>3 DEF CreateUpload, Strays
  <2> QED BY <1>2, <1>3, <2>2, <2>3, RecordsUntouched DEF CreateUpload, sessionVars
<1>4. ASSUME NEW f \in Files, Chunk(h, f)
      PROVE  AsItWas(CancelSteps) /\ strays \subseteq strays' /\ RecordsInv'
  <2>1. req[h].pc \notin S /\ [Idle EXCEPT !.pc = "chunk", !.file = f].pc \notin S
    BY <1>2, <1>4 DEF Chunk, Free, Idle
  <2>2. AsItWas(S)
    BY <1>1, <1>4, <2>1, ContinuesAsItWas DEF Chunk
  <2> QED BY <1>2, <1>4, <2>2, RecordsUntouched DEF Chunk, ghosts, uploadVars, sessionVars
<1>5. CASE ChunkWritten(h)
  <2>1. req[h].pc \notin S
    BY <1>2, <1>5 DEF ChunkWritten, At
  <2>2. AsItWas(S)
    BY <1>1, <1>2, <1>5, <2>1, EndsAsItWas DEF ChunkWritten
  <2>3. strays \subseteq strays'
    BY <1>5 DEF ChunkWritten, Strays
  <2> QED BY <1>2, <1>5, <2>2, <2>3, RecordsUntouched DEF ChunkWritten, uploadVars, sessionVars
<1>6. CASE BeginRecord(h)
  <2> DEFINE x == <<req[h].who, req[h].file>>
  <2>1. req[h].pc = "begin_record" /\ Ends(h)
    BY <1>6 DEF BeginRecord, At
  <2>2. AsItWas(CancelSteps)
    BY <1>1, <2>1, EndsAsItWas DEF CancelSteps
  <2>3. strays \subseteq strays'
    BY <1>6 DEF BeginRecord, Strays
  <2>4. /\ records' = [y \in DOMAIN records \union {x} |-> IF y = x THEN "begun" ELSE records[y]]
        /\ open' = open /\ session' = session
    BY <1>6 DEF BeginRecord, sessionVars
  <2>5. OpenBegun'
    BY <2>4 DEF OpenBegun, RecordsInv
  <2>6. req' = [req EXCEPT ![h] = Idle] /\ Idle.pc = "idle"
    BY <2>1 DEF Ends, Continues, Idle
  <2>7. CompletedClosed'
    BY <1>1, <2>4, <2>6 DEF CompletedClosed, RecordsInv, At
  <2>8. \A y : Beginning(y) => Beginning(y)' \/ y = x
    BY <1>1, <2>6 DEF Beginning, At
  <2>9. OpenRemembered' \/ Except({"failed", "restart", "begin"})'
    BY <2>3, <2>4, <2>8, ExceptStays DEF OpenRemembered, RecordsInv
  <2>10. RecordsOwned' \/ Except({"begin"})'
    <3>1. CASE Except({"begin"})
      BY <2>3, <3>1, ExceptStays
    <3>2. CASE ~Accepts(req[h].who)
      BY <1>6, <3>2 DEF BeginRecord, Strays, Except
    <3>3. CASE RecordsOwned /\ Accepts(req[h].who)
      <4>1. x[1] = req[h].who
        OBVIOUS
      <4>2. x[1] = Upload \/ x[1] \in DirectSessions
        BY <3>3, <4>1 DEF Accepts
      <4>3. DirectSessions' = DirectSessions
        BY <2>4 DEF DirectSessions
      <4> HIDE DEF x
      <4> QED BY <2>4, <3>3, <4>2, <4>3 DEF RecordsOwned
    <3> QED BY <3>1, <3>2, <3>3 DEF RecordsInv
  <2> QED BY <2>2, <2>3, <2>5, <2>7, <2>9, <2>10 DEF RecordsInv
<1>7. CASE CompleteRecord(h)
  <2> DEFINE x == <<req[h].who, req[h].file>>
  <2>1. req[h].pc = "complete_record" /\ Ends(h)
    BY <1>7 DEF CompleteRecord, At
  <2>2. AsItWas(CancelSteps)
    BY <1>1, <2>1, EndsAsItWas DEF CancelSteps
  <2>3. strays \subseteq strays'
    BY <1>7 DEF CompleteRecord, Strays
  <2>4. /\ records' = records \/ records' = [y \in DOMAIN records |-> IF y = x THEN "complete" ELSE records[y]]
        /\ open' = open /\ session' = session
    BY <1>7 DEF CompleteRecord
  <2>5. x \notin open
    BY <2>1 DEF RecordsInv, CompletedClosed, At
  <2>6. OpenBegun' /\ DOMAIN records' = DOMAIN records
    <3> HIDE DEF x
    <3> QED BY <2>4, <2>5 DEF OpenBegun, RecordsInv
  <2>7. req' = [req EXCEPT ![h] = Idle] /\ Idle.pc = "idle"
    BY <2>1 DEF Ends, Continues, Idle
  <2>8. CompletedClosed'
    BY <1>1, <2>4, <2>7 DEF CompletedClosed, RecordsInv, At
  <2>9. \A y : Beginning(y) => Beginning(y)'
    BY <1>1, <2>1, <2>7 DEF Beginning, At
  <2>10. OpenRemembered' \/ Except({"failed", "restart", "begin"})'
    BY <2>3, <2>4, <2>6, <2>9, ExceptStays DEF OpenRemembered, RecordsInv
  <2>11. DirectSessions' = DirectSessions
    BY <2>4 DEF DirectSessions
  <2>12. RecordsOwned' \/ Except({"begin"})'
    BY <2>3, <2>6, <2>11, ExceptStays DEF RecordsOwned, RecordsInv
  <2> QED BY <2>2, <2>3, <2>6, <2>8, <2>10, <2>12 DEF RecordsInv
<1>8. ASSUME NEW w \in Sessions \union {Upload}, NEW f \in Files, BeginFile(h, w, f)
      PROVE  AsItWas(CancelSteps) /\ strays \subseteq strays' /\ RecordsInv'
  <2> DEFINE x == <<w, f>>
             r == [Idle EXCEPT !.pc = "begin_record", !.who = w, !.file = f]
  <2>1. req[h].pc = "idle" /\ FileLock(h, w, f) /\ strays' = strays /\ UNCHANGED <<records, session>>
    BY <1>8 DEF BeginFile, Free, ghosts
  <2>2. CASE x \in DOMAIN records
    <3>1. Answers(h) /\ open' = open
      BY <1>8, <2>2 DEF BeginFile
    <3>2. AsItWas(S)
      BY <1>1, <1>2, <2>1, <3>1, EndsAsItWas
    <3> QED BY <1>2, <2>1, <3>1, <3>2, RecordsUntouched
  <2>3. CASE x \notin DOMAIN records
    <3>1. Begins(h, r) /\ open' = open \union {x}
      BY <1>8, <2>3 DEF BeginFile
    <3>2. r.pc = "begin_record" /\ <<r.who, r.file>> = x
      BY DEF Idle
    <3>3. AsItWas(CancelSteps)
      BY <1>1, <2>1, <3>1, <3>2, ContinuesAsItWas DEF CancelSteps
    <3>4. req' = [req EXCEPT ![h] = r]
      BY <3>1 DEF Begins
    <3>5. \A k \in Handlers \ {h} : At(k, "complete_record") => <<req[k].who, req[k].file>> # x
      BY <2>1 DEF FileLock, At
    <3> HIDE DEF x, r
    <3>6. OpenBegun'
      BY <2>1, <2>3, <3>1 DEF OpenBegun, RecordsInv
    <3>7. CompletedClosed'
      BY <1>1, <3>1, <3>2, <3>4, <3>5 DEF CompletedClosed, RecordsInv, At
    <3>8. Beginning(x)' /\ \A y : Beginning(y) => Beginning(y)'
      BY <1>1, <2>1, <3>2, <3>4 DEF Beginning, At
    <3>9. OpenRemembered' \/ Except({"failed", "restart", "begin"})'
      BY <2>1, <3>1, <3>8, ExceptStays DEF OpenRemembered, RecordsInv
    <3>10. RecordsOwned' \/ Except({"begin"})'
      BY <2>1, ExceptStays DEF RecordsOwned, RecordsInv, DirectSessions
    <3> QED BY <2>1, <3>3, <3>6, <3>7, <3>9, <3>10 DEF RecordsInv
  <2> QED BY <2>2, <2>3
<1>9. ASSUME NEW w \in Sessions \union {Upload}, NEW f \in Files, CompleteFile(h, w, f)
      PROVE  AsItWas(CancelSteps) /\ strays \subseteq strays' /\ RecordsInv'
  <2> DEFINE x == <<w, f>>
             r == [Idle EXCEPT !.pc = "complete_record", !.who = w, !.file = f]
  <2>1. req[h].pc = "idle" /\ Begins(h, r) /\ open' = open \ {x} /\ UNCHANGED <<records, session>>
    BY <1>9 DEF CompleteFile, Free
  <2>2. strays \subseteq strays'
    BY <1>9 DEF CompleteFile, Strays
  <2>3. r.pc = "complete_record" /\ <<r.who, r.file>> = x
    BY DEF Idle
  <2>4. AsItWas(CancelSteps)
    BY <1>1, <2>1, <2>3, ContinuesAsItWas DEF CancelSteps
  <2>5. req' = [req EXCEPT ![h] = r]
    BY <2>1 DEF Begins
  <2> HIDE DEF x, r
  <2>6. OpenBegun'
    BY <2>1 DEF OpenBegun, RecordsInv
  <2>7. CompletedClosed'
    BY <1>1, <2>1, <2>3, <2>5 DEF CompletedClosed, RecordsInv, At
  <2>8. \A y : Beginning(y) => Beginning(y)'
    BY <1>1, <2>1, <2>5 DEF Beginning, At
  <2>9. OpenRemembered' \/ Except({"failed", "restart", "begin"})'
    BY <2>1, <2>2, <2>8, ExceptStays DEF OpenRemembered, RecordsInv
  <2>10. RecordsOwned' \/ Except({"begin"})'
    BY <2>1, <2>2, ExceptStays DEF RecordsOwned, RecordsInv, DirectSessions
  <2> QED BY <2>2, <2>4, <2>6, <2>7, <2>9, <2>10 DEF RecordsInv
<1>10. CASE SweepList(h)
  <2> DEFINE r == [req[h] EXCEPT !.pc = "sweep_discard", !.stale = DirectSessions \ fresh]
  <2>1. req[h].pc \notin S /\ r.pc \notin S
    BY <1>1, <1>2, <1>10 DEF SweepList, At, Request
  <2>2. Ends(h) \/ Continues(h, r)
    BY <1>10 DEF SweepList
  <2>3. AsItWas(S)
    <3> HIDE DEF r
    <3> QED BY <1>1, <1>2, <2>1, <2>2, EndsAsItWas, ContinuesAsItWas
  <2> QED BY <1>2, <1>10, <2>3, RecordsUntouched DEF SweepList, ghosts, uploadVars, sessionVars
<1>11. CASE SweepDiscard(h)
  <2>1. req[h].pc \notin S
    BY <1>2, <1>11 DEF SweepDiscard, At
  <2>2. AsItWas(S)
    BY <1>1, <1>2, <1>11, <2>1, EndsAsItWas DEF SweepDiscard
  <2>3. strays \subseteq strays'
    BY <1>11 DEF SweepDiscard, Strays
  <2> DEFINE slots == Dropped(req[h].stale) \union (IF Upload \in fresh THEN {} ELSE Of(Begun, Upload))
  <2>4. Drop(slots) /\ session' = [s \in Sessions |-> IF s \in req[h].stale THEN "none" ELSE session[s]]
    BY <1>11 DEF SweepDiscard
  <2>5. Dropped(req[h].stale) \subseteq slots
    OBVIOUS
  <2> HIDE DEF slots
  <2>6. /\ open' \subseteq open /\ DOMAIN records' = DOMAIN records \ slots
        /\ \A x \in DOMAIN records' : records'[x] = records[x]
        /\ \A x \in open' \intersect DOMAIN records : x \in DOMAIN records'
    BY <2>4, DropShrinks
  <2>7. \A x \in DOMAIN records' : x[1] \in DirectSessions => x[1] \in DirectSessions'
    BY <2>4, <2>5, <2>6 DEF Dropped, DirectSessions
  <2> QED BY <1>2, <2>2, <2>3, <2>6, <2>7, RecordsShrink
<1>12. CASE Finalize(h)
  <2>1. PICK step \in {"publish", "finalize"} : Begins(h, [Idle EXCEPT !.pc = step])
    BY <1>12 DEF Finalize
  <2>2. req[h].pc \notin S /\ [Idle EXCEPT !.pc = step].pc \notin S
    BY <1>2, <1>12 DEF Finalize, Free, Idle
  <2>3. AsItWas(S)
    BY <1>1, <2>1, <2>2, ContinuesAsItWas
  <2> QED BY <1>2, <1>12, <2>3, RecordsUntouched DEF Finalize, ghosts, uploadVars, sessionVars
<1>13. CASE FinalizeChecked(h)
  <2>1. req[h].pc \notin S /\ [req[h] EXCEPT !.pc = "finalize_sync", !.kind = label].pc \notin S
    BY <1>1, <1>2, <1>13 DEF FinalizeChecked, At, Request
  <2>2. AsItWas(S)
    BY <1>1, <1>2, <1>13, <2>1, EndsAsItWas, ContinuesAsItWas DEF FinalizeChecked
  <2> QED BY <1>2, <1>13, <2>2, RecordsUntouched DEF FinalizeChecked, ghosts, uploadVars, sessionVars
<1>14. CASE FinalizeSync(h)
  <2>1. req[h].pc \notin S
    BY <1>2, <1>14 DEF FinalizeSync, At
  <2>2. AsItWas(S)
    BY <1>1, <1>2, <1>14, <2>1, EndsAsItWas, GoesAsItWas DEF FinalizeSync
  <2>3. strays \subseteq strays'
    BY <1>14 DEF FinalizeSync, Strays
  <2> QED BY <1>2, <1>14, <2>2, <2>3, RecordsUntouched DEF FinalizeSync, uploadVars, sessionVars
<1>15. CASE FinalizeIndex(h) \/ FinalizeReady(h) \/ Publish(h) \/ PublishIndex(h)
  <2>1. req[h].pc \notin S
    BY <1>2, <1>15 DEF FinalizeIndex, FinalizeReady, Publish, PublishIndex, At
  <2>2. AsItWas(S)
    BY <1>1, <1>2, <1>15, <2>1, EndsAsItWas, GoesAsItWas DEF FinalizeIndex, FinalizeReady, Publish, PublishIndex
  <2>3. strays \subseteq strays'
    BY <1>15 DEF FinalizeIndex, FinalizeReady, Publish, PublishIndex, ghosts, Strays
  <2> QED BY <1>2, <1>15, <2>2, <2>3, RecordsUntouched
          DEF FinalizeIndex, FinalizeReady, Publish, PublishIndex, uploadVars, sessionVars
<1>16. CASE PublishReady(h)
  <2>1. req[h].pc \notin S
    BY <1>2, <1>16 DEF PublishReady, At
  <2>2. AsItWas(S)
    BY <1>1, <1>2, <1>16, <2>1, EndsAsItWas DEF PublishReady
  <2>3. strays \subseteq strays'
    BY <1>16 DEF PublishReady, Strays
  <2>4. /\ open' = open /\ session' = session /\ DOMAIN records' = DOMAIN records \ Dropped({Upload})
        /\ \A x \in DOMAIN records' : records'[x] = records[x]
    BY <1>16 DEF PublishReady, Restrict, sessionVars
  <2>5. Except({"failed", "restart", "begin"})' \/ \A x \in open' \intersect DOMAIN records : x \in DOMAIN records'
    <3>1. CASE Of(Begun, Upload) # {}
      BY <1>16, <3>1 DEF PublishReady, Strays, Except
    <3>2. CASE Of(Begun, Upload) = {}
      BY <2>4, <3>2 DEF Of, Begun, Dropped, RecordsInv, OpenBegun
    <3> QED BY <3>1, <3>2
  <2>6. DirectSessions' = DirectSessions
    BY <2>4 DEF DirectSessions
  <2> QED BY <1>2, <2>2, <2>3, <2>4, <2>5, <2>6, RecordsShrink
<1>17. CASE Delete(h, downloading)
  <2>1. PICK r \in {[Idle EXCEPT !.pc = "delete_upload", !.kind = "owned"], [Idle EXCEPT !.pc = "delete", !.kind = "owned"],
                    [Idle EXCEPT !.pc = "delete", !.kind = "open", !.at = model.target]} : Begins(h, r)
    BY <1>17 DEF Delete
  <2>2. req[h].pc \notin S /\ r.pc \notin S
    BY <1>2, <1>17 DEF Delete, Free, Idle
  <2>3. AsItWas(S)
    BY <1>1, <2>1, <2>2, ContinuesAsItWas
  <2> QED BY <1>2, <1>17, <2>3, RecordsUntouched DEF Delete, ghosts, uploadVars, sessionVars
<1>18. CASE AbortUpload(h)
  <2>1. req[h].pc \notin S
    BY <1>2, <1>18 DEF AbortUpload, At
  <2>2. AsItWas(S)
    BY <1>1, <1>2, <1>18, <2>1, GoesAsItWas DEF AbortUpload
  <2>3. strays \subseteq strays' /\ open' \subseteq open /\ UNCHANGED <<records, session>>
    BY <1>18 DEF AbortUpload, Strays, sessionVars
  <2>4. DirectSessions' = DirectSessions
    BY <2>3 DEF DirectSessions
  <2> QED BY <1>2, <2>2, <2>3, <2>4, RecordsShrink
<1>19. CASE Unpublish(h)
  <2>1. req[h].pc \notin S
    BY <1>2, <1>19 DEF Unpublish, At
  <2>2. AsItWas(S)
    BY <1>1, <1>2, <1>19, <2>1, EndsAsItWas, GoesAsItWas DEF Unpublish
  <2>3. strays \subseteq strays' /\ open' = open /\ session' = session /\ records' = << >>
    BY <1>19 DEF Unpublish, Strays, sessionVars
  <2>4. DOMAIN records' = {}
    BY <2>3
  <2>5. Except({"failed", "restart", "begin"})' \/ open \intersect Begun = {}
    BY <1>19 DEF Unpublish, Strays, Except
  <2>6. Except({"failed", "restart", "begin"})' \/ \A x \in open' \intersect DOMAIN records : x \in DOMAIN records'
    BY <2>3, <2>5 DEF RecordsInv, OpenBegun, Begun
  <2> QED BY <1>2, <2>2, <2>3, <2>4, <2>6, RecordsShrink
<1>20. CASE UnpublishRows(h) \/ Forget(h)
  <2>1. req[h].pc \notin S
    BY <1>2, <1>20 DEF UnpublishRows, Forget, At
  <2>2. AsItWas(S)
    BY <1>1, <1>2, <1>20, <2>1, EndsAsItWas DEF UnpublishRows, Forget
  <2>3. strays \subseteq strays'
    BY <1>20 DEF UnpublishRows, Forget, Strays
  <2> QED BY <1>2, <1>20, <2>2, <2>3, DiscardShrinks DEF UnpublishRows, Forget
<1>21. CASE Remove(h, fetching)
  <2>1. req[h].pc \notin S
    BY <1>2, <1>21 DEF Remove, At
  <2>2. AsItWas(S)
    BY <1>1, <1>2, <1>21, <2>1, EndsAsItWas, GoesAsItWas DEF Remove
  <2>3. strays \subseteq strays'
    BY <1>21 DEF Remove, Strays
  <2> QED BY <1>2, <1>21, <2>2, <2>3, RecordsUntouched DEF Remove, sessionVars
<1>22. CASE RemoveFolder(h, fetching)
  <2>1. req[h].pc \notin S
    BY <1>2, <1>22 DEF RemoveFolder, At
  <2>2. AsItWas(S)
    BY <1>1, <1>2, <1>22, <2>1, GoesAsItWas DEF RemoveFolder
  <2>3. strays \subseteq strays' /\ UNCHANGED <<open, records>>
    BY <1>22 DEF RemoveFolder, Strays, uploadVars
  <2>4. \A s \in DirectSessions : s \in DirectSessions'
    BY <1>22 DEF RemoveFolder, DirectSessions
  <2> QED BY <1>2, <2>2, <2>3, <2>4, RecordsShrink
<1> QED BY <1>3, <1>4, <1>5, <1>6, <1>7, <1>8, <1>9, <1>10, <1>11, <1>12, <1>13, <1>14, <1>15, <1>16, <1>17,
           <1>18, <1>19, <1>20, <1>21, <1>22 DEF Uploading

LEMMA UnstagedSessions ==
    ASSUME RecordsInv, AsItWas(RecordSteps), strays \subseteq strays', NEW s, session[s] # "direct",
           session' = [session EXCEPT ![s] = "none"], UNCHANGED <<open, records>>
    PROVE  RecordsInv'
<1>1. \A x \in DirectSessions : x \in DirectSessions'
  BY DEF DirectSessions
<1> QED BY <1>1, RecordsShrink

LEMMA ChangingKeepsRecords ==
    ASSUME LibraryTypeOK, UploadsTypeOK, RecordsInv, NEW h \in Handlers, NEW downloading, Changing(h, downloading)
    PROVE  AsItWas(CancelSteps) /\ strays \subseteq strays' /\ RecordsInv'
<1> DEFINE S == RecordSteps \union CancelSteps
<1>1. req \in [Handlers -> Request] /\ session \in [Sessions -> {"none", "staged", "direct"}]
  BY DEF LibraryTypeOK, UploadsTypeOK
<1>2. /\ \A step \in {"idle", "commit", "commit_upload", "apply", "store", "fetch", "commit_index", "history"} :
            step \notin S
      /\ AsItWas(S) => AsItWas(CancelSteps) /\ AsItWas(RecordSteps)
  BY DEF RecordSteps, CancelSteps, AsItWas
<1>3. ASSUME NEW s \in Sessions, StartChange(h, s)
      PROVE  AsItWas(CancelSteps) /\ strays \subseteq strays' /\ RecordsInv'
  <2>1. req[h].pc \notin S
    BY <1>2, <1>3 DEF StartChange, Free
  <2>2. AsItWas(S)
    BY <1>1, <1>2, <1>3, <2>1, EndsAsItWas DEF StartChange
  <2>3. strays' = strays /\ UNCHANGED <<open, records>>
    BY <1>3 DEF StartChange, ghosts, uploadVars
  <2>4. \A x \in DirectSessions : x \in DirectSessions'
    BY <1>1, <1>3 DEF StartChange, DirectSessions
  <2> QED BY <1>2, <2>2, <2>3, <2>4, RecordsShrink
<1>4. ASSUME NEW s \in Sessions, AbortChange(h, s)
      PROVE  AsItWas(CancelSteps) /\ strays \subseteq strays' /\ RecordsInv'
  <2>1. AsItWas(S)
    BY <1>1, <1>4 DEF AbortChange, AsItWas, Request
  <2>2. strays \subseteq strays'
    BY <1>4 DEF AbortChange, Strays
  <2>3. CASE session[s] = "staged"
    BY <1>2, <1>4, <2>1, <2>2, <2>3, UnstagedSessions DEF AbortChange, Unstage
  <2>4. CASE session[s] # "staged"
    BY <1>2, <1>4, <2>1, <2>2, <2>4, DiscardShrinks DEF AbortChange
  <2> QED BY <2>3, <2>4
<1>5. ASSUME NEW s \in Sessions, Commit(h, s, downloading)
      PROVE  AsItWas(CancelSteps) /\ strays \subseteq strays' /\ RecordsInv'
  <2> DEFINE files == IF session[s] = "direct" THEN Of1(s) ELSE Whole(s)
             gone == Deletes[s] \ files
             local == model.cached /\ FolderExists
  <2>1. PICK step \in {"commit", "commit_upload"} :
          Begins(h, [Idle EXCEPT !.pc = step, !.who = s, !.files = files, !.gone = gone,
                       !.local = local, !.at = model.target])
    BY <1>5 DEF Commit
  <2> HIDE DEF files, gone, local
  <2> DEFINE r == [Idle EXCEPT !.pc = step, !.who = s, !.files = files, !.gone = gone,
                     !.local = local, !.at = model.target]
  <2>2. req[h].pc \notin S /\ r.pc \notin S
    BY <1>2, <1>5 DEF Commit, Free, Idle
  <2>3. AsItWas(S)
    <3>1. Begins(h, r)
      BY <2>1
    <3> HIDE DEF r
    <3> QED BY <1>1, <2>2, <3>1, ContinuesAsItWas
  <2>4. strays \subseteq strays'
    BY <1>5 DEF Commit
  <2> QED BY <1>2, <1>5, <2>3, <2>4, RecordsUntouched DEF Commit, uploadVars, sessionVars
<1>6. ASSUME NEW s \in Sessions, NEW f \in Files, StageChunk(h, s, f)
      PROVE  AsItWas(CancelSteps) /\ strays \subseteq strays' /\ RecordsInv'
  <2>1. req[h].pc \notin S
    BY <1>2, <1>6 DEF StageChunk, Free
  <2>2. AsItWas(S)
    BY <1>1, <1>2, <1>6, <2>1, EndsAsItWas DEF StageChunk
  <2> QED BY <1>2, <1>6, <2>2, RecordsUntouched DEF StageChunk, ghosts, uploadVars
<1>7. CASE CommitLocks(h)
  <2>1. req[h].pc \notin S
    BY <1>2, <1>7 DEF CommitLocks, At
  <2>2. AsItWas(S)
    BY <1>1, <1>2, <1>7, <2>1, GoesAsItWas DEF CommitLocks
  <2> QED BY <1>2, <1>7, <2>2, RecordsUntouched DEF CommitLocks, ghosts, uploadVars, sessionVars
<1>8. ASSUME NEW f \in Files, Apply(h, f)
      PROVE  AsItWas(CancelSteps) /\ strays \subseteq strays' /\ RecordsInv'
  <2> DEFINE kept == Keeps(h, {f})
             r == [req[h] EXCEPT !.backup = kept, !.moved = @ \union {f}]
  <2>1. req[h].pc \notin S /\ r.pc \notin S
    <3> HIDE DEF kept
    <3> QED BY <1>1, <1>2, <1>8 DEF Apply, At, Request
  <2>2. Continues(h, r) \/ Ends(h)
    BY <1>8 DEF Apply
  <2>3. AsItWas(S)
    <3> HIDE DEF r
    <3> QED BY <1>1, <1>2, <2>1, <2>2, EndsAsItWas, ContinuesAsItWas
  <2> QED BY <1>2, <1>8, <2>3, RecordsUntouched DEF Apply, ghosts, uploadVars, sessionVars
<1>9. CASE ApplyRemovals(h)
  <2> DEFINE kept == Keeps(h, req[h].gone)
             r == [req[h] EXCEPT !.pc = "store", !.backup = kept]
  <2>1. req[h].pc \notin S /\ r.pc \notin S
    <3> HIDE DEF kept
    <3> QED BY <1>1, <1>2, <1>9 DEF ApplyRemovals, At, Request
  <2>2. Continues(h, r)
    BY <1>9 DEF ApplyRemovals
  <2>3. AsItWas(S)
    <3> HIDE DEF r
    <3> QED BY <1>1, <1>2, <2>1, <2>2, ContinuesAsItWas
  <2> QED BY <1>2, <1>9, <2>3, RecordsUntouched DEF ApplyRemovals, ghosts, uploadVars, sessionVars
<1>10. CASE Store(h) \/ FetchCopy(h)
  <2>1. req[h].pc \notin S
    BY <1>2, <1>10 DEF Store, FetchCopy, At
  <2>2. AsItWas(S)
    BY <1>1, <1>2, <1>10, <2>1, EndsAsItWas, GoesAsItWas DEF Store, FetchCopy
  <2>3. strays \subseteq strays'
    BY <1>10 DEF Store, FetchCopy, Strays
  <2> QED BY <1>2, <1>10, <2>2, <2>3, RecordsUntouched DEF Store, FetchCopy, uploadVars, sessionVars
<1>11. CASE CommitRemote(h)
  <2>1. req[h].pc \notin S
    BY <1>2, <1>11 DEF CommitRemote, At
  <2>2. PICK step \in {"fetch", "commit_index"} : GoesTo(h, step) \/ Ends(h)
    BY <1>11 DEF CommitRemote
  <2>3. AsItWas(S)
    BY <1>1, <1>2, <2>1, <2>2, EndsAsItWas, GoesAsItWas
  <2>4. strays \subseteq strays'
    BY <1>11 DEF CommitRemote, Strays, ghosts
  <2> QED BY <1>2, <1>11, <2>3, <2>4, RecordsUntouched DEF CommitRemote, uploadVars, sessionVars
<1>12. CASE CommitIndex(h)
  <2>1. req[h].pc \notin S
    BY <1>2, <1>12 DEF CommitIndex, At
  <2>2. AsItWas(S)
    BY <1>1, <1>2, <1>12, <2>1, GoesAsItWas DEF CommitIndex
  <2>3. strays \subseteq strays'
    BY <1>12 DEF CommitIndex, Strays
  <2>4. CASE session[req[h].who] = "direct"
    BY <1>2, <1>12, <2>2, <2>3, <2>4, DiscardShrinks DEF CommitIndex
  <2>5. CASE session[req[h].who] # "direct"
    BY <1>2, <1>12, <2>2, <2>3, <2>5, UnstagedSessions DEF CommitIndex, Unstage
  <2> QED BY <2>4, <2>5
<1>13. CASE CommitRecorded(h)
  <2>1. req[h].pc \notin S
    BY <1>2, <1>13 DEF CommitRecorded, At
  <2>2. AsItWas(S)
    BY <1>1, <1>2, <1>13, <2>1, EndsAsItWas DEF CommitRecorded
  <2> QED BY <1>2, <1>13, <2>2, RecordsUntouched DEF CommitRecorded, ghosts, uploadVars, sessionVars
<1> QED BY <1>3, <1>4, <1>5, <1>6, <1>7, <1>8, <1>9, <1>10, <1>11, <1>12, <1>13 DEF Changing

----------------------------------------------------------------------------
(* Downloads: one is active, a worker is at it or was told that it is        *)
(* cancelled, and a monitor ends with its worker's fetching.                 *)
OneActive ==
    \A d, e \in DOMAIN downloads :
        downloads[d].status \in Downloading /\ downloads[e].status \in Downloading => d = e
WorkersCounted ==
    \A d \in DOMAIN downloads : downloads[d].pc # "none"
        => downloads[d].status \in Downloading \/ (downloads[d].status = "cancelled" /\ downloads[d].cancel)
CancelsTold ==
    \A h \in Handlers : At(h, "cancel_row") => downloads[req[h].job].pc = "none" \/ downloads[req[h].job].cancel
CancelsKnown ==
    \A h \in Handlers : req[h].pc \in CancelSteps
        => req[h].job \in DOMAIN downloads /\ downloads[req[h].job].status # "none"
MonitorsEnd ==
    \A d \in DOMAIN downloads : downloads[d].monitor => downloads[d].pc = "fetching" \/ "monitor" \in strays
DownloadsInv ==
    /\ CancelsKnown /\ MonitorsEnd /\ WorkersCounted /\ CancelsTold
    /\ OneActive \/ Except({"queue", "monitor"})

CancelledStays ==
    \A d \in DOMAIN downloads :
        downloads[d].status = "cancelled" /\ downloads[d].pc = "none"
            => downloads'[d].status = "cancelled" \/ strays \intersect {"monitor"} # {}

LEMMA OneWorkerByDownloads == DownloadsInv => OneWorker
<1> SUFFICES ASSUME OneActive, WorkersCounted PROVE OneWorker
  BY DEF DownloadsInv, OneWorker
<1> DEFINE W == {d \in DOMAIN downloads : downloads[d].pc # "none" /\ ~downloads[d].cancel}
<1>1. \A d, e \in W : d = e
  BY DEF OneActive, WorkersCounted
<1> HIDE DEF W
<1>2. CASE W = {}
  BY <1>2, FS_EmptySet DEF OneWorker, W
<1>3. ASSUME NEW d \in W PROVE OneWorker
  <2>1. W = {d}
    BY <1>1
  <2>2. Cardinality(W) = 1
    BY <2>1, FS_Singleton
  <2> QED BY <2>2 DEF OneWorker, W
<1> QED BY <1>2, <1>3

LEMMA DownloadsUntouched ==
    ASSUME DownloadsInv, AsItWas(CancelSteps), strays \subseteq strays', UNCHANGED downloads
    PROVE  DownloadsInv' /\ CancelledStays
<1>1. CancelsKnown' /\ MonitorsEnd'
  BY DEF DownloadsInv, CancelsKnown, MonitorsEnd, AsItWas
<1>2. OneActive => OneActive'
  BY DEF OneActive
<1>3. WorkersCounted => WorkersCounted'
  BY DEF WorkersCounted
<1>4. CancelsTold => CancelsTold'
  BY DEF CancelsTold, AsItWas, CancelSteps, At
<1>5. CancelledStays
  BY DEF CancelledStays
<1> QED BY <1>1, <1>2, <1>3, <1>4, <1>5, ExceptStays DEF DownloadsInv

LEMMA FromTheHubKeeps ==
    ASSUME LibraryTypeOK, DownloadsTypeOK, DownloadsInv, NEW h \in Handlers, FromTheHub(h)
    PROVE  AsItWas(RecordSteps) /\ strays \subseteq strays' /\ DownloadsInv' /\ CancelledStays
<1>1. req \in [Handlers -> Request] /\ downloads \in [1 .. MaxDownloads -> Download]
  BY DEF LibraryTypeOK, DownloadsTypeOK
<1>2. \A step \in {"idle", "enqueue", "cancel", "cancel_row"} : step \notin RecordSteps
  BY DEF RecordSteps
<1>3. CASE StartDownload(h)
  <2> DEFINE S == RecordSteps \union CancelSteps
  <2>1. req[h].pc \notin S /\ [Idle EXCEPT !.pc = "enqueue"].pc \notin S
    BY <1>3 DEF StartDownload, Free, Idle, RecordSteps, CancelSteps
  <2>2. AsItWas(S)
    BY <1>1, <1>3, <2>1, ContinuesAsItWas DEF StartDownload
  <2>3. AsItWas(RecordSteps) /\ AsItWas(CancelSteps)
    BY <2>2 DEF AsItWas
  <2> QED BY <1>3, <2>3, DownloadsUntouched DEF StartDownload, ghosts
<1>4. CASE Enqueue(h)
  <2>1. req[h].pc \notin RecordSteps /\ req[h].pc \notin CancelSteps
    BY <1>4 DEF Enqueue, At, RecordSteps, CancelSteps
  <2>2. AsItWas(RecordSteps) /\ AsItWas(CancelSteps)
    BY <1>1, <1>2, <1>4, <2>1, EndsAsItWas DEF Enqueue, CancelSteps
  <2>3. strays \subseteq strays'
    BY <1>4 DEF Enqueue, Strays
  <2> DEFINE started == [NoDownload EXCEPT !.status = "queued", !.pc = "submitted"]
  <2>4. PICK d \in DOMAIN downloads : downloads[d] = NoDownload /\ downloads' = [downloads EXCEPT ![d] = started]
    BY <1>4 DEF Enqueue
  <2>5. started.status = "queued" /\ started.pc = "submitted" /\ started.cancel = FALSE /\ started.monitor = FALSE
    BY DEF NoDownload
  <2>6. downloads[d].status = "none" /\ downloads[d].pc = "none"
    BY <2>4 DEF NoDownload
  <2> HIDE DEF started
  <2>7. CancelsKnown' /\ MonitorsEnd'
    BY <1>1, <2>2, <2>3, <2>4, <2>5, <2>6 DEF DownloadsInv, CancelsKnown, MonitorsEnd, AsItWas
  <2>8. ActiveDownload => Except({"queue", "monitor"})'
    BY <1>4 DEF Enqueue, Strays, Except
  <2>9. ~ActiveDownload => OneActive'
    BY <1>1, <2>4 DEF OneActive, ActiveDownload
  <2>10. WorkersCounted'
    BY <1>1, <2>4, <2>5 DEF DownloadsInv, WorkersCounted, Downloading
  <2>11. CancelsTold'
    BY <1>1, <2>2, <2>4, <2>6 DEF DownloadsInv, CancelsTold, CancelsKnown, AsItWas, CancelSteps, At
  <2>12. CancelledStays
    BY <1>1, <2>4, <2>6 DEF CancelledStays
  <2> QED BY <2>2, <2>3, <2>7, <2>8, <2>9, <2>10, <2>11, <2>12 DEF DownloadsInv
<1>5. ASSUME NEW d \in DOMAIN downloads, Cancel(h, d)
      PROVE  AsItWas(RecordSteps) /\ strays \subseteq strays' /\ DownloadsInv' /\ CancelledStays
  <2> DEFINE r == [Idle EXCEPT !.pc = "cancel", !.job = d]
  <2>1. r.pc = "cancel" /\ r.job = d
    BY DEF Idle
  <2>2. req[h].pc = "idle" /\ Begins(h, r) /\ downloads' = downloads /\ strays' = strays
    BY <1>5 DEF Cancel, Free, ghosts
  <2>3. req' = [req EXCEPT ![h] = r]
    BY <2>2 DEF Begins
  <2> HIDE DEF r
  <2>4. AsItWas(RecordSteps)
    BY <1>1, <1>2, <2>1, <2>2, ContinuesAsItWas
  <2>5. downloads[d].status # "none"
    BY <1>5 DEF Cancel, Downloading
  <2>6. CancelsKnown' /\ MonitorsEnd'
    BY <1>1, <2>1, <2>2, <2>3, <2>5 DEF DownloadsInv, CancelsKnown, MonitorsEnd
  <2>7. CancelsTold => CancelsTold'
    BY <1>1, <2>1, <2>2, <2>3 DEF CancelsTold, At
  <2>8. (OneActive => OneActive') /\ (WorkersCounted => WorkersCounted') /\ CancelledStays
    BY <2>2 DEF OneActive, WorkersCounted, CancelledStays
  <2> QED BY <2>2, <2>4, <2>6, <2>7, <2>8, ExceptStays DEF DownloadsInv
<1>6. CASE CancelFolder(h)
  <2> DEFINE job == req[h].job
             told == downloads[job].pc # "none"
  <2>1. req[h].pc = "cancel" /\ GoesTo(h, "cancel_row") /\ downloads' = [downloads EXCEPT ![job].cancel = told]
    BY <1>6 DEF CancelFolder, At
  <2>2. strays \subseteq strays'
    BY <1>6 DEF CancelFolder, Strays
  <2>3. AsItWas(RecordSteps)
    BY <1>1, <1>2, <2>1, GoesAsItWas
  <2>4. /\ job \in DOMAIN downloads /\ downloads[job].status # "none"
        /\ told <=> downloads[job].pc # "none"
    BY <2>1 DEF DownloadsInv, CancelsKnown, CancelSteps
  <2>5. req' = [req EXCEPT ![h].pc = "cancel_row"] /\ DOMAIN downloads' = DOMAIN downloads
    BY <2>1 DEF GoesTo
  <2>6. \A k \in Handlers : req'[k].pc \in CancelSteps => req[k].pc \in CancelSteps /\ req'[k].job = req[k].job
    BY <1>1, <2>1, <2>5 DEF CancelSteps, Request
  <2>7. \A k \in Handlers : req'[k].pc = "cancel_row" => req[k].pc = "cancel_row" \/ req'[k].job = job
    BY <1>1, <2>1, <2>5 DEF Request
  <2> HIDE DEF job, told
  <2>8. \A d \in DOMAIN downloads :
          /\ downloads'[d].status = downloads[d].status /\ downloads'[d].pc = downloads[d].pc
          /\ downloads'[d].monitor = downloads[d].monitor
          /\ downloads'[d].cancel = IF d = job THEN told ELSE downloads[d].cancel
    BY <1>1, <2>1 DEF Download
  <2>9. CancelsKnown'
    BY <2>5, <2>6, <2>8 DEF DownloadsInv, CancelsKnown
  <2>10. MonitorsEnd'
    BY <2>2, <2>5, <2>8 DEF DownloadsInv, MonitorsEnd
  <2>11. CancelledStays
    BY <2>8 DEF CancelledStays
  <2>12. OneActive => OneActive'
    BY <2>5, <2>8 DEF OneActive
  <2>13. WorkersCounted => WorkersCounted'
    BY <2>4, <2>5, <2>8 DEF WorkersCounted
  <2>14. CancelsTold => CancelsTold'
    <3> SUFFICES ASSUME CancelsTold, NEW k \in Handlers, req'[k].pc = "cancel_row"
                 PROVE  downloads'[req'[k].job].pc = "none" \/ downloads'[req'[k].job].cancel
      BY DEF CancelsTold, At
    <3>1. CASE req'[k].job = job
      BY <2>4, <2>8, <3>1
    <3>2. CASE req'[k].job # job
      <4>1. req[k].pc = "cancel_row" /\ req'[k].job = req[k].job /\ req[k].job \in DOMAIN downloads
        BY <2>6, <2>7, <3>2 DEF CancelSteps, DownloadsInv, CancelsKnown
      <4> QED BY <2>8, <3>2, <4>1 DEF CancelsTold, At
    <3> QED BY <3>1, <3>2
  <2> QED BY <2>2, <2>3, <2>9, <2>10, <2>11, <2>12, <2>13, <2>14, ExceptStays DEF DownloadsInv
<1>7. CASE CancelRow(h)
  <2> DEFINE job == req[h].job
  <2>1. req[h].pc = "cancel_row" /\ Ends(h) /\ downloads' = [downloads EXCEPT ![job].status = "cancelled"]
        /\ strays' = strays
    BY <1>7 DEF CancelRow, At, ghosts
  <2>2. AsItWas(RecordSteps)
    BY <1>1, <1>2, <2>1, EndsAsItWas
  <2>3. job \in DOMAIN downloads /\ (CancelsTold => downloads[job].pc = "none" \/ downloads[job].cancel)
    BY <2>1 DEF DownloadsInv, CancelsKnown, CancelSteps, CancelsTold, At
  <2>4. Idle.pc = "idle" /\ req' = [req EXCEPT ![h] = Idle] /\ DOMAIN downloads' = DOMAIN downloads
    BY <2>1 DEF Ends, Continues, Idle
  <2>5. \A k \in Handlers : req'[k].pc \in CancelSteps => req'[k] = req[k]
    BY <1>1, <2>4 DEF CancelSteps
  <2> HIDE DEF job
  <2>6. \A d \in DOMAIN downloads :
          /\ downloads'[d].status = IF d = job THEN "cancelled" ELSE downloads[d].status
          /\ downloads'[d].pc = downloads[d].pc
          /\ downloads'[d].monitor = downloads[d].monitor /\ downloads'[d].cancel = downloads[d].cancel
    BY <1>1, <2>1 DEF Download
  <2>7. CancelsKnown'
    BY <2>4, <2>5, <2>6 DEF DownloadsInv, CancelsKnown
  <2>8. MonitorsEnd'
    BY <2>1, <2>4, <2>6 DEF DownloadsInv, MonitorsEnd
  <2>9. CancelledStays
    BY <2>6 DEF CancelledStays
  <2>10. OneActive => OneActive'
    BY <2>4, <2>6 DEF OneActive, Downloading
  <2>11. WorkersCounted /\ CancelsTold => WorkersCounted'
    BY <2>3, <2>4, <2>6 DEF WorkersCounted
  <2>12. CancelsTold => CancelsTold'
    BY <2>5, <2>6 DEF CancelsTold, At, CancelSteps, DownloadsInv, CancelsKnown
  <2> QED BY <2>1, <2>2, <2>7, <2>8, <2>9, <2>10, <2>11, <2>12, ExceptStays DEF DownloadsInv
<1> QED BY <1>3, <1>4, <1>5, <1>6, <1>7 DEF FromTheHub

(* A worker that stops, goes on, or fetches.                                 *)
LEMMA RequestsAsTheyWere ==
    ASSUME UNCHANGED req, NEW steps
    PROVE  AsItWas(steps)
BY DEF AsItWas

LEMMA WorkerMoves ==
    ASSUME DownloadsTypeOK, DownloadsInv, NEW d \in DOMAIN downloads, NEW new \in Download,
           downloads' = [downloads EXCEPT ![d] = new], UNCHANGED req, strays \subseteq strays',
           downloads[d].pc = "none" => new.pc = "none" /\ "monitor" \in strays,
           new.status = "none" => downloads[d].status = "none",
           new.monitor => new.pc = "fetching" \/ "monitor" \in strays',
           new.pc # "none" => new.status \in Downloading \/ (new.status = "cancelled" /\ new.cancel),
           new.pc # "none" => (downloads[d].cancel => new.cancel),
           Except({"queue", "monitor"})' \/ (new.status \in Downloading => downloads[d].status \in Downloading)
    PROVE  DownloadsInv' /\ CancelledStays
<1>1. DOMAIN downloads' = DOMAIN downloads /\ downloads'[d] = new /\ downloads[d] \in Download
  BY DEF DownloadsTypeOK
<1>2. \A e \in DOMAIN downloads : e # d => downloads'[e] = downloads[e]
  BY DEF DownloadsTypeOK
<1>3. CancelsKnown'
  BY <1>1, <1>2 DEF DownloadsInv, CancelsKnown
<1>4. MonitorsEnd'
  BY <1>1, <1>2 DEF DownloadsInv, MonitorsEnd
<1>5. CancelledStays
  BY <1>1, <1>2 DEF CancelledStays
<1>6. OneActive /\ ~Except({"queue", "monitor"})' => OneActive'
  BY <1>1, <1>2 DEF OneActive
<1>7. WorkersCounted'
  BY <1>1, <1>2 DEF DownloadsInv, WorkersCounted
<1>8. CancelsTold'
  BY <1>1, <1>2 DEF DownloadsInv, CancelsTold, CancelsKnown, CancelSteps, At
<1> QED BY <1>3, <1>4, <1>5, <1>6, <1>7, <1>8, ExceptStays DEF DownloadsInv

LEMMA WorkerKeeps ==
    ASSUME LibraryTypeOK, DownloadsTypeOK, DownloadsInv, NEW d \in DOMAIN downloads, Worker(d)
    PROVE  AsItWas(RecordSteps) /\ strays \subseteq strays' /\ DownloadsInv' /\ CancelledStays
<1>1. req' = req
  BY DEF Worker, Steady, requestVars, Prepare, FetchFile, MonitorLooks, MonitorWrites, Fetched,
         SyncDownload, IndexDownload, FinishDownload
<1>2. strays \subseteq strays'
  BY DEF Worker, Strays, ghosts, Prepare, FetchFile, MonitorLooks, MonitorWrites, Fetched,
         SyncDownload, IndexDownload, FinishDownload
<1>3. downloads \in [1 .. MaxDownloads -> Download] /\ downloads[d] \in Download
  BY DEF DownloadsTypeOK
<1>4. AsItWas(RecordSteps) /\ AsItWas(CancelSteps)
  BY <1>1, RequestsAsTheyWere
<1> SUFFICES DownloadsInv' /\ CancelledStays
  BY <1>2, <1>4
<1>5. ASSUME NEW status \in {"cancelled", "failed"}, Stops(d, status), downloads[d].pc # "none",
             downloads[d].monitor => "monitor" \in strays'
      PROVE  DownloadsInv' /\ CancelledStays
  <2> DEFINE new == [downloads[d] EXCEPT !.pc = "none", !.cancel = FALSE,
                        !.status = IF @ = "cancelled" THEN @ ELSE status]
  <2>1. downloads' = [downloads EXCEPT ![d] = new]
    BY <1>3, <1>5 DEF Stops
  <2>2. /\ new \in Download /\ new.pc = "none" /\ new.status \in {"cancelled", "failed"}
        /\ new.monitor = downloads[d].monitor
    BY <1>3, <1>5 DEF Download
  <2> HIDE DEF new
  <2> QED BY <1>1, <1>2, <1>5, <2>1, <2>2, WorkerMoves DEF Downloading
<1>6. downloads[d].monitor /\ downloads[d].pc # "fetching" => "monitor" \in strays
  BY DEF DownloadsInv, MonitorsEnd
<1>7. ASSUME NEW step \in {"sync", "index", "finish"}, downloads' = [downloads EXCEPT ![d].pc = step],
             downloads[d].pc # "none", downloads[d].monitor => "monitor" \in strays'
      PROVE  DownloadsInv' /\ CancelledStays
  <2> DEFINE new == [downloads[d] EXCEPT !.pc = step]
  <2>1. downloads' = [downloads EXCEPT ![d] = new]
    BY <1>3, <1>7
  <2>2. /\ new \in Download /\ new.pc = step /\ new.status = downloads[d].status
        /\ new.monitor = downloads[d].monitor /\ new.cancel = downloads[d].cancel
    BY <1>3, <1>7 DEF Download
  <2>3. downloads[d].status \in Downloading \/ (downloads[d].status = "cancelled" /\ downloads[d].cancel)
    BY <1>7 DEF DownloadsInv, WorkersCounted
  <2>4. /\ new.monitor => new.pc = "fetching" \/ "monitor" \in strays'
        /\ new.status = "none" => downloads[d].status = "none"
        /\ new.status \in Downloading => downloads[d].status \in Downloading
        /\ new.pc # "none" => new.status \in Downloading \/ (new.status = "cancelled" /\ new.cancel)
        /\ new.pc # "none" => (downloads[d].cancel => new.cancel)
        /\ downloads[d].pc # "none" /\ new \in Download
    BY <1>7, <2>2, <2>3
  <2> HIDE DEF new
  <2> QED BY <1>1, <1>2, <2>1, <2>4, WorkerMoves
<1>8. CASE Prepare(d)
  <2>1. downloads[d].pc = "submitted"
    BY <1>8 DEF Prepare, Working
  <2>2. CASE \E status \in {"cancelled", "failed"} : Stops(d, status)
    BY <1>2, <1>5, <1>6, <2>1, <2>2
  <2>3. CASE ~downloads[d].cancel /\ downloads' = [downloads EXCEPT ![d].pc = "fetching", ![d].status = "preparing"]
    <3> DEFINE new == [downloads[d] EXCEPT !.pc = "fetching", !.status = "preparing"]
    <3>1. downloads' = [downloads EXCEPT ![d] = new]
      BY <1>3, <2>3
    <3>2. new \in Download /\ new.pc = "fetching" /\ new.status = "preparing" /\ new.cancel = downloads[d].cancel
      BY <1>3 DEF Download, Downloading
    <3>3. downloads[d].status \in Downloading
      BY <2>1, <2>3 DEF DownloadsInv, WorkersCounted
    <3> HIDE DEF new
    <3> QED BY <1>1, <1>2, <2>1, <3>1, <3>2, <3>3, WorkerMoves DEF Downloading
  <2> QED BY <1>8, <2>2, <2>3 DEF Prepare
<1>9. CASE (\E f \in Files : FetchFile(d, f))
  BY <1>2, <1>4, <1>9, DownloadsUntouched DEF FetchFile
<1>10. CASE MonitorLooks(d)
  <2> DEFINE new == [downloads[d] EXCEPT !.monitor = TRUE]
  <2>1. downloads[d].pc = "fetching" /\ downloads' = [downloads EXCEPT ![d] = new]
    BY <1>3, <1>10 DEF MonitorLooks, Working
  <2>2. /\ new \in Download /\ new.pc = "fetching" /\ new.status = downloads[d].status
        /\ new.cancel = downloads[d].cancel
    BY <1>3, <2>1 DEF Download
  <2>3. downloads[d].status \in Downloading \/ (downloads[d].status = "cancelled" /\ downloads[d].cancel)
    BY <2>1 DEF DownloadsInv, WorkersCounted
  <2> HIDE DEF new
  <2> QED BY <1>1, <1>2, <2>1, <2>2, <2>3, WorkerMoves
<1>11. CASE MonitorWrites(d)
  <2> DEFINE new == [downloads[d] EXCEPT !.monitor = FALSE, !.status = "downloading"]
  <2>1. downloads[d].monitor /\ downloads' = [downloads EXCEPT ![d] = new]
    BY <1>3, <1>11 DEF MonitorWrites
  <2>2. /\ new \in Download /\ new.pc = downloads[d].pc /\ new.status = "downloading"
        /\ new.cancel = downloads[d].cancel /\ new.monitor = FALSE
    BY <1>3 DEF Download, Downloading
  <2>3. downloads[d].pc # "none" \/ "monitor" \in strays
    BY <1>6, <2>1
  <2>4. downloads[d].status = "cancelled" => Except({"queue", "monitor"})'
    BY <1>11 DEF MonitorWrites, Strays, Except
  <2>5. "monitor" \in strays => Except({"queue", "monitor"})'
    BY <1>2 DEF Except
  <2>6. Except({"queue", "monitor"})' \/ downloads[d].status \in Downloading
    BY <2>3, <2>4, <2>5 DEF DownloadsInv, WorkersCounted
  <2> HIDE DEF new
  <2> QED BY <1>1, <1>2, <2>1, <2>2, <2>3, <2>6, WorkerMoves DEF Downloading
<1>12. CASE Fetched(d)
  <2>1. downloads[d].pc = "fetching"
    BY <1>12 DEF Fetched, Working
  <2>2. downloads[d].monitor => "monitor" \in strays'
    BY <1>12 DEF Fetched, Left
  <2>3. (\E status \in {"cancelled", "failed"} : Stops(d, status)) \/ downloads' = [downloads EXCEPT ![d].pc = "sync"]
    BY <1>12 DEF Fetched
  <2> QED BY <1>5, <1>7, <2>1, <2>2, <2>3
<1>13. CASE SyncDownload(d)
  <2>1. downloads[d].pc = "sync"
    BY <1>13 DEF SyncDownload, Working
  <2>2. Stops(d, "failed") \/ downloads' = [downloads EXCEPT ![d].pc = "index"]
    BY <1>13 DEF SyncDownload
  <2> QED BY <1>2, <1>5, <1>6, <1>7, <2>1, <2>2
<1>14. CASE IndexDownload(d)
  BY <1>2, <1>6, <1>7, <1>14 DEF IndexDownload, Working
<1>15. CASE FinishDownload(d)
  <2> DEFINE new == [downloads[d] EXCEPT !.pc = "none", !.cancel = FALSE, !.status = "complete"]
  <2>1. downloads[d].pc = "finish" /\ downloads' = [downloads EXCEPT ![d] = new]
    BY <1>3, <1>15 DEF FinishDownload, Working
  <2>2. /\ new \in Download /\ new.pc = "none" /\ new.status = "complete"
        /\ new.monitor = downloads[d].monitor
    BY <1>3 DEF Download
  <2> HIDE DEF new
  <2> QED BY <1>1, <1>2, <1>6, <2>1, <2>2, WorkerMoves DEF Downloading
<1> QED BY <1>8, <1>9, <1>10, <1>11, <1>12, <1>13, <1>14, <1>15 DEF Worker

LEMMA RestartKeeps ==
    ASSUME LibraryTypeOK, DownloadsTypeOK, DownloadsInv, RecordsInv, Restart, UNCHANGED <<uploadVars, sessionVars>>
    PROVE  RecordsInv' /\ DownloadsInv' /\ CancelledStays
<1>1. strays \subseteq strays' /\ req' = [h \in Handlers |-> Idle] /\ UNCHANGED <<open, records, session>>
  BY DEF Restart, Strays, uploadVars, sessionVars
<1>2. \A h \in Handlers : req'[h].pc = "idle"
  BY <1>1 DEF Idle
<1>3. \/ \A h \in Handlers : At(h, "idle")
      \/ Except({"failed", "restart", "begin"})'
  BY DEF Restart, Strays, Except
<1>4. OpenBegun' /\ CompletedClosed'
  BY <1>1, <1>2 DEF RecordsInv, OpenBegun, CompletedClosed, At
<1>5. OpenRemembered' \/ Except({"failed", "restart", "begin"})'
  BY <1>1, <1>3, ExceptStays DEF RecordsInv, OpenRemembered, Beginning, At
<1>6. RecordsOwned' \/ Except({"begin"})'
  BY <1>1, ExceptStays DEF RecordsInv, RecordsOwned, DirectSessions
<1>7. RecordsInv'
  BY <1>4, <1>5, <1>6 DEF RecordsInv
<1> DEFINE started == [NoDownload EXCEPT !.status = "queued", !.pc = "submitted"]
           left(d) == [NoDownload EXCEPT !.status = downloads[d].status]
<1>8. downloads' = [d \in DOMAIN downloads |-> IF downloads[d].status \in Downloading THEN started ELSE left(d)]
  BY DEF Restart, Resume
<1>9. started.status = "queued" /\ started.pc = "submitted" /\ ~started.monitor
  BY DEF NoDownload
<1>10. \A d : left(d).status = downloads[d].status /\ left(d).pc = "none" /\ ~left(d).monitor
  BY DEF NoDownload
<1> HIDE DEF started, left
<1>11. CancelsKnown' /\ MonitorsEnd' /\ CancelsTold'
  BY <1>2, <1>8, <1>9, <1>10 DEF CancelsKnown, CancelSteps, MonitorsEnd, CancelsTold, At
<1>12. WorkersCounted' /\ CancelledStays
  BY <1>8, <1>9, <1>10 DEF WorkersCounted, CancelledStays, Downloading
<1>13. OneActive => OneActive'
  BY <1>8, <1>9, <1>10 DEF OneActive, Downloading
<1>14. DownloadsInv'
  BY <1>1, <1>11, <1>12, <1>13, ExceptStays DEF DownloadsInv
<1> QED BY <1>7, <1>12, <1>14

----------------------------------------------------------------------------
LifeInv == TypeOK /\ RecordsInv /\ DownloadsInv

LEMMA LifeStart == Init => LifeInv
<1> SUFFICES ASSUME Init PROVE RecordsInv /\ DownloadsInv
  BY InitTyped DEF LifeInv
<1>1. \A h \in Handlers : req[h].pc = "idle"
  BY DEF Init, Idle
<1>2. TypeOK
  BY InitTyped
<1>3. OpenBegun /\ OpenRemembered /\ RecordsOwned
  <2>1. CASE NoUploads
    BY <2>1 DEF NoUploads, OpenBegun, OpenRemembered, RecordsOwned
  <2>2. CASE OpenSessions
    <3>1. open = {}
      BY <2>2 DEF OpenSessions
    <3>2. \A x \in DOMAIN records : x[1] \in DirectSessions
      <4>1. CASE place = "direct"
        <5>1. DOMAIN records = UNION {{s} \X Writes[s] : s \in Sessions} /\ DirectSessions = Sessions
          BY <2>2, <4>1 DEF OpenSessions, DirectSessions
        <5> QED BY <5>1
      <4>2. CASE place # "direct"
        BY <2>2, <4>2 DEF OpenSessions
      <4> QED BY <4>1, <4>2
    <3> QED BY <3>1, <3>2 DEF OpenBegun, OpenRemembered, RecordsOwned
  <2>3. ASSUME NEW arrived \in SUBSET Files, Unfinished(arrived), ~NoUploads
        PROVE  OpenBegun /\ OpenRemembered /\ RecordsOwned
    <3>1. /\ open = {Upload} \X (Files \ arrived)
          /\ records = [x \in {Upload} \X Files |-> IF x[2] \in arrived THEN "complete" ELSE "begun"]
      BY <2>3 DEF Unfinished
    <3>2. open \subseteq {Upload} \X Files /\ \A x \in open : x[2] \notin arrived
      BY <3>1
    <3>3. \A x \in {Upload} \X Files : x[1] = Upload
      OBVIOUS
    <3> QED BY <3>1, <3>2, <3>3 DEF OpenBegun, OpenRemembered, RecordsOwned
  <2> QED BY <2>1, <2>2, <2>3 DEF Init, NewName, Uploaded, Downloaded, Queued
<1>4. RecordsInv
  BY <1>1, <1>3 DEF RecordsInv, CompletedClosed, At
<1>5. \A d \in DOMAIN downloads :
        \/ downloads[d] = NoDownload
        \/ d = 1 /\ downloads[d] = [NoDownload EXCEPT !.status = "queued", !.pc = "submitted"]
  BY DEF Init, NewName, Unfinished, Uploaded, Downloaded, Queued, NoDownloads
<1>6. \A d \in DOMAIN downloads :
        /\ ~downloads[d].monitor
        /\ \/ downloads[d].status = "none" /\ downloads[d].pc = "none"
           \/ d = 1 /\ downloads[d].status = "queued"
  <2>1. NoDownload.status = "none" /\ NoDownload.pc = "none" /\ NoDownload.monitor = FALSE
    BY DEF NoDownload
  <2> DEFINE first == [NoDownload EXCEPT !.status = "queued", !.pc = "submitted"]
  <2>2. first.status = "queued" /\ first.monitor = FALSE
    BY DEF NoDownload
  <2>3. \A d \in DOMAIN downloads : downloads[d] = NoDownload \/ (d = 1 /\ downloads[d] = first)
    BY <1>5
  <2> HIDE DEF first
  <2> QED BY <2>1, <2>2, <2>3
<1>7. CancelsKnown /\ CancelsTold
  BY <1>1 DEF CancelsKnown, CancelSteps, CancelsTold, At
<1>8. MonitorsEnd /\ OneActive /\ WorkersCounted
  BY <1>6 DEF MonitorsEnd, OneActive, WorkersCounted, Downloading
<1> QED BY <1>4, <1>7, <1>8 DEF DownloadsInv

LEMMA LifeStep ==
    ASSUME LifeInv, [Next]_vars
    PROVE  LifeInv' /\ CancelledStays
<1>1. TypeOK' /\ LibraryTypeOK /\ UploadsTypeOK /\ DownloadsTypeOK /\ RecordsInv /\ DownloadsInv
  BY NextTyped DEF LifeInv, TypeOK
<1> SUFFICES RecordsInv' /\ DownloadsInv' /\ CancelledStays
  BY <1>1 DEF LifeInv
<1>2. ASSUME NEW h \in Handlers, Cache(h, ActiveDownload, WorkerRuns), UNCHANGED <<uploadVars, sessionVars, downloads>>
      PROVE  RecordsInv' /\ DownloadsInv' /\ CancelledStays
  <2>1. AsItWas(RecordSteps \union CancelSteps) /\ strays \subseteq strays'
    BY <1>1, <1>2, CacheLeaves
  <2>2. AsItWas(RecordSteps) /\ AsItWas(CancelSteps)
    BY <2>1 DEF AsItWas
  <2> QED BY <1>1, <1>2, <2>1, <2>2, RecordsUntouched, DownloadsUntouched DEF uploadVars, sessionVars
<1>3. ASSUME NEW h \in Handlers, Uploading(h, ActiveDownload, WorkerRuns) \/ Changing(h, ActiveDownload),
             UNCHANGED downloads
      PROVE  RecordsInv' /\ DownloadsInv' /\ CancelledStays
  BY <1>1, <1>3, UploadingKeepsRecords, ChangingKeepsRecords, DownloadsUntouched
<1>4. ASSUME NEW h \in Handlers, FromTheHub(h), UNCHANGED <<uploadVars, sessionVars>>
      PROVE  RecordsInv' /\ DownloadsInv' /\ CancelledStays
  BY <1>1, <1>4, FromTheHubKeeps, RecordsUntouched DEF uploadVars, sessionVars
<1>5. ASSUME NEW x \in open, PartsSent(x), UNCHANGED downloads
      PROVE  RecordsInv' /\ DownloadsInv' /\ CancelledStays
  <2>1. UNCHANGED <<req, strays, open, records, session>>
    BY <1>5 DEF PartsSent, requestVars, ghosts, sessionVars
  <2> QED BY <1>1, <1>5, <2>1, RequestsAsTheyWere, RecordsUntouched, DownloadsUntouched
<1>6. ASSUME NEW d \in DOMAIN downloads, Worker(d), UNCHANGED <<uploadVars, sessionVars>>
      PROVE  RecordsInv' /\ DownloadsInv' /\ CancelledStays
  BY <1>1, <1>6, WorkerKeeps, RecordsUntouched DEF uploadVars, sessionVars
<1>7. ASSUME Restart, UNCHANGED <<uploadVars, sessionVars>>
      PROVE  RecordsInv' /\ DownloadsInv' /\ CancelledStays
  BY <1>1, <1>7, RestartKeeps
<1>8. ASSUME UNCHANGED vars
      PROVE  RecordsInv' /\ DownloadsInv' /\ CancelledStays
  <2>1. UNCHANGED <<req, strays, open, records, session, downloads>>
    BY <1>8 DEF vars, requestVars, ghosts, uploadVars, sessionVars
  <2> QED BY <1>1, <2>1, RequestsAsTheyWere, RecordsUntouched, DownloadsUntouched
<1> QED BY <1>2, <1>3, <1>4, <1>5, <1>6, <1>7, <1>8 DEF Next

(* What the theorems rest on: types, what is remembered of files on their    *)
(* way to the bucket, and downloads with their workers.                      *)
THEOREM LifeInvariant == Spec => []LifeInv
<1>1. Init => LifeInv
  BY LifeStart
<1>2. LifeInv /\ [Next]_vars => LifeInv'
  BY LifeStep
<1> QED BY <1>1, <1>2, PTL DEF Spec

----------------------------------------------------------------------------
(* Every variable keeps its type (RepositoryLife.TypeOK), whatever requests  *)
(* overlap.                                                                  *)
THEOREM TypeCorrect == Spec => []TypeOK
<1>1. LifeInv => TypeOK
  BY DEF LifeInv
<1> QED BY <1>1, LifeInvariant, PTL

(* For any requests, sessions and files, the bucket holds no unfinished      *)
(* upload that no row remembers, and each row belongs to the upload or to a  *)
(* session that the sweep finds (RepositoryLife.UploadsSwept): uploads.py    *)
(* begins a file before it records it and aborts what it forgets.  That      *)
(* fails only for what a failed bucket request, a restart, or a file begun   *)
(* while its rows were removed has left.                                     *)
THEOREM UploadsAlwaysSwept == Spec => []UploadsSwept
<1>1. LifeInv => UploadsSwept
  BY SweptByRecords DEF LifeInv
<1> QED BY <1>1, LifeInvariant, PTL

(* However downloads are asked for, cancelled, fail or are taken up by a     *)
(* restart, one at most is fetched by a worker that has not been told to     *)
(* stop (RepositoryLife.OneWorker), but for two that were queued at once     *)
(* and for a monitor that outlived its worker (downloads.py).                *)
THEOREM OneWorkerAlways == Spec => []OneWorker
<1>1. LifeInv => OneWorker
  BY OneWorkerByDownloads DEF LifeInv
<1> QED BY <1>1, LifeInvariant, PTL

(* A download that was cancelled and has no worker stays cancelled           *)
(* (RepositoryLife.CancelledIsFinal): no request, no other download and no   *)
(* restart takes it up, unless a monitor outlived its worker.                *)
THEOREM CancelledAlwaysFinal == Spec => CancelledIsFinal
<1>1. LifeInv /\ [Next]_vars
        => [\A d \in DOMAIN downloads :
              downloads[d].status = "cancelled" /\ downloads[d].pc = "none"
                 => downloads'[d].status = "cancelled" \/ strays \intersect {"monitor"} # {}]_vars
  BY LifeStep DEF CancelledStays
<1> QED BY <1>1, LifeInvariant, PTL DEF Spec, CancelledIsFinal
=============================================================================
